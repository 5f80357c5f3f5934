----------------------- MODULE LifecycleDevice_proofs -----------------------
(***************************************************************************)
(* A remote node under its adapter, for any parameters, node events and    *)
(* number of incidents: what holds of the state cache, of the requests the *)
(* worker waits for, and of the queue whose calls the adapter answers.     *)
(***************************************************************************)
EXTENDS LifecycleDevice, HookedDevice_proofs

\* A query, and one whose answer says how many events are older than it.
QueryOf(status, value, behind, late) ==
  [status |-> status, answer |-> Answer(value, behind), late |-> late]
IsQuery(q) ==
  /\ q = QueryOf(q.status, q.answer.value, q.answer.behind, q.late)
  /\ q.answer.behind \in Int

\* What is on its way is a sequence.
CacheTypes == transitions \in Seq(ToSet(transitions)) /\ IsQuery(query)

CacheInv == CacheTypes /\ EventsBeatAnswers

\* The fields of a query.
LEMMA QueryFields ==
  ASSUME NEW q, NEW status, NEW value, NEW behind \in Int, NEW late,
         q = QueryOf(status, value, behind, late)
  PROVE  /\ IsQuery(q)
         /\ q.status = status /\ q.answer = Answer(value, behind)
         /\ q.answer.value = value /\ q.answer.behind = behind /\ q.late = late
<1>1. /\ q.status = status /\ q.answer = Answer(value, behind) /\ q.late = late
  BY DEF QueryOf
<1>2. /\ q.answer.value = value /\ q.answer.behind = behind
  BY <1>1 DEF Answer
<1> QED BY <1>1, <1>2 DEF IsQuery

\* ToSet is the set of what a sequence holds.
LEMMA SequenceOfItsElements ==
  ASSUME NEW S, NEW s \in Seq(S)
  PROVE  s \in Seq(ToSet(s))
BY DEF ToSet

\* An event that is handled or lost leaves a sequence of the others ...
LEMMA OneEventFewer ==
  ASSUME transitions \in Seq(ToSet(transitions)), transitions # << >>
  PROVE  Tail(transitions) \in Seq(ToSet(Tail(transitions)))
<1>1. Tail(transitions) \in Seq(ToSet(transitions))
  OBVIOUS
<1> QED BY <1>1, SequenceOfItsElements

\* ... and the two that a transition of the node announces lengthen it.
LEMMA TwoEventsMore ==
  ASSUME transitions \in Seq(ToSet(transitions)), NEW a, NEW b, Announce(<<a, b>>)
  PROVE  transitions' \in Seq(ToSet(transitions'))
<1> DEFINE S == ToSet(transitions) \cup {a, b}
<1>1. transitions \in Seq(S) /\ <<a, b>> \in Seq(S)
  OBVIOUS
<1>2. transitions' \in Seq(S)
  BY <1>1 DEF Announce
<1> HIDE DEF S
<1> QED BY <1>2, SequenceOfItsElements

\* What an event that is handled or lost does to an answer it comes before.
LEMMA AnswerCountsDown ==
  ASSUME NEW value, NEW behind \in Int
  PROVE  /\ AfterLost(Answer(value, behind)) =
              Answer(value, IF behind > 0 THEN behind - 1 ELSE behind)
         /\ AfterHandled(Answer(value, behind)) =
              Answer(value, IF behind = -1 THEN behind ELSE behind - 1)
BY DEF AfterLost, AfterHandled, Answer

\* A query keeps its shape when one of its fields is replaced.
LEMMA FieldReplaced ==
  ASSUME NEW q, IsQuery(q), NEW value, NEW behind \in Int, NEW field
  PROVE  /\ [q EXCEPT !.answer = Answer(value, behind)]
              = QueryOf(q.status, value, behind, q.late)
         /\ [q EXCEPT !.status = field]
              = QueryOf(field, q.answer.value, q.answer.behind, q.late)
         /\ [q EXCEPT !.late = field]
              = QueryOf(q.status, q.answer.value, q.answer.behind, field)
<1>1. q = [status |-> q.status, answer |-> Answer(q.answer.value, q.answer.behind), late |-> q.late]
  BY DEF IsQuery, QueryOf
<1>2. [q EXCEPT !.answer = Answer(value, behind)] = QueryOf(q.status, value, behind, q.late)
  BY <1>1 DEF QueryOf
<1>3. [q EXCEPT !.status = field] = QueryOf(field, q.answer.value, q.answer.behind, q.late)
  BY <1>1 DEF QueryOf
<1>4. [q EXCEPT !.late = field] = QueryOf(q.status, q.answer.value, q.answer.behind, field)
  BY <1>1 DEF QueryOf
<1> QED BY <1>2, <1>3, <1>4

\* The query that is sent, and the one that is over.
LEMMA SentAndOver ==
  /\ IsQuery(NewQuery) /\ NewQuery.status = "sent"
  /\ IsQuery(NoQuery) /\ NoQuery.status = "none"
  /\ NewQuery.answer.value = "unknown" /\ NoQuery.answer.value = "unknown"
<1>1. NewQuery = QueryOf("sent", "unknown", 0, NewQuery.late)
  BY DEF NewQuery, NoAnswer, QueryOf
<1>2. IsQuery(NewQuery) /\ NewQuery.status = "sent" /\ NewQuery.answer.value = "unknown"
  BY <1>1, QueryFields
<1>3. NoQuery = QueryOf("none", NewQuery.answer.value, NewQuery.answer.behind, NewQuery.late)
  BY <1>2, FieldReplaced DEF NoQuery, IsQuery
<1>4. IsQuery(NoQuery) /\ NoQuery.status = "none" /\ NoQuery.answer.value = "unknown"
  BY <1>2, <1>3, QueryFields DEF IsQuery
<1> QED BY <1>2, <1>4

\* An event is handled or lost: the query it may come before is still one, and
\* its answer is not put behind an event by one that is lost.
LEMMA AnswerBehind ==
  ASSUME IsQuery(query)
  PROVE  /\ IsQuery([query EXCEPT !.answer = AfterHandled(@)])
         /\ [query EXCEPT !.answer = AfterHandled(@)].status = query.status
         /\ [query EXCEPT !.answer = AfterHandled(@)].answer.value = query.answer.value
         /\ IsQuery([query EXCEPT !.answer = AfterLost(@)])
         /\ [query EXCEPT !.answer = AfterLost(@)].status = query.status
         /\ [query EXCEPT !.answer = AfterLost(@)].answer.value = query.answer.value
         /\ query.answer.behind >= 0 =>
              [query EXCEPT !.answer = AfterLost(@)].answer.behind >= 0
<1> DEFINE value == query.answer.value
           behind == query.answer.behind
           lost == IF behind > 0 THEN behind - 1 ELSE behind
           done == IF behind = -1 THEN behind ELSE behind - 1
           afterLost == [query EXCEPT !.answer = AfterLost(@)]
           afterHandled == [query EXCEPT !.answer = AfterHandled(@)]
<1>1. behind \in Int /\ query = QueryOf(query.status, value, behind, query.late)
  BY DEF IsQuery
<1>2. lost \in Int /\ done \in Int /\ (behind >= 0 => lost >= 0)
  BY <1>1
<1>3. query.answer = Answer(value, behind)
  BY <1>1, QueryFields
<1>4. AfterLost(query.answer) = Answer(value, lost) /\ AfterHandled(query.answer) = Answer(value, done)
  BY <1>1, <1>3, AnswerCountsDown
<1> HIDE DEF lost, done, value
<1>5. afterLost = [query EXCEPT !.answer = Answer(value, lost)]
  BY <1>4
<1>6. afterHandled = [query EXCEPT !.answer = Answer(value, done)]
  BY <1>4
<1>7. afterLost = QueryOf(query.status, value, lost, query.late)
  BY <1>2, <1>5, FieldReplaced
<1>8. afterHandled = QueryOf(query.status, value, done, query.late)
  BY <1>2, <1>6, FieldReplaced
<1> HIDE DEF afterLost, afterHandled, behind
<1>9. /\ IsQuery(afterLost) /\ afterLost.status = query.status
      /\ afterLost.answer.value = value /\ afterLost.answer.behind = lost
  BY <1>2, <1>7, QueryFields
<1>10. /\ IsQuery(afterHandled) /\ afterHandled.status = query.status
       /\ afterHandled.answer.value = value
  BY <1>2, <1>8, QueryFields
<1> QED BY <1>2, <1>9, <1>10 DEF afterLost, afterHandled, behind, value

\* A cache nobody touches stays as good as it is.
LEMMA CacheStays ==
  ASSUME CacheInv, UNCHANGED <<transitions, query, fresh>>
  PROVE  CacheInv'
BY DEF CacheInv, CacheTypes, EventsBeatAnswers, Checked

\* Refreshing forgets a query and its answer together, or neither.
LEMMA ReadingKeepsCache ==
  ASSUME CacheInv, ReadState
  PROVE  CacheInv'
<1>1. CASE query' = NewQuery
  <2>1. IsQuery(query') /\ query'.status = "sent"
    BY <1>1, SentAndOver
  <2> QED BY <2>1 DEF CacheInv, CacheTypes, EventsBeatAnswers, Checked, ReadState, nodeVars
<1>2. CASE UNCHANGED cacheVars
  BY <1>2, CacheStays DEF ReadState, nodeVars, cacheVars
<1> QED BY <1>1, <1>2 DEF ReadState, Refresh

\* The worker's calls touch the cache only where they store the confirmation.
LEMMA CallKeepsCache ==
  ASSUME CacheInv, AdapterCall \/ CallTimesOut
  PROVE  CacheInv'
<1>1. CASE StoreConfirmation
  <2> USE <1>1 DEF CacheInv, CacheTypes, EventsBeatAnswers, Checked, nodeVars
  <2>1. CASE fresh' = (query.status = "none") /\ UNCHANGED query
    BY <2>1 DEF StoreConfirmation
  <2>2. CASE query' = NoQuery
    <3>1. IsQuery(query') /\ query'.status = "none"
      BY <2>2, SentAndOver
    <3> QED BY <3>1 DEF StoreConfirmation
  <2> QED BY <2>1, <2>2 DEF StoreConfirmation
<1>2. CASE RefuseCall \/ BeginCall \/ ChangeFollows \/ ConfirmFollows \/ CallTimesOut
  <2>1. UNCHANGED <<transitions, query, fresh>>
    BY <1>2 DEF RefuseCall, BeginCall, ChangeFollows, ConfirmFollows, CallTimesOut, nodeVars,
                cacheVars
  <2> QED BY <2>1, CacheStays
<1> QED BY <1>1, <1>2 DEF AdapterCall

\* The node adds to what is on its way and answers the query.
LEMMA NodeKeepsCache ==
  ASSUME CacheInv, Node
  PROVE  CacheInv'
<1>1. CASE NodeAnswers
  <2>1. Len(transitions) \in Nat /\ IsQuery(query)
    BY DEF CacheInv, CacheTypes
  <2>2. query' = QueryOf("answered", node, Len(transitions), query.late)
    BY <1>1, <2>1 DEF NodeAnswers, IsQuery, QueryOf
  <2>3. IsQuery(query') /\ query'.answer.behind = Len(transitions)
    BY <2>1, <2>2, QueryFields
  <2> QED BY <1>1, <2>1, <2>3 DEF NodeAnswers, CacheInv, CacheTypes, EventsBeatAnswers, nodeVars
<1>2. CASE NodeSetsParameters \/ NodeConfirms
  <2>1. UNCHANGED <<transitions, query, fresh>>
    BY <1>2 DEF NodeSetsParameters, NodeConfirms, nodeVars, cacheVars
  <2> QED BY <2>1, CacheStays
<1>3. CASE NodeChangesState
  <2>1. UNCHANGED <<query, fresh>>
    BY <1>3 DEF NodeChangesState, cacheVars
  <2>2. transitions \in Seq(ToSet(transitions))
    BY DEF CacheInv, CacheTypes
  <2>3. transitions' \in Seq(ToSet(transitions'))
    <3>1. \/ UNCHANGED transitions
          \/ \E a, b : Announce(<<a, b>>)
      BY <1>3 DEF NodeChangesState
    <3> QED BY <2>2, <3>1, TwoEventsMore
  <2> QED BY <2>1, <2>3 DEF CacheInv, CacheTypes, EventsBeatAnswers, Checked
<1> QED BY <1>1, <1>2, <1>3 DEF Node

\* Callbacks: an event starts a generation, and one that is behind an answer
\* counts down; an answer that is stored ends its query.
LEMMA CallbackKeepsCache ==
  ASSUME CacheInv, Callbacks \/ TransitionIsLost
  PROVE  CacheInv'
<1>1. CASE DeliverNodeEvent
  <2>1. UNCHANGED <<transitions, query, fresh>>
    BY <1>1 DEF DeliverNodeEvent, nodeVars, cacheVars
  <2> QED BY <2>1, CacheStays
<1>2. CASE DeliverTransition
  <2>1. transitions' \in Seq(ToSet(transitions'))
    BY <1>2, OneEventFewer DEF DeliverTransition, CacheInv, CacheTypes
  <2>2. IsQuery(query') /\ query'.status = query.status
    BY <1>2, AnswerBehind DEF DeliverTransition, CacheInv, CacheTypes
  <2> QED BY <1>2, <2>1, <2>2 DEF DeliverTransition, CacheInv, CacheTypes,
                                 EventsBeatAnswers, Checked
<1>3. CASE HandleAnswer
  <2>1. IsQuery(query') /\ query'.status = "none"
    BY <1>3, SentAndOver DEF HandleAnswer
  <2> QED BY <1>3, <2>1 DEF HandleAnswer, CacheInv, CacheTypes, EventsBeatAnswers, Checked,
                            nodeVars
<1>4. CASE TransitionIsLost
  <2>1. transitions' \in Seq(ToSet(transitions'))
    BY <1>4, OneEventFewer DEF TransitionIsLost, CacheInv, CacheTypes
  <2>2. /\ IsQuery(query') /\ query'.status = query.status
        /\ query.answer.behind >= 0 => query'.answer.behind >= 0
    BY <1>4, AnswerBehind DEF TransitionIsLost, CacheInv, CacheTypes
  <2> QED BY <1>4, <2>1, <2>2 DEF TransitionIsLost, CacheInv, CacheTypes,
                                 EventsBeatAnswers, Checked
<1> QED BY <1>1, <1>2, <1>3, <1>4 DEF Callbacks

\* Restarts, lost answers and time passing leave an answer as it is.
LEMMA IncidentKeepsCache ==
  ASSUME CacheInv, NodeRestarts \/ NodePublishes \/ AnswerIsLost \/ QueryIsLate
  PROVE  CacheInv'
<1>1. UNCHANGED <<transitions, fresh>>
  BY DEF NodeRestarts, NodePublishes, AnswerIsLost, QueryIsLate, nodeVars, cacheVars
<1>2. IsQuery(query) /\ query.answer.behind \in Int
  BY DEF CacheInv, CacheTypes, IsQuery
<1>3. \/ UNCHANGED query
      \/ query' = [query EXCEPT !.late = TRUE]
      \/ query' = [query EXCEPT !.status = "lost"]
  <2>1. CASE NodeRestarts
    <3>1. CASE query.status = "sent"
      BY <2>1, <3>1 DEF NodeRestarts
    <3>2. CASE query.status # "sent"
      BY <1>2, <2>1, <3>2, FieldReplaced DEF NodeRestarts, IsQuery
    <3> QED BY <3>1, <3>2
  <2> QED BY <2>1 DEF NodePublishes, AnswerIsLost, QueryIsLate, cacheVars
<1>4. CASE query' = [query EXCEPT !.late = TRUE]
  <2> DEFINE late == TRUE
  <2>1. query' = [query EXCEPT !.late = late]
    BY <1>4
  <2> HIDE DEF late
  <2>2. query' = QueryOf(query.status, query.answer.value, query.answer.behind, late)
    BY <1>2, <2>1, FieldReplaced
  <2>3. IsQuery(query') /\ query'.status = query.status
          /\ query'.answer.behind = query.answer.behind
    BY <1>2, <2>2, QueryFields
  <2> QED BY <1>1, <2>3 DEF CacheInv, CacheTypes, EventsBeatAnswers, Checked
<1>5. CASE query' = [query EXCEPT !.status = "lost"]
  <2>1. query' = QueryOf("lost", query.answer.value, query.answer.behind, query.late)
    BY <1>2, <1>5, FieldReplaced
  <2>2. IsQuery(query') /\ query'.status = "lost"
    BY <1>2, <2>1, QueryFields
  <2> QED BY <1>1, <2>2 DEF CacheInv, CacheTypes, EventsBeatAnswers, Checked
<1> QED BY <1>1, <1>3, <1>4, <1>5, CacheStays

LEMMA CacheInit == LifecycleInit => CacheInv
<1>1. << >> \in Seq(ToSet(<< >>))
  <2>1. << >> \in Seq({})
    OBVIOUS
  <2> QED BY <2>1, SequenceOfItsElements
<1> QED
  BY <1>1, SentAndOver DEF LifecycleInit, CacheInv, CacheTypes, EventsBeatAnswers, Checked

LEMMA CacheNext ==
  ASSUME CacheInv, [LifecycleNext]_lvars
  PROVE  CacheInv'
<1>1. CASE NodeRestarts \/ NodePublishes \/ AnswerIsLost \/ QueryIsLate
  BY <1>1, IncidentKeepsCache
<1>2. CASE Node
  BY <1>2, NodeKeepsCache
<1>3. CASE Callbacks \/ TransitionIsLost
  BY <1>3, CallbackKeepsCache
<1>4. CASE StatusRead \/ StatusReadRaces \/ WorkerReads
  BY <1>4, ReadingKeepsCache DEF StatusRead, StatusReadRaces, WorkerReads
<1>5. CASE QueueStep
  <2>1. UNCHANGED <<transitions, query, fresh>>
    BY <1>5 DEF QueueStep, nodeVars, cacheVars
  <2> QED BY <2>1, CacheStays
<1>6. CASE AdapterCall \/ CallTimesOut
  BY <1>6, CallKeepsCache
<1>7. CASE Ticker
  <2>1. CASE TickReadsState /\ ReadState
    BY <2>1, ReadingKeepsCache
  <2>2. CASE UNCHANGED adapterVars
    <3>1. UNCHANGED <<transitions, query, fresh>>
      BY <2>2 DEF adapterVars, nodeVars, cacheVars
    <3> QED BY <3>1, CacheStays
  <2> QED BY <1>7, <2>1, <2>2 DEF Ticker
<1>8. CASE UNCHANGED lvars
  <2>1. UNCHANGED <<transitions, query, fresh>>
    BY <1>8 DEF lvars, adapterVars, nodeVars, cacheVars
  <2> QED BY <2>1, CacheStays
<1> QED
  BY <1>1, <1>2, <1>3, <1>4, <1>5, <1>6, <1>7, <1>8 DEF LifecycleNext

\* However late an answer to get_state is, and whatever was timed out and asked
\* again, it never overwrites what a newer transition event has said.
THEOREM AnswersNeverOvertakeEvents == LifecycleSpec => []EventsBeatAnswers
<1>1. LifecycleInit => CacheInv
  BY CacheInit
<1>2. CacheInv /\ [LifecycleNext]_lvars => CacheInv'
  BY CacheNext
<1>3. CacheInv => EventsBeatAnswers
  BY DEF CacheInv
<1> QED
  BY <1>1, <1>2, <1>3, PTL DEF LifecycleSpec
------------------------------------------------------------------------------
(***************************************************************************)
(* A configure finds the node with the parameters of its request.  Every   *)
(* configure request names every parameter, wherever it waits; the node    *)
(* takes set_parameters requests in order; and what the worker waits for   *)
(* is the last request it has sent.                                        *)
(***************************************************************************)

\* Every parameter has a value.
Complete == [Names -> Values]

\* Requests whose configures name every parameter.
AreComplete(requests) ==
  /\ requests \in Seq(ToSet(requests))
  /\ \A i \in DOMAIN requests : Configures(requests[i]) => requests[i].parameters \in Complete

HoldsComplete(queue) ==
  /\ queue \in Seq(ToSet(queue))
  /\ \A i \in DOMAIN queue : AreComplete(queue[i].requests)

\* All that may become the worker's request.
SourcesInv ==
  /\ parameters \in Complete
  /\ HoldsComplete(urgent) /\ HoldsComplete(normal)
  /\ AreComplete(tickRequests)
  /\ AreComplete(job.requests) /\ next \in Nat \ {0}
  /\ worker = "plan" => snapshot \in Complete
  /\ worker = "call" => next \in DOMAIN job.requests

\* What the node has of the requests the worker has sent.
NodeInv ==
  /\ nodeParameters \in ParameterMaps
  /\ sets \in Seq(Complete) /\ changes \in Seq(ToSet(changes))

\* What a node that took the call's parameters has: nothing, if its process was
\* replaced while the worker waited for change_state.
Taken == nodeParameters = IF renewed THEN EmptyMap ELSE Current.parameters

\* The worker waits for the request it has sent last.
AwaitedInv ==
  /\ renewed \in BOOLEAN
  /\ call \in {"none", "parameters"} => ~renewed
  /\ call # "none" => worker = "call" /\ ~Refused(Current)
  /\ call = "parameters" =>
       Configures(Current) /\ (sets # << >> => Last(sets) = Current.parameters)
  /\ call = "taken" => Configures(Current) /\ Taken /\ sets = << >>
  /\ call = "change" /\ changes # << >> =>
       /\ Last(changes) = <<Current.from, Current.target>>
       /\ Configures(Current) => Taken /\ (sets = << >> \/ Names = {})

RequestInv == SourcesInv /\ NodeInv /\ AwaitedInv

\* Appending to and taking from what is complete.
LEMMA CompleteAppended ==
  ASSUME NEW queue, HoldsComplete(queue), NEW batch, AreComplete(batch.requests)
  PROVE  HoldsComplete(Append(queue, batch))
<1> DEFINE S == ToSet(queue) \cup {batch}
           longer == Append(queue, batch)
<1>1. queue \in Seq(S) /\ batch \in S
  BY DEF HoldsComplete
<1> HIDE DEF S
<1>2. /\ longer \in Seq(S)
      /\ \A i \in DOMAIN longer : (i \in DOMAIN queue /\ longer[i] = queue[i]) \/ longer[i] = batch
  BY <1>1
<1>3. longer \in Seq(ToSet(longer))
  BY <1>2, SequenceOfItsElements
<1> QED BY <1>2, <1>3 DEF HoldsComplete

LEMMA CompleteTaken ==
  ASSUME NEW queue, HoldsComplete(queue), queue # << >>
  PROVE  HoldsComplete(Tail(queue)) /\ AreComplete(Head(queue).requests)
<1>1. queue \in Seq(ToSet(queue))
  BY DEF HoldsComplete
<1>2. /\ Tail(queue) \in Seq(ToSet(queue))
      /\ \A i \in DOMAIN Tail(queue) : i + 1 \in DOMAIN queue /\ Tail(queue)[i] = queue[i + 1]
      /\ 1 \in DOMAIN queue /\ Head(queue) = queue[1]
  BY <1>1
<1>3. Tail(queue) \in Seq(ToSet(Tail(queue)))
  BY <1>2, SequenceOfItsElements
<1> QED BY <1>2, <1>3 DEF HoldsComplete

LEMMA NothingIsComplete == AreComplete(<< >>) /\ HoldsComplete(<< >>)
<1>1. << >> \in Seq({})
  OBVIOUS
<1>2. << >> \in Seq(ToSet(<< >>))
  BY <1>1, SequenceOfItsElements
<1> QED BY <1>2 DEF AreComplete, HoldsComplete

\* A sequence that is given element by element.
LEMMA CompleteByElement ==
  ASSUME NEW n \in Nat, NEW requests, requests = [i \in 1..n |-> requests[i]],
         \A i \in 1..n : Configures(requests[i]) => requests[i].parameters \in Complete
  PROVE  AreComplete(requests)
<1>1. requests \in Seq({requests[i] : i \in 1..n}) /\ DOMAIN requests = 1..n
  OBVIOUS
<1>2. requests \in Seq(ToSet(requests))
  BY <1>1, SequenceOfItsElements
<1> QED BY <1>1, <1>2 DEF AreComplete

LEMMA FewAreComplete ==
  ASSUME NEW a, NEW b, NEW c, NEW d,
         \A r \in {a, b, c, d} : Configures(r) => r.parameters \in Complete
  PROVE  AreComplete(<<a>>) /\ AreComplete(<<a, b>>) /\ AreComplete(<<a, b, c, d>>)
<1> DEFINE S == {a, b, c, d}
<1>1. ASSUME NEW s \in Seq(S)
      PROVE  AreComplete(s)
  <2> HIDE DEF S
  <2>1. s \in Seq(ToSet(s)) /\ \A i \in DOMAIN s : s[i] \in S
    BY SequenceOfItsElements
  <2> QED BY <2>1 DEF AreComplete, S
<1>2. <<a>> \in Seq(S) /\ <<a, b>> \in Seq(S) /\ <<a, b, c, d>> \in Seq(S)
  OBVIOUS
<1> QED BY <1>1, <1>2

\* What callers submit carries the desired map where it configures.
LEMMA PathsAreComplete ==
  ASSUME parameters \in Complete, NEW path \in InputPaths
  PROVE  AreComplete(RequestsOf(path))
<1>1. path \in Seq(PrimaryStates \X PrimaryStates)
  BY ConstantsAssumption
<1>2. Len(path) \in Nat /\ DOMAIN path = 1..Len(path)
  BY <1>1
<1>3. RequestsOf(path) = [i \in 1..Len(path) |-> RequestsOf(path)[i]]
  BY <1>2 DEF RequestsOf
<1>4. ASSUME NEW i \in 1..Len(path), Configures(RequestsOf(path)[i])
      PROVE  RequestsOf(path)[i].parameters \in Complete
  <2>1. path[i] = <<path[i][1], path[i][2]>>
    BY <1>1, <1>2
  <2>2. path[i] = <<"unconfigured", "inactive">>
    BY <1>2, <1>4, <2>1 DEF RequestsOf, Request, Configures
  <2> QED BY <1>2, <2>2 DEF RequestsOf, Request
<1> QED BY <1>2, <1>3, <1>4, CompleteByElement

\* A planned path configures with the map it is planned from.
LEMMA PlansAreComplete ==
  ASSUME NEW read, NEW map \in Complete
  PROVE  AreComplete(StandardParameterTransitions(read, map))
<1> DEFINE Edge(from, target) == Request(from, target, EmptyMap)
           configure == Request("unconfigured", "inactive", map)
           plan == StandardParameterTransitions(read, map)
<1>1. /\ ~Configures(Edge("active", "inactive")) /\ ~Configures(Edge("inactive", "unconfigured"))
      /\ ~Configures(Edge("inactive", "active")) /\ ~Configures(Edge("finalized", "unconfigured"))
      /\ configure.parameters \in Complete
  BY DEF Configures, Request
<1>2. \/ plan = << Edge("active", "inactive"), Edge("inactive", "unconfigured"),
                   configure, Edge("inactive", "active") >>
      \/ plan = << Edge("inactive", "unconfigured"), configure >>
      \/ plan = << Edge("finalized", "unconfigured"), configure >>
      \/ plan = << configure >>
      \/ plan = << >>
  BY DEF StandardParameterTransitions
<1>3. AreComplete(plan)
  <2> HIDE DEF Edge, configure, plan
  <2> QED BY <1>1, <1>2, FewAreComplete, NothingIsComplete
<1> QED BY <1>3

\* So does a path of the hook.
LEMMA HookPathsAreComplete ==
  ASSUME parameters \in Complete, NEW from, NEW target
  PROVE  AreComplete(TransitionsTo(from, target, parameters))
<1> DEFINE path == LevelledPath(from, target, parameters)
<1>1. CASE from \in ToSet(Levelled) /\ target = "finalized"
  <2>0. target \notin ToSet(Levelled)
    BY <1>1 DEF Levelled, ToSet
  <2> DEFINE last == Request(from, target, EmptyMap)
  <2>1. path = << last >>
    BY <1>1, <2>0 DEF LevelledPath
  <2>2. ~Configures(last)
    BY <1>1 DEF Configures, Request
  <2> HIDE DEF last
  <2>3. AreComplete(<< last >>)
    <3>1. \A r \in {last, last, last, last} : Configures(r) => r.parameters \in Complete
      BY <2>2
    <3> QED BY <3>1, FewAreComplete
  <2> QED BY <2>1, <2>3 DEF TransitionsTo
<1>2. CASE from \in ToSet(Levelled) /\ target \in ToSet(Levelled)
  <2> DEFINE states == Between(from, target)
             request(i) == Request(states[i], states[i + 1],
                             IF states[i] = "unconfigured" THEN parameters ELSE EmptyMap)
  <2>0. target # "finalized"
    BY <1>2 DEF Levelled, ToSet
  <2>1. path = [i \in 1..(Len(states) - 1) |-> request(i)]
    BY <1>2, <2>0 DEF LevelledPath
  <2>2. \A i : Configures(request(i)) => request(i).parameters \in Complete
    BY DEF Configures, Request
  <2>3. Len(states) \in Nat
    BY <1>2, BetweenIsPath
  <2> HIDE DEF path, request, states
  <2>4. CASE Len(states) = 0
    <3>1. path = << >>
      BY <2>1, <2>4
    <3> QED BY <3>1, NothingIsComplete DEF path, TransitionsTo
  <2>5. CASE Len(states) # 0
    <3>1. Len(states) - 1 \in Nat
      BY <2>3, <2>5
    <3>2. AreComplete(path)
      BY <2>1, <2>2, <3>1, CompleteByElement
    <3> QED BY <3>2 DEF path, TransitionsTo
  <2> QED BY <2>4, <2>5
<1>3. CASE ~(from \in ToSet(Levelled) /\ (target = "finalized" \/ target \in ToSet(Levelled)))
  <2>1. path = << >>
    BY <1>3 DEF LevelledPath
  <2> QED BY <2>1, NothingIsComplete DEF TransitionsTo
<1> QED BY <1>1, <1>2, <1>3

------------------------------------------------------------------------------
\* SourcesInv, step by step.

LEMMA SourcesStay ==
  ASSUME SourcesInv,
         UNCHANGED <<parameters, urgent, normal, tickRequests, job, next, snapshot>>,
         worker' = worker \/ worker' \notin {"plan", "call"}
  PROVE  SourcesInv'
BY DEF SourcesInv

LEMMA BatchesComplete ==
  /\ AreComplete(NoBatch.requests)
  /\ \A requests : LifecycleBatch(requests).requests = requests
  /\ \A rev, patch : AreComplete(PatchBatch(rev, patch).requests)
BY NothingIsComplete DEF NoBatch, LifecycleBatch, PatchBatch

LEMMA SourcesEnd ==
  ASSUME SourcesInv, EndBatch, UNCHANGED <<parameters, urgent, normal, tickRequests>>
  PROVE  SourcesInv'
BY BatchesComplete DEF SourcesInv, EndBatch

LEMMA PushedComplete ==
  ASSUME HoldsComplete(urgent), HoldsComplete(normal), NEW batch, NEW priority,
         AreComplete(batch.requests), PushBack(batch, priority)
  PROVE  HoldsComplete(urgent') /\ HoldsComplete(normal')
BY CompleteAppended DEF PushBack

LEMMA EnqueuedComplete ==
  ASSUME SourcesInv, NEW requests, AreComplete(requests), NEW priority,
         EnqueueRequests(requests, priority), tickRequests' \in {tickRequests, << >>}
  PROVE  SourcesInv'
<1>1. HoldsComplete(urgent') /\ HoldsComplete(normal')
  <2> DEFINE batch == LifecycleBatch(requests)
  <2>1. AreComplete(batch.requests)
    BY BatchesComplete
  <2>2. PushBack(batch, priority)
    BY DEF EnqueueRequests
  <2> HIDE DEF batch
  <2> QED BY <2>1, <2>2, PushedComplete DEF SourcesInv
<1>2. AreComplete(tickRequests')
  BY NothingIsComplete DEF SourcesInv
<1> QED BY <1>1, <1>2 DEF SourcesInv, EnqueueRequests, observationVars, workerVars

LEMMA PatchedComplete ==
  ASSUME SourcesInv, NEW patch \in PatchType, AcceptPatch(patch)
  PROVE  parameters' \in Complete
<1>1. PICK S \in SUBSET Names : patch.values \in [S -> Values]
  BY DEF PatchType, ParameterMaps
<1>2. DOMAIN parameters \cup DOMAIN patch.values = Names
  BY <1>1 DEF SourcesInv, Complete
<1>3. parameters' = [n \in Names |-> IF n \in S THEN patch.values[n] ELSE parameters[n]]
  BY <1>1, <1>2 DEF AcceptPatch, Merge
<1> QED BY <1>1, <1>3 DEF SourcesInv, Complete

LEMMA SubmitSources ==
  ASSUME SourcesInv, Submit, UNCHANGED tickRequests
  PROVE  SourcesInv'
<1>1. ASSUME NEW path \in InputPaths, NEW priority, Enqueue(path, priority)
      PROVE  SourcesInv'
  <2>1. AreComplete(RequestsOf(path))
    BY PathsAreComplete DEF SourcesInv
  <2> QED BY <1>1, <2>1, EnqueuedComplete DEF Enqueue
<1>2. ASSUME NEW patch \in InputPatches,
             \/ DisabledPatch(patch)
             \/ GatePatch(patch)
             \/ \E priority \in Priorities : QueuePatch(patch, priority)
      PROVE  SourcesInv'
  <2>1. patch \in PatchType
    BY ConstantsAssumption
  <2>2. AcceptPatch(patch)
    BY <1>2 DEF DisabledPatch, GatePatch, QueuePatch
  <2>3. parameters' \in Complete
    BY <2>1, <2>2, PatchedComplete
  <2>4. HoldsComplete(urgent') /\ HoldsComplete(normal')
    <3>1. CASE UNCHANGED <<urgent, normal>>
      BY <3>1 DEF SourcesInv
    <3>2. CASE \E priority \in Priorities : PushBack(PatchToQueue(patch), priority)
      <4>1. AreComplete(PatchToQueue(patch).requests)
        BY BatchesComplete DEF PatchToQueue
      <4> QED BY <3>2, <4>1, PushedComplete DEF SourcesInv
    <3> QED BY <1>2, <3>1, <3>2 DEF DisabledPatch, GatePatch, QueuePatch
  <2> QED BY <2>2, <2>3, <2>4 DEF SourcesInv, AcceptPatch, workerVars
<1> QED BY <1>1, <1>2 DEF Submit

LEMMA QueueSources ==
  ASSUME SourcesInv, QueueStep
  PROVE  SourcesInv'
<1>0. UNCHANGED tickRequests
  BY DEF QueueStep, tickVars
<1> USE DEF queueVars, observationVars, workerVars, runtimeVars
<1>1. CASE HookedStart
  BY <1>0, <1>1, SourcesStay DEF HookedStart, Start
<1>2. CASE Join
  BY <1>0, <1>2, SourcesStay DEF Join
<1>3. CASE Take
  <2>1. CASE urgent # << >>
    <3>1. HoldsComplete(urgent') /\ AreComplete(job'.requests) /\ normal' = normal
      BY <1>3, <2>1, CompleteTaken DEF Take, PopFront, SourcesInv
    <3> QED BY <1>0, <1>3, <3>1 DEF Take, SourcesInv
  <2>2. CASE urgent = << >>
    <3>1. HoldsComplete(normal') /\ AreComplete(job'.requests) /\ urgent' = urgent
      BY <1>3, <2>2, CompleteTaken DEF Take, PopFront, SourcesInv
    <3> QED BY <1>0, <1>3, <3>1 DEF Take, SourcesInv
  <2> QED BY <2>1, <2>2
<1>4. CASE ClaimPatch
  BY <1>0, <1>4 DEF ClaimPatch, SourcesInv, CurrentParameters
<1>5. CASE FinishBatch
  BY <1>0, <1>5, SourcesEnd DEF FinishBatch
<1>6. CASE Submit
  BY <1>0, <1>6, SubmitSources
<1>7. CASE Stop
  BY <1>0, <1>7, NothingIsComplete DEF Stop, SourcesInv
<1> QED BY <1>1, <1>2, <1>3, <1>4, <1>5, <1>6, <1>7 DEF QueueStep

LEMMA WorkerSources ==
  ASSUME SourcesInv, WorkerReads
  PROVE  SourcesInv'
<1>0. UNCHANGED tickRequests
  BY DEF WorkerReads, tickVars
<1> USE DEF queueVars, observationVars
<1>1. CASE DiscardPatch
  BY <1>0, <1>1, SourcesEnd DEF DiscardPatch
<1>2. CASE PlanPatch
  <2>0. UNCHANGED <<urgent, normal, parameters>>
    BY <1>2 DEF PlanPatch
  <2>1. CASE EndBatch
    BY <1>0, <2>0, <2>1, SourcesEnd
  <2>2. CASE ~EndBatch
    <3>1. PICK read : /\ job' = [job EXCEPT !.requests = StandardParameterTransitions(read, snapshot)]
                      /\ worker' = "next" /\ next' = next
      BY <1>2, <2>2 DEF PlanPatch
    <3>2. AreComplete(StandardParameterTransitions(read, snapshot))
      BY <1>2, PlansAreComplete DEF PlanPatch, SourcesInv
    <3>3. AreComplete(job'.requests)
      BY <3>1, <3>2, NothingIsComplete
    <3> QED BY <1>0, <2>0, <3>1, <3>3 DEF SourcesInv
  <2> QED BY <2>1, <2>2
<1>3. CASE CheckSource
  <2>1. UNCHANGED <<urgent, normal, parameters>>
    BY <1>3 DEF CheckSource
  <2>2. CASE EndBatch
    BY <1>0, <2>1, <2>2, SourcesEnd
  <2>3. CASE ~EndBatch
    <3>1. /\ UNCHANGED <<job, next, snapshot>> /\ worker' = "call"
          /\ next <= Len(job.requests)
      BY <1>3, <2>3 DEF CheckSource
    <3>2. next \in DOMAIN job.requests
      BY <3>1 DEF SourcesInv, AreComplete
    <3> QED BY <1>0, <2>1, <3>1, <3>2 DEF SourcesInv
  <2> QED BY <2>2, <2>3
<1>4. CASE RecordOutcome
  <2>1. UNCHANGED <<urgent, normal, parameters>>
    BY <1>4 DEF RecordOutcome
  <2>2. CASE EndBatch
    BY <1>0, <2>1, <2>2, SourcesEnd
  <2>3. CASE ~EndBatch
    <3>1. UNCHANGED <<job, snapshot>> /\ worker' = "next" /\ next' = next + 1
      BY <1>4, <2>3 DEF RecordOutcome
    <3>2. next' \in Nat \ {0}
      BY <3>1 DEF SourcesInv
    <3> QED BY <1>0, <2>1, <3>1, <3>2 DEF SourcesInv
  <2> QED BY <2>2, <2>3
<1>5. CASE Finalize
  <2>1. UNCHANGED <<urgent, normal, parameters>>
    BY <1>5 DEF Finalize
  <2>2. CASE worker' = "exited"
    BY <1>0, <1>5, <2>1, <2>2, SourcesStay DEF Finalize
  <2>3. CASE worker' # "exited"
    <3>1. PICK actual : /\ job' = LifecycleBatch(<< Request(actual, "finalized", EmptyMap) >>)
                        /\ worker' = "next" /\ next' = 1
      BY <1>5, <2>3 DEF Finalize
    <3> DEFINE last == Request(actual, "finalized", EmptyMap)
    <3>2. \A r \in {last, last, last, last} : Configures(r) => r.parameters \in Complete
      BY DEF Request, Configures
    <3> HIDE DEF last
    <3>3. AreComplete(<< last >>)
      BY <3>2, FewAreComplete
    <3>4. AreComplete(job'.requests)
      BY <3>1, <3>3, BatchesComplete DEF last
    <3> QED BY <1>0, <2>1, <3>1, <3>4 DEF SourcesInv
  <2> QED BY <2>2, <2>3
<1> QED BY <1>1, <1>2, <1>3, <1>4, <1>5 DEF WorkerReads

LEMMA TickSources ==
  ASSUME SourcesInv, Ticker
  PROVE  SourcesInv'
<1> USE DEF vars, queueVars, observationVars, workerVars
<1>1. CASE TickReadsState
  BY <1>1, SourcesStay DEF TickReadsState
<1>2. CASE TickEvaluates(HookRequests, HandledAfter)
  <2>1. AreComplete(HookRequests)
    <3>1. \A from, target : AreComplete(TransitionsTo(from, target, parameters))
      BY HookPathsAreComplete DEF SourcesInv
    <3>2. AreComplete(EventRequests)
      BY <3>1, NothingIsComplete DEF EventRequests
    <3>3. \/ HookRequests = << >>
          \/ HookRequests = EventRequests
          \/ \E target : HookRequests = TransitionsTo(tickState, target, parameters)
      <4> HIDE DEF vars, queueVars, observationVars, workerVars
      <4> QED BY DEF HookRequests
    <3> QED BY <3>1, <3>2, <3>3, NothingIsComplete
  <2>2. tickRequests' = HookRequests /\ UNCHANGED <<parameters, urgent, normal, job, next, snapshot, worker>>
    BY <1>2 DEF TickEvaluates
  <2> QED BY <2>1, <2>2 DEF SourcesInv
<1>3. CASE TickSubmits
  <2>1. tickRequests' = << >> /\ AreComplete(tickRequests)
    BY <1>3 DEF TickSubmits, SourcesInv
  <2>2. CASE EnqueueRequests(tickRequests, "normal")
    BY <2>1, <2>2, EnqueuedComplete
  <2>3. CASE UNCHANGED vars
    BY <2>1, <2>3, NothingIsComplete DEF SourcesInv
  <2> QED BY <1>3, <2>2, <2>3 DEF TickSubmits
<1> QED BY <1>1, <1>2, <1>3 DEF Ticker

LEMMA SourcesNext ==
  ASSUME SourcesInv, [LifecycleNext]_lvars
  PROVE  SourcesInv'
<1> USE DEF vars, tickVars, queueVars, observationVars, workerVars
<1>1. CASE NodeRestarts \/ NodePublishes \/ AnswerIsLost \/ TransitionIsLost \/ QueryIsLate
  BY <1>1, SourcesStay DEF NodeRestarts, NodePublishes, AnswerIsLost, TransitionIsLost, QueryIsLate
<1>2. CASE NodeAnswers
  BY <1>2, SourcesStay DEF NodeAnswers
<1>3. CASE Callbacks
  BY <1>3, SourcesStay DEF Callbacks, DeliverNodeEvent, DeliverTransition, HandleAnswer
<1>4. CASE StatusRead \/ StatusReadRaces
  BY <1>4, SourcesStay DEF StatusRead, StatusReadRaces
<1>5. CASE NodeSetsParameters \/ NodeChangesState \/ NodeConfirms \/ AdapterCall \/ CallTimesOut
  <2> USE DEF AdapterCall, RefuseCall, BeginCall, ChangeFollows, ConfirmFollows,
              StoreConfirmation, calling
  <2>1. UNCHANGED <<parameters, urgent, normal, tickRequests, job, next, snapshot>>
    BY <1>5 DEF NodeSetsParameters, NodeChangesState, NodeConfirms, CallTimesOut
  <2>2. worker' \in {worker, "record"}
    BY <1>5 DEF NodeSetsParameters, NodeChangesState, NodeConfirms, CallTimesOut, Return
  <2> QED BY <2>1, <2>2, SourcesStay
<1>6. CASE UNCHANGED lvars
  BY <1>6, SourcesStay DEF lvars
<1> QED
  BY <1>1, <1>2, <1>3, <1>4, <1>5, <1>6, QueueSources, WorkerSources, TickSources
  DEF LifecycleNext, Node

------------------------------------------------------------------------------
\* NodeInv and AwaitedInv, step by step.

\* A map that names every parameter replaces whatever the node has.
LEMMA CompleteReplaces ==
  ASSUME NEW base \in ParameterMaps, NEW map \in Complete
  PROVE  Merge(base, map) = map
<1>1. DOMAIN base \cup DOMAIN map = Names /\ map = [n \in Names |-> map[n]]
  BY DEF Complete, ParameterMaps
<1> QED BY <1>1 DEF Merge

\* What a node has that took all of a request or a part of it.
LEMMA TakenIsMap ==
  ASSUME nodeParameters \in ParameterMaps, NEW map \in ParameterMaps
  PROVE  /\ Merge(nodeParameters, map) \in ParameterMaps
         /\ \A accepted \in SUBSET DOMAIN map :
              Merge(nodeParameters, Restrict(map, accepted)) \in ParameterMaps
<1>1. ASSUME NEW accepted \in SUBSET DOMAIN map
      PROVE  Restrict(map, accepted) \in ParameterMaps
  <2>1. PICK S \in SUBSET Names : map \in [S -> Values]
    BY DEF ParameterMaps
  <2>2. Restrict(map, accepted) \in [accepted -> Values] /\ accepted \in SUBSET Names
    BY <2>1 DEF Restrict
  <2> QED BY <2>2 DEF ParameterMaps
<1> QED BY <1>1, MergeIsMap

LEMMA CompleteIsMap == Complete \subseteq ParameterMaps
BY DEF Complete, ParameterMaps

\* Requests are added at the end, and given up there or served at the front.
LEMMA LastOfAppended ==
  ASSUME NEW S, NEW s \in Seq(S), NEW x \in S
  PROVE  Append(s, x) \in Seq(S) /\ Append(s, x) # << >> /\ Last(Append(s, x)) = x
BY DEF Last

LEMMA LastOfTail ==
  ASSUME NEW S, NEW s \in Seq(S), s # << >>
  PROVE  /\ Tail(s) \in Seq(S)
         /\ Head(s) \in S
         /\ Len(s) = 1 => Tail(s) = << >> /\ Head(s) = Last(s)
         /\ Len(s) # 1 => Tail(s) # << >>
         /\ Tail(s) # << >> => Last(Tail(s)) = Last(s)
<1>1. /\ Tail(s) \in Seq(S) /\ Len(Tail(s)) = Len(s) - 1
      /\ Len(s) \in Nat \ {0} /\ Head(s) \in S
  OBVIOUS
<1>2. Len(s) # 1 => Tail(s) # << >>
  BY <1>1
<1>3. Tail(s) # << >> => Last(Tail(s)) = Last(s)
  <2>1. SUFFICES ASSUME Tail(s) # << >>
                 PROVE  Tail(s)[Len(s) - 1] = s[Len(s)]
    BY <1>1 DEF Last
  <2>2. Len(Tail(s)) # 0
    BY <1>1, <2>1
  <2>3. Len(s) - 1 \in 1..Len(Tail(s))
    BY <1>1, <2>2
  <2>4. \A i \in 1..Len(Tail(s)) : Tail(s)[i] = s[i + 1]
    OBVIOUS
  <2> QED BY <1>1, <2>3, <2>4
<1>4. Len(s) = 1 => Tail(s) = << >> /\ Head(s) = Last(s)
  <2>1. Len(s) = 1 => Tail(s) = << >>
    <3>1. \A t \in Seq(S) : Len(t) = 0 => t = << >>
      OBVIOUS
    <3>2. Len(s) = 1 => Len(Tail(s)) = 0
      BY <1>1
    <3> QED BY <1>1, <3>1, <3>2, Zenon
  <2>2. Head(s) = s[1]
    OBVIOUS
  <2> QED BY <2>1, <2>2 DEF Last
<1> QED BY <1>1, <1>2, <1>3, <1>4

LEMMA FrontOfRequests ==
  ASSUME NEW S, NEW s \in Seq(S), s # << >>
  PROVE  Front(s) \in Seq(S)
BY DEF Front

LEMMA AwaitedStays ==
  ASSUME AwaitedInv,
         UNCHANGED <<call, renewed, worker, job, next, sets, changes, nodeParameters>>
  PROVE  AwaitedInv'
<1>1. Current' = Current
  BY DEF Current
<1> QED BY <1>1 DEF AwaitedInv, Taken, Refused, Configures, NodeEdge

LEMMA NotCalling ==
  ASSUME call' = "none", ~renewed', renewed' \in BOOLEAN
  PROVE  AwaitedInv'
BY DEF AwaitedInv

\* Between its calls the worker waits for nothing.
LEMMA WorkerBetweenCalls ==
  ASSUME AwaitedInv, worker # "call", UNCHANGED <<call, renewed>>
  PROVE  AwaitedInv'
BY NotCalling DEF AwaitedInv

LEMMA RequestStays ==
  ASSUME NodeInv, AwaitedInv,
         UNCHANGED <<call, renewed, sets, changes, nodeParameters>>,
         worker # "call" \/ UNCHANGED <<worker, job, next>>
  PROVE  NodeInv' /\ AwaitedInv'
BY AwaitedStays, WorkerBetweenCalls DEF NodeInv

LEMMA NodeRestartsRequest ==
  ASSUME RequestInv, NodeRestarts
  PROVE  NodeInv' /\ AwaitedInv'
<1>1. sets' = << >> /\ changes' = << >> /\ nodeParameters' = EmptyMap
  BY DEF NodeRestarts
<1>2. /\ UNCHANGED <<worker, job, next>>
      /\ call' = IF call = "confirm" THEN "unanswered" ELSE call
      /\ renewed' = (renewed \/ call = "taken")
  BY DEF NodeRestarts, vars, workerVars
<1>3. NodeInv'
  BY <1>1, SequenceOfItsElements, EmptyMapIsMap DEF NodeInv, ToSet
<1>4. AwaitedInv'
  <2>1. Current' = Current
    BY <1>2 DEF Current
  <2>2. call' # "none" => worker' = "call" /\ ~Refused(Current)'
    BY <1>2, <2>1 DEF RequestInv, AwaitedInv, Refused, NodeEdge
  <2>3. /\ renewed' \in BOOLEAN
        /\ call' \in {"none", "parameters"} => ~renewed'
    BY <1>2 DEF RequestInv, AwaitedInv
  <2>4. call' \in {"parameters", "taken"} => Configures(Current)'
    BY <1>2, <2>1 DEF RequestInv, AwaitedInv, Configures
  <2>5. call' = "taken" => Taken'
    BY <1>1, <1>2 DEF Taken, RequestInv, AwaitedInv
  <2> QED BY <1>1, <2>2, <2>3, <2>4, <2>5 DEF AwaitedInv
<1> QED BY <1>3, <1>4

\* A request the worker has chosen and does not refuse configures, when it has
\* parameters; without any it may still do so, if there are none to name.
LEMMA RequestIsComplete ==
  ASSUME SourcesInv, worker = "call", Configures(Current)
  PROVE  Current.parameters \in Complete
BY DEF SourcesInv, AreComplete, Current

LEMMA ConfiguresUnlessRefused ==
  ASSUME ~Refused(Current), Current.parameters # EmptyMap
  PROVE  Configures(Current)
BY DEF Refused, Configures

LEMMA NothingToName ==
  ASSUME EmptyMap \in Complete
  PROVE  Names = {} /\ Complete = {EmptyMap}
<1>1. DOMAIN EmptyMap = {} /\ DOMAIN EmptyMap = Names
  BY DEF EmptyMap, Complete
<1>2. \A map \in Complete : map = EmptyMap
  BY <1>1 DEF EmptyMap, Complete
<1> QED BY <1>1, <1>2

\* What SendChange establishes.
LEMMA ChangeIsSent ==
  ASSUME RequestInv, worker = "call", ~Refused(Current), SendChange,
         UNCHANGED <<worker, job, next>>, renewed' \in BOOLEAN,
         Configures(Current) => Taken' /\ (sets' = << >> \/ Names = {})
  PROVE  changes' \in Seq(ToSet(changes')) /\ AwaitedInv'
<1> DEFINE edge == <<Current.from, Current.target>>
           S == ToSet(changes) \cup {edge}
<1>1. Current' = Current
  BY DEF Current
<1>2. changes \in Seq(S) /\ edge \in S /\ changes' = Append(changes, edge) /\ call' = "change"
  BY DEF RequestInv, NodeInv, SendChange
<1> HIDE DEF edge, S
<1>3. changes' \in Seq(S) /\ changes' # << >> /\ Last(changes') = edge
  BY <1>2, LastOfAppended
<1>4. changes' \in Seq(ToSet(changes'))
  BY <1>3, SequenceOfItsElements
<1>5. AwaitedInv'
  BY <1>1, <1>2, <1>3 DEF AwaitedInv, Refused, Configures, NodeEdge, edge
<1> QED BY <1>4, <1>5

LEMMA BeginCallRequest ==
  ASSUME RequestInv, BeginCall
  PROVE  NodeInv' /\ AwaitedInv'
<1>1. /\ worker = "call" /\ ~Refused(Current)
      /\ UNCHANGED <<worker, job, next, nodeParameters, renewed>>
      /\ call = "none" /\ Current' = Current
  BY DEF BeginCall, calling, Current
<1>0. renewed \in BOOLEAN /\ ~renewed
  BY <1>1 DEF RequestInv, AwaitedInv
<1>2. CASE Current.parameters = EmptyMap
  <2>1. SendChange /\ UNCHANGED sets
    BY <1>2 DEF BeginCall
  <2>2. Configures(Current) => Taken' /\ Names = {}
    <3>1. SUFFICES ASSUME Configures(Current)
                   PROVE  Taken' /\ Names = {}
      OBVIOUS
    <3>2. Names = {} /\ nodeParameters = EmptyMap
      <4>1. EmptyMap \in Complete
        BY <1>1, <1>2, <3>1, RequestIsComplete DEF RequestInv
      <4>2. nodeParameters \in Complete
        BY <4>1, NothingToName DEF RequestInv, NodeInv, ParameterMaps, Complete
      <4> QED BY <4>1, <4>2, NothingToName
    <3> QED BY <1>1, <1>2, <3>2 DEF Taken
  <2> QED BY <1>0, <1>1, <2>1, <2>2, ChangeIsSent DEF RequestInv, NodeInv
<1>3. CASE Current.parameters # EmptyMap
  <2>1. /\ call' = "parameters" /\ changes' = changes
        /\ sets' = Append(sets, Current.parameters)
    BY <1>3 DEF BeginCall
  <2>2. Configures(Current) /\ Current.parameters \in Complete
    BY <1>1, <1>3, ConfiguresUnlessRefused, RequestIsComplete DEF RequestInv
  <2>3. sets' \in Seq(Complete) /\ Last(sets') = Current.parameters
    BY <2>1, <2>2, LastOfAppended DEF RequestInv, NodeInv
  <2>5. AwaitedInv'
    BY <1>0, <1>1, <1>3, <2>1, <2>2, <2>3 DEF AwaitedInv, Refused, Configures, NodeEdge
  <2> QED BY <1>1, <2>1, <2>3, <2>5 DEF RequestInv, NodeInv
<1> QED BY <1>2, <1>3

LEMMA NodeSetsRequest ==
  ASSUME RequestInv, NodeSetsParameters
  PROVE  NodeInv' /\ AwaitedInv'
<1>1. /\ sets # << >> /\ sets' = Tail(sets) /\ sets \in Seq(Complete)
      /\ UNCHANGED <<job, next, changes>>
  BY DEF NodeSetsParameters, RequestInv, NodeInv, calling
<1>2. /\ sets' \in Seq(Complete) /\ Head(sets) \in Complete
      /\ Len(sets) = 1 => sets' = << >> /\ Head(sets) = Last(sets)
      /\ sets' # << >> => Last(sets') = Last(sets)
      /\ Len(sets) # 1 => sets' # << >>
  BY <1>1, LastOfTail
<1>3. Current' = Current
  BY <1>1 DEF Current
<1>4. Merge(nodeParameters, Head(sets)) = Head(sets)
  BY <1>2, CompleteReplaces DEF RequestInv, NodeInv
<1>5. NodeInv'
  <2>1. nodeParameters' \in ParameterMaps
    BY <1>2, CompleteIsMap, TakenIsMap DEF NodeSetsParameters, RequestInv, NodeInv
  <2> QED BY <1>1, <1>2, <2>1 DEF RequestInv, NodeInv
<1>6. call # "taken"
  BY <1>1 DEF RequestInv, AwaitedInv
\* Without parameters to name, no request is refused in part.
<1>7. call = "change" /\ changes # << >> /\ Configures(Current) =>
        \/ Taken' /\ Names = {}
        \/ Return("failure")
  <2>1. SUFFICES ASSUME call = "change", changes # << >>, Configures(Current), ~Return("failure")
                 PROVE  Taken' /\ Names = {}
    OBVIOUS
  <2>2. Names = {} /\ Taken
    BY <1>1, <2>1 DEF RequestInv, AwaitedInv
  <2>3. EmptyMap \in Complete
    BY <2>2 DEF EmptyMap, Complete
  <2>4. Head(sets) = EmptyMap /\ nodeParameters = EmptyMap
    <3>1. nodeParameters \in Complete
      BY <2>2 DEF RequestInv, NodeInv, ParameterMaps, Complete
    <3> QED BY <1>2, <2>3, <3>1, NothingToName
  <2>5. (SUBSET DOMAIN Head(sets)) \ {DOMAIN Head(sets)} = {}
    BY <2>4 DEF EmptyMap
  <2>6. nodeParameters' = nodeParameters /\ UNCHANGED renewed
    BY <1>4, <2>4, <2>5 DEF NodeSetsParameters
  <2> QED BY <1>3, <2>2, <2>6 DEF Taken
<1>8. CASE Return("failure")
  BY <1>5, <1>8, NotCalling DEF Return
<1>9. CASE /\ nodeParameters' = Merge(nodeParameters, Head(sets))
           /\ Awaited("parameters", sets) /\ call' = "taken" /\ UNCHANGED <<worker, renewed>>
  <2>1. call = "parameters" /\ sets' = << >> /\ Head(sets) = Last(sets)
    BY <1>2, <1>9 DEF Awaited
  <2>2. /\ worker = "call" /\ ~Refused(Current) /\ Last(sets) = Current.parameters
        /\ Configures(Current) /\ renewed \in BOOLEAN /\ ~renewed
    BY <1>1, <2>1 DEF RequestInv, AwaitedInv
  <2>3. Taken'
    BY <1>3, <1>4, <1>9, <2>1, <2>2 DEF Taken
  <2>4. AwaitedInv'
    BY <1>3, <1>9, <2>1, <2>2, <2>3 DEF AwaitedInv, Refused, Configures, NodeEdge
  <2> QED BY <1>5, <2>4
<1>10. CASE ~Awaited("parameters", sets) /\ ~Return("failure")
            /\ UNCHANGED <<call, worker, renewed>>
  <2>1. call = "parameters" => sets' # << >> /\ Last(sets') = Last(sets)
    BY <1>2, <1>10 DEF Awaited
  <2>2. AwaitedInv'
    BY <1>1, <1>3, <1>6, <1>7, <1>10, <2>1
    DEF RequestInv, AwaitedInv, Refused, Configures, NodeEdge
  <2> QED BY <1>5, <2>2
<1> QED BY <1>8, <1>9, <1>10 DEF NodeSetsParameters

\* The service is there: the parameters are the node's, or gone with its process.
LEMMA ChangeFollowsRequest ==
  ASSUME RequestInv, ChangeFollows
  PROVE  NodeInv' /\ AwaitedInv'
<1>1. /\ call = "taken" /\ SendChange
      /\ UNCHANGED <<worker, job, next, nodeParameters, sets, renewed>>
  BY DEF ChangeFollows, calling
<1>2. Current' = Current
  BY <1>1 DEF Current
<1>3. worker = "call" /\ ~Refused(Current) /\ Taken /\ sets = << >> /\ renewed \in BOOLEAN
  BY <1>1 DEF RequestInv, AwaitedInv
<1>4. Taken'
  BY <1>1, <1>2, <1>3 DEF Taken
<1>5. changes' \in Seq(ToSet(changes')) /\ AwaitedInv'
  BY <1>1, <1>3, <1>4, ChangeIsSent
<1> QED BY <1>1, <1>5 DEF RequestInv, NodeInv

LEMMA NodeChangesRequest ==
  ASSUME RequestInv, NodeChangesState
  PROVE  NodeInv' /\ AwaitedInv'
<1>1. /\ changes # << >> /\ changes' = Tail(changes) /\ changes \in Seq(ToSet(changes))
      /\ UNCHANGED <<job, next, sets, nodeParameters>>
  BY DEF NodeChangesState, RequestInv, NodeInv, calling
<1>2. /\ changes' \in Seq(ToSet(changes))
      /\ changes' # << >> => Last(changes') = Last(changes)
  BY <1>1, LastOfTail
<1>3. NodeInv'
  BY <1>1, <1>2, SequenceOfItsElements DEF RequestInv, NodeInv
<1>4. Current' = Current
  BY <1>1 DEF Current
<1>5. \/ call' = "none"
      \/ call' \in {call, "changed"} /\ worker' = worker /\ (call' = "changed" => call # "none")
           /\ UNCHANGED renewed
  BY DEF NodeChangesState, Awaited, Return
<1>6. CASE call' = "none"
  <2>1. ~renewed' /\ renewed' \in BOOLEAN
    BY <1>6 DEF NodeChangesState, Return, RequestInv, AwaitedInv
  <2> QED BY <1>3, <1>6, <2>1, NotCalling
<1>7. CASE call' # "none"
  <2>1. Taken' = Taken
    BY <1>1, <1>4, <1>5, <1>7 DEF Taken
  <2>2. AwaitedInv'
    BY <1>1, <1>2, <1>4, <1>5, <1>7, <2>1
    DEF RequestInv, AwaitedInv, Refused, Configures, NodeEdge
  <2> QED BY <1>3, <2>2
<1> QED BY <1>6, <1>7

\* The worker asks for the state and is answered.
LEMMA ConfirmsRequest ==
  ASSUME RequestInv, ConfirmFollows \/ NodeConfirms
  PROVE  NodeInv' /\ AwaitedInv'
<1>1. /\ call \in {"changed", "confirm"} /\ call' \in {"confirm", "confirmed"}
      /\ UNCHANGED <<worker, job, next, sets, changes, nodeParameters, renewed>>
  BY DEF ConfirmFollows, NodeConfirms, calling, nodeVars
<1>2. Current' = Current
  BY <1>1 DEF Current
<1>3. AwaitedInv'
  BY <1>1, <1>2 DEF RequestInv, AwaitedInv, Refused, NodeEdge
<1> QED BY <1>1, <1>3 DEF RequestInv, NodeInv

LEMMA ReturnsRequest ==
  ASSUME RequestInv, RefuseCall \/ StoreConfirmation \/ CallTimesOut
  PROVE  NodeInv' /\ AwaitedInv'
<1>1. call' = "none" /\ renewed' = FALSE /\ UNCHANGED nodeParameters
  BY DEF RefuseCall, StoreConfirmation, CallTimesOut, Return, nodeVars
<1>2. \/ sets' = sets
      \/ sets # << >> /\ sets' = Front(sets)
  BY DEF RefuseCall, StoreConfirmation, CallTimesOut, nodeVars
<1>3. \/ changes' = changes
      \/ changes # << >> /\ changes' = Front(changes)
  BY DEF RefuseCall, StoreConfirmation, CallTimesOut, nodeVars
<1>4. sets' \in Seq(Complete) /\ changes' \in Seq(ToSet(changes))
  BY <1>2, <1>3, FrontOfRequests DEF RequestInv, NodeInv
<1> QED BY <1>1, <1>4, NotCalling, SequenceOfItsElements DEF RequestInv, NodeInv

\* The other steps leave the requests and the call alone.
LEMMA OthersLeaveRequest ==
  ASSUME RequestInv,
         \/ NodePublishes \/ AnswerIsLost \/ TransitionIsLost \/ QueryIsLate \/ NodeAnswers
         \/ Callbacks \/ StatusRead \/ StatusReadRaces \/ WorkerReads \/ QueueStep
         \/ Ticker \/ UNCHANGED lvars
  PROVE  NodeInv' /\ AwaitedInv'
<1> USE DEF RequestInv, vars, tickVars, queueVars, observationVars, workerVars, nodeVars,
            callVars, adapterVars
<1>1. CASE NodePublishes \/ AnswerIsLost \/ TransitionIsLost \/ QueryIsLate \/ NodeAnswers
  BY <1>1, RequestStays
  DEF NodePublishes, AnswerIsLost, TransitionIsLost, QueryIsLate, NodeAnswers
<1>2. CASE Callbacks
  BY <1>2, RequestStays DEF Callbacks, DeliverNodeEvent, DeliverTransition, HandleAnswer
<1>3. CASE StatusRead \/ StatusReadRaces
  BY <1>3, RequestStays DEF StatusRead, StatusReadRaces, ReadState
<1>4. CASE WorkerReads
  <2>1. worker # "call"
    BY <1>4 DEF WorkerReads, DiscardPatch, PlanPatch, CheckSource, RecordOutcome, Finalize
  <2> QED BY <1>4, <2>1, RequestStays DEF WorkerReads, ReadState
<1>5. CASE QueueStep
  <2>1. UNCHANGED <<call, renewed, sets, changes, nodeParameters>>
    BY <1>5 DEF QueueStep
  <2>2. worker # "call" \/ UNCHANGED <<worker, job, next>>
    <3>1. CASE HookedStart \/ Join \/ Take \/ ClaimPatch \/ FinishBatch
      BY <3>1 DEF HookedStart, Start, Join, Take, ClaimPatch, FinishBatch
    <3>2. CASE Submit
      BY <3>2 DEF Submit, Enqueue, EnqueueRequests, DisabledPatch, GatePatch, QueuePatch,
                  AcceptPatch
    <3>3. CASE Stop
      BY <3>3 DEF Stop
    <3> QED BY <1>5, <3>1, <3>2, <3>3 DEF QueueStep
  <2> QED BY <2>1, <2>2, RequestStays
<1>6. CASE Ticker
  <2>1. UNCHANGED <<call, renewed, sets, changes, nodeParameters>>
    BY <1>6 DEF Ticker, ReadState
  <2>2. UNCHANGED <<worker, job, next>>
    BY <1>6 DEF Ticker, TickReadsState, TickEvaluates, TickSubmits, EnqueueRequests
  <2> QED BY <2>1, <2>2, RequestStays
<1>7. CASE UNCHANGED lvars
  BY <1>7, RequestStays DEF lvars
<1> QED BY <1>1, <1>2, <1>3, <1>4, <1>5, <1>6, <1>7

LEMMA RequestNext ==
  ASSUME RequestInv, [LifecycleNext]_lvars
  PROVE  RequestInv'
<1>1. SourcesInv'
  BY SourcesNext DEF RequestInv
<1>2. NodeInv' /\ AwaitedInv'
  BY NodeRestartsRequest, BeginCallRequest, NodeSetsRequest, ChangeFollowsRequest,
     NodeChangesRequest, ConfirmsRequest, ReturnsRequest, OthersLeaveRequest
  DEF LifecycleNext, Node, AdapterCall
<1> QED BY <1>1, <1>2 DEF RequestInv

LEMMA RequestInit ==
  ASSUME InitialParameters \in Complete, LifecycleInit
  PROVE  RequestInv
<1>1. /\ parameters = InitialParameters /\ urgent = << >> /\ normal = << >>
      /\ job = NoBatch /\ next = 1 /\ worker = "none" /\ tickRequests = << >>
  BY DEF LifecycleInit, HookedInit, Init
<1>2. sets = << >> /\ changes = << >> /\ nodeParameters = EmptyMap /\ call = "none"
      /\ renewed = FALSE
  BY DEF LifecycleInit
<1>3. SourcesInv
  BY <1>1, NothingIsComplete, BatchesComplete DEF SourcesInv
<1>4. changes \in Seq({})
  BY <1>2
<1>5. NodeInv
  BY <1>2, <1>4, SequenceOfItsElements, EmptyMapIsMap DEF NodeInv
<1>6. AwaitedInv
  BY <1>2 DEF AwaitedInv
<1> QED BY <1>3, <1>5, <1>6 DEF RequestInv

LEMMA ConfigureIsAsAsked ==
  ASSUME RequestInv, LifecycleNext,
         Awaited("change", changes), node = "unconfigured", node' = "inactive"
  PROVE  applied' = IF renewed THEN EmptyMap ELSE Current.parameters
<1>1. NodeChangesState
  <2> USE DEF vars, tickVars, nodeVars, adapterVars
  <2>1. ~(NodeRestarts \/ NodePublishes \/ AnswerIsLost \/ TransitionIsLost \/ QueryIsLate)
    BY DEF NodeRestarts, NodePublishes, AnswerIsLost, TransitionIsLost, QueryIsLate
  <2>2. ~(NodeAnswers \/ NodeSetsParameters \/ NodeConfirms)
    BY DEF NodeAnswers, NodeSetsParameters, NodeConfirms
  <2>3. ~(Callbacks \/ StatusRead \/ StatusReadRaces \/ WorkerReads \/ QueueStep)
    BY DEF Callbacks, DeliverNodeEvent, DeliverTransition, HandleAnswer, StatusRead,
           StatusReadRaces, WorkerReads, QueueStep, ReadState
  <2>4. ~(AdapterCall \/ CallTimesOut \/ Ticker)
    BY DEF AdapterCall, RefuseCall, BeginCall, ChangeFollows, ConfirmFollows,
           StoreConfirmation, CallTimesOut, Ticker, ReadState
  <2> QED BY <2>1, <2>2, <2>3, <2>4 DEF LifecycleNext, Node
<1>2. /\ changes # << >> /\ Len(changes) = 1 /\ call = "change"
      /\ changes \in Seq(ToSet(changes))
  BY <1>1 DEF NodeChangesState, Awaited, RequestInv, NodeInv
<1>3. Head(changes) = Last(changes)
  BY <1>2, LastOfTail
<1>4. Head(changes) = <<Current.from, Current.target>>
  BY <1>2, <1>3 DEF RequestInv, AwaitedInv
<1>5. /\ node = Head(changes)[1] /\ node' = Head(changes)[2]
      /\ applied' = IF Head(changes) = <<"unconfigured", "inactive">> THEN nodeParameters
                                                                      ELSE applied
  BY <1>1 DEF NodeChangesState
<1>6. Configures(Current) /\ applied' = nodeParameters
  BY <1>4, <1>5 DEF Configures
<1> QED BY <1>2, <1>6 DEF RequestInv, AwaitedInv, Taken

\* A device whose definition names every parameter: a configure that the worker
\* waits for finds the node with the parameters of its request, whatever other
\* maps were given up, refused in part, lost or executed late before; or, when its
\* process was replaced while the worker waited for change_state, with none.
THEOREM ConfiguresAsAsked ==
  ASSUME InitialParameters \in Complete
  PROVE  LifecycleSpec => ConfiguredAsAsked
<1>1. LifecycleInit => RequestInv
  BY RequestInit
<1>2. RequestInv /\ [LifecycleNext]_lvars => RequestInv'
  BY RequestNext
<1>3. RequestInv /\ [LifecycleNext]_lvars =>
        [(Awaited("change", changes) /\ node = "unconfigured" /\ node' = "inactive"
            /\ call' = "changed") =>
            applied' = IF renewed THEN EmptyMap ELSE Current.parameters]_lvars
  BY ConfigureIsAsAsked
<1> QED BY <1>1, <1>2, <1>3, PTL DEF LifecycleSpec, ConfiguredAsAsked
------------------------------------------------------------------------------
(***************************************************************************)
(* The queue under this adapter and its hook.  The cache moves without a   *)
(* request and a call takes many steps, but each of them is a move of the  *)
(* runtime, a return of the call, or nothing the queue can see.            *)
(***************************************************************************)
RemoteTypes ==
  /\ node \in LifecycleState /\ reply \in LifecycleState
  /\ nodeParameters \in ParameterMaps
  /\ transitions \in Seq(LifecycleState)
  /\ sets \in Seq(ParameterMaps)
  /\ changes \in Seq(LifecycleState \X LifecycleState)
  /\ query.answer.value \in LifecycleState
  /\ call # "none" => worker = "call"

LEMMA StatesAreStates ==
  {"unknown", "unconfigured", "inactive", "active", "finalized", "transitioning"}
    \subseteq LifecycleState
BY DEF LifecycleState, PrimaryStates

\* Asking for the state leaves an answer that is a state.
LEMMA ReadingKeepsTypes ==
  ASSUME RemoteTypes, ReadState, UNCHANGED worker \/ worker # "call"
  PROVE  RemoteTypes'
<1>1. UNCHANGED <<nodeVars, callVars>>
  BY DEF ReadState
<1>2. query' = NewQuery \/ query' = query
  BY DEF ReadState, Refresh, cacheVars
<1>3. query'.answer.value \in LifecycleState
  BY <1>2, SentAndOver, StatesAreStates DEF RemoteTypes
<1> QED BY <1>1, <1>3 DEF RemoteTypes, nodeVars, callVars

LEMMA IncidentKeepsTypes ==
  ASSUME CacheInv, RemoteTypes,
         NodeRestarts \/ NodePublishes \/ AnswerIsLost \/ TransitionIsLost \/ QueryIsLate
  PROVE  RemoteTypes' /\ UNCHANGED <<vars, tickVars>>
<1>1. /\ UNCHANGED <<vars, tickVars, worker, reply>>
      /\ call' # "none" => call # "none"
  BY DEF NodeRestarts, NodePublishes, AnswerIsLost, TransitionIsLost, QueryIsLate, vars,
         workerVars, callVars
<1>2. IsQuery(query) /\ query.answer.behind \in Int
  BY DEF CacheInv, CacheTypes, IsQuery
<1>3. query'.answer.value = query.answer.value
  <2>1. CASE NodePublishes
    BY <2>1 DEF NodePublishes, cacheVars
  <2>2. CASE NodeRestarts \/ AnswerIsLost
    <3>1. query' = query \/ query' = [query EXCEPT !.status = "lost"]
      <4>1. CASE NodeRestarts /\ query.status = "sent"
        BY <4>1 DEF NodeRestarts
      <4>2. CASE NodeRestarts /\ query.status # "sent"
        BY <1>2, <4>2, FieldReplaced DEF NodeRestarts, IsQuery
      <4> QED BY <2>2, <4>1, <4>2 DEF AnswerIsLost
    <3>2. ASSUME query' = [query EXCEPT !.status = "lost"]
          PROVE  query' = QueryOf("lost", query.answer.value, query.answer.behind, query.late)
      BY <1>2, <3>2, FieldReplaced
    <3> QED BY <1>2, <3>1, <3>2, QueryFields
  <2>3. CASE QueryIsLate
    <3> DEFINE late == TRUE
    <3>1. query' = [query EXCEPT !.late = late]
      BY <2>3 DEF QueryIsLate
    <3> HIDE DEF late
    <3>2. query' = QueryOf(query.status, query.answer.value, query.answer.behind, late)
      BY <1>2, <3>1, FieldReplaced
    <3> QED BY <1>2, <3>2, QueryFields
  <2>4. CASE TransitionIsLost
    BY <1>2, <2>4, AnswerBehind DEF TransitionIsLost
  <2> QED BY <2>1, <2>2, <2>3, <2>4
<1>4. /\ node' \in LifecycleState /\ nodeParameters' \in ParameterMaps
      /\ sets' \in Seq(ParameterMaps) /\ changes' \in Seq(LifecycleState \X LifecycleState)
  <2>1. CASE NodeRestarts
    <3>1. << >> \in Seq(ParameterMaps) /\ << >> \in Seq(LifecycleState \X LifecycleState)
      OBVIOUS
    <3> QED BY <2>1, <3>1, StatesAreStates, EmptyMapIsMap DEF NodeRestarts
  <2>2. CASE ~NodeRestarts
    <3>1. UNCHANGED <<node, nodeParameters, sets, changes>>
      BY <2>2 DEF NodePublishes, AnswerIsLost, TransitionIsLost, QueryIsLate, nodeVars
    <3> QED BY <3>1 DEF RemoteTypes
  <2> QED BY <2>1, <2>2
<1>5. transitions' \in Seq(LifecycleState)
  <2>1. UNCHANGED transitions \/ (transitions # << >> /\ transitions' = Tail(transitions))
    BY DEF NodeRestarts, NodePublishes, AnswerIsLost, TransitionIsLost, QueryIsLate, nodeVars
  <2>2. transitions # << >> => Tail(transitions) \in Seq(LifecycleState)
    BY DEF RemoteTypes
  <2> QED BY <2>1, <2>2 DEF RemoteTypes
<1> QED BY <1>1, <1>3, <1>4, <1>5 DEF RemoteTypes, callVars

\* What a callback stores is a state.
LEMMA CallbackMovesRuntime ==
  ASSUME TypeInv, CacheInv, RemoteTypes, Callbacks \/ StatusReadRaces
  PROVE  RemoteTypes' /\ DeviceStep /\ UNCHANGED tickVars
<1>1. CASE DeliverNodeEvent
  BY <1>1 DEF DeliverNodeEvent, RemoteTypes, DeviceStep, nodeVars, cacheVars, callVars, vars, workerVars
<1>2. ASSUME state' \in LifecycleState,
             UNCHANGED <<queueVars, observationVars, workerVars, applied>>
      PROVE  DeviceStep
  BY <1>2 DEF DeviceStep, HookStep, RuntimeMoves, TypeInv, TypeOK
<1>3. CASE DeliverTransition
  <2>1. Head(transitions) \in LifecycleState /\ Tail(transitions) \in Seq(LifecycleState)
    BY <1>3 DEF DeliverTransition, RemoteTypes
  <2>2. query'.answer.value = query.answer.value
    BY <1>3, AnswerBehind DEF DeliverTransition, CacheInv, CacheTypes
  <2>3. RemoteTypes'
    BY <1>3, <2>1, <2>2 DEF DeliverTransition, RemoteTypes, callVars, workerVars
  <2> QED BY <1>2, <1>3, <2>1, <2>3 DEF DeliverTransition
<1>4. CASE HandleAnswer
  <2>1. query'.answer.value = "unknown"
    BY <1>4, SentAndOver DEF HandleAnswer
  <2>2. RemoteTypes'
    BY <1>4, <2>1, StatesAreStates DEF HandleAnswer, RemoteTypes, nodeVars, callVars, workerVars
  <2>3. state' \in LifecycleState
    BY <1>4 DEF HandleAnswer, RemoteTypes, TypeInv, TypeOK
  <2> QED BY <1>2, <1>4, <2>2, <2>3 DEF HandleAnswer
<1>5. CASE StatusReadRaces
  <2>1. RemoteTypes'
    BY <1>5, ReadingKeepsTypes DEF StatusReadRaces, workerVars
  <2> QED BY <1>2, <1>5, <2>1 DEF StatusReadRaces, RemoteTypes
<1> QED BY <1>1, <1>3, <1>4, <1>5 DEF Callbacks

\* The call ends: the worker takes its result.
LEMMA ReturnIsReturn ==
  ASSUME TypeInv, worker = "call", NEW result \in Result, Return(result), UNCHANGED calling,
         state' \in LifecycleState, applied' \in ParameterMaps
  PROVE  DeviceStep
BY DEF Return, calling, DeviceStep, HookStep, AdapterReturns

\* The request the worker is in.
LEMMA CallIsRequest ==
  ASSUME TypeInv, worker = "call"
  PROVE  /\ Current.parameters \in ParameterMaps
         /\ <<Current.from, Current.target>> \in LifecycleState \X LifecycleState
<1>1. job \in BatchType /\ next \in 1..Len(job.requests)
  BY DEF TypeInv, TypeOK, InBatch
<1>2. Current \in RequestType
  BY <1>1 DEF BatchType, Current
<1> QED BY <1>2 DEF RequestType

LEMMA NodeIsDevice ==
  ASSUME TypeInv, CacheInv, RemoteTypes, Node
  PROVE  RemoteTypes' /\ DeviceStep /\ UNCHANGED tickVars
<1> USE DEF nodeVars, cacheVars, callVars, calling, runtimeVars
<1>1. "failure" \in Result /\ state \in LifecycleState /\ applied \in ParameterMaps
  BY DEF Result, TypeInv, TypeOK
<1>2. ASSUME UNCHANGED <<calling, worker, outcome, runtimeVars>> PROVE DeviceStep
  BY <1>2 DEF DeviceStep, vars, workerVars
<1>3. CASE NodeAnswers
  <2>1. Len(transitions) \in Nat /\ IsQuery(query)
    BY DEF RemoteTypes, CacheInv, CacheTypes
  <2>2. query' = QueryOf("answered", node, Len(transitions), query.late)
    BY <1>3, <2>1 DEF NodeAnswers, IsQuery, QueryOf
  <2>3. query'.answer.value = node
    BY <2>1, <2>2, QueryFields
  <2>4. UNCHANGED <<vars, worker>>
    BY <1>3 DEF NodeAnswers, vars, workerVars
  <2> QED BY <1>3, <2>3, <2>4 DEF NodeAnswers, RemoteTypes, DeviceStep
<1>4. CASE NodeConfirms
  BY <1>2, <1>4 DEF NodeConfirms, RemoteTypes
<1>5. CASE NodeSetsParameters
  <2>1. Head(sets) \in ParameterMaps /\ Tail(sets) \in Seq(ParameterMaps)
    BY <1>5 DEF NodeSetsParameters, RemoteTypes
  <2>2. nodeParameters' \in ParameterMaps
    BY <1>5, <2>1, TakenIsMap DEF NodeSetsParameters, RemoteTypes
  <2>3. CASE UNCHANGED <<worker, outcome>> /\ (call' # "none" => call # "none")
    <3>1. RemoteTypes'
      BY <1>5, <2>1, <2>2, <2>3 DEF NodeSetsParameters, RemoteTypes
    <3> QED BY <1>2, <1>5, <2>3, <3>1 DEF NodeSetsParameters
  <2>4. CASE Awaited("parameters", sets) /\ Return("failure")
    <3>1. worker = "call"
      BY <2>4 DEF Awaited, RemoteTypes
    <3>2. RemoteTypes'
      BY <1>5, <2>1, <2>2, <2>4 DEF NodeSetsParameters, RemoteTypes, Return
    <3> QED BY <1>1, <1>5, <2>4, <3>1, <3>2, ReturnIsReturn DEF NodeSetsParameters
  <2> QED BY <1>5, <2>3, <2>4 DEF NodeSetsParameters, Awaited
<1>6. CASE NodeChangesState
  <2> DEFINE edge == Head(changes)
             awaited == Awaited("change", changes)
  <2>1. edge \in LifecycleState \X LifecycleState /\ Tail(changes) \in Seq(LifecycleState \X LifecycleState)
    BY <1>6 DEF NodeChangesState, RemoteTypes
  <2>2. edge[2] \in LifecycleState /\ node \in LifecycleState
    BY <2>1 DEF RemoteTypes
  <2>3. UNCHANGED <<calling, state, nodeParameters, sets, cacheVars, reply>> /\ changes' = Tail(changes)
    BY <1>6 DEF NodeChangesState
  <2> HIDE DEF edge
  <2>4. CASE /\ node' = edge[2] /\ Announce(<<"transitioning", edge[2]>>)
             /\ applied' = (IF edge = <<"unconfigured", "inactive">> THEN nodeParameters
                                                                    ELSE applied)
             /\ call' = (IF awaited THEN "changed" ELSE call)
             /\ UNCHANGED <<worker, outcome>>
    <3>1. transitions' \in Seq(LifecycleState)
      <4>1. <<"transitioning", edge[2]>> \in Seq(LifecycleState)
        BY <2>2, StatesAreStates
      <4> QED BY <2>4, <4>1 DEF Announce, RemoteTypes
    <3>2. call' # "none" => worker' = "call"
      BY <2>4 DEF Awaited, RemoteTypes
    <3>3. RemoteTypes'
      BY <2>1, <2>2, <2>3, <2>4, <3>1, <3>2 DEF RemoteTypes
    <3>4. applied' \in ParameterMaps
      BY <1>1, <2>4 DEF RemoteTypes
    <3>5. DeviceStep
      BY <1>1, <2>3, <2>4, <3>4 DEF DeviceStep, HookStep, RuntimeMoves, workerVars
    <3> QED BY <2>3, <3>3, <3>5
  <2>5. CASE /\ Announce(<<"transitioning", node>>) \/ UNCHANGED transitions
             /\ (IF awaited THEN Return("failure") ELSE UNCHANGED <<worker, outcome, call, renewed>>)
             /\ UNCHANGED <<node, applied>>
    <3>1. transitions' \in Seq(LifecycleState)
      <4> DEFINE both == <<"transitioning", node>>
      <4>1. both \in Seq(LifecycleState)
        BY <2>2, StatesAreStates
      <4>2. transitions' = transitions \/ transitions' = transitions \o both
        BY <2>5 DEF Announce
      <4> HIDE DEF both
      <4>3. transitions \o both \in Seq(LifecycleState) /\ transitions \in Seq(LifecycleState)
        BY <4>1 DEF RemoteTypes
      <4> QED BY <4>2, <4>3
    <3>2. call' # "none" => worker' = "call"
      BY <2>5 DEF Return, RemoteTypes
    <3>3. RemoteTypes'
      BY <2>1, <2>2, <2>3, <2>5, <3>1, <3>2 DEF RemoteTypes
    <3>4. DeviceStep
      <4>1. CASE awaited
        BY <1>1, <2>3, <2>5, <4>1, ReturnIsReturn DEF Awaited, RemoteTypes
      <4>2. CASE ~awaited
        BY <1>2, <2>3, <2>5, <4>2
      <4> QED BY <4>1, <4>2
    <3> QED BY <2>3, <3>3, <3>4
  <2> QED BY <1>6, <2>4, <2>5 DEF NodeChangesState, edge
<1> QED BY <1>3, <1>4, <1>5, <1>6 DEF Node

LEMMA CallIsDevice ==
  ASSUME TypeInv, CacheInv, RemoteTypes, AdapterCall \/ CallTimesOut
  PROVE  RemoteTypes' /\ DeviceStep /\ UNCHANGED tickVars
<1> USE DEF nodeVars, cacheVars, callVars, calling, runtimeVars
<1>0. CASE ConfirmFollows
  BY <1>0 DEF ConfirmFollows, RemoteTypes, DeviceStep, vars, workerVars
<1>1. /\ {"success", "failure", "error"} \subseteq Result
      /\ state \in LifecycleState /\ applied \in ParameterMaps
  BY DEF Result, TypeInv, TypeOK
<1>2. CASE RefuseCall
  <2>1. RemoteTypes'
    BY <1>2 DEF RefuseCall, RemoteTypes, Return
  <2> QED BY <1>1, <1>2, <2>1, ReturnIsReturn DEF RefuseCall
<1>3. CASE BeginCall \/ ChangeFollows
  <2>1. /\ Current.parameters \in ParameterMaps
        /\ <<Current.from, Current.target>> \in LifecycleState \X LifecycleState
    BY <1>3, CallIsRequest DEF BeginCall, ChangeFollows, RemoteTypes
  <2>2. /\ sets' = sets \/ sets' = Append(sets, Current.parameters)
        /\ changes' = changes \/ changes' = Append(changes, <<Current.from, Current.target>>)
    BY <1>3 DEF BeginCall, ChangeFollows, SendChange
  <2>3. /\ sets' \in Seq(ParameterMaps) /\ changes' \in Seq(LifecycleState \X LifecycleState)
    <3> DEFINE edge == <<Current.from, Current.target>>
               edges == LifecycleState \X LifecycleState
               map == Current.parameters
    <3>1. edge \in edges /\ map \in ParameterMaps
      BY <2>1
    <3>2. changes \in Seq(edges) /\ sets \in Seq(ParameterMaps)
      BY DEF RemoteTypes
    <3>3. /\ sets' = sets \/ sets' = Append(sets, map)
          /\ changes' = changes \/ changes' = Append(changes, edge)
      BY <2>2
    <3> HIDE DEF edge, edges, map
    <3>4. Append(changes, edge) \in Seq(edges)
      BY <3>1, <3>2, AppendElements
    <3>5. Append(sets, map) \in Seq(ParameterMaps)
      BY <3>1, <3>2, AppendElements
    <3>6. sets' \in Seq(ParameterMaps) /\ changes' \in Seq(edges)
      BY <3>2, <3>3, <3>4, <3>5
    <3> QED BY <3>6 DEF edges
  <2>4. RemoteTypes'
    BY <1>3, <2>3 DEF BeginCall, ChangeFollows, SendChange, RemoteTypes
  <2> QED BY <1>3, <2>4 DEF BeginCall, ChangeFollows, DeviceStep, vars, workerVars
<1>4. CASE StoreConfirmation
  <2>1. worker = "call" /\ reply \in LifecycleState
    BY <1>4 DEF StoreConfirmation, RemoteTypes
  <2>2. state' \in LifecycleState
    BY <1>4, <2>1 DEF StoreConfirmation, RemoteTypes
  <2>3. query'.answer.value \in LifecycleState
    BY <1>4, SentAndOver, StatesAreStates DEF StoreConfirmation, RemoteTypes
  <2>4. RemoteTypes'
    BY <1>4, <2>3, StatesAreStates DEF StoreConfirmation, RemoteTypes, Return
  <2>5. Return("success") \/ Return("failure")
    BY <1>4 DEF StoreConfirmation
  <2> QED BY <1>1, <1>4, <2>1, <2>2, <2>4, <2>5, ReturnIsReturn DEF StoreConfirmation
<1>5. CASE CallTimesOut
  <2>1. worker = "call"
    BY <1>5 DEF CallTimesOut, RemoteTypes
  <2>2. /\ sets' = sets \/ (sets # << >> /\ sets' = Front(sets))
        /\ changes' = changes \/ (changes # << >> /\ changes' = Front(changes))
    BY <1>5 DEF CallTimesOut
  <2>3. sets' \in Seq(ParameterMaps) /\ changes' \in Seq(LifecycleState \X LifecycleState)
    BY <2>2, FrontOfRequests DEF RemoteTypes
  <2>4. RemoteTypes'
    BY <1>5, <2>3 DEF CallTimesOut, RemoteTypes, Return
  <2> QED BY <1>1, <1>5, <2>1, <2>4, ReturnIsReturn DEF CallTimesOut
<1> QED BY <1>0, <1>2, <1>3, <1>4, <1>5 DEF AdapterCall

LEMMA LifecycleHookAnswers ==
  ASSUME TypeInv
  PROVE  HookRequests \in Seq(RequestType)
<1>1. parameters \in ParameterMaps /\ << >> \in Seq(RequestType)
  BY DEF TypeInv, TypeOK
<1>2. \A from, target : TransitionsTo(from, target, parameters) \in Seq(RequestType)
  BY <1>1, LevelledPathType DEF TransitionsTo
<1>3. \/ HookRequests = << >>
      \/ \E target : HookRequests = TransitionsTo(tickState, target, parameters)
  BY DEF HookRequests, EventRequests
<1> QED BY <1>1, <1>2, <1>3

RemoteInv == DeviceInv /\ TickTypes /\ CacheInv /\ RemoteTypes

LEMMA LifecycleIsDevice ==
  ASSUME RemoteInv, [LifecycleNext]_lvars
  PROVE  DeviceStep /\ TickTypes' /\ RemoteTypes'
<1>1. TypeInv /\ TickTypes /\ CacheInv /\ RemoteTypes
  BY DEF RemoteInv, DeviceInv
<1>2. ASSUME UNCHANGED tickVars PROVE TickTypes'
  BY <1>1, <1>2 DEF TickTypes, tickVars
<1>3. ASSUME UNCHANGED <<nodeVars, query, callVars>>, UNCHANGED worker \/ worker # "call"
      PROVE  RemoteTypes'
  BY <1>1, <1>3 DEF RemoteTypes, nodeVars, callVars
<1>4. CASE NodeRestarts \/ NodePublishes \/ AnswerIsLost \/ TransitionIsLost \/ QueryIsLate
  BY <1>1, <1>2, <1>4, IncidentKeepsTypes DEF DeviceStep
<1>5. CASE Node
  BY <1>1, <1>2, <1>5, NodeIsDevice
<1>6. CASE Callbacks \/ StatusReadRaces
  BY <1>1, <1>2, <1>6, CallbackMovesRuntime
<1>7. CASE StatusRead
  <2>1. UNCHANGED <<vars, worker>>
    BY <1>7 DEF StatusRead, vars, workerVars
  <2> QED BY <1>1, <1>2, <1>7, <2>1, ReadingKeepsTypes DEF StatusRead, DeviceStep
<1>8. CASE WorkerReads
  <2>1. worker # "call"
    BY <1>8 DEF WorkerReads, DiscardPatch, PlanPatch, CheckSource, RecordOutcome, Finalize
  <2>2. DeviceStep
    BY <1>8 DEF WorkerReads, Next, Worker, DeviceStep
  <2> QED BY <1>1, <1>2, <1>8, <2>1, <2>2, ReadingKeepsTypes DEF WorkerReads
<1>9. CASE QueueStep
  <2>1. DeviceStep /\ UNCHANGED <<tickVars, nodeVars, query, callVars>>
    BY <1>9 DEF QueueStep, HookedStart, Next, Worker, DeviceStep, cacheVars
  <2>2. UNCHANGED worker \/ worker # "call"
    <3>1. CASE HookedStart \/ Join \/ Take \/ ClaimPatch \/ FinishBatch
      BY <3>1 DEF HookedStart, Start, Join, Take, ClaimPatch, FinishBatch
    <3>2. CASE Submit \/ Stop
      BY <3>2, SubmitKeeps DEF Stop, workerVars
    <3> QED BY <1>9, <3>1, <3>2 DEF QueueStep
  <2> QED BY <1>2, <1>3, <2>1, <2>2
<1>10. CASE AdapterCall \/ CallTimesOut
  BY <1>1, <1>2, <1>10, CallIsDevice
<1>11. CASE Ticker
  <2>1. HookRequests \in Seq(RequestType)
    BY <1>1, LifecycleHookAnswers
  <2>2. DeviceStep /\ TickTypes'
    BY <1>1, <1>11, <2>1, TickIsDeviceStep DEF Ticker
  <2>3. CASE TickReadsState /\ ReadState
    BY <1>1, <2>2, <2>3, ReadingKeepsTypes DEF TickReadsState, vars, workerVars
  <2>4. CASE (TickEvaluates(HookRequests, HandledAfter) \/ TickSubmits) /\ UNCHANGED adapterVars
    <3>1. UNCHANGED worker
      BY <2>4 DEF TickEvaluates, TickSubmits, EnqueueRequests, vars, workerVars
    <3> QED BY <1>3, <2>2, <2>4, <3>1 DEF adapterVars, cacheVars
  <2> QED BY <1>11, <2>3, <2>4, <2>2 DEF Ticker
<1>12. CASE UNCHANGED lvars
  BY <1>2, <1>3, <1>12 DEF lvars, adapterVars, cacheVars, vars, workerVars, DeviceStep
<1> QED
  BY <1>4, <1>5, <1>6, <1>7, <1>8, <1>9, <1>10, <1>11, <1>12 DEF LifecycleNext

LEMMA RemoteInit == LifecycleInit => RemoteInv
<1> SUFFICES ASSUME LifecycleInit
             PROVE  RemoteInv
  OBVIOUS
<1>1. DeviceInv /\ TickTypes
  BY DeviceInit, TickTypesInit DEF LifecycleInit, HookedInit
<1>2. query = NewQuery /\ transitions = << >> /\ sets = << >> /\ changes = << >>
      /\ node = "unconfigured" /\ reply = "unknown" /\ nodeParameters = EmptyMap /\ call = "none"
  BY DEF LifecycleInit
<1>3. RemoteTypes
  <2>1. << >> \in Seq(LifecycleState) /\ << >> \in Seq(ParameterMaps)
        /\ << >> \in Seq(LifecycleState \X LifecycleState)
    OBVIOUS
  <2> QED BY <1>2, <2>1, SentAndOver, StatesAreStates, EmptyMapIsMap DEF RemoteTypes
<1> QED BY <1>1, <1>3, CacheInit DEF RemoteInv

LEMMA RemoteNext == RemoteInv /\ [LifecycleNext]_lvars => RemoteInv'
  BY LifecycleIsDevice, DeviceNext, CacheNext DEF RemoteInv

LEMMA LifecycleRemoteInv == LifecycleSpec => []RemoteInv
  BY RemoteInit, RemoteNext, PTL DEF LifecycleSpec

\* Under the lifecycle adapter, whose calls time out, are executed late and race
\* with callbacks, the queue still never orphans an accumulated patch, plans with
\* the newest desired map, stops a batch at the first request that failed, and
\* holds nothing once it is stopped.
THEOREM LifecycleQueueHolds ==
  LifecycleSpec => [](TypeOK /\ PendingIsQueued /\ PatchPlansNewest /\ AdjacentExecution
                        /\ StoppedIsEmpty)
<1>1. RemoteInv => TypeOK /\ PendingIsQueued /\ PatchPlansNewest /\ AdjacentExecution
                     /\ StoppedIsEmpty
  BY DEF RemoteInv, DeviceInv, TypeInv, AdjacentInv
<1> QED BY <1>1, LifecycleRemoteInv, PTL

\* ... and hands it over only to a stop, to a patch that leaves the device
\* disabled or to a claimed batch that carries all of it.
THEOREM LifecycleHandsOver == LifecycleSpec => DeltaHandedOver
<1>1. RemoteInv /\ [LifecycleNext]_lvars => [HandsOver]_vars
  BY LifecycleIsDevice, DeviceHandsOver DEF RemoteInv
<1> QED BY <1>1, LifecycleRemoteInv, PTL DEF LifecycleSpec, DeltaHandedOver, HandsOver

\* Callers, hook and worker of a remote node see the serial executor.
THEOREM LifecycleQueueIsExecutor == LifecycleSpec => ImplementsSerialExecutor
<1>1. LifecycleInit => Executor!Init
  BY QueueInit DEF LifecycleInit, HookedInit
<1>2. RemoteInv /\ [LifecycleNext]_lvars => [Executor!Next]_(Executor!vars)
  BY LifecycleIsDevice, DeviceRefines DEF RemoteInv
<1> QED
  BY <1>1, <1>2, LifecycleRemoteInv, PTL
     DEF LifecycleSpec, ImplementsSerialExecutor, Executor!Spec
==============================================================================
