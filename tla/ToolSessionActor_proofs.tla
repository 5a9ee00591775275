----------------------- MODULE ToolSessionActor_proofs -----------------------
(***************************************************************************)
(* Machine-checked proofs about ToolSessionActor, for every number of      *)
(* clients and tool calls and for every value of the timeouts and bounds.  *)
(***************************************************************************)
EXTENDS ToolSessionActor, SequenceTheorems, WellFoundedInduction, TLAPS

(* What the operators on event sequences return.                           *)

\* A sequence with a tool call in it has a first one.
LEMMA FirstCallExists ==
  ASSUME NEW es \in Seq(Event), NEW n \in 1..Len(es), es[n] \in Calls
  PROVE  \E i \in 1..Len(es) : /\ es[i] \in Calls
                               /\ \A j \in 1..(i-1) : es[j] \notin Calls
<1> DEFINE T == {i \in 1..Len(es) : es[i] \in Calls}
<1>1. Len(es) \in Nat
  BY LenProperties
<1>2. T \subseteq Nat /\ T # {}
  BY <1>1
<1>3. PICK i \in T : \A j \in T : ~(<<j, i>> \in OpToRel(<, Nat))
  <2> HIDE DEF T
  <2> QED BY <1>2, NatLessThanWellFounded, WFMin, Zenon
<1>4. \A j \in T : ~(j < i)
  BY <1>2, <1>3 DEF OpToRel
<1>5. i \in 1..Len(es) /\ es[i] \in Calls
  BY <1>3
<1>6. ASSUME NEW j \in 1..(i-1)
      PROVE  es[j] \notin Calls
  <2>1. j \in 1..Len(es) /\ j < i
    BY <1>1, <1>5
  <2> QED BY <1>4, <2>1
<1> QED BY <1>5, <1>6

\* What is held back until the commit is a sequence of events.
LEMMA TailFromType ==
  ASSUME NEW es \in Seq(Event), \E i \in 1..Len(es) : es[i] \in Calls
  PROVE  TailFrom(es) \in Seq(Event)
<1> DEFINE First(i) == /\ es[i] \in Calls
                       /\ \A j \in 1..(i-1) : es[j] \notin Calls
           k == CHOOSE i \in 1..Len(es) : First(i)
<1>1. \E i \in 1..Len(es) : First(i)
  BY FirstCallExists
<1>2. k \in 1..Len(es)
  BY <1>1
<1>3. Len(es) \in Nat /\ \A i \in 1..Len(es) : es[i] \in Event
  BY LenProperties, ElementOfSeq
<1>4. SubSeq(es, k, Len(es)) \in Seq(Event)
  <2> HIDE DEF k
  <2> QED BY <1>2, <1>3, SubSeqProperties
<1> QED BY <1>4 DEF TailFrom

\* What a commit forwards and stores has the right types.
LEMMA CommitTypes ==
  ASSUME TypeOK, current \in Clients
  PROVE  /\ MissingUser \in Seq(Message)
         /\ \A calls \in SUBSET Calls :
              transcript \o MissingUser
                \o <<[role |-> "assistant", calls |-> calls]>> \in Seq(Message)
         /\ response[current].fp \in Request
<1>1. response[current].fp \in Request
  BY DEF TypeOK, LeaseType, Response
<1>2. MissingUser \in Seq(Message)
  <2>1. [role |-> "user", calls |-> response[current].fp.results] \in Message
    BY <1>1 DEF Message, Request
  <2>2. <<[role |-> "user", calls |-> response[current].fp.results]>> \in Seq(Message)
    BY <2>1
  <2> QED BY <2>2, EmptySeq DEF MissingUser
<1>3. ASSUME NEW calls \in SUBSET Calls
      PROVE  transcript \o MissingUser
               \o <<[role |-> "assistant", calls |-> calls]>> \in Seq(Message)
  <2>1. <<[role |-> "assistant", calls |-> calls]>> \in Seq(Message)
    BY DEF Message
  <2>2. transcript \in Seq(Message)
    BY DEF TypeOK, ActorType
  <2> QED BY <1>2, <2>1, <2>2, ConcatProperties
<1> QED BY <1>1, <1>2, <1>3

\* Writing to the sink keeps the queues typed.
LEMMA ToSinkType ==
  ASSUME TypeOK, NEW items \in Seq(Item), ToSink(items)
  PROVE  queue' \in [Clients -> Seq(Item)]
<1>1. CASE current # None /\ ~response[current].detached
  <2>1. current \in Clients /\ queue[current] \in Seq(Item)
    BY <1>1 DEF TypeOK, ActorType, LeaseType
  <2>2. queue[current] \o items \in Seq(Item)
    BY <2>1, ConcatProperties
  <2> QED BY <1>1, <2>1, <2>2 DEF ToSink, TypeOK, LeaseType
<1>2. CASE ~(current # None /\ ~response[current].detached)
  BY <1>2 DEF ToSink, TypeOK, LeaseType
<1> QED BY <1>1, <1>2

\* An unchanged group of variables keeps its types.
LEMMA UnchangedTypes ==
  /\ ActorType /\ UNCHANGED actor => ActorType'
  /\ TimerType /\ UNCHANGED timers => TimerType'
  /\ TaskType /\ UNCHANGED tasks => TaskType'
  /\ LifecycleType /\ UNCHANGED lifecycle => LifecycleType'
  /\ LeaseType /\ UNCHANGED leases => LeaseType'
<1>1. ActorType /\ UNCHANGED actor => ActorType'
  BY DEF ActorType, actor
<1>2. TimerType /\ UNCHANGED timers => TimerType'
  BY DEF TimerType, timers
<1>3. TaskType /\ UNCHANGED tasks => TaskType'
  BY DEF TaskType, tasks
<1>4. LifecycleType /\ UNCHANGED lifecycle => LifecycleType'
  BY DEF LifecycleType, lifecycle
<1>5. LeaseType /\ UNCHANGED leases => LeaseType'
  BY DEF LeaseType, leases
<1> QED BY <1>1, <1>2, <1>3, <1>4, <1>5

\* Closing keeps every variable it touches typed.
LEMMA FailType ==
  ASSUME TypeOK, Fail, registered' \in BOOLEAN, shutdowns' \in BOOLEAN
  PROVE  /\ ActorType' /\ TimerType' /\ TaskType' /\ LifecycleType'
         /\ (queue \in [Clients -> Seq(Item)])'
<1> USE DEF TypeOK
<1>1. CASE state = "CLOSED"
  <2>1. UNCHANGED <<actor, timers, tasks, cleanup, queue>>
    BY <1>1 DEF Fail
  <2>2. LifecycleType' /\ (queue \in [Clients -> Seq(Item)])'
    BY <2>1 DEF LifecycleType, LeaseType
  <2> QED BY <2>1, <2>2, UnchangedTypes
<1>2. CASE state # "CLOSED"
  <2>1. Close /\ ToSink(<<"failure", "END">>)
    BY <1>2 DEF Fail
  <2>2. ActorType'
    BY <2>1 DEF Close, ActorType
  <2>3. TimerType'
    BY <2>1 DEF Close, TimerType, Deadline
  <2>4. TaskType'
    BY <2>1 DEF Close, TaskType
  <2>5. LifecycleType'
    BY <2>1 DEF Close, LifecycleType
  <2>6. <<"failure", "END">> \in Seq(Item)
    BY DEF Item
  <2>7. queue' \in [Clients -> Seq(Item)]
    BY <2>1, <2>6, ToSinkType
  <2> QED BY <2>2, <2>3, <2>4, <2>5, <2>7
<1> QED BY <1>1, <1>2

\* A step that fails the actor and touches nothing else but shutdowns.
LEMMA FailStepType ==
  ASSUME TypeOK, Fail, UNCHANGED <<registered, client, response, seen, generated>>,
         shutdowns' \in BOOLEAN
  PROVE  TypeOK'
<1>1. registered' \in BOOLEAN
  BY DEF TypeOK, LifecycleType
<1>2. ActorType' /\ TimerType' /\ TaskType' /\ LifecycleType'
      /\ (queue \in [Clients -> Seq(Item)])'
  BY <1>1, FailType
<1>3. LeaseType'
  BY <1>2 DEF TypeOK, LeaseType
<1> QED BY <1>2, <1>3 DEF TypeOK

\* Opening a lease keeps the lease variables typed.
LEMMA NewLeaseType ==
  ASSUME TypeOK, NEW c \in Clients, NEW what \in {"reading", "replaying"},
         NEW q \in Request, NEW d \in BOOLEAN, Lease(c, what, q, d)
  PROVE  LeaseType'
<1>1. <<>> \in Seq(Event) /\ <<>> \in Seq(Item)
  BY EmptySeq
<1>2. NewResponse(q, d) \in Response
  BY <1>1 DEF NewResponse, Response
<1> QED BY <1>1, <1>2 DEF Lease, TypeOK, LeaseType

----------------------------------------------------------------------------
(* Type correctness.                                                       *)

\* A new actor, with no turn and no task, has the right types.
LEMMA TypeInit == Init => TypeOK
<1> SUFFICES ASSUME Init PROVE TypeOK
  OBVIOUS
<1>1. EmptyRequest \in Request
  BY BodiesAssumption DEF EmptyRequest, Request
<1>2. /\ NewResponse(EmptyRequest, FALSE) \in Response
      /\ <<>> \in Seq(Event) /\ <<>> \in Seq(Item)
  BY <1>1, EmptySeq DEF NewResponse, Response
<1>3. transcript \in Seq(Message)
  <2> DEFINE user == [role |-> "user", calls |-> {}]
             assistant == [role |-> "assistant", calls |-> {}]
  <2>1. transcript \in {<<>>, <<user, assistant>>}
    BY Zenon DEF Init
  <2>2. user \in Message /\ assistant \in Message
    BY DEF Message
  <2> HIDE DEF user, assistant
  <2>3. <<user, assistant>> \in Seq(Message)
    BY <2>2
  <2> QED BY <2>1, <2>3, EmptySeq
<1>4. ActorType
  BY <1>3 DEF Init, ActorType
<1>5. TimerType
  BY DEF Init, TimerType, Deadline
<1>6. TaskType
  BY <1>2 DEF Init, TaskType
<1>7. LifecycleType
  BY DEF Init, LifecycleType
<1>8. LeaseType
  BY <1>2 DEF Init, LeaseType
<1> QED BY <1>4, <1>5, <1>6, <1>7, <1>8 DEF Init, TypeOK

\* admit() and submit_tool_results() keep the types, whatever they decide.
LEMMA TypeAdmission ==
  ASSUME TypeOK, NEW c \in Clients, NEW q \in Request,
         OpenReplay(c) \/ AdmitPrompt(c, q) \/ AdmitResults(c, q)
           \/ AdmitExpired(c, q)
  PROVE  TypeOK'
<1> USE DEF TypeOK
<1>1. CASE OpenReplay(c)
  <2>1. replay.fp \in Request
    BY <1>1 DEF OpenReplay, ActorType, Recording
  <2>2. ActorType'
    BY <1>1, <2>1 DEF OpenReplay, ActorType
  <2>3. Lease(c, "replaying", replay.fp, FALSE)
    BY <1>1 DEF OpenReplay
  <2>4. LeaseType'
    BY <2>1, <2>3, NewLeaseType
  <2>5. UNCHANGED <<timers, tasks, lifecycle, generated>>
    BY <1>1 DEF OpenReplay
  <2> QED BY <2>2, <2>4, <2>5, UnchangedTypes
<1>2. CASE AdmitPrompt(c, q)
  <2>1. ActorType'
    BY <1>2 DEF AdmitPrompt, ActorType
  <2>2. TimerType'
    BY <1>2, TimeoutAssumption DEF AdmitPrompt, TimerType, Deadline
  <2>3. TaskType'
    BY <1>2, EmptySeq DEF AdmitPrompt, TaskType
  <2>4. Lease(c, "reading", q, FALSE)
    BY <1>2 DEF AdmitPrompt
  <2>5. LeaseType'
    BY <2>4, NewLeaseType
  <2>6. UNCHANGED lifecycle /\ (generated \in SUBSET Request)'
    BY <1>2 DEF AdmitPrompt
  <2> QED BY <2>1, <2>2, <2>3, <2>5, <2>6, UnchangedTypes
<1>3. CASE AdmitResults(c, q)
  <2>1. ActorType'
    <3>1. ResultMessage(q) \in Message
      BY DEF ResultMessage, Message, Request
    <3>2. transcript' \in Seq(Message)
      BY <1>3, <3>1 DEF AdmitResults, ActorType
    <3>3. AcceptResults(c, q) /\ replay' = None /\ resume' = FALSE
      BY <1>3 DEF AdmitResults
    <3>4. (wait_token \in Nat)' /\ (pending \in SUBSET Calls)'
      BY <3>3 DEF AcceptResults, ActorType
    <3>5. (in_flight \in Request \cup {None})' /\ (current \in Clients \cup {None})'
      BY <3>3 DEF AcceptResults
    <3>6. state' = "GENERATING"
      BY <3>3 DEF AcceptResults
    <3> QED BY <3>2, <3>3, <3>4, <3>5, <3>6 DEF ActorType
  <2>2. TimerType'
    BY <1>3, TimeoutAssumption
       DEF AdmitResults, AcceptResults, TimerType, Deadline
  <2>3. TaskType'
    BY <1>3 DEF AdmitResults, AcceptResults, TaskType
  <2>4. Lease(c, "reading", q, TRUE)
    BY <1>3 DEF AdmitResults, AcceptResults
  <2>5. LeaseType'
    BY <2>4, NewLeaseType
  <2>6. UNCHANGED lifecycle /\ (generated \in SUBSET Request)'
    BY <1>3 DEF AdmitResults, AcceptResults
  <2> QED BY <2>1, <2>2, <2>3, <2>5, <2>6, UnchangedTypes
<1>4. CASE AdmitExpired(c, q)
  BY <1>4, FailStepType DEF AdmitExpired, LifecycleType
<1> QED BY <1>1, <1>2, <1>3, <1>4

\* close, expiry, abort and shutdown keep the types.
LEMMA TypeClosing ==
  ASSUME TypeOK,
         \/ BackendError \/ GenerationTimesOut \/ SubmitFails \/ WatcherFails
         \/ Shutdown \/ NotifyClose \/ Unregister
  PROVE  TypeOK'
<1>1. CASE BackendError \/ GenerationTimesOut \/ SubmitFails \/ WatcherFails
  <2>1. Fail /\ UNCHANGED <<registered, shutdowns, client, response, seen, generated>>
    BY <1>1 DEF BackendError, GenerationTimesOut, SubmitFails, WatcherFails
  <2> QED BY <2>1, FailStepType DEF TypeOK, LifecycleType
<1>2. CASE Shutdown
  BY <1>2, FailStepType DEF Shutdown
<1>3. CASE NotifyClose
  <2>1. ActorType' /\ LifecycleType'
    BY <1>3 DEF NotifyClose, TypeOK, ActorType, LifecycleType
  <2>2. UNCHANGED <<timers, tasks, leases, generated>>
    BY <1>3 DEF NotifyClose
  <2> QED BY <2>1, <2>2, UnchangedTypes DEF TypeOK
<1>4. CASE Unregister
  <2>1. LifecycleType'
    BY <1>4 DEF Unregister, TypeOK, LifecycleType
  <2>2. UNCHANGED <<actor, timers, tasks, leases, generated>>
    BY <1>4 DEF Unregister
  <2> QED BY <2>1, <2>2, UnchangedTypes DEF TypeOK
<1> QED BY <1>1, <1>2, <1>3, <1>4

\* Every step of the generation task (_run) keeps the types.
LEMMA TypeRunner ==
  ASSUME TypeOK, state = "GENERATING" => current # None, RunnerStep
  PROVE  TypeOK'
<1> USE DEF TypeOK
<1>1. CASE StartBackend
  <2>1. TaskType'
    BY <1>1 DEF StartBackend, TaskType
  <2>2. UNCHANGED <<actor, timers, lifecycle, leases, generated>>
    BY <1>1 DEF StartBackend
  <2> QED BY <2>1, <2>2, UnchangedTypes
<1>2. CASE TextEvent
  <2>1. "text" \in Event /\ <<"text">> \in Seq(Item)
    BY DEF Event, Item
  <2>2. TaskType'
    BY <1>2, <2>1, AppendProperties DEF TextEvent, TaskType
  <2>3. queue' \in [Clients -> Seq(Item)]
    BY <1>2, <2>1, ToSinkType DEF TextEvent, LeaseType
  <2>4. LeaseType'
    BY <1>2, <2>3 DEF TextEvent, LeaseType
  <2>5. UNCHANGED <<actor, timers, lifecycle, generated>>
    BY <1>2 DEF TextEvent
  <2> QED BY <2>2, <2>4, <2>5, UnchangedTypes
<1>3. ASSUME NEW k \in Calls, ToolCallEvent(k)
      PROVE  TypeOK'
  <2>1. k \in Event
    BY DEF Event
  <2>2. TaskType'
    BY <1>3, <2>1, AppendProperties DEF ToolCallEvent, TaskType
  <2>3. UNCHANGED <<actor, timers, lifecycle, leases, generated>>
    BY <1>3 DEF ToolCallEvent
  <2> QED BY <2>2, <2>3, UnchangedTypes
<1>4. CASE CommitToolBoundary
  <2> DEFINE es == Append(events, "tool_use")
             calls == CallsOf(events)
  <2>1. /\ current \in Clients /\ ToolSuffixStarted
        /\ Commit(es, calls) /\ ToSink(TailFrom(es) \o <<"END">>)
    BY <1>4 DEF CommitToolBoundary, ParkAtBoundary, ActorType
  <2>2. es \in Seq(Event)
    BY AppendProperties DEF TaskType, Event, StopReasons
  <2>3. calls \in SUBSET Calls
    BY DEF CallsOf
  <2>4. \E i \in 1..Len(es) : es[i] \in Calls
    <3>1. PICK i \in 1..Len(events) : events[i] \in Calls
      BY <2>1 DEF ToolSuffixStarted
    <3>2. es[i] = events[i] /\ i \in 1..Len(es)
      BY AppendProperties, LenProperties DEF TaskType
    <3> QED BY <3>1, <3>2
  <2>5. TailFrom(es) \o <<"END">> \in Seq(Item)
    <3>1. TailFrom(es) \in Seq(Event)
      BY <2>2, <2>4, TailFromType
    <3>2. TailFrom(es) \in Seq(Item)
      BY <3>1 DEF Item
    <3>3. <<"END">> \in Seq(Item)
      BY DEF Item
    <3> QED BY <3>2, <3>3, ConcatProperties
  <2> HIDE DEF es, calls
  <2>6. queue' \in [Clients -> Seq(Item)]
    BY <2>1, <2>5, ToSinkType
  <2>7. response' \in [Clients -> Response] /\ ActorType'
    <3>1. /\ transcript' \in Seq(Message)
          /\ response[current].fp \in Request
      BY <2>1, <2>3, CommitTypes DEF Commit
    <3>2. response' \in [Clients -> Response]
      BY ZenonT(60), <2>1, <2>2 DEF Commit, LeaseType, Response
    <3>3. (replay \in Recording \cup {None})'
      BY <2>1, <2>2, <3>1 DEF Commit, Recording
    <3>4. /\ state' = "WAITING_FOR_TOOLS" /\ wait_token' = wait_token + 1
          /\ resume' = FALSE
      BY <1>4 DEF CommitToolBoundary, ParkAtBoundary
    <3>5. in_flight' = None /\ pending' = calls /\ current' = None
      BY <2>1 DEF Commit
    <3>6. (wait_token \in Nat)'
      BY <3>4 DEF ActorType
    <3> QED BY <2>3, <3>1, <3>2, <3>3, <3>4, <3>5, <3>6 DEF ActorType
  <2>8. LeaseType'
    BY <1>4, <2>6, <2>7 DEF CommitToolBoundary, ParkAtBoundary, LeaseType
  <2>9. TimerType'
    BY <1>4, TimeoutAssumption
       DEF CommitToolBoundary, ParkAtBoundary, TimerType, Deadline
  <2>10. TaskType'
    BY <1>4, EmptySeq
       DEF CommitToolBoundary, ParkAtBoundary, TaskType, ActorType
  <2>11. UNCHANGED <<lifecycle, generated>>
    BY <1>4 DEF CommitToolBoundary, ParkAtBoundary
  <2> QED BY <2>7, <2>8, <2>9, <2>10, <2>11, UnchangedTypes
<1>5. CASE CommitTerminal
  <2> DEFINE es == Append(events, "end_turn")
  <2>1. /\ current \in Clients
        /\ Commit(es, {}) /\ ToSink(<<"end_turn", "END">>)
    BY <1>5 DEF CommitTerminal, ActorType
  <2>2. es \in Seq(Event)
    BY AppendProperties DEF TaskType, Event, StopReasons
  <2>3. <<"end_turn", "END">> \in Seq(Item)
    BY DEF Item, Event, StopReasons
  <2> HIDE DEF es
  <2>4. queue' \in [Clients -> Seq(Item)]
    BY <2>1, <2>3, ToSinkType
  <2>5. response' \in [Clients -> Response] /\ ActorType'
    <3>1. /\ transcript' \in Seq(Message)
          /\ response[current].fp \in Request
      BY <2>1, CommitTypes DEF Commit
    <3>2. response' \in [Clients -> Response]
      BY ZenonT(60), <2>1, <2>2 DEF Commit, LeaseType, Response
    <3>3. (replay \in Recording \cup {None})'
      BY <2>1, <2>2, <3>1 DEF Commit, Recording
    <3>4. state' = "READY" /\ UNCHANGED <<wait_token, resume>>
      BY <1>5 DEF CommitTerminal
    <3>5. in_flight' = None /\ pending' = {} /\ current' = None
      BY <2>1 DEF Commit
    <3> QED BY <3>1, <3>2, <3>3, <3>4, <3>5 DEF ActorType
  <2>6. LeaseType'
    BY <1>5, <2>4, <2>5 DEF CommitTerminal, LeaseType
  <2>7. TimerType'
    BY <1>5 DEF CommitTerminal, TimerType, Deadline
  <2>8. TaskType'
    BY <1>5, EmptySeq DEF CommitTerminal, TaskType
  <2>9. UNCHANGED <<lifecycle, generated>>
    BY <1>5 DEF CommitTerminal
  <2> QED BY <2>5, <2>6, <2>7, <2>8, <2>9, UnchangedTypes
<1>6. CASE BackendError \/ GenerationTimesOut
  BY <1>6, TypeClosing
<1>7. CASE Resume
  <2>1. TimerType' /\ TaskType'
    BY <1>7 DEF Resume, TimerType, TaskType, Deadline
  <2>2. UNCHANGED <<actor, lifecycle, leases, generated>>
    BY <1>7 DEF Resume
  <2> QED BY <2>1, <2>2, UnchangedTypes
<1>8. CASE WaitTimesOut
  <2>1. UNCHANGED <<registered, shutdowns, client, response, seen, generated>>
    BY <1>8 DEF WaitTimesOut, WaitAlarm
  <2>2. CASE Fail
    BY <2>1, <2>2, FailStepType DEF LifecycleType
  <2>3. CASE WaitMoves \/ WaitDropped
    <3>1. TimerType' /\ TaskType'
      BY <2>3 DEF WaitMoves, WaitDropped, TimerType, TaskType, Deadline, ActorType
    <3>2. UNCHANGED <<actor, cleanup, queue>>
      BY <2>3 DEF WaitMoves, WaitDropped
    <3>3. LifecycleType' /\ LeaseType'
      BY <2>1, <3>2 DEF LifecycleType, LeaseType
    <3> QED BY <2>1, <3>1, <3>2, <3>3, UnchangedTypes
  <2> QED BY <1>8, <2>2, <2>3 DEF WaitTimesOut
<1> QED BY <1>1, <1>2, <1>3, <1>4, <1>5, <1>6, <1>7, <1>8 DEF RunnerStep

\* Every step of the task that submits tool results keeps the types.
LEMMA TypeSubmitter ==
  ASSUME TypeOK, SubmitterStep
  PROVE  TypeOK'
<1> USE DEF TypeOK
<1>1. ASSUME NEW outcome \in {"accepted", "raised"}, SubmitResults(outcome)
      PROVE  TypeOK'
  <2>1. TaskType'
    BY <1>1 DEF SubmitResults, TaskType
  <2>2. UNCHANGED <<actor, timers, lifecycle, leases, generated>>
    BY <1>1 DEF SubmitResults
  <2> QED BY <2>1, <2>2, UnchangedTypes
<1>2. CASE Submitted
  <2>1. ActorType' /\ TaskType'
    BY <1>2 DEF Submitted, ActorType, TaskType
  <2>2. UNCHANGED <<timers, lifecycle, leases, generated>>
    BY <1>2 DEF Submitted
  <2> QED BY <2>1, <2>2, UnchangedTypes
<1>3. CASE SubmitFails
  BY <1>3, TypeClosing
<1> QED BY <1>1, <1>2, <1>3 DEF SubmitterStep

\* Whatever the leases of the clients do keeps the types.
LEMMA TypeClient ==
  ASSUME TypeOK, NEW c \in Clients, Read(c) \/ Detach(c) \/ ReleaseReplay(c)
  PROVE  TypeOK'
<1> USE DEF TypeOK
<1>1. CASE Read(c)
  <2> DEFINE item == Head(queue[c])
  <2>1. queue[c] \in Seq(Item) /\ queue[c] # <<>>
    BY <1>1 DEF Read, LeaseType
  <2>2. item \in Item /\ Tail(queue[c]) \in Seq(Item)
    BY <2>1, HeadTailProperties
  <2>3. item \in Event => Append(seen[c], item) \in Seq(Event)
    BY AppendProperties DEF LeaseType
  <2> HIDE DEF item
  <2>4. LeaseType'
    BY ZenonT(60), <1>1, <2>2, <2>3 DEF Read, LeaseType, Response, item
  <2>5. UNCHANGED <<actor, timers, tasks, lifecycle, generated>>
    BY <1>1 DEF Read
  <2> QED BY <2>4, <2>5, UnchangedTypes
<1>2. CASE Detach(c)
  <2>1. /\ (client \in [Clients -> {"idle", "reading", "replaying"}])'
        /\ (response \in [Clients -> Response])'
        /\ UNCHANGED <<seen, queue, registered, shutdowns, generated>>
    BY <1>2 DEF Detach, LeaseType, Response
  <2>2. LeaseType'
    BY <2>1 DEF LeaseType
  <2>3. CASE Close
    <3>1. ActorType'
      BY <2>3 DEF Close, ActorType
    <3>2. TimerType'
      BY <2>3 DEF Close, TimerType, Deadline
    <3>3. TaskType' /\ LifecycleType'
      BY <2>1, <2>3 DEF Close, TaskType, LifecycleType
    <3> QED BY <2>1, <2>2, <3>1, <3>2, <3>3
  <2>4. CASE UNCHANGED <<actor, timers, tasks, cleanup>>
    <3>1. LifecycleType'
      BY <2>1, <2>4 DEF LifecycleType
    <3> QED BY <2>1, <2>2, <2>4, <3>1, UnchangedTypes
  <2> QED BY <1>2, <2>3, <2>4 DEF Detach
<1>3. CASE ReleaseReplay(c)
  <2>1. ActorType' /\ LeaseType'
    BY <1>3 DEF ReleaseReplay, ActorType, LeaseType
  <2>2. UNCHANGED <<timers, tasks, lifecycle, generated>>
    BY <1>3 DEF ReleaseReplay
  <2> QED BY <2>1, <2>2, UnchangedTypes
<1> QED BY <1>1, <1>2, <1>3

\* The clock and the timer of the tool results keep the types.
LEMMA TypeTick ==
  ASSUME TypeOK, Tick
  PROVE  TypeOK'
<1>1. ASSUME NEW left \in Deadline
      PROVE  Elapse(left) \in Deadline
  BY DEF Elapse, Deadline, NoDeadline
<1>2. TimerType'
  BY <1>1 DEF Tick, TypeOK, TimerType
<1>3. UNCHANGED <<actor, tasks, lifecycle, leases, generated>>
  BY DEF Tick
<1> QED BY <1>2, <1>3, UnchangedTypes DEF TypeOK

----------------------------------------------------------------------------
(* The reservation.                                                        *)

\* ReservationHasOneOwner is not inductive alone: only a generating actor has a
\* sink, the close callback runs after the close, and nobody replays a turn to
\* the client whose response is being generated.
Ownership ==
  /\ state = "GENERATING" <=> current # None
  /\ cleanup # "none" => state = "CLOSED"
  /\ \A c \in Clients : client[c] = "replaying" => c # current
  /\ ReservationHasOneOwner

\* Steps that move neither the reservation, nor its owners, nor the close.
LEMMA OwnershipKept ==
  ASSUME TypeOK, Ownership,
         UNCHANGED <<state, in_flight, current, cleanup>>,
         \A c \in Clients : /\ client'[c] = "replaying" <=> client[c] = "replaying"
                            /\ response'[c].fp = response[c].fp
  PROVE  Ownership'
<1>1. \A c \in Clients : Holds(c)' <=> Holds(c)
  BY DEF Holds
<1>2. ReservationHasOneOwner'
  BY <1>1 DEF Ownership, ReservationHasOneOwner
<1> QED BY <1>2 DEF Ownership

\* Closing drops the reservation and the sink together.
LEMMA OwnershipClosed ==
  ASSUME TypeOK, Ownership, Fail \/ (state # "CLOSED" /\ Close), UNCHANGED <<client, response>>
  PROVE  Ownership'
<1>1. CASE state = "CLOSED"
  <2>1. UNCHANGED <<state, in_flight, current, cleanup>>
    BY <1>1 DEF Fail, actor
  <2> QED BY <2>1, OwnershipKept
<1>2. CASE Close
  BY <1>2, NoneAssumption
     DEF Close, Ownership, ReservationHasOneOwner, TypeOK, LifecycleType
<1> QED BY <1>1, <1>2 DEF Fail

\* A lease is given a turn only with a reservation that is its own.
LEMMA OwnershipAdmission ==
  ASSUME TypeOK, Ownership, NEW c \in Clients, NEW q \in Request,
         OpenReplay(c) \/ AdmitPrompt(c, q) \/ AdmitResults(c, q)
           \/ AdmitExpired(c, q)
  PROVE  Ownership'
<1>1. CASE AdmitExpired(c, q)
  BY <1>1, OwnershipClosed DEF AdmitExpired
<1>2. ASSUME NEW what \in {"reading", "replaying"}, NEW r \in Request,
             NEW d \in BOOLEAN, Lease(c, what, r, d)
      PROVE  /\ client'[c] = what /\ response'[c].fp = r
             /\ \A e \in Clients \ {c} : /\ client'[e] = client[e]
                                         /\ response'[e] = response[e]
  BY <1>2 DEF Lease, NewResponse, TypeOK, LeaseType
<1>3. CASE OpenReplay(c)
  <2>1. replay.fp \in Request
    BY <1>3 DEF OpenReplay, TypeOK, ActorType, Recording
  <2>2. Lease(c, "replaying", replay.fp, FALSE)
    BY <1>3 DEF OpenReplay
  <2>3. /\ client'[c] = "replaying" /\ response'[c].fp = replay.fp
        /\ \A e \in Clients \ {c} : /\ client'[e] = client[e]
                                    /\ response'[e] = response[e]
    BY <1>2, <2>1, <2>2
  <2>4. /\ in_flight = None /\ in_flight' = replay.fp /\ current # c
        /\ UNCHANGED <<state, current, cleanup>>
    BY <1>3 DEF OpenReplay, Free, lifecycle
  <2>5. state # "CLOSED" => \A e \in Clients : ~Holds(e)
    BY <2>4, NoneAssumption DEF Ownership, ReservationHasOneOwner, Holds, TypeOK, LeaseType, Response
  <2>6. ReservationHasOneOwner'
    BY <2>3, <2>4, <2>5 DEF ReservationHasOneOwner, Holds
  <2> QED BY <2>3, <2>4, <2>6 DEF Ownership
<1>4. CASE AdmitPrompt(c, q) \/ AdmitResults(c, q)
  <2>1. \E d \in BOOLEAN : Lease(c, "reading", q, d)
    BY <1>4 DEF AdmitPrompt, AdmitResults, AcceptResults
  <2>2. /\ client'[c] = "reading" /\ response'[c].fp = q
        /\ \A e \in Clients \ {c} : /\ client'[e] = client[e]
                                    /\ response'[e] = response[e]
    BY <1>2, <2>1
  <2>3. /\ in_flight = None /\ in_flight' = q /\ current' = c
        /\ state \in {"READY", "WAITING_FOR_TOOLS"} /\ state' = "GENERATING"
        /\ UNCHANGED cleanup
    BY <1>4 DEF AdmitPrompt, AdmitResults, AcceptResults, lifecycle
  <2>4. \A e \in Clients : ~Holds(e)
    BY <2>3, NoneAssumption DEF Ownership, ReservationHasOneOwner, Holds, TypeOK, LeaseType, Response
  <2>5. ReservationHasOneOwner'
    BY <2>2, <2>3, <2>4 DEF ReservationHasOneOwner, Holds
  <2>6. current' # None /\ \A e \in Clients : client'[e] = "replaying" => e # current'
    BY <2>2, <2>3, <2>4, NoneAssumption DEF Holds
  <2> QED BY <2>3, <2>5, <2>6 DEF Ownership
<1> QED BY <1>1, <1>3, <1>4

\* A commit takes the sink and the reservation away in one step.
LEMMA OwnershipCommit ==
  ASSUME TypeOK, Ownership, CommitToolBoundary \/ CommitTerminal
  PROVE  Ownership'
<1>1. /\ state = "GENERATING" /\ state' \in {"WAITING_FOR_TOOLS", "READY"}
      /\ in_flight' = None /\ current' = None /\ UNCHANGED <<client, cleanup>>
  BY DEF CommitToolBoundary, ParkAtBoundary, CommitTerminal, Commit, lifecycle
<1>2. current \in Clients /\ Holds(current)
  BY <1>1 DEF Ownership, TypeOK, ActorType, Holds
<1>3. \A c \in Clients : client[c] # "replaying"
  BY <1>1, <1>2 DEF Ownership, ReservationHasOneOwner, Holds
<1>4. \A c \in Clients : ~Holds(c)'
  BY <1>1, <1>3, NoneAssumption DEF Holds
<1>5. ReservationHasOneOwner'
  BY <1>1, <1>4 DEF ReservationHasOneOwner
<1> QED BY <1>1, <1>3, <1>5 DEF Ownership

\* A client that ends, leaves or aborts touches only what its lease holds.
LEMMA OwnershipClient ==
  ASSUME TypeOK, Ownership, NEW c \in Clients,
         Read(c) \/ Detach(c) \/ ReleaseReplay(c)
  PROVE  Ownership'
<1>1. CASE Read(c)
  <2>1. /\ client[c] = "reading" /\ UNCHANGED <<state, in_flight, current, cleanup>>
        /\ client' \in [Clients -> {"idle", "reading", "replaying"}]
        /\ client'[c] # "replaying"
        /\ \A e \in Clients \ {c} : client'[e] = client[e]
        /\ \A e \in Clients : response'[e].fp = response[e].fp
    BY <1>1 DEF Read, TypeOK, LeaseType, Response, actor, lifecycle
  <2> QED BY <2>1, OwnershipKept
<1>2. CASE Detach(c)
  <2>1. /\ client[c] = "reading" /\ client'[c] = "idle"
        /\ \A e \in Clients \ {c} : client'[e] = client[e]
        /\ \A e \in Clients : response'[e].fp = response[e].fp
    BY <1>2 DEF Detach, TypeOK, LeaseType, Response
  <2>2. CASE Close
    BY <2>1, <2>2, NoneAssumption
       DEF Close, Ownership, ReservationHasOneOwner, TypeOK
  <2>3. CASE UNCHANGED <<actor, timers, tasks, cleanup, queue>>
    <3>1. UNCHANGED <<state, in_flight, current, cleanup>>
      BY <2>3 DEF actor
    <3> QED BY <2>1, <3>1, OwnershipKept
  <2> QED BY <1>2, <2>2, <2>3 DEF Detach
<1>3. CASE ReleaseReplay(c)
  <2>1. /\ client[c] = "replaying" /\ client'[c] = "idle"
        /\ \A e \in Clients \ {c} : client'[e] = client[e]
        /\ UNCHANGED <<state, current, cleanup, response>>
        /\ in_flight' = IF in_flight = response[c].fp THEN None ELSE in_flight
    BY <1>3 DEF ReleaseReplay, TypeOK, LeaseType, lifecycle
  <2>2. \A e \in Clients : Holds(e)' => Holds(e)
    BY <2>1 DEF Holds
  <2>3. c # current
    BY <2>1 DEF Ownership
  <2>4. state # "CLOSED" => in_flight' = None /\ \A e \in Clients : ~Holds(e)'
    BY <2>1, <2>2, <2>3 DEF Ownership, ReservationHasOneOwner, Holds
  <2>5. ReservationHasOneOwner'
    BY <2>1, <2>4 DEF ReservationHasOneOwner
  <2> QED BY <2>1, <2>5 DEF Ownership
<1> QED BY <1>1, <1>2, <1>3

\* The backend tasks take the reservation away only by a commit or a close.
LEMMA OwnershipTasks ==
  ASSUME TypeOK, Ownership,
         \/ RunnerStep \/ SubmitterStep \/ WatcherFails \/ NotifyClose
         \/ Unregister \/ Shutdown \/ Tick
  PROVE  Ownership'
<1>1. CASE CommitToolBoundary \/ CommitTerminal
  BY <1>1, OwnershipCommit
<1>2. CASE Fail /\ UNCHANGED <<client, response>>
  BY <1>2, OwnershipClosed
<1>3. CASE UNCHANGED <<state, in_flight, current, cleanup, client, response>>
  BY <1>3, OwnershipKept
<1>4. CASE NotifyClose
  <2>1. state = "CLOSED" /\ UNCHANGED <<state, current, client>>
    BY <1>4 DEF NotifyClose, Ownership, leases
  <2> QED BY <2>1 DEF Ownership, ReservationHasOneOwner
<1>5. ASSUME BackendError \/ GenerationTimesOut \/ SubmitFails \/ WatcherFails
             \/ Shutdown
      PROVE  Fail /\ UNCHANGED <<client, response>>
  BY <1>5 DEF BackendError, GenerationTimesOut, SubmitFails, WatcherFails, Shutdown
<1>6. ASSUME \/ StartBackend \/ TextEvent \/ \E k \in Calls : ToolCallEvent(k)
             \/ Resume \/ (\E o \in {"accepted", "raised"} : SubmitResults(o))
             \/ Submitted \/ Unregister \/ Tick
      PROVE  UNCHANGED <<state, in_flight, current, cleanup, client, response>>
  BY <1>6 DEF StartBackend, TextEvent, ToolCallEvent, Resume, SubmitResults,
              Submitted, Unregister, Tick, actor, lifecycle, leases
<1>7. CASE WaitTimesOut
  BY <1>2, <1>3, <1>7 DEF WaitTimesOut, WaitAlarm, WaitMoves, WaitDropped, actor
<1> QED
  BY <1>1, <1>2, <1>3, <1>4, <1>5, <1>6, <1>7 DEF RunnerStep, SubmitterStep

\* Every admission is of a request that the parser can produce.
LEMMA AdmitRequest ==
  ASSUME TypeOK, NEW c \in Clients, Admit(c)
  PROVE  \E q \in Request :
           AdmitPrompt(c, q) \/ AdmitResults(c, q) \/ AdmitExpired(c, q)
<1>1. PICK body \in Bodies, results \in SUBSET Calls :
        LET q == [base |-> Len(transcript), results |-> results, body |-> body]
        IN AdmitPrompt(c, q) \/ AdmitResults(c, q) \/ AdmitExpired(c, q)
  BY DEF Admit
<1> DEFINE q == [base |-> Len(transcript), results |-> results, body |-> body]
<1>2. Len(transcript) \in Nat
  BY LenProperties DEF TypeOK, ActorType
<1>3. q \in Request
  BY <1>2 DEF Request
<1> QED BY <1>1, <1>3

\* In every reachable state the reservation belongs to the one lease that is
\* generating or submitting (admit, _commit_tool_boundary and _fail together).
THEOREM OwnershipInvariant == Spec => [](TypeOK /\ Ownership)
<1>1. Init => TypeOK /\ Ownership
  <2>1. Init => Ownership
    BY NoneAssumption DEF Init, Ownership, ReservationHasOneOwner, Holds, NewResponse
  <2> QED BY <2>1, TypeInit
<1>2. TypeOK /\ Ownership /\ [Next]_vars => TypeOK' /\ Ownership'
  <2> SUFFICES ASSUME TypeOK, Ownership, [Next]_vars
               PROVE  TypeOK' /\ Ownership'
    OBVIOUS
  <2>1. ASSUME NEW c \in Clients, OpenReplay(c) \/ Admit(c)
        PROVE  TypeOK' /\ Ownership'
    <3>1. CASE Admit(c)
      BY <3>1, AdmitRequest, TypeAdmission, OwnershipAdmission
    <3>2. CASE OpenReplay(c)
      <4>1. EmptyRequest \in Request
        BY BodiesAssumption DEF EmptyRequest, Request
      <4> QED BY <3>2, <4>1, TypeAdmission, OwnershipAdmission
    <3> QED BY <2>1, <3>1, <3>2
  <2>2. ASSUME NEW c \in Clients, Read(c) \/ Detach(c) \/ ReleaseReplay(c)
        PROVE  TypeOK' /\ Ownership'
    BY <2>2, TypeClient, OwnershipClient
  <2>3. CASE RunnerStep
    <3>1. state = "GENERATING" => current # None
      BY DEF Ownership
    <3> QED BY <2>3, <3>1, TypeRunner, OwnershipTasks
  <2>4. CASE SubmitterStep
    BY <2>4, TypeSubmitter, OwnershipTasks
  <2>5. CASE WatcherFails \/ NotifyClose \/ Unregister \/ Shutdown
    BY <2>5, TypeClosing, OwnershipTasks
  <2>6. CASE Tick
    BY <2>6, TypeTick, OwnershipTasks
  <2>7. CASE UNCHANGED vars
    <3>1. /\ UNCHANGED <<actor, timers, tasks, lifecycle, leases, generated>>
      BY <2>7 DEF vars
    <3>2. TypeOK'
      BY <3>1, UnchangedTypes DEF TypeOK
    <3>3. UNCHANGED <<state, in_flight, current, cleanup, client, response>>
      BY <3>1 DEF actor, lifecycle, leases
    <3> QED BY <3>2, <3>3, OwnershipKept
  <2> QED BY <2>1, <2>2, <2>3, <2>4, <2>5, <2>6, <2>7 DEF Next
<1> QED BY <1>1, <1>2, PTL DEF Spec

\* Every variable keeps its type.
THEOREM TypeCorrect == Spec => []TypeOK
<1> QED BY OwnershipInvariant, PTL

\* Fingerprints are enough to know a reservation: giving one back never frees
\* a turn that somebody else runs (_release_tool, _remove_tool).
THEOREM OneOwner == Spec => []ReservationHasOneOwner
<1>1. Ownership => ReservationHasOneOwner
  BY DEF Ownership
<1> QED BY <1>1, OwnershipInvariant, PTL

----------------------------------------------------------------------------
(* The states and the tasks.                                               *)

\* What makes StateMatchesTasks and NoGenerationBeforeSubmit inductive: only a
\* generating actor has a submitter, whose runner waits for the resume event;
\* and a runner that waits on the current token sleeps until the deadline that
\* is current too, so its wait is never dropped without a verdict.
TasksAgree ==
  /\ runner \in {"starting", "streaming"} =>
       state = "GENERATING" /\ submitter = "none"
  /\ runner = "waiting" => state \in {"WAITING_FOR_TOOLS", "GENERATING"}
  /\ submitter # "none" => state = "GENERATING" /\ runner = "waiting" /\ ~resume
  /\ state = "GENERATING" /\ runner = "waiting" /\ runner_token = wait_token
       => runner_left = generation_left
  /\ StateMatchesTasks

\* The steps that change nothing the tasks agree on.
LEMMA TasksKept ==
  ASSUME TasksAgree,
         UNCHANGED <<state, transcript, pending, current, wait_token, resume, generation_left,
                     wait_left, runner_left, runner, runner_token, submitter>>
  PROVE  TasksAgree'
BY DEF TasksAgree, StateMatchesTasks

\* Closing leaves no task and no state that asks for one.
LEMMA TasksClosed ==
  ASSUME TypeOK, TasksAgree, Fail \/ Close
  PROVE  TasksAgree'
<1>1. CASE state = "CLOSED" /\ Fail
  <2>1. UNCHANGED <<actor, timers, tasks>>
    BY <1>1 DEF Fail
  <2> QED BY <2>1, TasksKept DEF actor, timers, tasks
<1>2. CASE Close
  BY <1>2 DEF Close, TasksAgree, StateMatchesTasks
<1> QED BY <1>1, <1>2 DEF Fail

\* An admitted turn starts just the task that its state asks for.
LEMMA TasksAdmission ==
  ASSUME TypeOK, TasksAgree, NEW c \in Clients, NEW q \in Request,
         OpenReplay(c) \/ AdmitPrompt(c, q) \/ AdmitResults(c, q)
           \/ AdmitExpired(c, q)
  PROVE  TasksAgree'
<1>1. CASE OpenReplay(c)
  BY <1>1, TasksKept DEF OpenReplay, timers, tasks
<1>2. CASE AdmitPrompt(c, q)
  BY <1>2, NoneAssumption
     DEF AdmitPrompt, TasksAgree, StateMatchesTasks, TypeOK, ActorType, TaskType
<1>3. CASE AdmitResults(c, q)
  <2>1. /\ state = "WAITING_FOR_TOOLS" /\ state' = "GENERATING" /\ current' = c
        /\ wait_token' = wait_token + 1 /\ submitter' = "running" /\ resume' = FALSE
        /\ UNCHANGED <<runner, runner_token>>
    BY <1>3 DEF AdmitResults, AcceptResults
  <2>2. runner = "waiting" /\ runner_token = wait_token
    BY <2>1 DEF TasksAgree, StateMatchesTasks
  <2>3. runner_token' # wait_token' /\ current' # None
    BY <2>1, <2>2, NoneAssumption DEF TypeOK, ActorType
  <2> QED BY <2>1, <2>2, <2>3 DEF TasksAgree, StateMatchesTasks
<1>4. CASE AdmitExpired(c, q)
  BY <1>4, TasksClosed DEF AdmitExpired
<1> QED BY <1>1, <1>2, <1>3, <1>4

\* A commit ends the task together with the state that asked for it.
LEMMA TasksCommit ==
  ASSUME TypeOK, TasksAgree, CommitToolBoundary \/ CommitTerminal
  PROVE  TasksAgree'
<1> DEFINE calls == CallsOf(events)
<1>1. CASE CommitToolBoundary
  <2>1. /\ runner = "streaming" /\ state' = "WAITING_FOR_TOOLS"
        /\ wait_left' = ResultTimeout /\ runner_left' = ResultTimeout
        /\ runner_token' = wait_token' /\ runner' = "waiting"
        /\ resume' = FALSE /\ UNCHANGED submitter
    BY <1>1 DEF CommitToolBoundary, ParkAtBoundary
  <2>2. /\ current' = None /\ pending' = calls
        /\ transcript' = transcript \o MissingUser
                           \o <<[role |-> "assistant", calls |-> calls]>>
    BY <1>1 DEF CommitToolBoundary, ParkAtBoundary, Commit
  <2>3. calls # {}
    BY <1>1 DEF CommitToolBoundary, ParkAtBoundary, ToolSuffixStarted, CallsOf
  <2>4. current \in Clients /\ state = "GENERATING"
    BY <1>1 DEF CommitToolBoundary, ParkAtBoundary, TasksAgree, StateMatchesTasks,
                TypeOK, ActorType
  <2>5. transcript'[Len(transcript')].calls = calls
    <3> HIDE DEF calls
    <3> DEFINE said == transcript \o MissingUser
               m == [role |-> "assistant", calls |-> calls]
    <3>1. said \in Seq(Message)
      BY <2>4, CommitTypes, ConcatProperties DEF TypeOK, ActorType
    <3>2. calls \in SUBSET Calls
      BY DEF CallsOf, calls
    <3>3. m \in Message
      BY <3>2 DEF Message
    <3>4. m.calls = calls
      OBVIOUS
    <3> HIDE DEF said, m
    <3>5. Len(said \o <<m>>) = Len(said) + 1 /\ (said \o <<m>>)[Len(said) + 1] = m
      BY <3>1, <3>3
    <3> QED BY <2>2, <3>4, <3>5 DEF said, m
  <2>6. submitter = "none" /\ wait_left' # NoDeadline
    BY <2>1, TimeoutAssumption DEF TasksAgree, NoDeadline
  <2> QED BY <2>1, <2>2, <2>3, <2>5, <2>6 DEF TasksAgree, StateMatchesTasks
<1>2. CASE CommitTerminal
  BY <1>2 DEF CommitTerminal, Commit, TasksAgree, StateMatchesTasks
<1> QED BY <1>1, <1>2

\* The timeout of a wait: a parked actor always gets its verdict.
LEMMA TasksTimeout ==
  ASSUME TypeOK, TasksAgree, WaitTimesOut
  PROVE  TasksAgree'
<1>1. CASE Fail
  BY <1>1, TasksClosed
<1>2. CASE state = "GENERATING" /\ runner_token # wait_token /\ WaitMoves
  BY <1>2 DEF WaitMoves, actor, TasksAgree, StateMatchesTasks
<1>3. CASE /\ ~(state = "GENERATING" /\ runner_token # wait_token)
           /\ ~(ResultsOverdue \/ GenerationOverdue)
  <2>1. runner = "waiting" /\ runner_left = 0
    BY DEF WaitTimesOut, WaitAlarm
  <2>2. state \in {"WAITING_FOR_TOOLS", "GENERATING"}
    BY <2>1 DEF TasksAgree
  <2>3. FALSE
    BY <1>3, <2>1, <2>2
       DEF TasksAgree, StateMatchesTasks, ResultsOverdue, GenerationOverdue
  <2> QED BY <2>3
<1> QED BY <1>1, <1>2, <1>3 DEF WaitTimesOut

\* No other step separates the tasks from the states.
LEMMA TasksStep ==
  ASSUME TypeOK, TasksAgree,
         \/ RunnerStep \/ SubmitterStep \/ WatcherFails \/ NotifyClose
         \/ Unregister \/ Shutdown \/ Tick
         \/ \E c \in Clients : Read(c) \/ Detach(c) \/ ReleaseReplay(c)
  PROVE  TasksAgree'
<1>1. CASE CommitToolBoundary \/ CommitTerminal
  BY <1>1, TasksCommit
<1>2. CASE WaitTimesOut
  BY <1>2, TasksTimeout
<1>3. CASE StartBackend
  BY <1>3 DEF StartBackend, actor, timers, TasksAgree, StateMatchesTasks
<1>4. CASE TextEvent \/ \E k \in Calls : ToolCallEvent(k)
  BY <1>4, TasksKept DEF TextEvent, ToolCallEvent, actor, timers
<1>5. CASE \/ BackendError \/ GenerationTimesOut \/ SubmitFails \/ WatcherFails
           \/ Shutdown
  BY <1>5, TasksClosed
     DEF BackendError, GenerationTimesOut, SubmitFails, WatcherFails, Shutdown
<1>6. CASE Resume
  BY <1>6 DEF Resume, actor, TasksAgree, StateMatchesTasks
<1>7. CASE \E o \in {"accepted", "raised"} : SubmitResults(o)
  BY <1>7 DEF SubmitResults, actor, timers, TasksAgree, StateMatchesTasks
<1>8. CASE Submitted
  BY <1>8 DEF Submitted, timers, TasksAgree, StateMatchesTasks
<1>9. CASE NotifyClose \/ Unregister
  BY <1>9, TasksKept DEF NotifyClose, Unregister, actor, timers, tasks
<1>10. CASE Tick
  <2>1. UNCHANGED <<state, transcript, pending, current, wait_token, resume, runner,
                    runner_token, submitter>>
    BY <1>10 DEF Tick, actor, tasks
  <2>2. /\ generation_left' = Elapse(generation_left)
        /\ wait_left' = Elapse(wait_left) /\ runner_left' = Elapse(runner_left)
    BY <1>10 DEF Tick
  <2>3. wait_left # NoDeadline => wait_left' # NoDeadline
    BY <2>2 DEF Elapse, NoDeadline, TypeOK, TimerType, Deadline
  <2>4. /\ runner_left = wait_left => runner_left' = wait_left'
        /\ runner_left = generation_left => runner_left' = generation_left'
    BY <2>2
  <2> QED BY <2>1, <2>3, <2>4 DEF TasksAgree, StateMatchesTasks
<1>11. CASE \E c \in Clients : Read(c) \/ ReleaseReplay(c)
  BY <1>11, TasksKept DEF Read, ReleaseReplay, actor, timers, tasks
<1>12. CASE \E c \in Clients : Detach(c)
  <2>1. Close \/ UNCHANGED <<actor, timers, tasks, cleanup, queue>>
    BY <1>12 DEF Detach
  <2> QED BY <2>1, TasksClosed, TasksKept DEF actor, timers, tasks
<1> QED
  BY <1>1, <1>2, <1>3, <1>4, <1>5, <1>6, <1>7, <1>8, <1>9, <1>10, <1>11, <1>12
     DEF RunnerStep, SubmitterStep

\* In every reachable state the tasks at work are those the actor's state asks
\* for: one generation task in GENERATING, one submission in SUBMITTING.
THEOREM TasksInvariant == Spec => []TasksAgree
<1>1. Init => TasksAgree
  BY DEF Init, TasksAgree, StateMatchesTasks
<1>2. TypeOK /\ TasksAgree /\ [Next]_vars => TasksAgree'
  <2> SUFFICES ASSUME TypeOK, TasksAgree, [Next]_vars
               PROVE  TasksAgree'
    OBVIOUS
  <2>1. ASSUME NEW c \in Clients, OpenReplay(c) \/ Admit(c)
        PROVE  TasksAgree'
    <3>1. CASE Admit(c)
      BY <3>1, AdmitRequest, TasksAdmission
    <3>2. CASE OpenReplay(c)
      BY <3>2, TasksKept DEF OpenReplay, timers, tasks
    <3> QED BY <2>1, <3>1, <3>2
  <2>2. CASE UNCHANGED vars
    BY <2>2, TasksKept DEF vars, actor, timers, tasks
  <2> QED BY <2>1, <2>2, TasksStep DEF Next
<1> QED BY <1>1, <1>2, TypeCorrect, PTL DEF Spec

\* The state the clients see agrees with the tasks behind it; above all, a
\* parked actor has a runner that will time its wait out.
THEOREM StatesMatchTasks == Spec => []StateMatchesTasks
<1>1. TasksAgree => StateMatchesTasks
  BY DEF TasksAgree
<1> QED BY <1>1, TasksInvariant, PTL

\* The model is never resumed before the backend has the results.
THEOREM SubmitsBeforeGenerating == Spec => []NoGenerationBeforeSubmit
<1>1. TasksAgree => NoGenerationBeforeSubmit
  BY DEF TasksAgree, NoGenerationBeforeSubmit
<1> QED BY <1>1, TasksInvariant, PTL

----------------------------------------------------------------------------
(* What the clients see.                                                   *)

AllText(s) == \A i \in 1..Len(s) : s[i] = "text"

\* The first n events are the text before the first call.
TextOnly(n) ==
  /\ \A i \in 1..n : events[i] = "text"
  /\ n < Len(events) => events[n + 1] \in Calls

\* The response being generated is not committed and has been sent the text
\* before the first call, unless its client has gone.
SinkOK ==
  current # None =>
    /\ response[current].committed = <<>>
    /\ ~response[current].detached =>
         /\ client[current] = "reading"
         /\ \E n \in 0..Len(events) :
              TextOnly(n) /\ Delivered(current) = SubSeq(events, 1, n)

\* A response that is over without a commit has only text and an error.
StreamOK(c) ==
  /\ response[c].committed = <<>> => AllText(seen[c])
  /\ client[c] = "reading" => ~response[c].detached
  /\ client[c] = "reading" /\ response[c].committed = <<>> =>
       \A i \in 1..Len(queue[c]) : queue[c][i] \in {"text", "failure", "END"}
  /\ client[c] = "reading" /\ response[c].committed # <<>> =>
       Delivered(c) = Append(response[c].committed, "END")

\* What makes ClientsSeeTheRecord inductive.
StreamsOK ==
  /\ runner = "waiting" => events = <<>>
  /\ SinkOK
  /\ \A c \in Clients : StreamOK(c)

\* The types of a lease.
LEMMA LeaseTypes ==
  ASSUME TypeOK, NEW c \in Clients
  PROVE  /\ seen[c] \in Seq(Item) /\ queue[c] \in Seq(Item)
         /\ response[c].detached \in BOOLEAN /\ response[c].committed \in Seq(Event)
         /\ Event \subseteq Item /\ events \in Seq(Item)
<1>1. Event \subseteq Item
  BY DEF Item
<1>2. \A s \in Seq(Event) : s \in Seq(Item)
  BY <1>1, SeqMonotonic
<1> QED BY <1>1, <1>2 DEF TypeOK, LeaseType, TaskType, Response

\* What a reader gets does not change when it takes an item of its queue.
LEMMA TakeOne ==
  ASSUME NEW s \in Seq(Item), NEW q \in Seq(Item), q # <<>>
  PROVE  /\ Append(s, Head(q)) \o Tail(q) = s \o q
         /\ Head(q) \in Item /\ Head(q) = q[1] /\ Tail(q) \in Seq(Item)
         /\ Len(Tail(q)) = Len(q) - 1
         /\ \A i \in 1..Len(Tail(q)) : Tail(q)[i] = q[i + 1]
  OBVIOUS

\* What is put into the queue comes after all that was there.
LEMMA PutBehind ==
  ASSUME NEW s \in Seq(Item), NEW q \in Seq(Item), NEW t \in Seq(Item)
  PROVE  s \o (q \o t) = (s \o q) \o t
  OBVIOUS

\* A stream's next event extends what precedes the first call, or not.
LEMMA PrefixGrows ==
  ASSUME NEW es \in Seq(Item), NEW x \in Item, NEW n \in 0..Len(es)
  PROVE  /\ Append(es, x) \in Seq(Item) /\ Len(Append(es, x)) = Len(es) + 1
         /\ SubSeq(Append(es, x), 1, n) = SubSeq(es, 1, n)
         /\ n = Len(es) => SubSeq(Append(es, x), 1, n + 1) = SubSeq(es, 1, n) \o <<x>>
         /\ \A i \in 1..Len(es) : Append(es, x)[i] = es[i]
         /\ Append(es, x)[Len(es) + 1] = x
  OBVIOUS

\* A part of one element.
LEMMA PartOfOne ==
  ASSUME NEW S, NEW s, NEW l \in Int, s[l] \in S
  PROVE  /\ SubSeq(s, l, l) \in Seq(S) /\ Len(SubSeq(s, l, l)) = 1
         /\ SubSeq(s, l, l)[1] = s[l]
<1>1. \A i \in l..l : s[i] \in S
  OBVIOUS
<1>2. l - l + 1 = 1 /\ l <= l /\ 1 \in 1..1 /\ l + 1 - 1 = l
  OBVIOUS
<1>3. /\ SubSeq(s, l, l) \in Seq(S)
      /\ Len(SubSeq(s, l, l)) = IF l <= l THEN l - l + 1 ELSE 0
      /\ \A i \in 1..l - l + 1 : SubSeq(s, l, l)[i] = s[l + i - 1]
  BY <1>1, SubSeqProperties
<1> QED BY <1>2, <1>3

\* The last event alone.
LEMMA LastAlone ==
  ASSUME NEW es \in Seq(Item), NEW x \in Item
  PROVE  SubSeq(Append(es, x), Len(es) + 1, Len(es) + 1) = <<x>>
<1> DEFINE l == Len(es) + 1
           t == SubSeq(Append(es, x), l, l)
<1>1. l \in Int /\ Append(es, x)[l] = x
  BY LenProperties
<1>2. t \in Seq(Item) /\ Len(t) = 1 /\ t[1] = x
  <2> DEFINE es1 == Append(es, x)
  <2>1. l \in Int /\ es1[l] = x
    BY <1>1
  <2> HIDE DEF l, es1
  <2>2. /\ SubSeq(es1, l, l) \in Seq(Item) /\ Len(SubSeq(es1, l, l)) = 1
        /\ SubSeq(es1, l, l)[1] = es1[l]
    BY <2>1, PartOfOne
  <2> QED BY <2>1, <2>2 DEF es1
<1>3. <<x>> \in Seq(Item) /\ Len(<<x>>) = 1 /\ <<x>>[1] = x
  OBVIOUS
<1> DEFINE u == <<x>>
<1> HIDE DEF t, u
<1>4. t \in Seq(Item) /\ u \in Seq(Item) /\ Len(t) = Len(u) /\ \A i \in 1..Len(t) : t[i] = u[i]
  BY <1>2, <1>3 DEF u
<1>5. t = u
  BY <1>4, SeqEqual
<1> QED BY <1>5 DEF t, u

\* Two items are one after the other.
LEMMA TwoItems ==
  ASSUME NEW S, NEW x \in S, NEW y \in S
  PROVE  <<x>> \o <<y>> = <<x, y>>
<1> DEFINE t == <<x>> \o <<y>>
           u == <<x, y>>
<1>1. t \in Seq(S) /\ Len(t) = 2 /\ t[1] = x /\ t[2] = y
  OBVIOUS
<1>2. u \in Seq(S) /\ Len(u) = 2 /\ u[1] = x /\ u[2] = y
  OBVIOUS
<1> HIDE DEF t, u
<1>3. \A i \in 1..Len(t) : t[i] = u[i]
  BY <1>1, <1>2
<1>4. t = u
  BY <1>1, <1>2, <1>3, SeqEqual
<1> QED BY <1>4 DEF t, u

\* A prefix and the rest are the whole.
LEMMA PrefixAndRest ==
  ASSUME NEW es \in Seq(Item), NEW n \in 0..Len(es)
  PROVE  SubSeq(es, 1, n) \o SubSeq(es, n + 1, Len(es)) = es
<1>1. /\ 1 \in 1..Len(es) + 1 /\ n \in (1 - 1)..Len(es) /\ Len(es) \in n..Len(es)
  BY LenProperties
<1>2. SubSeq(es, 1, n) \o SubSeq(es, n + 1, Len(es)) = SubSeq(es, 1, Len(es))
  BY <1>1, ConcatAdjacentSubSeq
<1> QED BY <1>2, SubSeqFull

\* A stream that nothing touches stays as it was.
LEMMA StreamKept ==
  ASSUME StreamsOK, NEW c \in Clients, client'[c] = client[c], response'[c] = response[c],
         queue'[c] = queue[c], seen'[c] = seen[c]
  PROVE  StreamOK(c)'
  BY DEF StreamsOK, StreamOK, Delivered, AllText

\* Steps that touch neither the events nor the streams, and start no sink.
LEMMA StreamsKept ==
  ASSUME StreamsOK, UNCHANGED <<leases, events>>, current' \in {current, None},
         runner' = "waiting" => events = <<>>
  PROVE  StreamsOK'
<1>1. \A c \in Clients : StreamOK(c)'
  BY StreamKept DEF leases
<1>2. SinkOK'
  BY DEF StreamsOK, SinkOK, leases, TextOnly, Delivered
<1> QED BY <1>1, <1>2 DEF StreamsOK

\* A failure ends the stream of the response that was being generated.
LEMMA StreamsFail ==
  ASSUME TypeOK, StreamsOK, Fail, UNCHANGED <<client, response, seen>>
  PROVE  StreamsOK'
<1>1. CASE state = "CLOSED"
  BY <1>1, StreamsKept DEF Fail, actor, tasks, leases, StreamsOK
<1>2. CASE state # "CLOSED"
  <2>1. current' = None /\ runner' = "none" /\ ToSink(<<"failure", "END">>)
    BY <1>2 DEF Fail, Close
  <2>2. SinkOK' /\ (runner' = "waiting" => events' = <<>>)
    BY <2>1 DEF SinkOK
  <2>3. ASSUME NEW c \in Clients PROVE StreamOK(c)'
    <3>1. CASE queue'[c] = queue[c]
      BY <3>1, StreamKept
    <3>2. CASE queue'[c] # queue[c]
      <4>1. current = c /\ queue'[c] = queue[c] \o <<"failure", "END">>
        BY <2>1, <3>2 DEF ToSink, TypeOK, LeaseType
      <4>2. queue[c] \in Seq(Item) /\ <<"failure", "END">> \in Seq(Item)
        BY LeaseTypes DEF Item
      <4>3. response[c].committed = <<>>
        BY <4>1, NoneAssumption DEF StreamsOK, SinkOK
      <4>4. StreamOK(c)
        BY DEF StreamsOK
      <4>5. ASSUME NEW i \in 1..Len(queue'[c]), client[c] = "reading"
            PROVE  queue'[c][i] \in {"text", "failure", "END"}
        <5>1. \A j \in 1..Len(queue[c]) : queue[c][j] \in {"text", "failure", "END"}
          BY <4>3, <4>4, <4>5 DEF StreamOK
        <5> QED BY <4>1, <4>2, <4>5, <5>1
      <4> QED BY <4>3, <4>4, <4>5 DEF StreamOK, AllText
    <3> QED BY <3>1, <3>2
  <2> QED BY <2>2, <2>3 DEF StreamsOK
<1> QED BY <1>1, <1>2

\* A new lease has nothing in it.
LEMMA StreamsLease ==
  ASSUME TypeOK, StreamsOK, NEW c \in Clients, NEW what \in {"reading", "replaying"},
         NEW q \in Request, NEW d \in BOOLEAN, Lease(c, what, q, d)
  PROVE  /\ \A e \in Clients : StreamOK(e)'
         /\ client'[c] = what /\ seen'[c] = <<>> /\ queue'[c] = <<>>
         /\ response'[c].committed = <<>> /\ ~response'[c].detached
         /\ \A e \in Clients \ {c} : /\ client'[e] = client[e] /\ response'[e] = response[e]
                                     /\ queue'[e] = queue[e] /\ seen'[e] = seen[e]
<1>1. /\ client'[c] = what /\ seen'[c] = <<>> /\ queue'[c] = <<>>
      /\ response'[c].committed = <<>> /\ ~response'[c].detached
      /\ \A e \in Clients \ {c} : /\ client'[e] = client[e] /\ response'[e] = response[e]
                                  /\ queue'[e] = queue[e] /\ seen'[e] = seen[e]
  BY DEF Lease, NewResponse, TypeOK, LeaseType
<1>2. StreamOK(c)'
  BY <1>1 DEF StreamOK, AllText
<1> QED BY <1>1, <1>2, StreamKept

\* An admission opens a stream without events.
LEMMA StreamsAdmission ==
  ASSUME TypeOK, TasksAgree, StreamsOK, NEW c \in Clients, NEW q \in Request,
         OpenReplay(c) \/ AdmitPrompt(c, q) \/ AdmitResults(c, q) \/ AdmitExpired(c, q)
  PROVE  StreamsOK'
<1>1. CASE OpenReplay(c)
  <2>1. replay.fp \in Request /\ Lease(c, "replaying", replay.fp, FALSE)
    BY <1>1 DEF OpenReplay, TypeOK, ActorType, Recording
  <2>2. current' = current /\ current # c /\ UNCHANGED <<runner, events>>
    BY <1>1 DEF OpenReplay, Free, tasks
  <2>3. SinkOK'
    <3>1. current # None => current \in Clients \ {c}
      BY <2>2 DEF TypeOK, ActorType
    <3> QED BY ZenonT(60), <2>1, <2>2, <3>1, StreamsLease DEF StreamsOK, SinkOK, TextOnly, Delivered
  <2> QED BY <2>1, <2>2, <2>3, StreamsLease DEF StreamsOK
<1>2. CASE AdmitPrompt(c, q) \/ AdmitResults(c, q)
  <2>1. /\ \E d \in BOOLEAN : Lease(c, "reading", q, d)
        /\ current' = c
        /\ runner' # "waiting" \/ runner' = runner
    BY <1>2 DEF AdmitPrompt, AdmitResults, AcceptResults
  <2>2. events' = <<>>
    <3>1. state = "WAITING_FOR_TOOLS" => runner = "waiting"
      BY DEF TasksAgree, StateMatchesTasks
    <3> QED BY <1>2, <3>1 DEF AdmitPrompt, AdmitResults, AcceptResults, StreamsOK
  <2>3. SinkOK'
    <3>1. /\ client'[c] = "reading" /\ Delivered(c)' = <<>>
          /\ response'[c].committed = <<>>
      BY <2>1, StreamsLease DEF Delivered
    <3>2. TextOnly(0)' /\ Delivered(c)' = SubSeq(events', 1, 0) /\ 0 \in 0..Len(events')
      BY <2>2, <3>1 DEF TextOnly
    <3> QED BY <2>1, <3>1, <3>2 DEF SinkOK
  <2> QED BY <2>1, <2>2, <2>3, StreamsLease DEF StreamsOK
<1>3. CASE AdmitExpired(c, q)
  BY <1>3, StreamsFail DEF AdmitExpired
<1> QED BY <1>1, <1>2, <1>3

\* Text is forwarded before the first call, nothing after it; a call is kept back.
LEMMA StreamsEvent ==
  ASSUME TypeOK, StreamsOK, TextEvent \/ \E k \in Calls : ToolCallEvent(k)
  PROVE  StreamsOK'
<1>1. PICK x \in Calls \cup {"text"} :
        /\ events' = Append(events, x)
        /\ (x = "text" /\ TextEvent) \/ (x \in Calls /\ ToolCallEvent(x))
  BY DEF TextEvent, ToolCallEvent
<1>2. /\ runner' = "streaming" /\ UNCHANGED <<current, client, response, seen>>
      /\ x # "text" \/ ToolSuffixStarted => queue' = queue
      /\ x = "text" /\ ~ToolSuffixStarted => ToSink(<<"text">>)
  <2>1. CASE x = "text" /\ TextEvent
    BY <2>1 DEF TextEvent, actor
  <2>2. CASE x \in Calls /\ ToolCallEvent(x)
    BY <2>2, CallsAssumption DEF ToolCallEvent, actor, leases
  <2> QED BY <1>1, <2>1, <2>2
<1>3. x \in Item /\ events \in Seq(Item) /\ <<"text">> \in Seq(Item)
  BY DEF Item, Event, TypeOK, TaskType
<1>4. ToolSuffixStarted <=> \E i \in 1..Len(events) : events[i] \in Calls
  BY DEF ToolSuffixStarted
<1>5. ASSUME current # None, ~response[current].detached
      PROVE  /\ current \in Clients /\ client[current] = "reading"
             /\ response[current].committed = <<>>
             /\ \E n \in 0..Len(events') :
                  TextOnly(n)' /\ Delivered(current)' = SubSeq(events', 1, n)
  <2>1. /\ current \in Clients /\ client[current] = "reading"
        /\ response[current].committed = <<>>
    BY <1>5 DEF StreamsOK, SinkOK, TypeOK, ActorType
  <2>2. PICK n \in 0..Len(events) :
          TextOnly(n) /\ Delivered(current) = SubSeq(events, 1, n)
    BY <1>5 DEF StreamsOK, SinkOK
  <2>3. /\ events' \in Seq(Item) /\ Len(events') = Len(events) + 1
        /\ SubSeq(events', 1, n) = SubSeq(events, 1, n)
        /\ n = Len(events) => SubSeq(events', 1, n + 1) = SubSeq(events, 1, n) \o <<x>>
        /\ \A i \in 1..Len(events) : events'[i] = events[i]
        /\ events'[Len(events) + 1] = x
    BY <1>1, <1>3, PrefixGrows
  <2>4. n < Len(events) => ToolSuffixStarted
    <3>1. n < Len(events) => n + 1 \in 1..Len(events) /\ events[n + 1] \in Calls
      BY <2>2, <1>3 DEF TextOnly
    <3> QED BY <1>4, <3>1
  <2>5. n = Len(events) => ~ToolSuffixStarted
    BY <2>2, <1>4, CallsAssumption DEF TextOnly
  <2>6. Len(events) \in Nat
    BY <1>3
  <2>7. CASE n < Len(events) \/ x # "text"
    <3>1. queue' = queue
      BY <1>2, <2>4, <2>7
    <3>2. Delivered(current)' = SubSeq(events', 1, n)
      BY <1>2, <2>2, <2>3, <3>1 DEF Delivered
    <3>3. TextOnly(n)'
      <4>1. n < Len(events) => n + 1 \in 1..Len(events)
        BY <2>6
      <4>2. n < Len(events) => events'[n + 1] \in Calls
        BY <2>2, <2>3, <4>1 DEF TextOnly
      <4>3. n = Len(events) => events'[n + 1] \in Calls
        BY <2>3, <2>7, <1>1
      <4>4. \A i \in 1..n : events'[i] = "text"
        BY <2>2, <2>3, <2>6 DEF TextOnly
      <4> QED BY <4>2, <4>3, <4>4, <2>6 DEF TextOnly
    <3> QED BY <2>1, <2>3, <2>6, <3>2, <3>3
  <2>8. CASE n = Len(events) /\ x = "text"
    <3>1. queue' = [queue EXCEPT ![current] = @ \o <<"text">>]
      BY <1>2, <1>5, <2>5, <2>8 DEF ToSink
    <3>2. queue'[current] = queue[current] \o <<"text">>
      BY <2>1, <3>1 DEF TypeOK, LeaseType
    <3>3. seen[current] \in Seq(Item) /\ queue[current] \in Seq(Item)
      BY <2>1, LeaseTypes
    <3>4. Delivered(current)' = SubSeq(events', 1, n + 1)
      <4>1. Delivered(current)' = seen[current] \o (queue[current] \o <<"text">>)
        BY <1>2, <3>2 DEF Delivered
      <4>2. @ = Delivered(current) \o <<"text">>
        BY <1>3, <3>3, PutBehind DEF Delivered
      <4> QED BY <4>1, <4>2, <2>2, <2>3, <2>8
    <3>5. TextOnly(n + 1)'
      BY <2>2, <2>3, <2>6, <2>8 DEF TextOnly
    <3>6. n + 1 \in 0..Len(events')
      BY <2>3, <2>6, <2>8
    <3> QED BY <2>1, <3>4, <3>5, <3>6
  <2> QED BY <2>1, <2>6, <2>7, <2>8
<1>6. SinkOK'
  BY <1>2, <1>5 DEF StreamsOK, SinkOK
<1>7. ASSUME NEW c \in Clients PROVE StreamOK(c)'
  <2>1. CASE queue'[c] = queue[c]
    BY <1>2, <2>1, StreamKept
  <2>2. CASE queue'[c] # queue[c]
    <3>1. c = current /\ queue'[c] = queue[c] \o <<"text">>
      BY <1>2, <2>2 DEF ToSink, TypeOK, LeaseType
    <3>2. response[c].committed = <<>> /\ StreamOK(c) /\ queue[c] \in Seq(Item)
      BY <3>1, NoneAssumption, LeaseTypes DEF StreamsOK, SinkOK
    <3>3. ASSUME client[c] = "reading", NEW i \in 1..Len(queue'[c])
          PROVE  queue'[c][i] \in {"text", "failure", "END"}
      BY <3>1, <3>2, <3>3 DEF StreamOK
    <3> QED BY <1>2, <3>2, <3>3 DEF StreamOK, AllText
  <2> QED BY <2>1, <2>2
<1> QED BY <1>2, <1>6, <1>7 DEF StreamsOK

\* What is held back begins with the first call.
LEMMA TailIsTheRest ==
  ASSUME NEW es \in Seq(Item), NEW n \in 0..Len(es), n < Len(es),
         \A i \in 1..n : es[i] = "text", es[n + 1] \in Calls
  PROVE  TailFrom(es) = SubSeq(es, n + 1, Len(es))
<1> DEFINE First(i) == /\ es[i] \in Calls
                       /\ \A j \in 1..(i-1) : es[j] \notin Calls
           k == CHOOSE i \in 1..Len(es) : First(i)
<1>1. Len(es) \in Nat /\ n + 1 \in 1..Len(es)
  BY LenProperties
<1>2. First(n + 1)
  BY <1>1, CallsAssumption
<1>3. k \in 1..Len(es) /\ First(k)
  BY <1>1, <1>2
<1>4. k = n + 1
  <2> HIDE DEF k
  <2>1. ~(k < n + 1)
    BY <1>1, <1>3, CallsAssumption
  <2>2. ~(n + 1 < k)
    BY <1>1, <1>2, <1>3
  <2> QED BY <1>1, <1>3, <2>1, <2>2
<1> QED BY <1>4 DEF TailFrom

\* A commit forwards what was kept back: the client then has the whole recording.
LEMMA StreamsCommit ==
  ASSUME TypeOK, TasksAgree, StreamsOK, CommitToolBoundary \/ CommitTerminal
  PROVE  StreamsOK'
<1> DEFINE last == IF ToolSuffixStarted THEN "tool_use" ELSE "end_turn"
           es == Append(events, last)
           rest == IF ToolSuffixStarted THEN TailFrom(es) ELSE <<"end_turn">>
<1>1. /\ state = "GENERATING" /\ current' = None /\ events' = <<>>
      /\ UNCHANGED <<client, seen>>
      /\ response' = [response EXCEPT ![current].durable = TRUE, ![current].committed = es]
  BY DEF CommitToolBoundary, ParkAtBoundary, CommitTerminal, Commit
<1>2. ToSink(rest \o <<"END">>)
  <2>1. CASE CommitToolBoundary
    BY <2>1 DEF CommitToolBoundary, ParkAtBoundary
  <2>2. CASE CommitTerminal
    <3>1. ToSink(<<"end_turn", "END">>) /\ rest = <<"end_turn">>
      BY <2>2 DEF CommitTerminal
    <3>2. <<"end_turn">> \o <<"END">> = <<"end_turn", "END">>
      <4>1. "end_turn" \in Item /\ "END" \in Item
        BY DEF Item, Event, StopReasons
      <4> QED BY <4>1, TwoItems, Zenon
    <3> QED BY <3>1, <3>2
  <2> QED BY <2>1, <2>2
<1>3. current \in Clients /\ current # None
  BY <1>1 DEF TasksAgree, StateMatchesTasks, TypeOK, ActorType
<1>4. last \in Item /\ events \in Seq(Item) /\ Len(events) \in Nat
  BY LenProperties, <1>3, LeaseTypes DEF Item, Event, StopReasons
<1>5. es \in Seq(Item) /\ es # <<>> /\ Len(es) = Len(events) + 1
  <2> HIDE DEF last
  <2> QED BY <1>4, PrefixGrows
<1>6. SinkOK' /\ (runner' = "waiting" => events' = <<>>)
  BY <1>1 DEF SinkOK
<1>7. ASSUME NEW c \in Clients, c # current PROVE StreamOK(c)'
  <2>1. response'[c] = response[c]
    BY <1>1, <1>7 DEF TypeOK, LeaseType
  <2>2. queue'[c] = queue[c]
    BY <1>2, <1>7 DEF ToSink, TypeOK, LeaseType
  <2> QED BY <1>1, <2>1, <2>2, StreamKept
<1>8. ASSUME NEW c \in Clients, c = current PROVE StreamOK(c)'
  <2>1. response'[c].committed = es /\ response'[c].detached = response[c].detached
    <3> HIDE DEF es
    <3> QED BY <1>1, <1>3, <1>8 DEF TypeOK, LeaseType, Response
  <2>2. client[c] = "reading" => ~response[c].detached
    BY <1>3, <1>8 DEF StreamsOK, StreamOK
  <2>3. ASSUME client[c] = "reading"
        PROVE  Delivered(c)' = Append(es, "END")
    <3>1. PICK n \in 0..Len(events) :
            TextOnly(n) /\ Delivered(c) = SubSeq(events, 1, n)
      BY <1>3, <1>8, <2>2, <2>3 DEF StreamsOK, SinkOK
    <3>2. queue'[c] = queue[c] \o (rest \o <<"END">>)
      <4> HIDE DEF rest
      <4> QED BY <1>2, <1>3, <1>8, <2>2, <2>3 DEF ToSink, TypeOK, LeaseType
    <3>3. n \in 0..Len(es) /\ n < Len(es) /\ SubSeq(es, 1, n) = SubSeq(events, 1, n)
      <4> HIDE DEF last
      <4> QED BY <1>4, PrefixGrows
    <3>4. rest = SubSeq(es, n + 1, Len(es))
      <4>1. CASE n < Len(events)
        <5>1. n + 1 \in 1..Len(events) /\ events[n + 1] \in Calls
          BY <1>4, <3>1, <4>1 DEF TextOnly
        <5>2. ToolSuffixStarted
          BY <5>1 DEF ToolSuffixStarted
        <5>3. (\A i \in 1..n : es[i] = "text") /\ es[n + 1] \in Calls
          <6> HIDE DEF last
          <6>1. \A i \in 1..Len(events) : es[i] = events[i]
            BY <1>4, PrefixGrows
          <6> QED BY <1>4, <3>1, <5>1, <6>1 DEF TextOnly
        <5>4. TailFrom(es) = SubSeq(es, n + 1, Len(es))
          <6> HIDE DEF es
          <6> QED BY <1>5, <3>3, <5>3, TailIsTheRest
        <5> QED BY <5>2, <5>4
      <4>2. CASE n = Len(events)
        <5>1. ~ToolSuffixStarted
          BY <3>1, <4>2, CallsAssumption DEF TextOnly, ToolSuffixStarted
        <5>2. SubSeq(es, n + 1, Len(es)) = <<last>>
          <6> HIDE DEF last
          <6> QED BY <1>4, <1>5, <4>2, LastAlone
        <5> QED BY <5>1, <5>2
      <4> QED BY <1>4, <4>1, <4>2
    <3>5. SubSeq(es, 1, n) \o rest = es
      <4> HIDE DEF es, rest
      <4> QED BY <1>5, <3>3, <3>4, PrefixAndRest
    <3>6. /\ seen[c] \in Seq(Item) /\ queue[c] \in Seq(Item)
          /\ <<"END">> \in Seq(Item) /\ rest \in Seq(Item)
      <4>1. SubSeq(es, n + 1, Len(es)) \in Seq(Item)
        <5> HIDE DEF es
        <5> QED BY <1>5, <3>3
      <4>2. <<"END">> \in Seq(Item)
        BY DEF Item
      <4> HIDE DEF rest, es
      <4> QED BY <1>3, <1>8, <3>4, <4>1, <4>2, LeaseTypes
    <3>7. Delivered(c)' = seen[c] \o (queue[c] \o (rest \o <<"END">>))
      <4> HIDE DEF rest
      <4> QED BY <1>1, <3>2 DEF Delivered
    <3>8. @ = (Delivered(c) \o rest) \o <<"END">>
      <4> HIDE DEF rest
      <4>1. Delivered(c) \in Seq(Item) /\ rest \o <<"END">> \in Seq(Item)
        BY <3>6 DEF Delivered
      <4>2. seen[c] \o (queue[c] \o (rest \o <<"END">>)) = Delivered(c) \o (rest \o <<"END">>)
        BY ZenonT(60), <3>6, <4>1, PutBehind DEF Delivered
      <4> QED BY ZenonT(60), <3>6, <4>1, <4>2, PutBehind
    <3>9. @ = es \o <<"END">>
      BY <3>1, <3>3, <3>5
    <3>10. es \o <<"END">> = Append(es, "END")
      <4> HIDE DEF es
      <4> QED BY <1>5
    <3> QED BY <3>7, <3>8, <3>9, <3>10
  <2> HIDE DEF es
  <2> QED BY <1>1, <1>5, <2>1, <2>2, <2>3 DEF StreamOK
<1> QED BY <1>6, <1>7, <1>8 DEF StreamsOK

\* A reader moves what it takes from the queue to what it has seen.
LEMMA StreamsRead ==
  ASSUME TypeOK, StreamsOK, NEW c \in Clients, Read(c)
  PROVE  StreamsOK'
<1> DEFINE item == Head(queue[c])
<1>1. /\ client[c] = "reading" /\ queue[c] # <<>>
      /\ client'[c] = IF item \in {"failure", "END"} THEN "idle" ELSE "reading"
      /\ seen'[c] = IF item \in Event THEN Append(seen[c], item) ELSE seen[c]
      /\ response'[c].detached = (response[c].detached \/ item = "failure")
      /\ response'[c].committed = response[c].committed
      /\ queue'[c] = Tail(queue[c])
      /\ UNCHANGED <<runner, events, current>>
  BY DEF Read, TypeOK, LeaseType, Response, actor, tasks
<1>2. \A e \in Clients \ {c} : /\ client'[e] = client[e] /\ response'[e] = response[e]
                               /\ queue'[e] = queue[e] /\ seen'[e] = seen[e]
  BY DEF Read, TypeOK, LeaseType, Response
<1>3. seen[c] \in Seq(Item) /\ queue[c] \in Seq(Item)
  BY LeaseTypes
<1>4. /\ Append(seen[c], item) \o Tail(queue[c]) = Delivered(c)
      /\ item \in Item /\ item = queue[c][1] /\ Tail(queue[c]) \in Seq(Item)
      /\ Len(Tail(queue[c])) = Len(queue[c]) - 1
      /\ \A i \in 1..Len(Tail(queue[c])) : Tail(queue[c])[i] = queue[c][i + 1]
  BY <1>1, <1>3, TakeOne DEF Delivered
<1>5. item \in Event <=> item \notin {"failure", "END"}
  BY <1>4, CallsAssumption DEF Item, Event, StopReasons
<1>6. client'[c] = "reading" => item \in Event /\ Delivered(c)' = Delivered(c)
                                /\ response'[c].detached = response[c].detached
  <2>1. response[c].detached \in BOOLEAN
    BY LeaseTypes
  <2> HIDE DEF item
  <2>2. ASSUME client'[c] = "reading"
        PROVE  /\ item \in Event /\ item # "failure"
               /\ seen'[c] \o queue'[c] = Append(seen[c], item) \o Tail(queue[c])
    BY <1>1, <1>5, <2>2
  <2> QED BY <1>1, <1>4, <2>1, <2>2 DEF Delivered
<1>7. StreamOK(c)'
  <2>1. StreamOK(c)
    BY DEF StreamsOK
  <2>2. ASSUME response[c].committed = <<>>
        PROVE  /\ AllText(seen'[c])
               /\ \A i \in 1..Len(queue'[c]) : queue'[c][i] \in {"text", "failure", "END"}
    <3>1. Len(queue[c]) \in Nat /\ Len(queue[c]) # 0
      BY <1>1, <1>3, LenProperties, EmptySeq
    <3>2. item \in {"text", "failure", "END"}
      BY <1>1, <1>4, <2>1, <2>2, <3>1 DEF StreamOK
    <3>3. AllText(seen'[c])
      BY <1>1, <1>3, <1>4, <1>5, <2>1, <2>2, <3>2 DEF StreamOK, AllText
    <3>4. \A i \in 1..Len(queue'[c]) : i + 1 \in 1..Len(queue[c])
      BY <1>1, <1>4, <3>1
    <3> QED BY <1>1, <1>4, <2>1, <2>2, <3>3, <3>4 DEF StreamOK
  <2> HIDE DEF item
  <2> QED BY <1>1, <1>6, <2>1, <2>2 DEF StreamOK
<1>8. SinkOK'
  <2>1. CASE current # None /\ current # c
    <3>1. current \in Clients \ {c}
      BY <2>1 DEF TypeOK, ActorType
    <3> QED BY <1>1, <1>2, <2>1, <3>1 DEF StreamsOK, SinkOK, Delivered, TextOnly
  <2>2. CASE current = c /\ current # None
    <3>1. response[c].committed = <<>> /\ ~response[c].detached
      BY <1>1, <2>2 DEF StreamsOK, SinkOK, StreamOK
    <3>2. PICK n \in 0..Len(events) : TextOnly(n) /\ Delivered(c) = SubSeq(events, 1, n)
      BY <2>2, <3>1 DEF StreamsOK, SinkOK
    <3>3. item = "text"
      <4>1. item = Delivered(c)[Len(seen[c]) + 1] /\ Len(seen[c]) + 1 \in 1..Len(Delivered(c))
        <5> DEFINE m == Len(seen[c])
                   k == Len(queue[c])
        <5>1. m \in Nat /\ k \in Nat /\ k # 0
          BY <1>1, <1>3, LenProperties, EmptySeq
        <5>2. Len(Delivered(c)) = m + k
              /\ \A i \in 1..m + k : Delivered(c)[i] = IF i <= m THEN seen[c][i]
                                                                ELSE queue[c][i - m]
          BY <1>3, ConcatProperties DEF Delivered
        <5> HIDE DEF m, k
        <5>3. m + 1 \in 1..m + k /\ (m + 1) - m = 1 /\ ~(m + 1 <= m)
          BY <5>1
        <5>4. Delivered(c)[m + 1] = queue[c][1] /\ m + 1 \in 1..Len(Delivered(c))
          BY <5>2, <5>3
        <5> QED BY <1>4, <5>4 DEF m
      <4>2. events \in Seq(Item) /\ Len(SubSeq(events, 1, n)) = n
            /\ \A i \in 1..n : SubSeq(events, 1, n)[i] = events[i]
        BY LeaseTypes
      <4> QED BY <3>2, <4>1, <4>2 DEF TextOnly
    <3>4. client'[c] = "reading" /\ ~response'[c].detached /\ Delivered(c)' = Delivered(c)
      <4> HIDE DEF item
      <4> QED BY <1>1, <1>6, <3>1, <3>3
    <3> QED BY <1>1, <2>2, <3>1, <3>2, <3>4 DEF SinkOK, TextOnly
  <2> QED BY <1>1, <2>1, <2>2 DEF SinkOK
<1> QED BY <1>1, <1>2, <1>7, <1>8, StreamKept DEF StreamsOK

\* A client that leaves reads nothing more; a replay leaves all streams alone.
LEMMA StreamsLeave ==
  ASSUME TypeOK, StreamsOK, NEW c \in Clients, Detach(c) \/ ReleaseReplay(c)
  PROVE  StreamsOK'
<1>1. /\ client'[c] = "idle" /\ UNCHANGED <<seen, queue, events>>
      /\ response'[c].committed = response[c].committed
      /\ \A e \in Clients \ {c} : client'[e] = client[e] /\ response'[e] = response[e]
      /\ current' \in {current, None} /\ (runner' = "waiting" => runner = "waiting")
      /\ client[c] = "replaying" \/ response'[c].detached
  BY DEF Detach, ReleaseReplay, Close, TypeOK, LeaseType, Response, actor, tasks
<1>2. StreamOK(c)'
  BY <1>1 DEF StreamsOK, StreamOK, AllText
<1>3. SinkOK'
  <2>1. CASE current' = None
    BY <2>1 DEF SinkOK
  <2>2. CASE current' = current /\ current # None /\ current # c
    <3>1. current \in Clients \ {c}
      BY <2>2 DEF TypeOK, ActorType
    <3> QED BY <1>1, <2>2, <3>1 DEF StreamsOK, SinkOK, Delivered, TextOnly
  <2>3. CASE current' = current /\ current = c /\ current # None
    <3>1. CASE response'[c].detached
      BY <1>1, <2>3, <3>1 DEF StreamsOK, SinkOK
    <3>2. CASE client[c] = "replaying" /\ ~response'[c].detached
      <4>1. response'[c] = response[c]
        BY <3>2 DEF Detach, ReleaseReplay
      <4> QED BY <2>3, <3>2, <4>1 DEF StreamsOK, SinkOK
    <3> QED BY <1>1, <3>1, <3>2
  <2> QED BY <1>1, <2>1, <2>2, <2>3
<1> QED BY <1>1, <1>2, <1>3, StreamKept DEF StreamsOK

\* The other steps leave the streams alone, or fail.
LEMMA StreamsStep ==
  ASSUME TypeOK, TasksAgree, StreamsOK,
         \/ RunnerStep \/ SubmitterStep \/ WatcherFails \/ NotifyClose
         \/ Unregister \/ Shutdown \/ Tick
  PROVE  StreamsOK'
<1>1. CASE CommitToolBoundary \/ CommitTerminal
  BY <1>1, StreamsCommit
<1>2. CASE TextEvent \/ \E k \in Calls : ToolCallEvent(k)
  BY <1>2, StreamsEvent
<1>3. CASE \/ BackendError \/ GenerationTimesOut \/ SubmitFails \/ WatcherFails
           \/ Shutdown
  BY <1>3, StreamsFail
     DEF BackendError, GenerationTimesOut, SubmitFails, WatcherFails, Shutdown
<1>4. CASE StartBackend \/ Resume \/ (\E o \in {"accepted", "raised"} : SubmitResults(o))
           \/ Submitted \/ NotifyClose \/ Unregister \/ Tick
  <2>1. /\ UNCHANGED <<leases, events, current>>
        /\ runner' = "waiting" => runner = "waiting"
    BY <1>4 DEF StartBackend, Resume, SubmitResults, Submitted, NotifyClose, Unregister,
                Tick, actor, tasks
  <2> QED BY <2>1, StreamsKept DEF StreamsOK
<1>5. CASE WaitTimesOut
  <2>1. CASE Fail
    BY <1>5, <2>1, StreamsFail DEF WaitTimesOut, WaitAlarm
  <2>2. CASE WaitMoves \/ WaitDropped
    BY <1>5, <2>2, StreamsKept DEF WaitTimesOut, WaitAlarm, WaitMoves, WaitDropped, actor,
       leases, StreamsOK
  <2> QED BY <1>5, <2>1, <2>2 DEF WaitTimesOut
<1> QED
  BY <1>1, <1>2, <1>3, <1>4, <1>5 DEF RunnerStep, SubmitterStep

\* Every stream is the text before the first call while its turn is generated,
\* and the recording once it is committed (_send, _commit_tool_boundary).
THEOREM StreamsInvariant == Spec => []StreamsOK
<1>1. Init => StreamsOK
  BY DEF Init, NewResponse, StreamsOK, SinkOK, StreamOK, AllText
<1>2. TypeOK /\ TasksAgree /\ StreamsOK /\ [Next]_vars => StreamsOK'
  <2> SUFFICES ASSUME TypeOK, TasksAgree, StreamsOK, [Next]_vars
               PROVE  StreamsOK'
    OBVIOUS
  <2>1. ASSUME NEW c \in Clients, OpenReplay(c) \/ Admit(c)
        PROVE  StreamsOK'
    <3>1. EmptyRequest \in Request
      BY BodiesAssumption DEF EmptyRequest, Request
    <3> QED BY <2>1, <3>1, AdmitRequest, StreamsAdmission
  <2>2. ASSUME NEW c \in Clients, Read(c) \/ Detach(c) \/ ReleaseReplay(c)
        PROVE  StreamsOK'
    BY <2>2, StreamsRead, StreamsLeave
  <2>3. CASE UNCHANGED vars
    BY <2>3, StreamsKept DEF vars, actor, tasks, StreamsOK
  <2> QED BY <2>1, <2>2, <2>3, StreamsStep DEF Next
<1> QED BY <1>1, <1>2, TypeCorrect, TasksInvariant, PTL DEF Spec

\* What a client has been shown is on record, and what it is shown of a turn that
\* is committed while it listens is the whole record (ToolTurnLease, _send).
THEOREM StreamsAreRecorded == Spec => []ClientsSeeTheRecord
<1>1. TypeOK /\ StreamsOK => ClientsSeeTheRecord
  BY DEF StreamsOK, StreamOK, AllText, ClientsSeeTheRecord, VisibleOnlyAfterCommit,
         LiveStreamIsTheRecording
<1> QED BY <1>1, StreamsInvariant, TypeCorrect, PTL

----------------------------------------------------------------------------
(* The record, and the conversation the actor implements.                  *)

Even(n) == n % 2 = 0

\* What makes RecordIsFinal inductive, and maps the actor to ToolConversation:
\* every request generated before quotes less than the transcript has now, and the
\* one being generated quotes all of it or, when it brought results, all but them.
RecordOK ==
  /\ \A g \in generated :
       /\ state = "GENERATING" => g.base <= Len(transcript)
       /\ state \in {"READY", "WAITING_FOR_TOOLS"} => g.base < Len(transcript)
  /\ state \in {"READY", "WAITING_FOR_TOOLS"} => Even(Len(transcript))
  /\ state = "GENERATING" =>
       LET q == response[current].fp
       IN \/ q.base = Len(transcript) /\ q.results = {} /\ Even(Len(transcript))
          \/ q.base + 1 = Len(transcript) /\ ~Even(Len(transcript))

\* What a step does to the state and the transcript: what the conversation allows.
Stutters == UNCHANGED <<state, transcript>>
Promised == Promise!Next \/ Stutters

\* Where the transcript and the request of the sink are kept, so is the record.
LEMMA RecordKept ==
  ASSUME RecordOK, UNCHANGED <<state, transcript, current, generated>>,
         state = "GENERATING" => response'[current].fp = response[current].fp
  PROVE  RecordOK' /\ Stutters
  BY DEF RecordOK, Stutters

\* Closing keeps the transcript.
LEMMA RecordClosed ==
  ASSUME RecordOK, Close \/ Fail, UNCHANGED <<generated, response>>
  PROVE  RecordOK' /\ (Promise!Close \/ Stutters)
<1>1. CASE state = "CLOSED" /\ Fail
  BY <1>1 DEF Fail, actor, RecordOK, Stutters
<1>2. CASE Close
  BY <1>2 DEF Close, RecordOK, Promise!Close, Stutters
<1> QED BY <1>1, <1>2 DEF Fail

\* The transcript is a sequence, and what is appended to it is at its end.
LEMMA Extends ==
  ASSUME NEW s \in Seq(Message), NEW m1 \in Message, NEW m2 \in Message
  PROVE  /\ Len(s) \in Nat
         /\ Len(Append(s, m1)) = Len(s) + 1
         /\ Append(s, m1) = s \o <<m1>>
         /\ (s \o <<m1>>) \o <<m2>> = s \o <<m1, m2>>
         /\ Len(s \o <<m1, m2>>) = Len(s) + 2
         /\ SubSeq(s \o <<m1>>, 1, Len(s)) = s
         /\ SubSeq(s \o <<m1, m2>>, 1, Len(s)) = s
         /\ s \o <<>> = s
<1>1. s \o <<m1>> \in Seq(Message) /\ s \o <<m1, m2>> \in Seq(Message)
  OBVIOUS
<1>2. /\ Len(s) \in Nat /\ Len(Append(s, m1)) = Len(s) + 1
      /\ Append(s, m1) = s \o <<m1>> /\ Len(s \o <<m1, m2>>) = Len(s) + 2
  OBVIOUS
<1>3. (s \o <<m1>>) \o <<m2>> = s \o <<m1, m2>>
  <2>1. <<m1>> \in Seq(Message) /\ <<m2>> \in Seq(Message)
    OBVIOUS
  <2>2. <<m1>> \o <<m2>> = <<m1, m2>>
    BY TwoItems, Zenon
  <2>3. (s \o <<m1>>) \o <<m2>> = s \o (<<m1>> \o <<m2>>)
    <3> DEFINE t == <<m1>>
               u == <<m2>>
    <3>1. s \in Seq(Message) /\ t \in Seq(Message) /\ u \in Seq(Message)
      BY <2>1
    <3> HIDE DEF t, u
    <3>2. (s \o t) \o u = s \o (t \o u)
      BY <3>1, ConcatAssociative
    <3> QED BY <3>2 DEF t, u
  <2> QED BY <2>2, <2>3, Zenon
<1>4. SubSeq(s \o <<m1>>, 1, Len(s)) = s
  OBVIOUS
<1>5. SubSeq(s \o <<m1, m2>>, 1, Len(s)) = s
  OBVIOUS
<1>6. s \o <<>> = s
  OBVIOUS
<1> QED BY <1>2, <1>3, <1>4, <1>5, <1>6

\* An admission generates a request that is new, and answers pending calls only.
LEMMA RecordAdmission ==
  ASSUME TypeOK, TasksAgree, RecordOK, NEW c \in Clients, NEW q \in Request,
         AdmitPrompt(c, q) \/ AdmitResults(c, q)
  PROVE  /\ RecordOK' /\ CommittedIsKept
         /\ Promise!Prompt \/ Promise!Results
         /\ current' = c /\ response'[c].fp = q /\ q \notin generated
<1>1. /\ current' = c /\ response'[c].fp = q /\ state' = "GENERATING"
      /\ generated' = generated \cup {q} /\ q.base = Len(transcript)
      /\ state \in {"READY", "WAITING_FOR_TOOLS"}
  BY DEF AdmitPrompt, AdmitResults, AcceptResults, Lease, NewResponse, Continues, TypeOK, LeaseType
<1>2. transcript \in Seq(Message) /\ Len(transcript) \in Nat
  BY LenProperties DEF TypeOK, ActorType
<1>3. /\ \A g \in generated : g.base < Len(transcript) /\ g.base \in Nat
      /\ Even(Len(transcript)) /\ q \notin generated
  BY <1>1, <1>2 DEF RecordOK, TypeOK, Request
<1>4. CASE AdmitPrompt(c, q)
  <2>1. state = "READY" /\ q.results = {} /\ transcript' = transcript
    BY <1>4 DEF AdmitPrompt
  <2>2. RecordOK'
    BY <1>1, <1>2, <1>3, <2>1 DEF RecordOK
  <2>3. CommittedIsKept /\ Promise!Prompt
    BY <1>1, <1>2, <2>1, SubSeqFull DEF CommittedIsKept, Promise!Prompt
  <2> QED BY <1>1, <1>3, <2>2, <2>3
<1>5. CASE AdmitResults(c, q)
  <2>1. /\ state = "WAITING_FOR_TOOLS" /\ q.results = pending
        /\ transcript' = Append(transcript, ResultMessage(q))
    BY <1>5 DEF AdmitResults, AcceptResults
  <2>2. ResultMessage(q) = Promise!User(transcript[Len(transcript)].calls)
        /\ ResultMessage(q) \in Message
    BY <2>1 DEF ResultMessage, Promise!User, TasksAgree, StateMatchesTasks, Message, Request
  <2>3. /\ Len(transcript') = Len(transcript) + 1
        /\ SubSeq(transcript', 1, Len(transcript)) = transcript
    <3> HIDE DEF ResultMessage
    <3> QED BY <1>2, <2>1, <2>2, Extends
  <2>4. ~Even(Len(transcript) + 1)
    BY <1>2, <1>3 DEF Even
  <2>5. RecordOK'
    <3>1. \A g \in generated' : g.base <= Len(transcript')
      BY <1>1, <1>2, <1>3, <2>3
    <3>2. q.base + 1 = Len(transcript') /\ ~Even(Len(transcript'))
      BY <1>1, <1>2, <2>3, <2>4
    <3> QED BY <1>1, <3>1, <3>2 DEF RecordOK
  <2>6. CommittedIsKept /\ Promise!Results
    BY <1>1, <1>2, <2>1, <2>2, <2>3 DEF CommittedIsKept, Promise!Results
  <2> QED BY <1>1, <1>3, <2>5, <2>6
<1> QED BY <1>4, <1>5

\* A commit adds the answer, and before it the prompt unless the results are there.
LEMMA RecordCommit ==
  ASSUME TypeOK, TasksAgree, RecordOK, CommitToolBoundary \/ CommitTerminal
  PROVE  /\ RecordOK' /\ CommittedIsKept /\ current' = None
         /\ \E calls \in SUBSET Calls : Promise!Answer(calls)
<1> DEFINE calls == IF ToolSuffixStarted THEN CallsOf(events) ELSE {}
           q == response[current].fp
           answer == [role |-> "assistant", calls |-> calls]
<1>1. /\ state = "GENERATING" /\ current' = None /\ UNCHANGED generated
      /\ transcript' = transcript \o MissingUser \o <<answer>>
      /\ state' = IF ToolSuffixStarted THEN "WAITING_FOR_TOOLS" ELSE "READY"
  BY DEF CommitToolBoundary, ParkAtBoundary, CommitTerminal, Commit
<1>2. calls \in SUBSET Calls /\ (ToolSuffixStarted <=> calls # {})
  <2>1. ToolSuffixStarted => CallsOf(events) # {}
    BY DEF ToolSuffixStarted, CallsOf
  <2> QED BY <2>1 DEF CallsOf
<1>3. /\ transcript \in Seq(Message) /\ Len(transcript) \in Nat
      /\ answer \in Message /\ answer = Promise!Assistant(calls)
  BY <1>2, LenProperties DEF TypeOK, ActorType, Message, Promise!Assistant
<1>4. \/ q.base = Len(transcript) /\ q.results = {} /\ Even(Len(transcript))
      \/ q.base + 1 = Len(transcript) /\ ~Even(Len(transcript))
  BY <1>1 DEF RecordOK
<1>5. \A g \in generated : g.base <= Len(transcript) /\ g.base \in Nat
  BY <1>1 DEF RecordOK, TypeOK, Request
<1>6. CASE q.base = Len(transcript) /\ q.results = {} /\ Even(Len(transcript))
  <2>1. MissingUser = <<Promise!User({})>>
    <3>1. q.base + 1 > Len(transcript)
      BY <1>3, <1>6
    <3>2. MissingUser = <<[role |-> "user", calls |-> q.results]>>
      BY <3>1 DEF MissingUser
    <3> HIDE DEF q
    <3> QED BY <1>6, <3>2 DEF Promise!User
  <2>2. Promise!User({}) \in Message
    BY DEF Promise!User, Message
  <2>3. transcript' = transcript \o <<Promise!User({}), answer>>
        /\ Len(transcript') = Len(transcript) + 2
        /\ SubSeq(transcript', 1, Len(transcript)) = transcript
    <3> HIDE DEF answer
    <3> QED BY <1>1, <1>3, <2>1, <2>2, Extends
  <2>4. Promise!Answer(calls)
    <3> HIDE DEF calls
    <3> QED BY <1>1, <1>2, <1>3, <1>6, <2>3 DEF Promise!Answer, Even
  <2>5. Even(Len(transcript) + 2)
    BY <1>3, <1>6 DEF Even
  <2>6. CommittedIsKept
    BY <1>1, <1>3, <2>3 DEF CommittedIsKept
  <2>7. RecordOK'
    BY <1>1, <1>3, <1>5, <2>3, <2>5 DEF RecordOK
  <2> QED BY <1>1, <1>2, <2>4, <2>6, <2>7
<1>7. CASE q.base + 1 = Len(transcript) /\ ~Even(Len(transcript))
  <2>1. MissingUser = <<>>
    BY <1>3, <1>7 DEF MissingUser
  <2>2. transcript' = Append(transcript, answer)
        /\ Len(transcript') = Len(transcript) + 1
        /\ SubSeq(transcript', 1, Len(transcript)) = transcript
    <3> HIDE DEF answer
    <3> QED BY <1>1, <1>3, <2>1, Extends
  <2>3. Promise!Answer(calls)
    <3> HIDE DEF calls
    <3> QED BY <1>1, <1>2, <1>3, <1>7, <2>2 DEF Promise!Answer, Even
  <2>4. Even(Len(transcript) + 1)
    BY <1>3, <1>7 DEF Even
  <2>5. CommittedIsKept
    BY <1>1, <1>3, <2>2 DEF CommittedIsKept
  <2>6. RecordOK'
    BY <1>1, <1>3, <1>5, <2>2, <2>4 DEF RecordOK
  <2> QED BY <1>1, <1>2, <2>3, <2>5, <2>6
<1> QED BY <1>4, <1>6, <1>7

\* The record is final if nothing of it changes, and nothing is generated.
LEMMA NothingRecorded ==
  ASSUME TypeOK, UNCHANGED <<transcript, replay>>, current' \in {current, None},
         state = "CLOSED" => UNCHANGED <<state, pending>>
  PROVE  CommittedIsKept /\ NoReexecution
<1>1. transcript \in Seq(Message) /\ Len(transcript) \in Nat
  BY LenProperties DEF TypeOK, ActorType
<1> QED BY <1>1, SubSeqFull DEF CommittedIsKept, NoReexecution

\* Every step keeps the record and is one the conversation allows.
LEMMA RecordStep ==
  ASSUME TypeOK, TasksAgree, RecordOK, [Next]_vars
  PROVE  RecordOK' /\ NoReexecution /\ CommittedIsKept /\ Promised
<1> DEFINE Goal == RecordOK' /\ NoReexecution /\ CommittedIsKept /\ Promised
<1> SUFFICES Goal
  OBVIOUS
<1>1. ASSUME NEW c \in Clients, NEW q \in Request, AdmitPrompt(c, q) \/ AdmitResults(c, q)
      PROVE  Goal
  <2>1. NoReexecution
    BY <1>1, RecordAdmission DEF NoReexecution
  <2> QED BY <1>1, <2>1, RecordAdmission DEF Promised, Promise!Next
<1>2. CASE CommitToolBoundary \/ CommitTerminal
  <2>1. NoReexecution
    BY <1>2, RecordCommit DEF NoReexecution
  <2> QED BY <1>2, <2>1, RecordCommit DEF Promised, Promise!Next
<1>3. ASSUME Fail, UNCHANGED <<generated, response>> PROVE Goal
  <2>1. /\ UNCHANGED <<transcript, replay>> /\ current' \in {current, None}
        /\ state = "CLOSED" => UNCHANGED <<state, pending>>
    BY <1>3 DEF Fail, Close, actor
  <2> QED BY <1>3, <2>1, NothingRecorded, RecordClosed DEF Promised, Promise!Next
<1>4. ASSUME UNCHANGED <<actor, generated>>, 
             state = "GENERATING" => response'[current].fp = response[current].fp
      PROVE  Goal
  BY <1>4, NothingRecorded, RecordKept DEF Promised, actor
<1>5. ASSUME NEW c \in Clients, OpenReplay(c) PROVE Goal
  <2>1. UNCHANGED <<state, transcript, replay, pending, current, generated>>
    BY <1>5 DEF OpenReplay
  <2>2. state = "GENERATING" => response'[current] = response[current]
    <3>1. state = "GENERATING" => current \in Clients \ {c}
      BY <1>5 DEF OpenReplay, Free, TasksAgree, StateMatchesTasks, TypeOK, ActorType
    <3> QED BY <1>5, <3>1 DEF OpenReplay, Lease, TypeOK, LeaseType
  <2> QED BY <2>1, <2>2, NothingRecorded, RecordKept DEF Promised
<1>6. ASSUME NEW c \in Clients, Read(c) PROVE Goal
  <2>1. UNCHANGED <<actor, generated>> /\ \A e \in Clients : response'[e].fp = response[e].fp
    BY <1>6 DEF Read, TypeOK, LeaseType, Response
  <2>2. state = "GENERATING" => current \in Clients
    BY DEF TasksAgree, StateMatchesTasks, TypeOK, ActorType
  <2> QED BY <1>4, <2>1, <2>2
<1>7. ASSUME NEW c \in Clients, Detach(c) PROVE Goal
  <2>1. UNCHANGED generated /\ \A e \in Clients : response'[e].fp = response[e].fp
    BY <1>7 DEF Detach, TypeOK, LeaseType, Response
  <2>2. CASE state # "CLOSED" /\ Close
    <3>1. /\ UNCHANGED <<transcript, replay>> /\ current' \in {current, None}
      BY <2>2 DEF Close
    <3>2. RecordOK' /\ Promise!Close
      BY <2>1, <2>2 DEF Close, RecordOK, Promise!Close
    <3> QED BY <2>2, <3>1, <3>2, NothingRecorded DEF Promised, Promise!Next
  <2>3. CASE UNCHANGED <<actor, timers, tasks, cleanup, queue>>
    <3>1. state = "GENERATING" => current \in Clients
      BY DEF TasksAgree, StateMatchesTasks, TypeOK, ActorType
    <3> QED BY <1>4, <2>1, <2>3, <3>1
  <2> QED BY <1>7, <2>2, <2>3 DEF Detach
<1>8. ASSUME NEW c \in Clients, ReleaseReplay(c) PROVE Goal
  BY <1>8, NothingRecorded, RecordKept DEF ReleaseReplay, Promised
<1>9. CASE \/ BackendError \/ GenerationTimesOut \/ SubmitFails \/ WatcherFails
           \/ Shutdown
  BY <1>3, <1>9
     DEF BackendError, GenerationTimesOut, SubmitFails, WatcherFails, Shutdown
<1>10. CASE NotifyClose \/ Submitted
  BY <1>10, NothingRecorded, RecordKept DEF NotifyClose, Submitted, leases, Promised
<1>11. CASE \/ StartBackend \/ TextEvent \/ \E k \in Calls : ToolCallEvent(k)
            \/ Resume \/ (\E o \in {"accepted", "raised"} : SubmitResults(o))
            \/ Unregister \/ Tick
  <2>1. UNCHANGED <<actor, generated, response>>
    BY <1>11 DEF StartBackend, TextEvent, ToolCallEvent, Resume, SubmitResults, Unregister,
       Tick, leases
  <2> QED BY <1>4, <2>1
<1>12. CASE WaitTimesOut
  <2>1. CASE Fail
    BY <1>3, <1>12, <2>1 DEF WaitTimesOut, WaitAlarm
  <2>2. CASE WaitMoves \/ WaitDropped
    BY <1>4, <1>12, <2>2 DEF WaitTimesOut, WaitAlarm, WaitMoves, WaitDropped
  <2> QED BY <1>12, <2>1, <2>2 DEF WaitTimesOut
<1>13. CASE UNCHANGED vars
  BY <1>4, <1>13 DEF vars, leases
<1>14. ASSUME NEW c \in Clients, Admit(c) PROVE Goal
  <2>1. PICK q \in Request : AdmitPrompt(c, q) \/ AdmitResults(c, q) \/ AdmitExpired(c, q)
    BY <1>14, AdmitRequest
  <2>2. CASE AdmitExpired(c, q)
    BY <1>3, <2>2 DEF AdmitExpired
  <2> QED BY <1>1, <2>1, <2>2
<1> HIDE DEF Goal
<1>15. Goal
  <2>1. CASE RunnerStep
    BY <1>2, <1>9, <1>11, <1>12, <2>1 DEF RunnerStep
  <2>2. CASE SubmitterStep
    BY <1>9, <1>10, <1>11, <2>2 DEF SubmitterStep
  <2>3. CASE WatcherFails \/ NotifyClose \/ Unregister \/ Shutdown \/ Tick
    BY <1>9, <1>10, <1>11, <2>3
  <2> QED BY <1>5, <1>6, <1>7, <1>8, <1>13, <1>14, <2>1, <2>2, <2>3 DEF Next
<1> QED BY <1>15

\* The inductive invariant of the record: which requests were generated, and how
\* much of the transcript each of them quotes (admit, _commit of the actor).
THEOREM RecordInvariant == Spec => []RecordOK
<1>1. Init => RecordOK
  <2> SUFFICES ASSUME Init PROVE RecordOK
    OBVIOUS
  <2>1. Len(transcript) \in {0, 2} /\ generated = {} /\ state = "READY"
    BY DEF Init
  <2>2. Even(0) /\ Even(2)
    BY DEF Even
  <2> QED BY <2>1, <2>2 DEF RecordOK
<1>2. TypeOK /\ TasksAgree /\ RecordOK /\ [Next]_vars => RecordOK'
  BY RecordStep
<1> QED BY <1>1, <1>2, TypeCorrect, TasksInvariant, PTL DEF Spec

\* No request on record is generated again, nothing of it is lost or changed, and
\* nothing is added after the close, by whatever task was still under way.
THEOREM FinalRecord == Spec => RecordIsFinal
<1>1. TypeOK /\ TasksAgree /\ RecordOK /\ [Next]_vars => [NoReexecution /\ CommittedIsKept]_vars
  BY RecordStep
<1> QED BY <1>1, TypeCorrect, TasksInvariant, RecordInvariant, PTL DEF Spec, RecordIsFinal

\* The actor implements the conversation that the design promises: its transcript
\* grows by whole turns, each answered by the results of its own calls.
THEOREM ImplementsSafely == Spec => Promise!Spec
<1>1. Init => Promise!Init
  BY DEF Init, Promise!Init, Promise!User, Promise!Assistant
<1>2. TypeOK /\ TasksAgree /\ RecordOK /\ [Next]_vars => [Promise!Next]_(Promise!vars)
  BY RecordStep DEF Promised, Stutters, Promise!vars
<1> QED BY <1>1, <1>2, TypeCorrect, TasksInvariant, RecordInvariant, PTL DEF Spec, Promise!Spec
=============================================================================
