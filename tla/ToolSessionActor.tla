-------------------------- MODULE ToolSessionActor --------------------------
(***************************************************************************)
(* One caller-tool conversation of the gateway                             *)
(* (src/quaylet/tool_session_actor.py) with the leases its clients hold on *)
(* it (ToolTurnLease of session_turn.py) and the registry operations that  *)
(* reserve, release and remove it (sessions.py).                           *)
(*                                                                         *)
(* The program is one asyncio event loop.  No section under the actor's or *)
(* the registry's lock suspends, so those locks are never contended: an    *)
(* action of this module is the code between two real suspension points (a *)
(* backend call, a queue get, an event wait, the start of a task).  Time   *)
(* is a countdown on every armed deadline; the loop may be late, so Tick   *)
(* competes with every task that is ready to run.                          *)
(***************************************************************************)
EXTENDS Integers, Sequences

CONSTANTS
  Clients,            \* HTTP requests that may hold a lease at the same time
  Calls,              \* public tool-call ids
  Bodies,             \* tells apart requests that continue the same transcript
  None,               \* Python's None
  GenerationTimeout,  \* --turn-timeout, in ticks
  ResultTimeout,      \* --tool-result-timeout, in ticks
  MaxTranscript,      \* bound on the transcript length
  MaxEvents           \* bound on the events of one generation before Completed

ASSUME BodiesAssumption == Bodies # {}
ASSUME CallsAssumption ==
         Calls \cap {"text", "tool_use", "end_turn", "failure", "END"} = {}
ASSUME TimeoutAssumption ==
         GenerationTimeout \in Nat \ {0} /\ ResultTimeout \in Nat \ {0}
ASSUME BoundAssumption == MaxTranscript \in Nat /\ MaxEvents \in Nat

NoDeadline == -1
StopReasons == {"tool_use", "end_turn"}

\* A request is known by its fingerprint: how many messages of the transcript
\* it quotes, the tool results it carries ({} for a prompt) and its body.
Request == [base : Nat, results : SUBSET Calls, body : Bodies]
\* A transcript message: a user message (its tool results), or an assistant
\* message (its tool calls).
Message == [role : {"user", "assistant"}, calls : SUBSET Calls]
Event == Calls \cup {"text"} \cup StopReasons
Item == Event \cup {"failure", "END"}
Recording == [fp : Request, events : Seq(Event)]
Response == [fp : Request, durable : BOOLEAN, detached : BOOLEAN,
             committed : Seq(Event)]
ASSUME NoneAssumption == None \notin Clients \cup Request \cup Recording

VARIABLES
  state,          \* ToolSessionState
  in_flight,      \* in_flight_fingerprint
  transcript,
  replay,         \* the one recorded turn, or None
  pending,        \* pending_call_ids
  current,        \* _current: the client whose response is the sink, or None
  generation_left,\* _generation_deadline as ticks left
  wait_left,      \* _wait_deadline as ticks left
  wait_token,
  resume,         \* _resume.is_set()
  runner,         \* where the _run task is
  events,         \* its events since the last boundary
  runner_token,   \* the token and deadline _wait_for_results captured
  runner_left,
  submitter,      \* the _submitter task and its done callback
  watching,       \* the _watch_failures task waits on the backend
  started,        \* _started
  cleanup,        \* the _notify_close task
  registered,     \* the registry still maps the conversation's id to the actor
  shutdowns,      \* a registry task that is about to call shutdown()
  client,         \* what each client does: idle, reading, replaying
  response,       \* the ToolResponse of each client's lease
  queue,          \* its queue
  seen,           \* history: the events the client has taken from it
  generated       \* history: the requests a generation was started for

actor == <<state, in_flight, transcript, replay, pending, current, wait_token,
           resume>>
timers == <<generation_left, wait_left, runner_left>>
tasks == <<runner, events, runner_token, submitter, watching, started>>
lifecycle == <<cleanup, registered, shutdowns>>
leases == <<client, response, queue, seen>>
vars == <<actor, timers, tasks, lifecycle, leases, generated>>

----------------------------------------------------------------------------
EmptyRequest == [base |-> 0, results |-> {}, body |-> CHOOSE b \in Bodies : TRUE]
NewResponse(q, d) ==
  [fp |-> q, durable |-> d, detached |-> FALSE, committed |-> <<>>]

\* A fresh or imported conversation, before its first turn.  Importing a
\* history (a rebase candidate) starts the backend before the actor adopts it.
Init ==
  /\ state = "READY" /\ in_flight = None
  /\ transcript \in {<<>>, <<[role |-> "user", calls |-> {}],
                             [role |-> "assistant", calls |-> {}]>>}
  /\ replay = None /\ pending = {} /\ current = None
  /\ generation_left = NoDeadline /\ wait_left = NoDeadline
  /\ wait_token = 0 /\ resume = FALSE
  /\ runner = "none" /\ events = <<>> /\ runner_token = 0
  /\ runner_left = NoDeadline
  /\ submitter = "none" /\ watching = FALSE /\ started \in BOOLEAN
  /\ cleanup = "none" /\ registered = TRUE /\ shutdowns = FALSE
  /\ client = [c \in Clients |-> "idle"]
  /\ response = [c \in Clients |-> NewResponse(EmptyRequest, FALSE)]
  /\ queue = [c \in Clients |-> <<>>]
  /\ seen = [c \in Clients |-> <<>>]
  /\ generated = {}

----------------------------------------------------------------------------
(* Closing: _fail, the one way out, and the removal it leads to.           *)

ToSink(items) ==
  IF current # None /\ ~response[current].detached
    THEN queue' = [queue EXCEPT ![current] = @ \o items]
    ELSE UNCHANGED queue

\* What closing does to the actor itself; it cancels the other tasks.
Close ==
  /\ state' = "CLOSED"
  /\ in_flight' = None /\ pending' = {} /\ current' = None
  /\ wait_left' = NoDeadline /\ wait_token' = wait_token + 1
  /\ resume' = TRUE
  /\ runner' = "none" /\ submitter' = "none" /\ watching' = FALSE
  /\ runner_left' = NoDeadline
  /\ cleanup' = "notify"
  /\ UNCHANGED <<transcript, replay, generation_left, events, runner_token,
                 started>>

\* Wrong: the attached response is never told.
Fail_Silent ==
  IF state = "CLOSED"
    THEN UNCHANGED <<actor, timers, tasks, cleanup, queue>>
    ELSE Close /\ UNCHANGED queue

\* _fail: only the first failure closes, and it ends the attached response.
Fail ==
  IF state = "CLOSED"
    THEN UNCHANGED <<actor, timers, tasks, cleanup, queue>>
    ELSE Close /\ ToSink(<<"failure", "END">>)

\* _notify_close runs the registry's _remove_tool.
NotifyClose ==
  /\ cleanup = "notify"
  /\ cleanup' = "done"
  /\ registered' = FALSE
  /\ in_flight' = IF registered THEN None ELSE in_flight
  /\ UNCHANGED <<state, transcript, replay, pending, current, wait_token,
                 resume, timers, tasks, shutdowns, leases, generated>>

\* The registry drops the actor, in an eviction, a rebase or close().  The
\* shutdown runs in a later step.
Unregister ==
  /\ registered
  /\ registered' = FALSE /\ shutdowns' = TRUE
  /\ UNCHANGED <<actor, timers, tasks, cleanup, leases, generated>>

Shutdown ==
  /\ shutdowns
  /\ shutdowns' = FALSE
  /\ Fail
  /\ UNCHANGED <<registered, client, response, seen, generated>>

----------------------------------------------------------------------------
(* Admission: open_turn on a registered actor.                             *)

\* The request quotes the whole transcript, and carries results exactly when
\* the quoted history ends in tool calls (the parser's rule).
Continues(q) ==
  /\ q.base = Len(transcript)
  /\ q.results = IF transcript = <<>> THEN {} ELSE transcript[q.base].calls

Free(c) == client[c] = "idle" /\ current # c

Lease(c, what, q, durable) ==
  /\ client' = [client EXCEPT ![c] = what]
  /\ response' = [response EXCEPT ![c] = NewResponse(q, durable)]
  /\ queue' = [queue EXCEPT ![c] = <<>>]
  /\ seen' = [seen EXCEPT ![c] = <<>>]

\* Wrong: the replay does not look at the reservation (_reject_busy).
OpenReplay_WhileBusy(c) ==
  /\ Free(c) /\ registered /\ replay # None
  /\ in_flight' = replay.fp
  /\ Lease(c, "replaying", replay.fp, FALSE)
  /\ UNCHANGED <<state, transcript, replay, pending, current, wait_token,
                 resume, timers, tasks, lifecycle, generated>>

\* A retry of the recorded turn gets a replay lease and reserves the actor.
OpenReplay(c) ==
  /\ Free(c) /\ registered /\ in_flight = None /\ replay # None
  /\ in_flight' = replay.fp
  /\ Lease(c, "replaying", replay.fp, FALSE)
  /\ UNCHANGED <<state, transcript, replay, pending, current, wait_token,
                 resume, timers, tasks, lifecycle, generated>>

\* Wrong: neither the reservation nor the state is looked at.
AdmitPrompt_WhileBusy(c, q) ==
  /\ Free(c) /\ registered /\ state \in {"READY", "GENERATING"}
  /\ Continues(q) /\ q.results = {} /\ q.base < MaxTranscript
  /\ in_flight' = q
  /\ state' = "GENERATING"
  /\ current' = c
  /\ generation_left' = GenerationTimeout
  /\ watching' = TRUE
  /\ runner' = IF started THEN "streaming" ELSE "starting"
  /\ events' = <<>>
  /\ Lease(c, "reading", q, FALSE)
  /\ generated' = generated \cup {q}
  /\ UNCHANGED <<transcript, replay, pending, wait_token, resume, wait_left,
                 runner_left, runner_token, submitter, started, lifecycle>>

\* open_turn reserves the actor, _admit_prompt_locked starts a generation.
AdmitPrompt(c, q) ==
  /\ Free(c) /\ registered /\ in_flight = None
  /\ state = "READY" /\ Continues(q) /\ q.results = {}
  /\ q.base < MaxTranscript
  /\ in_flight' = q
  /\ state' = "GENERATING"
  /\ current' = c
  /\ generation_left' = GenerationTimeout
  /\ watching' = TRUE
  /\ runner' = IF started THEN "streaming" ELSE "starting"
  /\ events' = <<>>
  /\ Lease(c, "reading", q, FALSE)
  /\ generated' = generated \cup {q}
  /\ UNCHANGED <<transcript, replay, pending, wait_token, resume, wait_left,
                 runner_left, runner_token, submitter, started, lifecycle>>

\* What admitting a result batch does besides the transcript, the recording and
\* the resume event.
AcceptResults(c, q) ==
  /\ Free(c) /\ registered /\ in_flight = None
  /\ state = "WAITING_FOR_TOOLS" /\ Continues(q)
  /\ q.results = pending
  /\ q.base < MaxTranscript
  /\ wait_left > 0
  /\ in_flight' = q
  /\ current' = c
  /\ state' = "GENERATING"
  /\ pending' = {}
  /\ wait_left' = NoDeadline
  /\ wait_token' = wait_token + 1
  /\ generation_left' = GenerationTimeout
  /\ submitter' = "running"
  /\ Lease(c, "reading", q, TRUE)
  /\ generated' = generated \cup {q}
  /\ UNCHANGED <<runner_left, runner, events, runner_token, watching, started,
                 lifecycle>>
ResultMessage(q) == [role |-> "user", calls |-> q.results]

\* Wrong: the event is set by the admission, not by the submission.
AdmitResults_ResumesAtOnce(c, q) ==
  /\ AcceptResults(c, q)
  /\ transcript' = Append(transcript, ResultMessage(q))
  /\ replay' = None /\ resume' = TRUE
\* Wrong: = where the code has +=.
AdmitResults_Assigns(c, q) ==
  /\ AcceptResults(c, q)
  /\ transcript' = <<ResultMessage(q)>>
  /\ replay' = None /\ resume' = FALSE

\* _admit_results_locked in time: the results are durable at once.
AdmitResults(c, q) ==
  /\ AcceptResults(c, q)
  /\ transcript' = Append(transcript, ResultMessage(q))
  /\ replay' = None
  /\ resume' = FALSE

\* The same after the deadline: the late results close the actor.
AdmitExpired(c, q) ==
  /\ Free(c) /\ registered /\ in_flight = None
  /\ state = "WAITING_FOR_TOOLS" /\ Continues(q)
  /\ q.results = pending
  /\ wait_left <= 0
  /\ Fail
  /\ UNCHANGED <<registered, shutdowns, client, response, seen, generated>>

----------------------------------------------------------------------------
(* The runner task.                                                        *)

StartBackend ==
  /\ runner = "starting"
  /\ runner' = "streaming" /\ started' = TRUE
  /\ UNCHANGED <<actor, timers, events, runner_token, submitter, watching,
                 lifecycle, leases, generated>>

ToolSuffixStarted == \E i \in 1..Len(events) : events[i] \in Calls

\* Wrong: text after the first tool call is forwarded too.
TextEvent_Always ==
  /\ runner = "streaming" /\ Len(events) < MaxEvents
  /\ events' = Append(events, "text")
  /\ ToSink(<<"text">>)
  /\ UNCHANGED <<actor, timers, runner, runner_token, submitter, watching,
                 started, lifecycle, client, response, seen, generated>>

TextEvent ==
  /\ runner = "streaming" /\ Len(events) < MaxEvents
  /\ events' = Append(events, "text")
  /\ IF ToolSuffixStarted THEN UNCHANGED queue ELSE ToSink(<<"text">>)
  /\ UNCHANGED <<actor, timers, runner, runner_token, submitter, watching,
                 started, lifecycle, client, response, seen, generated>>

\* Wrong: a tool call is forwarded when it arrives.
ToolCallEvent_Forwarded(k) ==
  /\ runner = "streaming" /\ Len(events) < MaxEvents
  /\ \A i \in 1..Len(events) : events[i] # k
  /\ events' = Append(events, k)
  /\ ToSink(<<k>>)
  /\ UNCHANGED <<actor, timers, runner, runner_token, submitter, watching,
                 started, lifecycle, client, response, seen, generated>>

ToolCallEvent(k) ==
  /\ runner = "streaming" /\ Len(events) < MaxEvents
  /\ \A i \in 1..Len(events) : events[i] # k
  /\ events' = Append(events, k)
  /\ UNCHANGED <<actor, timers, runner, runner_token, submitter, watching,
                 started, lifecycle, leases, generated>>

CallsOf(es) == {es[i] : i \in 1..Len(es)} \cap Calls

\* Wrong: the last request message is appended whatever admission did.
MissingUser_Always ==
  <<[role |-> "user", calls |-> response[current].fp.results]>>

\* The user message a commit still has to append: request.messages[len:].
MissingUser ==
  LET q == response[current].fp
  IN IF q.base + 1 > Len(transcript)
       THEN <<[role |-> "user", calls |-> q.results]>>
       ELSE <<>>

\* What both commits do with the turn: transcript, recording, reservation.
Commit(es, calls) ==
  /\ transcript' = transcript \o MissingUser
                   \o <<[role |-> "assistant", calls |-> calls]>>
  /\ replay' = [fp |-> response[current].fp, events |-> es]
  /\ in_flight' = None
  /\ pending' = calls
  /\ current' = None
  /\ response' = [response EXCEPT ![current].durable = TRUE,
                                  ![current].committed = es]

\* The part of the turn held back until the commit: everything from the first
\* tool call on.
TailFrom(es) ==
  SubSeq(es, CHOOSE i \in 1..Len(es) : /\ es[i] \in Calls
                                       /\ \A j \in 1..(i-1) : es[j] \notin Calls,
         Len(es))

\* Completed("tool_use"): _commit_tool_boundary and the entry of
\* _wait_for_results, which captures the token and the deadline.
ParkAtBoundary ==
  /\ runner = "streaming" /\ state = "GENERATING" /\ ToolSuffixStarted
  /\ LET es == Append(events, "tool_use")
     IN /\ Commit(es, CallsOf(events))
        /\ ToSink(TailFrom(es) \o <<"END">>)
  /\ state' = "WAITING_FOR_TOOLS"
  /\ wait_token' = wait_token + 1
  /\ wait_left' = ResultTimeout
  /\ runner' = "waiting" /\ events' = <<>>
  /\ runner_token' = wait_token + 1
  /\ runner_left' = ResultTimeout
  /\ UNCHANGED <<generation_left, submitter, watching, started, lifecycle,
                 client, seen, generated>>

\* Wrong: the event of the previous round stays set.
CommitToolBoundary_StaleResume == ParkAtBoundary /\ UNCHANGED resume

CommitToolBoundary == ParkAtBoundary /\ resume' = FALSE

\* Completed("end_turn") without a tool call: _commit_terminal.
CommitTerminal ==
  /\ runner = "streaming" /\ state = "GENERATING" /\ ~ToolSuffixStarted
  /\ LET es == Append(events, "end_turn")
     IN /\ Commit(es, {})
        /\ ToSink(<<"end_turn", "END">>)
  /\ state' = "READY"
  /\ generation_left' = NoDeadline
  /\ runner' = "none" /\ events' = <<>>
  /\ UNCHANGED <<wait_token, wait_left, resume, runner_left, runner_token,
                 submitter, watching, started, lifecycle, client, seen,
                 generated>>

\* The backend raises, ends its stream early or breaks the protocol.
BackendError ==
  /\ runner \in {"starting", "streaming"}
  /\ Fail
  /\ UNCHANGED <<registered, shutdowns, client, response, seen, generated>>

\* timeout_at(_generation_deadline) around start() and every event.
GenerationTimesOut ==
  /\ runner \in {"starting", "streaming"}
  /\ generation_left = 0
  /\ Fail
  /\ UNCHANGED <<registered, shutdowns, client, response, seen, generated>>

\* _resume.wait() returns: the generation goes on with the results.
Resume ==
  /\ runner = "waiting" /\ resume
  /\ runner' = IF state = "GENERATING" THEN "streaming" ELSE "none"
  /\ runner_left' = NoDeadline
  /\ UNCHANGED <<actor, generation_left, wait_left, events, runner_token,
                 submitter, watching, started, lifecycle, leases, generated>>

\* The wait goes on under the generation deadline of the admitted results.
WaitMoves ==
  /\ runner_token' = wait_token
  /\ runner_left' = generation_left
  /\ UNCHANGED <<actor, generation_left, wait_left, runner, events, submitter,
                 watching, started, cleanup, queue>>
\* The runner leaves without a verdict.
WaitDropped ==
  /\ runner' = "none" /\ runner_left' = NoDeadline
  /\ UNCHANGED <<actor, generation_left, wait_left, events, runner_token,
                 submitter, watching, started, cleanup, queue>>
ResultsOverdue ==
  state = "WAITING_FOR_TOOLS" /\ runner_token = wait_token /\ wait_left = 0
GenerationOverdue == state = "GENERATING" /\ generation_left = 0
WaitAlarm ==
  /\ runner = "waiting" /\ runner_left = 0
  /\ UNCHANGED <<registered, shutdowns, client, response, seen, generated>>

\* Wrong: the token of the wait is not compared.
WaitTimesOut_NoToken ==
  /\ WaitAlarm
  /\ IF ResultsOverdue \/ GenerationOverdue
       THEN Fail
       ELSE WaitDropped
\* Wrong: an overdue wait is dropped, not failed.
WaitTimesOut_NoVerdict ==
  /\ WaitAlarm
  /\ IF state = "GENERATING" /\ runner_token # wait_token
       THEN WaitMoves
       ELSE WaitDropped

\* The captured deadline passes and _classify_wait_timeout decides: results
\* admitted meanwhile move the wait to the generation deadline.
WaitTimesOut ==
  /\ WaitAlarm
  /\ IF state = "GENERATING" /\ runner_token # wait_token
       THEN WaitMoves
       ELSE IF ResultsOverdue \/ GenerationOverdue
         THEN Fail
         ELSE WaitDropped

----------------------------------------------------------------------------
(* The submitter and the watcher.                                          *)

SubmitResults(outcome) ==
  /\ submitter = "running"
  /\ submitter' = outcome
  /\ UNCHANGED <<actor, timers, runner, events, runner_token, watching,
                 started, lifecycle, leases, generated>>

\* The done callback _submitted of a submission that went through.
Submitted ==
  /\ submitter = "accepted"
  /\ submitter' = "none"
  /\ resume' = (state # "CLOSED" \/ resume)
  /\ UNCHANGED <<state, in_flight, transcript, replay, pending, current,
                 wait_token, timers, runner, events, runner_token, watching,
                 started, lifecycle, leases, generated>>

\* ... and of one that raised: the actor fails in a task of its own.
SubmitFails ==
  /\ submitter = "raised"
  /\ Fail
  /\ UNCHANGED <<registered, shutdowns, client, response, seen, generated>>

\* backend.wait_failure() returns or raises, at any time.
WatcherFails ==
  /\ watching
  /\ Fail
  /\ UNCHANGED <<registered, shutdowns, client, response, seen, generated>>

----------------------------------------------------------------------------
(* The clients: ToolTurnLease.                                             *)

\* _active_stream takes an item; a failure or END ends the stream.
Read(c) ==
  /\ client[c] = "reading" /\ queue[c] # <<>>
  /\ LET item == Head(queue[c])
     IN /\ client' = [client EXCEPT ![c] = IF item \in {"failure", "END"}
                                             THEN "idle" ELSE "reading"]
        /\ seen' = [seen EXCEPT ![c] = IF item \in Event THEN Append(@, item)
                                                         ELSE @]
        /\ response' = [response EXCEPT ![c].detached =
                                          @ \/ item = "failure"]
  /\ queue' = [queue EXCEPT ![c] = Tail(@)]
  /\ UNCHANGED <<actor, timers, tasks, lifecycle, generated>>

\* The client disconnects or aborts: detach(response).  It closes the actor
\* unless the turn is durable.
Detach(c) ==
  /\ client[c] = "reading"
  /\ client' = [client EXCEPT ![c] = "idle"]
  /\ response' = [response EXCEPT ![c].detached = TRUE]
  /\ seen' = seen
  /\ IF ~response[c].durable /\ state # "CLOSED"
       THEN Close /\ UNCHANGED queue
       ELSE UNCHANGED <<actor, timers, tasks, cleanup, queue>>
  /\ UNCHANGED <<registered, shutdowns, generated>>

\* A replay is read to its end, closed or aborted: _release_tool gives the
\* reservation back, which it knows by the fingerprint only.
ReleaseReplay(c) ==
  /\ client[c] = "replaying"
  /\ client' = [client EXCEPT ![c] = "idle"]
  /\ in_flight' = IF in_flight = response[c].fp THEN None ELSE in_flight
  /\ UNCHANGED <<state, transcript, replay, pending, current, wait_token,
                 resume, timers, tasks, lifecycle, response, queue, seen,
                 generated>>

----------------------------------------------------------------------------
\* Wrong: an unarmed deadline runs too.
Elapse_Unarmed(left) == left - 1

Elapse(left) == IF left > 0 THEN left - 1 ELSE left
Tick ==
  /\ generation_left > 0 \/ wait_left > 0 \/ runner_left > 0
  /\ generation_left' = Elapse(generation_left)
  /\ wait_left' = Elapse(wait_left)
  /\ runner_left' = Elapse(runner_left)
  /\ UNCHANGED <<actor, tasks, lifecycle, leases, generated>>

Admit(c) ==
  \E body \in Bodies, results \in SUBSET Calls :
    LET q == [base |-> Len(transcript), results |-> results, body |-> body]
    IN AdmitPrompt(c, q) \/ AdmitResults(c, q) \/ AdmitExpired(c, q)

RunnerStep ==
  \/ StartBackend \/ TextEvent \/ \E k \in Calls : ToolCallEvent(k)
  \/ CommitToolBoundary \/ CommitTerminal \/ BackendError
  \/ GenerationTimesOut \/ Resume \/ WaitTimesOut

SubmitterStep ==
  \/ \E outcome \in {"accepted", "raised"} : SubmitResults(outcome)
  \/ Submitted \/ SubmitFails

Next ==
  \/ \E c \in Clients : \/ OpenReplay(c) \/ Admit(c) \/ Read(c)
                        \/ Detach(c) \/ ReleaseReplay(c)
  \/ RunnerStep \/ SubmitterStep \/ WatcherFails
  \/ NotifyClose \/ Unregister \/ Shutdown \/ Tick

Spec == Init /\ [][Next]_vars

\* The event loop runs every task that is ready, time passes, and the server
\* reads the streams it has opened.  Nothing is assumed of the backend (it may
\* hang in start(), in the stream or in submit_tool_results) or of clients.
Fairness ==
  /\ WF_vars(Tick)
  /\ WF_vars(GenerationTimesOut) /\ WF_vars(Resume) /\ WF_vars(WaitTimesOut)
  /\ WF_vars(Submitted) /\ WF_vars(SubmitFails)
  /\ WF_vars(NotifyClose) /\ WF_vars(Shutdown)
  /\ \A c \in Clients : WF_vars(Read(c))

FairSpec == Spec /\ Fairness

----------------------------------------------------------------------------
Deadline == Nat \cup {NoDeadline}

ActorType ==
  /\ state \in {"READY", "GENERATING", "WAITING_FOR_TOOLS", "CLOSED"}
  /\ in_flight \in Request \cup {None}
  /\ transcript \in Seq(Message)
  /\ replay \in Recording \cup {None}
  /\ pending \in SUBSET Calls
  /\ current \in Clients \cup {None}
  /\ wait_token \in Nat /\ resume \in BOOLEAN
TimerType ==
  /\ generation_left \in Deadline /\ wait_left \in Deadline
  /\ runner_left \in Deadline
TaskType ==
  /\ runner \in {"none", "starting", "streaming", "waiting"}
  /\ events \in Seq(Event)
  /\ runner_token \in Nat
  /\ submitter \in {"none", "running", "accepted", "raised"}
  /\ watching \in BOOLEAN /\ started \in BOOLEAN
LifecycleType ==
  /\ cleanup \in {"none", "notify", "done"}
  /\ registered \in BOOLEAN /\ shutdowns \in BOOLEAN
LeaseType ==
  /\ client \in [Clients -> {"idle", "reading", "replaying"}]
  /\ response \in [Clients -> Response]
  /\ queue \in [Clients -> Seq(Item)]
  /\ seen \in [Clients -> Seq(Event)]

\* The type invariant.
TypeOK ==
  /\ ActorType /\ TimerType /\ TaskType /\ LifecycleType /\ LeaseType
  /\ generated \in SUBSET Request

Holds(c) == c = current \/ client[c] = "replaying"

\* The reservation is only a fingerprint, which a retry shares with the
\* request it repeats; still, while the actor lives, it has exactly one owner
\* (the response being generated, or one replay), so giving it back by
\* fingerprint (_release_tool) never frees a turn that somebody else runs.
ReservationHasOneOwner ==
  state # "CLOSED" =>
    /\ \A c \in Clients : Holds(c) => in_flight = response[c].fp
    /\ \A c, d \in Clients : Holds(c) /\ Holds(d) => c = d
    /\ in_flight # None => \E c \in Clients : Holds(c)

\* The states of the design's diagram agree with the tasks: a generating actor
\* has a sink and a runner; a parked one has no reservation but a replay's, a
\* runner waiting on the very deadline and token of this boundary (so that
\* _classify_wait_timeout never drops the wait and strands the session).
StateMatchesTasks ==
  /\ state = "GENERATING" <=> current # None
  /\ state = "GENERATING" => runner # "none"
  /\ state = "WAITING_FOR_TOOLS" =>
       /\ runner = "waiting" /\ ~resume /\ submitter = "none"
       /\ runner_token = wait_token /\ runner_left = wait_left
       /\ wait_left # NoDeadline
       /\ pending # {} /\ transcript[Len(transcript)].calls = pending
  /\ state = "READY" => runner = "none" /\ submitter = "none"

\* The model's generation never runs past a tool boundary before the backend
\* has accepted the results of that boundary.
NoGenerationBeforeSubmit ==
  runner = "streaming" => submitter = "none"

\* A client sees a tool call or a completion only after the turn is committed:
\* a harness never executes a call that a retry could not replay.
VisibleOnlyAfterCommit ==
  \A c \in Clients : \A i \in 1..Len(seen[c]) :
    seen[c][i] # "text" => response[c].committed # <<>>

Delivered(c) == seen[c] \o queue[c]

\* A live stream that is committed while attached delivers exactly the events
\* a replay of the same turn delivers, in the same order, and ends there.
LiveStreamIsTheRecording ==
  \A c \in Clients :
    client[c] = "reading" /\ response[c].committed # <<>>
      => Delivered(c) = Append(response[c].committed, "END")

\* What a client has been shown is what the actor has on record, and what it
\* will replay to a retry.
ClientsSeeTheRecord == VisibleOnlyAfterCommit /\ LiveStreamIsTheRecording

\* A request is generated at most once in the life of the actor, however often
\* clients repeat it.
NoReexecution ==
  current' # current /\ current' # None => response'[current'].fp \notin generated

\* No committed message is ever lost or changed, and after the close nothing
\* is committed, recorded or reopened by a task that was still under way.
CommittedIsKept ==
  /\ Len(transcript') >= Len(transcript)
  /\ SubSeq(transcript', 1, Len(transcript)) = transcript
  /\ state = "CLOSED" => UNCHANGED <<state, transcript, replay, pending>>

\* The record is final: no request on it is generated again, nothing of it is
\* lost, changed, or added after the close.
RecordIsFinal == [][NoReexecution /\ CommittedIsKept]_vars

\* Every stream the server reads ends, even if the backend hangs.
StreamEnds == \A c \in Clients : client[c] = "reading" ~> client[c] = "idle"

\* A parked conversation does not wait for ever for its results.
ParkedEnds == state = "WAITING_FOR_TOOLS" ~> state # "WAITING_FOR_TOOLS"

\* A continuation whose client has gone still runs to its end: its results are
\* durable, so either the turn becomes replayable or the actor closes.
DetachedTurnSettles ==
  \A c \in Clients :
    current = c /\ response[c].detached
      ~> \/ state = "CLOSED"
         \/ replay # None /\ replay.fp = response[c].fp

\* Nobody waits for ever: no reader, no parked conversation, no continuation
\* whose client has gone.
NobodyWaitsForEver == StreamEnds /\ ParkedEnds /\ DetachedTurnSettles

\* The actor implements what the design promises of a conversation.
Promise == INSTANCE ToolConversation WITH phase <- state, log <- transcript
ImplementsConversation == Promise!FairSpec
=============================================================================
