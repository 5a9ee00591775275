--------------------------- MODULE SessionRegistry ---------------------------
(***************************************************************************)
(* The table of conversations (src/quaylet/sessions.py) with the leases on *)
(* text conversations (TurnLease of session_turn.py): which entry a        *)
(* request selects, fresh entries and the eviction that makes room for     *)
(* them, replacement of an entry by an imported one (rebase), commit and   *)
(* invalidation of text turns, removal of closed tool actors, close().     *)
(*                                                                         *)
(* A tool actor is reduced to its phase; ToolSessionActor models it.  As   *)
(* there, no section under a lock suspends, so an action is the code       *)
(* between two suspension points: the start of a candidate's backend, the  *)
(* stream of a turn, the steps of the cleanup tasks.                       *)
(***************************************************************************)
EXTENDS Naturals, Sequences

CONSTANTS
  Clients,      \* HTTP requests under way
  Entries,      \* conversation objects, each with its backend; none is reused
  Sids,         \* explicit ids (X-Quaylet-Session)
  Uuids,        \* ids of implicit conversations
  Inputs,       \* user inputs
  Configs,      \* generation configurations (model, thinking, fallback)
  Kinds,        \* which of "text" and "tool" occur
  None,
  MaxSessions,  \* --max-sessions
  MaxTurns      \* bound on the turns of a transcript

ASSUME KindsAssumption == Kinds \subseteq {"text", "tool"}
ASSUME CapacityAssumption == MaxSessions \in Nat \ {0}
ASSUME TurnsAssumption == MaxTurns \in Nat
ASSUME SidsAssumption == Sids \cap Uuids = {} /\ None \notin Sids \cup Uuids

\* A turn: the input, and the tool calls its answer ends in, known by the actor
\* that issued them.  The parser makes a request carry their results exactly
\* when its history ends in calls.
Turn == [input : Inputs, calls : Entries \cup {None}]
\* A fingerprint covers everything of a request but the id it names.
Request == [history : Seq(Turn), input : Inputs, config : Configs, kind : Kinds]
\* What an entry holds; a tool actor's phase, for a text conversation "READY".
Conversation ==
  [key : Sids \cup Uuids, explicit : BOOLEAN, kind : Kinds, config : Configs, transcript : Seq(Turn),
   in_flight : Request \cup {None}, replay : Request \cup {None},
   phase : {"READY", "GENERATING", "WAITING_FOR_TOOLS", "CLOSED"}]
Job ==
  [do : {"shutdown", "notify", "invalidate", "discard", "dispose", "cancel"},
   entry : Entries, old : Entries \cup {None}, q : Request \cup {None}]
ASSUME NoneAssumption ==
  None \notin Entries \cup Clients \cup Inputs \cup Request \cup Conversation
ASSUME NamesAssumption ==
  Clients \cap Entries = {} /\ (Clients \cup Entries) \cap Job = {}

Idle == [pc |-> "idle", entry |-> None, old |-> None, q |-> None,
         durable |-> FALSE]

VARIABLES
  entry,     \* what each entry holds, or None before it is created
  order,     \* the entries in the table, least recently used first
  closed,    \* _closed
  draining,  \* the entries that close() has taken and not yet scheduled
  closes,    \* how often each backend's close was scheduled
  tasks,     \* asyncio tasks under way
  client     \* what each request does and on which entry

vars == <<entry, order, closed, draining, closes, tasks, client>>

----------------------------------------------------------------------------
Mapped == {order[i] : i \in 1..Len(order)}
\* An entry is in the table once.
Without(s, e) ==
  LET n == CHOOSE i \in 1..Len(s) : s[i] = e
  IN SubSeq(s, 1, n - 1) \o SubSeq(s, n + 1, Len(s))
Touch(s, e) == Append(Without(s, e), e)
Named(key) == {e \in Mapped : entry[e].key = key}
Implicit == {e \in Mapped : ~entry[e].explicit}

NewEntry(key, explicit, q, transcript) ==
  [key |-> key, explicit |-> explicit, kind |-> q.kind, config |-> q.config, transcript |-> transcript,
   in_flight |-> q, replay |-> None, phase |-> "READY"]
Unused == {e \in Entries : entry[e] = None}

IsTool(e) == entry[e].kind = "tool"
OldClosed(e) == IsTool(e) /\ entry[e].phase = "CLOSED"
CallsAtEnd(h) == IF h = <<>> THEN None ELSE h[Len(h)].calls

Task(do, e) == [do |-> do, entry |-> e, old |-> None, q |-> None]
Shutdowns(E) == {Task("shutdown", e) : e \in {x \in E : IsTool(x)}}
Scheduled(E) == closes' = [e \in Entries |-> IF e \in E THEN closes[e] + 1 ELSE closes[e]]

Init ==
  /\ entry = [e \in Entries |-> None]
  /\ order = <<>> /\ closed = FALSE /\ draining = {}
  /\ closes = [e \in Entries |-> 0]
  /\ tasks = {}
  /\ client = [c \in Clients |-> Idle]

----------------------------------------------------------------------------
(* Selection.                                                              *)

Free(e) == entry[e].in_flight = None

\* Wrong: a parked tool conversation counts as idle.
Evictable_Parked(e) == Free(e)
\* Wrong: a reservation does not keep an entry.
Evictable_Busy(e) == IsTool(e) => entry[e].phase = "READY"
Evictable(e) == Free(e) /\ (IsTool(e) => entry[e].phase = "READY")

Recorded(e, q) == entry[e].replay = q
Continues(e, q) == entry[e].transcript # <<>> /\ entry[e].transcript = q.history

\* The whole request is a prefix of what the conversation has already.
Stale(e, q) ==
  LET n == Len(q.history) + 1
  IN /\ n <= Len(entry[e].transcript)
     /\ SubSeq(entry[e].transcript, 1, n - 1) = q.history
     /\ entry[e].transcript[n].input = q.input

\* An actor parked on the very calls the request answers.
Awaits(e, q) ==
  /\ IsTool(e) /\ entry[e].phase = "WAITING_FOR_TOOLS"
  /\ CallsAtEnd(q.history) # None
  /\ entry[e].transcript[Len(entry[e].transcript)] = q.history[Len(q.history)]

\* The entries a request may mean; it is served when there is at most one.
Selected(key, q) ==
  IF key # None THEN Named(key)
  ELSE LET exact == {e \in Implicit : entry[e].in_flight = q \/ Recorded(e, q)}
           continued == {e \in Implicit : entry[e].kind = q.kind /\ Continues(e, q)}
       IN IF exact # {} THEN exact
          ELSE IF continued # {} THEN continued
          ELSE {e \in Implicit : Awaits(e, q)}

\* A request that selects e, which has its fixed configuration and is not busy.
Asks(c, key, q, e) ==
  /\ ~closed /\ client[c].pc = "idle"
  /\ Selected(key, q) = {e}
  /\ entry[e].kind = q.kind /\ Free(e)

----------------------------------------------------------------------------
(* Making room: the least recently used idle entry goes.                   *)

HasRoom == Len(order) < MaxSessions \/ \E e \in Mapped : Evictable(e)
Victim == order[CHOOSE i \in 1..Len(order) :
                  /\ Evictable(order[i])
                  /\ \A j \in 1..(i-1) : ~Evictable(order[j])]
\* Wrong: a full table is taken to have room for one more.
Evicted_Late == IF Len(order) <= MaxSessions THEN {} ELSE {Victim}
Evicted == IF Len(order) < MaxSessions THEN {} ELSE {Victim}
Roomy == IF Evicted = {} THEN order ELSE Without(order, Victim)

----------------------------------------------------------------------------
(* open_turn.                                                              *)

\* The lease of a turn that has its entry: a text turn is streamed by the
\* client, a tool turn by the actor, for which the admission is the start.
Leased(e, q) ==
  [pc |-> IF q.kind = "text" THEN "turn" ELSE "tool",
   entry |-> e, old |-> None, q |-> q,
   durable |-> entry[e] # None /\ entry[e].phase = "WAITING_FOR_TOOLS"]
Admitted(r) ==
  IF r.kind = "tool" THEN [r EXCEPT !.phase = "GENERATING"] ELSE r

OpenFresh(c, key, q) ==
  /\ ~closed /\ client[c].pc = "idle"
  /\ Selected(key, q) = {}
  /\ HasRoom
  /\ \E e \in Unused, k \in IF key # None THEN {key} ELSE Uuids :
       /\ key = None => \A x \in Entries \ Unused : entry[x].key # k
       /\ entry' = [entry EXCEPT
                       ![e] = Admitted(NewEntry(k, key # None, q, q.history))]
       /\ order' = Append(Roomy, e)
       /\ client' = [client EXCEPT ![c] = Leased(e, q)]
  /\ Scheduled(Evicted)
  /\ tasks' = tasks \cup Shutdowns(Evicted)
  /\ UNCHANGED <<closed, draining>>

OpenReplay(c, key, q, e) ==
  /\ Asks(c, key, q, e) /\ Recorded(e, q)
  /\ entry' = [entry EXCEPT ![e].in_flight = q]
  /\ order' = Touch(order, e)
  /\ client' = [client EXCEPT ![c] = [Idle EXCEPT !.pc = "replay", !.entry = e,
                                                  !.q = q]]
  /\ UNCHANGED <<closed, draining, closes, tasks>>

\* A closed actor that is still in the table rejects (validate_continuation).
OpenContinue(c, key, q, e) ==
  /\ Asks(c, key, q, e) /\ ~Recorded(e, q)
  /\ entry[e].config = q.config /\ Continues(e, q) /\ ~OldClosed(e)
  /\ entry' = [entry EXCEPT ![e] = Admitted([@ EXCEPT !.in_flight = q])]
  /\ order' = Touch(order, e)
  /\ client' = [client EXCEPT ![c] = Leased(e, q)]
  /\ UNCHANGED <<closed, draining, closes, tasks>>

CloseActor(e) == [entry EXCEPT ![e].phase = "CLOSED", ![e].in_flight = None]

\* The results come after their deadline: admit() closes the actor.
OpenExpired(c, key, q, e) ==
  /\ Asks(c, key, q, e) /\ ~Recorded(e, q)
  /\ entry[e].config = q.config /\ Continues(e, q)
  /\ entry[e].phase = "WAITING_FOR_TOOLS"
  /\ entry' = CloseActor(e)
  /\ order' = Touch(order, e)
  /\ tasks' = tasks \cup {Task("notify", e)}
  /\ UNCHANGED <<closed, draining, closes, client>>

Rebase(c, q, e, transcript) ==
  \E n \in Unused :
    /\ entry' = [entry EXCEPT ![e].in_flight = q,
                              ![n] = NewEntry(entry[e].key, entry[e].explicit,
                                             q, transcript)]
    /\ order' = Touch(order, e)
    /\ client' = [client EXCEPT ![c] = [pc |-> "rebasing", entry |-> n, old |-> e,
                                        q |-> q, durable |-> FALSE]]
    /\ UNCHANGED <<closed, draining, closes, tasks>>

\* Only the generation settings change: the conversation goes on in a new
\* backend seeded with its own transcript.
OpenSettings(c, key, q, e) ==
  /\ Asks(c, key, q, e)
  /\ entry[e].config # q.config /\ Continues(e, q) /\ Evictable(e)
  /\ Rebase(c, q, e, entry[e].transcript)

\* The client has rewritten the history.
OpenRewrite(c, key, q, e) ==
  /\ Asks(c, key, q, e) /\ ~Recorded(e, q)
  /\ entry[e].config = q.config /\ ~Continues(e, q)
  /\ key # None => ~Stale(e, q)
  /\ Evictable(e) \/ Awaits(e, q)
  /\ Rebase(c, q, e, q.history)

----------------------------------------------------------------------------
(* _install_rebase: the candidate's backend starts while the reserved      *)
(* entry may expire, be removed, or be replaced in the table by another.   *)

Removed(c) ==
  Named(entry[client[c].entry].key) = {} /\ OldClosed(client[c].old)
Installable(c) ==
  LET old == client[c].old
  IN /\ ~closed
     /\ \/ Removed(c)
        \/ /\ Named(entry[client[c].entry].key) = {old}
           /\ entry[old].in_flight = client[c].q \/ OldClosed(old)
CancelTask(c) == [do |-> "cancel", entry |-> client[c].entry,
                  old |-> client[c].old, q |-> client[c].q]
Ended(c) == client' = [client EXCEPT ![c] = Idle]

\* The old entry is still in the table: the candidate takes its place.
InstallRebase(c) ==
  LET n == client[c].entry  old == client[c].old
  IN /\ client[c].pc = "rebasing" /\ Installable(c) /\ ~Removed(c)
     /\ order' = Append(Without(order, old), n)
     /\ entry' = [entry EXCEPT ![old].in_flight = None]
     /\ tasks' = tasks \cup {Task("discard", old)}
     /\ client' = [client EXCEPT ![c].pc = "installed"]
     /\ UNCHANGED <<closed, draining, closes>>

InstallRemoved(c) ==
  LET n == client[c].entry
  IN /\ client[c].pc = "rebasing" /\ Installable(c) /\ Removed(c)
     /\ HasRoom
     /\ order' = Append(Roomy, n)
     /\ entry' = [entry EXCEPT ![n] = Admitted(@)]
     /\ Scheduled(Evicted)
     /\ tasks' = tasks \cup Shutdowns(Evicted)
     /\ client' = [client EXCEPT ![c] = Leased(n, client[c].q)]
     /\ UNCHANGED <<closed, draining>>

\* Wrong: the candidate is forgotten.
InstallConflict_Forgets(c) ==
  /\ client[c].pc = "rebasing" /\ ~Installable(c)
  /\ Ended(c)
  /\ UNCHANGED <<entry, order, closed, draining, closes, tasks>>

\* Another owner has the place: the candidate is discarded, the client told
\* that the conversation is busy.
InstallConflict(c) ==
  /\ client[c].pc = "rebasing" /\ ~Installable(c)
  /\ tasks' = tasks \cup {Task("discard", client[c].entry)}
  /\ Ended(c)
  /\ UNCHANGED <<entry, order, closed, draining, closes>>

\* start() raises or times out, the client goes, or there is no room.
RebaseFails(c) ==
  /\ client[c].pc = "rebasing"
  /\ tasks' = tasks \cup {CancelTask(c)}
  /\ Ended(c)
  /\ UNCHANGED <<entry, order, closed, draining, closes>>

Release(e, q) ==
  [entry EXCEPT ![e].in_flight = IF @ = q THEN None ELSE @]

\* The replaced entry is gone: the turn starts on the candidate, unless close()
\* has closed its actor in the meantime.
RebaseProceeds(c) ==
  LET n == client[c].entry
  IN /\ client[c].pc = "installed"
     /\ \A t \in tasks : t.do \in {"discard", "dispose"} => t.entry # client[c].old
     /\ IF OldClosed(n)
          THEN entry' = Release(n, client[c].q) /\ Ended(c)
          ELSE /\ entry' = [entry EXCEPT ![n] = Admitted(@)]
               /\ client' = [client EXCEPT ![c] = Leased(n, client[c].q)]
     /\ UNCHANGED <<order, closed, draining, closes, tasks>>

\* The client goes while the replaced entry is discarded.
RebaseCancelled(c) ==
  /\ client[c].pc = "installed"
  /\ entry' = Release(client[c].entry, client[c].q)
  /\ Ended(c)
  /\ UNCHANGED <<order, closed, draining, closes, tasks>>

----------------------------------------------------------------------------
(* Text turns and replays: TurnLease.                                      *)

\* Wrong: an entry that close() has dropped is committed to.
TurnCommits_Unmapped(c) ==
  LET e == client[c].entry  q == client[c].q
  IN /\ client[c].pc = "turn"
     /\ entry' = [entry EXCEPT
          ![e].transcript = Append(@, [input |-> q.input, calls |-> None]),
          ![e].replay = q, ![e].in_flight = None]
     /\ Ended(c)
     /\ UNCHANGED <<order, closed, draining, closes, tasks>>

\* Completed arrives: _commit under the reservation.
TurnCommits(c) ==
  LET e == client[c].entry  q == client[c].q
  IN /\ client[c].pc = "turn"
     /\ e \in Mapped /\ entry[e].in_flight = q
     /\ entry' = [entry EXCEPT
          ![e].transcript = Append(@, [input |-> q.input, calls |-> None]),
          ![e].replay = q, ![e].in_flight = None]
     /\ Ended(c)
     /\ UNCHANGED <<order, closed, draining, closes, tasks>>

\* _invalidate: the entry leaves the table and its backend is closed.
Invalidate(e) ==
  IF e \in Mapped
    THEN /\ order' = Without(order, e)
         /\ entry' = [entry EXCEPT ![e].in_flight = None]
         /\ Scheduled({e})
    ELSE UNCHANGED <<entry, order, closes>>

\* The backend raises or times out, the stream is closed early, or the commit
\* finds the entry gone.
TurnFails(c) ==
  /\ client[c].pc \in {"turn", "aborting"}
  /\ Invalidate(client[c].entry)
  /\ Ended(c)
  /\ UNCHANGED <<closed, draining, tasks>>

\* abort() between two events: the invalidation runs in a task of its own.
Abort(c) ==
  /\ client[c].pc = "turn"
  /\ client' = [client EXCEPT ![c].pc = "aborting"]
  /\ tasks' = tasks \cup {Task("invalidate", client[c].entry)}
  /\ UNCHANGED <<entry, order, closed, draining, closes>>

ReplayEnds(c) ==
  /\ client[c].pc = "replay"
  /\ entry' = Release(client[c].entry, client[c].q)
  /\ Ended(c)
  /\ UNCHANGED <<order, closed, draining, closes, tasks>>

----------------------------------------------------------------------------
(* Tool turns, as the registry sees them.                                  *)

ToolCommits(e, calls) ==
  /\ entry[e] # None /\ IsTool(e) /\ entry[e].phase = "GENERATING"
  /\ LET q == entry[e].in_flight
     IN /\ entry' = [entry EXCEPT
             ![e].transcript = Append(@, [input |-> q.input, calls |-> calls]),
             ![e].replay = q, ![e].in_flight = None,
             ![e].phase = IF calls = None THEN "READY" ELSE "WAITING_FOR_TOOLS"]
        /\ client' = [c \in Clients |->
             IF client[c].pc = "tool" /\ client[c].entry = e /\ client[c].q = q
               THEN [client[c] EXCEPT !.durable = TRUE] ELSE client[c]]
  /\ UNCHANGED <<order, closed, draining, closes, tasks>>

\* Backend failure, generation timeout, result timeout.  An idle actor's
\* backend is watched once it has served a turn.
ToolFails(e) ==
  /\ entry[e] # None /\ IsTool(e)
  /\ \/ entry[e].phase \in {"GENERATING", "WAITING_FOR_TOOLS"}
     \/ entry[e].phase = "READY" /\ entry[e].replay # None
  /\ entry' = CloseActor(e)
  /\ tasks' = tasks \cup {Task("notify", e)}
  /\ UNCHANGED <<order, closed, draining, closes, client>>

\* The client has read its stream, or detaches from it.
ToolLeaves(c) ==
  LET e == client[c].entry
  IN /\ client[c].pc = "tool"
     /\ Ended(c)
     /\ IF ~client[c].durable /\ entry[e].phase # "CLOSED"
          THEN /\ entry' = CloseActor(e)
               /\ tasks' = tasks \cup {Task("notify", e)}
          ELSE UNCHANGED <<entry, tasks>>
     /\ UNCHANGED <<order, closed, draining, closes>>

----------------------------------------------------------------------------
(* The cleanup tasks.                                                      *)

\* _fail of an actor that may be closed already, and the task it leaves.
ShutDown(e) == IF entry[e].phase = "CLOSED" THEN entry ELSE CloseActor(e)
Notices(e) == IF entry[e].phase = "CLOSED" THEN {} ELSE {Task("notify", e)}

RunShutdown(t) ==
  /\ t.do = "shutdown"
  /\ entry' = ShutDown(t.entry)
  /\ tasks' = (tasks \ {t}) \cup Notices(t.entry)
  /\ UNCHANGED <<order, closed, draining, closes, client>>

\* Wrong: the removal does not look whether the entry is still this actor.
RunNotify_Blind(t) ==
  /\ t.do = "notify"
  /\ order' = SelectSeq(order, LAMBDA x : entry[x].key # entry[t.entry].key)
  /\ entry' = [entry EXCEPT ![t.entry].in_flight = None]
  /\ Scheduled({t.entry})
  /\ tasks' = tasks \ {t}
  /\ UNCHANGED <<closed, draining, client>>

\* _remove_tool and _invalidate, each in a task of its own.
RunNotify(t) ==
  /\ t.do \in {"notify", "invalidate"}
  /\ Invalidate(t.entry)
  /\ tasks' = tasks \ {t}
  /\ UNCHANGED <<closed, draining, client>>

\* _discard_entry up to its first suspension.
RunDiscard(t) ==
  /\ t.do = "discard"
  /\ IF IsTool(t.entry)
       THEN /\ entry' = ShutDown(t.entry)
            /\ tasks' = (tasks \ {t}) \cup Notices(t.entry)
                          \cup {Task("dispose", t.entry)}
            /\ UNCHANGED closes
       ELSE /\ Scheduled({t.entry})
            /\ tasks' = tasks \ {t}
            /\ UNCHANGED entry
  /\ UNCHANGED <<order, closed, draining, client>>

\* ... and after the close callback of the actor.
RunDispose(t) ==
  /\ t.do = "dispose" /\ Task("notify", t.entry) \notin tasks
  /\ Scheduled({t.entry})
  /\ tasks' = tasks \ {t}
  /\ UNCHANGED <<entry, order, closed, draining, client>>

\* Wrong: the reservation of the entry to be replaced stays.
RunCancel_KeepsReservation(t) ==
  /\ t.do = "cancel"
  /\ tasks' = (tasks \ {t}) \cup {Task("discard", t.entry)}
  /\ UNCHANGED <<entry, order, closed, draining, closes, client>>

\* _cancel_rebase: the old entry is free again, the candidate is discarded.
RunCancel(t) ==
  /\ t.do = "cancel"
  /\ entry' = Release(t.old, t.q)
  /\ tasks' = (tasks \ {t}) \cup {Task("discard", t.entry)}
  /\ UNCHANGED <<order, closed, draining, closes, client>>

----------------------------------------------------------------------------
(* close().                                                                *)

Close ==
  /\ ~closed
  /\ closed' = TRUE
  /\ draining' = Mapped /\ order' = <<>>
  /\ tasks' = tasks \cup Shutdowns(Mapped)
  /\ UNCHANGED <<entry, closes, client>>

\* Every actor has shut down: the backends are scheduled.
Drained ==
  /\ draining # {}
  /\ \A e \in draining : Task("shutdown", e) \notin tasks /\ Task("notify", e) \notin tasks
  /\ Scheduled(draining)
  /\ draining' = {}
  /\ UNCHANGED <<entry, order, closed, tasks, client>>

----------------------------------------------------------------------------
\* A client quotes calls that some answer has ended in.
Issued == {e \in Entries : \E x \in Entries \ Unused :
             \E i \in 1..Len(entry[x].transcript) : entry[x].transcript[i].calls = e}
Histories ==
  UNION {[1..n -> [input : Inputs, calls : {None} \cup Issued]]
          : n \in 0..(MaxTurns - 1)}
Requests ==
  {q \in [history : Histories, input : Inputs, config : Configs, kind : Kinds] :
     q.kind = "text" => \A i \in 1..Len(q.history) : q.history[i].calls = None}

Open(c) ==
  \E key \in Sids \cup {entry[e].key : e \in Entries \ Unused} \cup {None},
     q \in Requests :
    \/ OpenFresh(c, key, q)
    \/ \E e \in Mapped :
         \/ OpenReplay(c, key, q, e) \/ OpenContinue(c, key, q, e)
         \/ OpenExpired(c, key, q, e)
         \/ OpenSettings(c, key, q, e) \/ OpenRewrite(c, key, q, e)

Rebasing(c) ==
  \/ InstallRebase(c) \/ InstallRemoved(c) \/ InstallConflict(c)
  \/ RebaseFails(c) \/ RebaseProceeds(c) \/ RebaseCancelled(c)

RunTask ==
  \E t \in tasks :
    \/ RunShutdown(t) \/ RunNotify(t) \/ RunDiscard(t) \/ RunDispose(t)
    \/ RunCancel(t)

Next ==
  \/ \E c \in Clients :
       \/ Open(c) \/ Rebasing(c)
       \/ TurnCommits(c) \/ TurnFails(c) \/ Abort(c) \/ ReplayEnds(c)
       \/ ToolLeaves(c)
  \/ \E e \in Entries : ToolFails(e) \/ \E calls \in {None, e} : ToolCommits(e, calls)
  \/ RunTask
  \/ Close \/ Drained

Spec == Init /\ [][Next]_vars

\* Every task gets to run; start() and a text turn are bounded by the turn
\* timeout, a tool turn by the generation and result timeouts; a client reads a
\* replay to its end or goes.
TimesOut(e) == ToolFails(e) /\ entry[e].phase # "READY"
RunTaskOf(e) == RunTask /\ \E t \in tasks \ tasks' : t.entry = e
Fairness ==
  /\ \A e \in Entries : WF_vars(TimesOut(e)) /\ WF_vars(RunTaskOf(e))
  /\ \A c \in Clients :
       /\ WF_vars(RebaseFails(c)) /\ WF_vars(RebaseProceeds(c))
       /\ WF_vars(TurnFails(c)) /\ WF_vars(ReplayEnds(c))
  /\ WF_vars(Drained)
FairSpec == Spec /\ Fairness

----------------------------------------------------------------------------

\* The table never holds more conversations than --max-sessions, whatever
\* opens, rebases and removals overlap, and at most one for an id.
CapacityIsKept ==
  /\ Len(order) <= MaxSessions
  /\ \A i, j \in 1..Len(order) :
       entry[order[i]].key = entry[order[j]].key => i = j

\* Where the backend of an entry is.
Starting(e) ==
  \/ \E c \in Clients : client[c].pc = "rebasing" /\ client[c].entry = e
  \/ \E t \in tasks : t.do = "cancel" /\ t.entry = e
Discarding(e) == \E t \in tasks : t.do \in {"discard", "dispose"} /\ t.entry = e
Places(e) ==
  {p \in {"mapped", "starting", "discarding", "draining", "closed"} :
     \/ p = "mapped" /\ e \in Mapped
     \/ p = "starting" /\ Starting(e)
     \/ p = "discarding" /\ Discarding(e)
     \/ p = "draining" /\ e \in draining
     \/ p = "closed" /\ closes[e] > 0}

\* No backend (an SDK process) is lost and none is closed twice or while it is
\* in use: each is at exactly one place between its creation and its close.
EveryBackendIsAccountedFor ==
  \A e \in Entries :
    /\ closes[e] <= 1
    /\ IF e \in Unused THEN Places(e) = {}
                        ELSE \E p \in Places(e) : Places(e) = {p}

\* Who has reserved an entry: a lease, a rebase (of the old entry and of the
\* candidate), its cancellation, or the actor's own generation.
Holders(e) ==
  {c \in Clients :
     \/ client[c].entry = e
        /\ client[c].pc \in {"turn", "aborting", "replay", "rebasing", "installed"}
     \/ client[c].old = e /\ client[c].pc = "rebasing"}
  \cup {t \in tasks : t.do = "cancel" /\ t.old = e}
  \cup {x \in {e} : entry[e].phase = "GENERATING"}
HolderRequest(e, h) ==
  IF h \in Clients THEN client[h].q
  ELSE IF h = e THEN entry[e].in_flight ELSE h.q

\* A reservation in the table is a fingerprint, yet it has exactly one holder,
\* and only a holder ever gives it back.
ReservationHasOneHolder ==
  \A e \in Mapped : entry[e].phase # "CLOSED" =>
    /\ \A g, h \in Holders(e) : g = h
    /\ \A h \in Holders(e) : entry[e].in_flight = HolderRequest(e, h)
    /\ entry[e].in_flight # None => Holders(e) # {}

\* A conversation with a turn under way leaves the table only with that turn
\* or at close().
LiveTurnsAreKept ==
  \A c \in Clients :
    LET e == client[c].entry
    IN client[c].pc = "turn" /\ e \in Mapped /\ e \notin Mapped'
         => client'[c].pc = "idle" \/ closed'

\* The commit of a text turn never lands on a conversation that has left the
\* table, where no later request would find it.
NoCommitOutsideTable ==
  [][\A e \in Entries \ Unused :
       ~IsTool(e) /\ entry'[e].transcript # entry[e].transcript => e \in Mapped]_vars

\* Tool calls that wait for results are never dropped to make room: a parked
\* conversation leaves the table only at close() or for an import of a history
\* that ends in the same calls.
PendingCallsSurvive ==
  \A e \in Mapped :
    entry[e].phase = "WAITING_FOR_TOOLS" /\ e \notin Mapped'
      => \/ closed'
         \/ \E n \in Mapped' :
              /\ entry'[n].key = entry[e].key
              /\ CallsAtEnd(entry'[n].transcript) = CallsAtEnd(entry[e].transcript)

\* Making room and closing never take a conversation from somebody who uses it:
\* neither from a turn under way nor from a harness that runs its tool calls.
NothingInUseIsDropped == [][LiveTurnsAreKept /\ PendingCallsSurvive]_vars

\* Whatever a rebase, a retry or a disconnect does, a reservation ends.
ReservationEnds ==
  \A e \in Entries :
    e \in Mapped /\ entry[e].in_flight # None
      ~> e \notin Mapped \/ entry[e].in_flight = None

\* After close() the close of every backend that was ever created has been
\* scheduled, and only once, those of candidates included.
CloseDisposesAll ==
  closed ~> \A e \in Entries \ Unused : closes[e] = 1

\* Everything the registry has taken it gives back: reservations and backends.
EverythingIsGivenBack == ReservationEnds /\ CloseDisposesAll
=============================================================================
