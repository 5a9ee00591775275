-------------------------- MODULE SubscriptionTurn --------------------------
(* The OpenAI subscription backend (openai_subscription/backend.py) under the  *)
(* delivery of its responses: a turn's lease, the attempts of its request, the *)
(* close of its upstream response, its deadline, its abort, and the backend's  *)
(* shutdown.  The generator of a turn runs in the task of its request.         *)
EXTENDS ResponseDelivery

VARIABLES
  closer,   \* Backend.close()
  todo,     \* the leases that it has still to abort
  aborts,   \* the lease whose abort() it awaits
  cached    \* the turns whose result is in the replay cache

vars == <<turn, closer, todo, aborts, cached>>
Backend == <<closer, todo, aborts, cached>>

Init ==
  /\ turn \in [Requests -> {NewRequest(streamed) : streamed \in BOOLEAN}]
  /\ closer = "running" /\ todo = {} /\ aborts = {} /\ cached = {}

Ready(r, pc) == turn[r].pc = pc /\ ~turn[r].pending
Stopped(r, pc) == turn[r].pc = pc /\ turn[r].pending

-----------------------------------------------------------------------------
(* The stream ends: asyncio.timeout takes its own cancellation back and makes  *)
(* it a failure if there was no other; the lease leaves the backend's set.     *)
Leaves(t) ==
  [t EXCEPT !.lease = "gone", !.timer = "off",
            !.cancelling = IF t.timer = "expired" THEN @ - 1 ELSE @]

StreamIsCancelled(t) ==
  LET left == [Leaves(t) EXCEPT !.pending = FALSE]
  IN IF t.timer = "expired" /\ left.cancelling = 0 THEN StreamFails(left)
     ELSE TakesCancellation(left)

(* _close_response: one task closes the response, everybody waits for it.      *)
Closing(t, after) ==
  [t EXCEPT !.pc = "closing", !.after = after,
            !.upstream = IF @ = "open" THEN "closing" ELSE @]

-----------------------------------------------------------------------------
(* open_turn, and the first step of the stream: nothing suspends between them. *)
OpensTurn(r) ==
  /\ turn[r].pc = "starting"
  /\ IF turn[r].pending THEN Becomes(r, TakesCancellation(turn[r]))
     ELSE IF closer # "running" THEN Becomes(r, Responds(turn[r]))
     ELSE Becomes(r, [turn[r] EXCEPT !.pc = "credentials", !.lease = "open", !.timer = "on"])
  /\ UNCHANGED Backend

(* Mutant: a new attempt keeps the model that the last one has reported. *)
Attempt_KeepsModel(t) == [t EXCEPT !.pc = "exchange", !.attempt = @ + 1]

(* A new attempt; the identity that the last one has reported is withdrawn.    *)
Attempt(t) == [t EXCEPT !.pc = "exchange", !.attempt = @ + 1, !.reported = 0]

HasCredentials(r) ==
  /\ Ready(r, "credentials") \/ Ready(r, "refreshing")
  /\ \/ Becomes(r, Attempt([turn[r] EXCEPT !.refreshed = @ \/ turn[r].pc = "refreshing"]))
     \/ Becomes(r, StreamFails(Leaves(turn[r])))
  /\ UNCHANGED Backend

(* Mutant: whether something was shown already is not asked. *)
MayRetry_Shown(t) == ~t.retried

MayRetry(t) == ~t.retried /\ t.shown = 0

(* The connection fails before there is a response. *)
ConnectionFails(r) ==
  /\ Ready(r, "exchange")
  /\ Becomes(r, IF MayRetry(turn[r]) THEN Attempt([turn[r] EXCEPT !.retried = TRUE])
                ELSE StreamFails(Leaves(turn[r])))
  /\ UNCHANGED Backend

(* A response: 200, 401, a transient status, or another one.                   *)
Answered(t, status) ==
  CASE status = "ok" -> [t EXCEPT !.pc = "reading", !.upstream = "open"]
    [] status = "unauthorized" /\ ~t.refreshed /\ t.shown = 0 ->
         Closing([t EXCEPT !.upstream = "open"], "refresh")
    [] status = "transient" /\ MayRetry(t) ->
         Closing([t EXCEPT !.upstream = "open", !.retried = TRUE], "attempt")
    [] OTHER -> Closing([t EXCEPT !.upstream = "open"], "fail")

Exchanges(r) ==
  /\ Ready(r, "exchange")
  /\ \E status \in {"ok", "unauthorized", "transient", "refused"} :
       Becomes(r, Answered(turn[r], status))
  /\ UNCHANGED Backend

(* The stream reports the model that answers. *)
Identifies(r) ==
  /\ Ready(r, "reading") /\ turn[r].reported # turn[r].attempt
  /\ Becomes(r, [turn[r] EXCEPT !.reported = turn[r].attempt])
  /\ UNCHANGED Backend

ReadsEvent(r) ==
  /\ Ready(r, "reading")
  /\ Becomes(r, Shows(turn[r]))
  /\ UNCHANGED Backend

(* The result is kept for the replay unless the turn was aborted.              *)
Caches(r) == cached' = IF turn[r].aborted THEN cached ELSE cached \cup {r}

(* The last events, then the result is cached, when they were sent.            *)
ReadsLast(r) ==
  /\ Ready(r, "reading")
  /\ LET t == [Shows(turn[r]) EXCEPT !.last = TRUE]
     IN IF t.stream THEN Becomes(r, t) /\ UNCHANGED cached
        ELSE Becomes(r, Closing(t, "complete")) /\ Caches(r)
  /\ UNCHANGED <<closer, todo, aborts>>

(* parse_sse refuses what it reads - an unfinished or malformed frame, one     *)
(* frame or a turn too long - or the stream ends before a completion.          *)
FramingFails(r) ==
  /\ Ready(r, "reading")
  /\ Becomes(r, Closing(turn[r], "fail"))
  /\ UNCHANGED Backend

(* An error event, or the connection breaks. *)
ReadFails(r) ==
  /\ Ready(r, "reading")
  /\ \E transient \in BOOLEAN :
       Becomes(r, IF transient /\ MayRetry(turn[r])
                  THEN Closing([turn[r] EXCEPT !.retried = TRUE], "attempt")
                  ELSE Closing(turn[r], "fail"))
  /\ UNCHANGED Backend

(* A cancellation in an await of the generator.                                *)
Unwinds(r) ==
  /\ \/ /\ \E pc \in {"credentials", "refreshing", "exchange"} : Stopped(r, pc)
        /\ Becomes(r, StreamIsCancelled(turn[r]))
     \/ /\ Stopped(r, "reading")
        /\ Becomes(r, Closing([turn[r] EXCEPT !.pending = FALSE], "unwind"))
  /\ UNCHANGED Backend

(* The client has taken the chunk; the generator goes on.                      *)
SendsOn(r) ==
  /\ Ready(r, "sending") /\ turn[r].lease = "open"
  /\ IF turn[r].last THEN Becomes(r, Closing(turn[r], "complete")) /\ Caches(r)
     ELSE Becomes(r, [turn[r] EXCEPT !.pc = "reading"]) /\ UNCHANGED cached
  /\ UNCHANGED <<closer, todo, aborts>>

(* The stream has ended: the end of the body is sent. *)
SendsEnd(r) ==
  /\ Ready(r, "sending") /\ turn[r].lease = "gone"
  /\ Becomes(r, Finishes(turn[r], "replied"))
  /\ UNCHANGED Backend

(* cleanup_best_effort: the lease is aborted, then the generator closed.       *)
CleansUp(t, after) ==
  IF t.lease = "gone" THEN [t EXCEPT !.pc = "closing", !.after = after]
  ELSE Closing([t EXCEPT !.aborted = TRUE], after)

(* The client cannot be reached, or send raises something else. *)
SendFails(r) ==
  /\ Ready(r, "sending")
  /\ \E after \in {"raise", "report"} : Becomes(r, CleansUp(turn[r], after))
  /\ UNCHANGED Backend

SendIsCancelled(r) ==
  /\ Stopped(r, "sending")
  /\ Becomes(r, CleansUp([turn[r] EXCEPT !.pending = FALSE], "cancel"))
  /\ UNCHANGED Backend

-----------------------------------------------------------------------------
(* The upstream response is closed, or its close fails. *)
UpstreamCloses(r) ==
  /\ turn[r].upstream = "closing"
  /\ \E upstream \in {"closed", "failed"} :
       Becomes(r, [turn[r] EXCEPT !.upstream = upstream])
  /\ UNCHANGED Backend

(* Mutant: a cancellation ends the wait for the close. *)
Waits_Interrupted(t) == t.upstream = "closing" /\ ~t.pending

(* Every cancellation waits until the response is closed. *)
Waits(t) == t.upstream = "closing"

(* The wait of the generator ends: a failed close comes before a cancellation  *)
(* that has arrived meanwhile, this before what was to be done.                *)
ClosedIn(t) ==
  LET on == [t EXCEPT !.upstream = "none"]
  IN IF t.upstream = "failed" THEN StreamFails([Leaves(t) EXCEPT !.pending = FALSE])
     ELSE IF t.pending \/ t.after = "unwind" THEN StreamIsCancelled(t)
     ELSE CASE t.after = "refresh" -> [on EXCEPT !.pc = "refreshing"]
            [] t.after = "attempt" -> Attempt(on)
            [] t.after = "complete" -> StreamCompletes(Leaves(t))
            [] OTHER -> StreamFails(Leaves(t))

(* The wait of a cleanup ends: whatever it raises, a cancellation included, is *)
(* dropped, and the generator is closed where it was.                          *)
Swept(t) == [(IF t.lease = "gone" THEN t ELSE Leaves(t)) EXCEPT !.pending = FALSE]
CleanedUp(t) ==
  CASE t.after = "cancel" -> TakesCancellation(Swept(t))
    [] t.after = "raise" -> Finishes(Swept(t), "error")
    [] t.after = "report" -> [Swept(t) EXCEPT !.pc = "replying"]

LeavesClosing(r) ==
  /\ turn[r].pc = "closing" /\ ~Waits(turn[r])
  /\ Becomes(r, IF turn[r].after \in {"cancel", "raise", "report"} THEN CleanedUp(turn[r])
                ELSE ClosedIn(turn[r]))
  /\ UNCHANGED Backend

(* Mutant: the deadline ends with the first event. *)
Expires_First(r) ==
  /\ turn[r].timer = "on"
  /\ Becomes(r, [(IF turn[r].shown = 0 THEN Cancelled(turn[r], "deadline") ELSE turn[r])
                   EXCEPT !.timer = "expired"])
  /\ UNCHANGED Backend

(* The deadline spans the whole stream, also while its reader sends.           *)
Expires(r) ==
  /\ turn[r].timer = "on"
  /\ Becomes(r, [Cancelled(turn[r], "deadline") EXCEPT !.timer = "expired"])
  /\ UNCHANGED Backend

-----------------------------------------------------------------------------
(* Backend.close(): the leases it finds are aborted one after the other.       *)
ShutsDown ==
  /\ closer = "running"
  /\ closer' = "aborting" /\ todo' = {r \in Requests : turn[r].lease = "open"}
  /\ UNCHANGED <<turn, aborts, cached>>

(* The turn's task is cancelled if its stream has not ended; its response is   *)
(* closed.  (abort also takes the lease out of the set, which nobody reads     *)
(* again.)                                                                     *)
Aborts(r) ==
  /\ closer = "aborting" /\ aborts = {} /\ r \in todo
  /\ LET t == IF turn[r].lease = "open" THEN Cancelled(turn[r], "close") ELSE turn[r]
     IN Becomes(r, [t EXCEPT !.aborted = TRUE,
                             !.upstream = IF @ = "open" THEN "closing" ELSE @])
  /\ aborts' = {r} /\ todo' = todo \ {r}
  /\ UNCHANGED <<closer, cached>>

(* A close of the response that fails ends Backend.close().                    *)
AbortEnds(r) ==
  /\ r \in aborts /\ turn[r].upstream # "closing"
  /\ aborts' = {}
  /\ closer' = IF turn[r].upstream = "failed" THEN "failed" ELSE closer
  /\ UNCHANGED <<turn, todo, cached>>

(* Mutant: the cache is cleared before the leases are aborted. *)
ClearsCache_First ==
  /\ closer = "aborting"
  /\ IF todo # {} \/ aborts # {} THEN cached' = {} /\ UNCHANGED closer
     ELSE closer' = "closed" /\ UNCHANGED cached
  /\ UNCHANGED <<turn, todo, aborts>>

ClearsCache ==
  /\ closer = "aborting" /\ todo = {} /\ aborts = {}
  /\ cached' = {} /\ closer' = "closed"
  /\ UNCHANGED <<turn, todo, aborts>>

-----------------------------------------------------------------------------
(* The task of the request, its listener, and what cancels it.                 *)
Owner(r) ==
  \/ OpensTurn(r) \/ HasCredentials(r) \/ ConnectionFails(r) \/ Exchanges(r)
  \/ Identifies(r) \/ ReadsEvent(r) \/ ReadsLast(r) \/ FramingFails(r) \/ ReadFails(r)
  \/ Unwinds(r) \/ SendsOn(r) \/ SendsEnd(r) \/ SendFails(r) \/ SendIsCancelled(r) \/ LeavesClosing(r)

Serves(r) == (ReadsBody(r) \/ Replies(r) \/ Finished(r) \/ ListenerEnds(r)) /\ UNCHANGED Backend
Disturbs(r) == (Disconnects(r) \/ ServerCancels(r)) /\ UNCHANGED Backend

Aborting == \E r \in Requests : Aborts(r) \/ AbortEnds(r)

Ended ==
  /\ \A r \in Requests : turn[r].pc = "over" /\ turn[r].monitor # "cancelled"
  /\ closer \in {"closed", "failed"}

Next ==
  \/ \E r \in Requests : Owner(r) \/ Serves(r) \/ Disturbs(r) \/ UpstreamCloses(r) \/ Expires(r)
  \/ ShutsDown \/ Aborting \/ ClearsCache
  \/ Ended /\ UNCHANGED vars

(* The loop runs what is ready; timers fire, bodies arrive, the end of a body  *)
(* is taken, and an upstream response can be closed.  Nothing is assumed of    *)
(* what upstream sends or of a client that does not read.                      *)
Fair(r) ==
  /\ WF_vars(OpensTurn(r)) /\ WF_vars(Unwinds(r)) /\ WF_vars(LeavesClosing(r))
  /\ WF_vars(SendIsCancelled(r)) /\ WF_vars(SendsEnd(r)) /\ WF_vars(Serves(r))
  /\ WF_vars(UpstreamCloses(r)) /\ WF_vars(Expires(r))

Spec == Init /\ [][Next]_vars
FairSpec ==
  Spec /\ WF_vars(Aborting) /\ WF_vars(ClearsCache) /\ \A r \in Requests : Fair(r)

-----------------------------------------------------------------------------
Over(r) == turn[r].pc = "over"

(* The code must not retry what it has begun to show (backend.py's emitted     *)
(* flag is set before each yield): every event that a client was shown is of   *)
(* the attempt that is under way, whatever 401s, transient failures and        *)
(* refreshes came between, and a request is sent at most three times.          *)
OneAttemptIsShown ==
  \A r \in Requests : /\ turn[r].attempt <= 3
                      /\ turn[r].shown \in {0, turn[r].attempt}

(* The X-Quaylet-Actual-Model header names the model of the attempt whose      *)
(* events are shown, or none: never one that a discarded attempt reported.     *)
IdentityIsOfTheAttempt ==
  \A r \in Requests : turn[r].headers \subseteq {0, turn[r].shown}

(* What a client sees is of one attempt: its events and its headers.           *)
ClientSeesOneAttempt == OneAttemptIsShown /\ IdentityIsOfTheAttempt

(* However a request ends - replied, failed, cancelled at any await, by any of *)
(* the client, the server, the deadline and the shutdown, in any order - its   *)
(* upstream response was closed first and no lease and no timer is left.       *)
NothingIsLeft ==
  \A r \in Requests : Over(r) =>
    /\ turn[r].lease # "open" /\ turn[r].timer # "on"
    /\ turn[r].upstream \notin {"open", "closing"}

(* A request that is over has no listener that still waits for its client,     *)
(* but for one case (app.py:270): a response whose close has failed and has    *)
(* hidden a cancellation.                                                      *)
MonitorEnds ==
  \A r \in Requests : Over(r) /\ turn[r].monitor = "listening" => turn[r].upstream = "failed"

(* A cancellation that is not the client's is never taken for it: a request    *)
(* that ends quietly was cancelled by its client, and neither by the server    *)
(* nor by the shutdown; one that ends cancelled was so by another party, or by *)
(* a client whose cancellation the cleanup or a failed close has hidden.       *)
CancellationsKeepTheirMeaning ==
  \A r \in Requests : Over(r) =>
    /\ turn[r].result = "quiet" =>
         "client" \in turn[r].causes /\ turn[r].causes \subseteq {"client", "deadline"}
    /\ turn[r].result = "cancelled" =>
         \/ turn[r].causes \cap {"server", "close", "deadline"} # {}
         \/ turn[r].upstream = "failed"

(* Backend.close() has ended well: no result is kept, and none is put into the *)
(* cache afterwards by a turn that was under way.                              *)
ClosedIsEmpty == closer = "closed" => cached = {}

(* Nothing outlives what it belongs to: neither the response, the lease, the   *)
(* timer and the listener of a request, nor the cache of a backend.            *)
NothingOutlivesItsOwner == NothingIsLeft /\ MonitorEnds /\ ClosedIsEmpty

(* Every request whose body has arrived ends, whatever upstream and the client *)
(* do, and so does the shutdown.                                               *)
TurnsEnd ==
  /\ \A r \in Requests : (turn[r].pc # "body" ~> Over(r))
  /\ (closer = "aborting" ~> closer \in {"closed", "failed"})

=============================================================================
