-------------------------- MODULE ResponseDelivery --------------------------
(* One HTTP request in its asyncio task (app.py, asgi_stream.py): the listener *)
(* that cancels the task when the client disconnects, the handler that reads   *)
(* the turn's stream, the response that sends it, and what becomes of a        *)
(* CancelledError.  A request is a record; the operators here return the       *)
(* record after the code between two suspensions of its task.                  *)
EXTENDS Naturals

CONSTANT Requests   \* the requests that are served

VARIABLE turn       \* each request: its task, its listener and its turn

Causes == {"client", "server", "deadline", "close"}

NewRequest(streamed) ==
  [pc |-> "body", stream |-> streamed, after |-> "none", result |-> "none",
   (* Task.cancelling(), a CancelledError to be thrown, and who has cancelled  *)
   cancelling |-> 0, pending |-> FALSE, causes |-> {},
   (* DisconnectMonitor: its listener, disconnected, _disconnect_cancels *)
   monitor |-> "none", disconnected |-> FALSE, mine |-> 0,
   (* EventStreamResponse was started; the headers it was started with; the    *)
   (* attempt that reported a model, and the one whose events were shown       *)
   started |-> FALSE, headers |-> {}, reported |-> 0, shown |-> 0,
   (* TurnLease: its deadline, its place in _leases, its upstream response *)
   timer |-> "off", lease |-> "none", aborted |-> FALSE, upstream |-> "none",
   attempt |-> 0, refreshed |-> FALSE, retried |-> FALSE, last |-> FALSE]

(* Task.cancel(): the innermost await raises when the task goes on.            *)
Cancelled(t, cause) ==
  IF t.pc = "over" \/ cause \in t.causes THEN t
  ELSE [t EXCEPT !.cancelling = @ + 1, !.pending = TRUE, !.causes = @ \cup {cause}]

-----------------------------------------------------------------------------
(* The monitor.                                                                *)
Uncancelled(t) ==
  IF t.disconnected THEN [t EXCEPT !.cancelling = @ - t.mine, !.mine = 0] ELSE t

(* Mutant: a cancellation is the client's whenever the client has gone. *)
IsDisconnect_Any(t) == t.disconnected /\ t.mine > 0

(* The cancellation is the client's alone. *)
IsDisconnect(t) == t.disconnected /\ t.mine > 0 /\ Uncancelled(t).cancelling = 0

(* close(): the listener is cancelled and awaited.                             *)
Finishes(t, result) ==
  [t EXCEPT !.pc = "finish", !.result = result,
            !.monitor = IF @ = "listening" THEN "cancelled" ELSE @]

(* A CancelledError reaches the handler or the wrapper of the response.        *)
TakesCancellation(t) ==
  Finishes([Uncancelled(t) EXCEPT !.pending = FALSE],
           IF IsDisconnect(t) THEN "quiet" ELSE "cancelled")

(* A response that the handler returns is not sent to a client who has gone.   *)
Responds(t) ==
  IF t.disconnected THEN Finishes(t, "quiet") ELSE [t EXCEPT !.pc = "replying"]

(* Mutant: the handler that is cancelled leaves its listener. *)
Abandons_Always(t) == ~t.started

(* An error whose cleanup has hidden a cancellation ends the handler at once.  *)
Abandons(t) == ~t.started /\ t.cancelling > 0

(* What reaches the reader of the stream when it ends.  A stream that has      *)
(* failed is answered with an error, in the body of a response under way.      *)
StreamFails(t) ==
  IF Abandons(t) THEN [t EXCEPT !.pc = "over", !.result = "cancelled", !.pending = FALSE]
  ELSE IF t.cancelling > 0 THEN TakesCancellation(t)
  ELSE IF t.started THEN [t EXCEPT !.pc = "replying"]
  ELSE Responds(t)

(* The header is set by an identity that is verified, and withdrawn by one that*)
(* is not; a response has those that were there when it was started.           *)
IdentityHeaders(t) == {t.reported}

StreamCompletes(t) ==
  IF t.started THEN [t EXCEPT !.pc = "sending"]
  ELSE Responds([t EXCEPT !.headers = IdentityHeaders(t)])

(* An event is encoded and sent; the first one after the start of the response.*)
(* A response that is not streamed collects it.                                *)
Shows(t) ==
  LET shown == [t EXCEPT !.shown = t.attempt]
  IN IF ~t.stream THEN [shown EXCEPT !.pc = "reading"]
     ELSE [shown EXCEPT !.pc = "sending", !.started = TRUE,
                        !.headers = IF t.started THEN @ ELSE IdentityHeaders(t)]

-----------------------------------------------------------------------------
Becomes(r, t) == turn' = [turn EXCEPT ![r] = t]

Listens(t) == [t EXCEPT !.pc = "starting", !.monitor = "listening"]

(* The body is read and parsed; the listener is started, and the task yields.  *)
ReadsBody(r) ==
  LET t == turn[r]
  IN /\ t.pc = "body"
     /\ IF t.pending THEN Becomes(r, TakesCancellation(t))
        ELSE \/ Becomes(r, Listens(t))
             \/ Becomes(r, Responds(t))

(* The listener receives http.disconnect, also when nobody waits for it.       *)
Disconnects(r) ==
  LET t == turn[r]
  IN /\ t.monitor = "listening"
     /\ Becomes(r, [Cancelled(t, "client") EXCEPT
                      !.monitor = "done", !.disconnected = TRUE,
                      !.mine = IF t.pc = "over" THEN 0 ELSE 1])

ListenerEnds(r) ==
  /\ turn[r].monitor = "cancelled"
  /\ Becomes(r, [turn[r] EXCEPT !.monitor = "done"])

(* The server cancels the task. *)
ServerCancels(r) ==
  /\ turn[r].pc # "over" /\ "server" \notin turn[r].causes
  /\ Becomes(r, Cancelled(turn[r], "server"))

(* A reply, or the error of a stream, is sent, or cannot be. *)
Replies(r) ==
  LET t == turn[r]
  IN /\ t.pc = "replying"
     /\ IF t.pending THEN Becomes(r, TakesCancellation(t))
        ELSE \E result \in {"replied", "error"} : Becomes(r, Finishes(t, result))

(* The listener has ended.  A cancellation while it is awaited goes on.        *)
Finished(r) ==
  LET t == turn[r]
  IN /\ t.pc = "finish" /\ (t.pending \/ t.monitor \in {"none", "done"})
     /\ Becomes(r, [t EXCEPT !.pc = "over", !.pending = FALSE,
                             !.result = IF t.pending THEN "cancelled" ELSE @])
=============================================================================
