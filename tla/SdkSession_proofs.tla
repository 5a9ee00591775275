-------------------------- MODULE SdkSession_proofs --------------------------
(* The exchange of a tool session, for every set of calls and callbacks and    *)
(* every shape of message: the calls shown are those of the message, their     *)
(* answers are taken and reach the callbacks they answer, nothing that was     *)
(* retracted is shown, and a round of calls is closed before the next message  *)
(* counts.  What the CLI does is free in all of it: no step of the proof looks *)
(* at what its state allows it to send, so it covers every CLI that deviates,  *)
(* as often as it may, and not only one that keeps to the protocol.            *)
(*                                                                             *)
(* The invariant Inv has a part for the session's record, one for the bridge   *)
(* and its callbacks, one for the round that relates the two, and one for the  *)
(* tasks; BoundaryInv adds what makes the answers to a boundary acceptable.    *)
EXTENDS SdkSession, TLAPS

Pcs == {"new", "idle", "receiving", "sealing", "boundary", "resumed", "completing",
        "failed", "closed"}
RawFields ==
  {"phase", "blocks", "current", "delta", "suffix", "mode", "validated", "diagnostic"}
Fields ==
  {"pc", "raw", "streaming", "terminal", "completed", "auto", "model", "refused",
   "retracting", "messages", "buffer", "size", "shown", "retracted", "awaiting_submit",
   "awaiting_echo", "tool_epoch", "needs_begin", "needs_completion", "expected_ids",
   "echo_ids", "echo_right", "turn", "round", "published", "heard", "abandoned"}

SessTyped(s) ==
  /\ DOMAIN s = Fields /\ DOMAIN s.raw = RawFields
  /\ s.pc \in Pcs /\ s.messages \in Nat
  /\ s.auto \in BOOLEAN /\ s.streaming \in BOOLEAN /\ s.terminal \in BOOLEAN
  /\ s.completed \in BOOLEAN /\ s.refused \in BOOLEAN /\ s.retracting \in BOOLEAN
  /\ s.awaiting_submit \in BOOLEAN /\ s.awaiting_echo \in BOOLEAN
  /\ s.needs_begin \in BOOLEAN /\ s.needs_completion \in BOOLEAN

Live(s) == s.pc \notin {"failed", "closed"}

-----------------------------------------------------------------------------
(* The session.  Where a message is over - at its boundary, at the end, while  *)
(* results are awaited or told - its raw record is complete: no event of it    *)
(* can follow.                                                                 *)
MessageIsOver(s) ==
  /\ s.terminal => IsComplete(s.raw)
  /\ s.completed => s.terminal
  /\ Live(s) /\ (s.pc = "sealing" \/ s.awaiting_submit \/ s.awaiting_echo) =>
       IsComplete(s.raw)

(* Messages of a turn are numbered; one that is under way is not shown yet     *)
(* where it may still be retracted.                                            *)
Retraction(s) ==
  /\ s.shown \cup s.retracted \cup s.buffer \subseteq 1..s.messages
  /\ s.retracted \cap (s.shown \cup s.buffer) = {}
  /\ s.streaming => s.messages > 0
  /\ s.auto /\ s.streaming /\ ~IsComplete(s.raw) => s.messages \notin s.shown

IdsOf(calls) == {c.id : c \in Range(calls)}
Told(s) == UNION {e.ids : e \in s.heard}
ToldRight(s) == \A e \in s.heard : e.right /\ ~e.early

(* The phases of a round: its results are awaited, then told, then delivered.  *)
Phases(s) ==
  /\ s.awaiting_submit <=> s.pc = "boundary"
  /\ s.awaiting_echo => s.pc \in {"resumed", "receiving"} /\ ~s.needs_completion
  /\ s.needs_completion => s.pc \in {"receiving", "completing"}
  /\ s.completed => s.pc \in {"receiving", "idle"} /\ ~s.needs_completion
                     /\ ~s.awaiting_echo
  /\ s.pc = "boundary" => s.heard = {}
  /\ s.pc = "boundary" \/ s.awaiting_echo => s.expected_ids = IdsOf(s.round)
  /\ s.awaiting_echo =>
       /\ Told(s) = s.echo_ids
       /\ \A e \in s.heard : ~e.early
       /\ s.echo_right => ToldRight(s)
  /\ s.needs_completion => Told(s) = IdsOf(s.round) /\ ToldRight(s)

SessInv(s) ==
  SessTyped(s) /\ MessageIsOver(s) /\ Retraction(s) /\ (Live(s) => Phases(s))

-----------------------------------------------------------------------------
(* The bridge.  A call that has a future has a public id of its own, and what  *)
(* it is answered is the answer to that id.                                    *)
BridgeFields ==
  {"pending", "call", "issued", "seen", "expected", "sealed", "verified", "resolved",
   "failure", "cancelled", "changed"}
CallFields == {"pub", "args", "entered", "delivered", "future", "value"}

CallTyped(r) ==
  /\ DOMAIN r = CallFields
  /\ r.entered \in BOOLEAN /\ r.delivered \in BOOLEAN
  /\ r.future \in {"none", "open", "result", "error", "cancelled"}

BridgeTyped(b) ==
  /\ DOMAIN b = BridgeFields /\ DOMAIN b.call = Calls
  /\ b.pending \subseteq Calls /\ b.issued \in Nat
  /\ b.sealed \in BOOLEAN /\ b.failure \in BOOLEAN /\ b.cancelled \in BOOLEAN
  /\ \A c \in Calls : CallTyped(b.call[c])

Known(b, c) == b.call[c].future # "none"

Numbered(b, c) ==
  /\ b.call[c].pub = [issue |-> b.call[c].pub.issue, id |-> c]
  /\ b.call[c].pub.issue \in 1..b.issued

AnswerOf(r) == [pub |-> r.pub, args |-> r.args]

BridgeCalls(b) ==
  /\ \A c \in Calls : Known(b, c) => Numbered(b, c)
  /\ \A c \in b.pending : Known(b, c)
  /\ \A c \in Calls : b.call[c].future = "result" => b.call[c].value = AnswerOf(b.call[c])
  /\ ~b.cancelled => \A c \in Calls : b.call[c].future \in {"none", "open", "result"}
  /\ ~b.cancelled /\ ~b.sealed =>
       b.seen \subseteq b.pending /\ \A c \in b.pending : b.call[c].future = "open"
  /\ ~b.cancelled /\ b.sealed =>
       \A e \in b.expected : e.id \in Calls /\ Known(b, e.id) /\ b.call[e.id].args = e.args

(* A callback that waits is the only one of its call; one that has returned    *)
(* has the answer to the call's public id, and nobody else will get it.        *)
CallbackTyped(cb) ==
  /\ DOMAIN cb = Callbacks
  /\ \A h \in Callbacks : DOMAIN cb[h] = {"st", "id", "args", "value"}

Waiting(b, cb, h) ==
  /\ cb[h].id \in Calls /\ Known(b, cb[h].id)
  /\ b.call[cb[h].id].entered /\ b.call[cb[h].id].args = cb[h].args
  /\ ~b.cancelled => cb[h].id \in b.pending /\ cb[h].id \in b.seen
  /\ \A g \in Callbacks \ {h} : cb[g].st = "waiting" => cb[g].id # cb[h].id

Returned(b, cb, h) ==
  LET v == cb[h].value IN
    /\ cb[h].id \in Calls
    /\ v = [pub |-> [issue |-> v.pub.issue, id |-> cb[h].id], args |-> cb[h].args]
    /\ v.pub.issue \in 1..b.issued
    /\ \A g \in Callbacks \ {h} : cb[g].st = "returned" => cb[g].value.pub # v.pub
    /\ \A c \in Calls : Known(b, c) /\ b.call[c].pub = v.pub =>
         b.call[c].entered /\ \A g \in Callbacks : cb[g].st = "waiting" => cb[g].id # c

(* A call was seen because a callback of it came, which is still there.        *)
Came(b, cb, c) ==
  \E h \in Callbacks :
    /\ cb[h].id = c
    /\ cb[h].st = "waiting" \/ (cb[h].st = "returned" /\ cb[h].value.pub = b.call[c].pub)

CallbackInv(b, cb) ==
  /\ CallbackTyped(cb)
  /\ \A h \in Callbacks : cb[h].st = "waiting" => Waiting(b, cb, h)
  /\ \A h \in Callbacks : cb[h].st = "returned" => Returned(b, cb, h)
  /\ ~b.cancelled => \A c \in b.seen : c \in Calls /\ Known(b, c) /\ Came(b, cb, c)

BridgeInv(b, cb) == BridgeTyped(b) /\ BridgeCalls(b) /\ CallbackInv(b, cb)

-----------------------------------------------------------------------------
(* The round: from its seal until its callbacks are known to be done, the      *)
(* bridge is sealed on the calls of the message and has the public ids that    *)
(* were published for them.                                                    *)
InRound(s) == Live(s) /\ (s.pc = "boundary" \/ s.awaiting_echo \/ s.needs_completion)

PublishedCall(s, b, i) ==
  /\ s.round[i] = [id |-> s.round[i].id, args |-> s.round[i].args]
  /\ s.published[i] = AnswerOf(b.call[s.round[i].id])

RoundIsSealed(s, b) ==
  /\ b.sealed /\ b.expected = Range(s.round) /\ b.seen \subseteq IdsOf(s.round)
  /\ DOMAIN s.published = DOMAIN s.round
  /\ \A i \in DOMAIN s.round : PublishedCall(s, b, i)

RoundIsDone(s, cb) ==
  \A i \in DOMAIN s.round : \E h \in Callbacks :
    /\ cb[h].st = "returned" /\ cb[h].id = s.round[i].id
    /\ cb[h].value.pub = s.published[i].pub

RoundInv(s, b, cb, w) ==
  InRound(s) => IF w.st = "done" THEN RoundIsDone(s, cb) ELSE RoundIsSealed(s, b)

TasksFollow ==
  /\ incoming.st # "none" => sess.pc \in {"boundary", "resumed", "completing", "failed"}
  /\ waiter.st # "none" <=> sess.pc = "completing"

TasksInv ==
  /\ DOMAIN incoming = {"st", "m", "phase", "epoch", "early"}
  /\ DOMAIN waiter = {"st", "first"}
  /\ waiter.st \in {"none", "new", "waiting", "done", "failed"}
  /\ TasksFollow
  /\ incoming.st = "done" /\ incoming.early => incoming.phase = "awaiting_submit"
  /\ waiter.first = "callback" => waiter.st \in {"done", "failed"}

Inv ==
  /\ SessInv(sess) /\ BridgeInv(bridge, callback)
  /\ RoundInv(sess, bridge, callback, waiter) /\ TasksInv
  /\ bridge.cancelled => sess.pc = "closed"

-----------------------------------------------------------------------------
(* The raw record: no event follows a complete message, and a message is not   *)
(* complete with its first event.                                              *)
RawNext(r, u) ==
  /\ DOMAIN u = RawFields
  /\ IsComplete(r) => u.phase = "broken"

LEMMA RawRecords == DOMAIN NewRaw = RawFields /\ ~IsComplete(NewRaw)
BY DEF NewRaw, RawFields, IsComplete

LEMMA UnlessNext ==
  ASSUME NEW r, DOMAIN r = RawFields, NEW refused \in BOOLEAN, NEW next,
         DOMAIN next = RawFields, IsComplete(r) => refused
  PROVE  RawNext(r, Unless(refused, r, next))
<1>1. CASE refused BY <1>1 DEF RawNext, Unless, Broken, RawFields
<1>2. CASE ~refused BY <1>2 DEF RawNext, Unless
<1> QED BY <1>1, <1>2

LEMMA ObserveNext ==
  ASSUME NEW r, DOMAIN r = RawFields, NEW m, m.type \in StreamEvents
  PROVE  /\ RawNext(r, Observe(r, m))
         /\ m.type = "message_start" => ~IsComplete(Observe(r, m))
<1> USE DEF RawFields
<1>1. CASE m.type = "message_start"
  <2>1. Observe(r, m) = MessageStart(r) BY <1>1 DEF Observe
  <2>2. RawNext(r, MessageStart(r)) BY UnlessNext DEF MessageStart, IsComplete
  <2>3. ~IsComplete(MessageStart(r)) BY DEF MessageStart, IsComplete, Unless, Broken
  <2> QED BY <2>1, <2>2, <2>3
<1>2. CASE m.type = "block_start"
  <2>1. Observe(r, m) = BlockStart(r, m.block) BY <1>2 DEF Observe
  <2>2. RawNext(r, BlockStart(r, m.block)) BY UnlessNext DEF BlockStart, IsComplete
  <2> QED BY <1>2, <2>1, <2>2
<1>3. CASE m.type = "block_delta"
  <2>1. Observe(r, m) = BlockDelta(r) BY <1>3 DEF Observe
  <2>2. RawNext(r, BlockDelta(r)) BY UnlessNext DEF BlockDelta, IsComplete
  <2> QED BY <1>3, <2>1, <2>2
<1>4. CASE m.type = "block_stop"
  <2>1. Observe(r, m) = BlockStop(r) BY <1>4 DEF Observe
  <2>2. RawNext(r, BlockStop(r)) BY UnlessNext DEF BlockStop, IsComplete
  <2> QED BY <1>4, <2>1, <2>2
<1>5. CASE m.type = "message_delta"
  <2>1. Observe(r, m) = MessageDelta(r) BY <1>5 DEF Observe
  <2>2. RawNext(r, MessageDelta(r)) BY UnlessNext DEF MessageDelta, IsComplete
  <2> QED BY <1>5, <2>1, <2>2
<1>6. CASE m.type = "message_stop"
  <2>1. Observe(r, m) = MessageStop(r) BY <1>6 DEF Observe
  <2>2. RawNext(r, MessageStop(r)) BY UnlessNext DEF MessageStop, IsComplete
  <2> QED BY <1>6, <2>1, <2>2
<1>7. CASE m.type = "refusal_delta"
  <2>1. Observe(r, m) = Broken(r) BY <1>7 DEF Observe
  <2> QED BY <1>7, <2>1 DEF RawNext, Broken
<1> QED BY <1>1, <1>2, <1>3, <1>4, <1>5, <1>6, <1>7 DEF StreamEvents

LEMMA ClosingNext ==
  ASSUME NEW r, DOMAIN r = RawFields, NEW m, NEW discarded \in BOOLEAN
  PROVE  /\ RawNext(r, Closing(r, m, discarded))
         /\ m.type = "message_start" => ~IsComplete(Closing(r, m, discarded))
<1> USE DEF RawFields
<1>1. CASE m.type = "refusal_delta"
  <2>1. Closing(r, m, discarded) = RefusalDelta(r, discarded) BY <1>1 DEF Closing
  <2>2. RawNext(r, RefusalDelta(r, discarded)) BY UnlessNext DEF RefusalDelta, IsComplete
  <2> QED BY <1>1, <2>1, <2>2
<1>2. CASE m.type = "message_stop"
  <2>1. Closing(r, m, discarded) = MessageStop(r) BY <1>2 DEF Closing
  <2>2. RawNext(r, MessageStop(r)) BY UnlessNext DEF MessageStop, IsComplete
  <2> QED BY <1>2, <2>1, <2>2
<1>3. CASE m.type \notin {"refusal_delta", "message_stop"}
  <2>1. Closing(r, m, discarded) = Broken(r) BY <1>3 DEF Closing
  <2> QED BY <1>3, <2>1 DEF RawNext, Broken, IsComplete
<1> QED BY <1>1, <1>2, <1>3

LEMMA RefusalNext ==
  ASSUME NEW r, DOMAIN r = RawFields, NEW m
  PROVE  /\ RawNext(r, ObserveRefusal(r, m))
         /\ m.type = "message_start" => ~IsComplete(ObserveRefusal(r, m))
<1>1. RawNext(r, Broken(r)) /\ ~IsComplete(Broken(r))
  BY DEF RawNext, Broken, RawFields, IsComplete
<1>2. /\ RawNext(r, Closing(r, m, FALSE))
      /\ m.type = "message_start" => ~IsComplete(Closing(r, m, FALSE))
  BY ClosingNext
<1> QED BY <1>1, <1>2 DEF ObserveRefusal

LEMMA TypedNext ==
  ASSUME NEW r, DOMAIN r = RawFields, NEW content
  PROVE  RawNext(r, ValidateAssistant(r, content)) /\ RawNext(r, RefusalAssistant(r))
<1> USE DEF RawFields
<1>1. RawNext(r, RefusalAssistant(r))
  BY UnlessNext DEF RefusalAssistant, CanBeginRefusal, IsComplete
<1>2. CASE r.phase = "block_delta"
  <2>1. ~IsComplete(r) BY <1>2 DEF IsComplete
  <2>2. DOMAIN ValidateAssistant(r, content) = RawFields
    BY <1>2 DEF ValidateAssistant, Unless, Broken
  <2> QED BY <1>1, <2>1, <2>2 DEF RawNext
<1>3. CASE r.phase # "block_delta"
  <2>1. DOMAIN ValidateAssistant(r, content) = RawFields
    BY <1>3 DEF ValidateAssistant, Unless, Broken
  <2>2. IsComplete(r) => ValidateAssistant(r, content) = Broken(r)
    BY <1>3 DEF ValidateAssistant, Unless, IsComplete
  <2>3. Broken(r).phase = "broken" BY DEF Broken
  <2> QED BY <1>1, <2>1, <2>2, <2>3 DEF RawNext
<1> QED BY <1>2, <1>3

-----------------------------------------------------------------------------
(* What the generator does with a message, taken while it waits for one.       *)
Taking(s) ==
  SessInv(s) /\ s.pc = "receiving" /\ ~s.needs_completion /\ ~s.completed

Taken(s, t) ==
  /\ SessInv(t)
  /\ t.pc \in {"receiving", "sealing", "failed"}
  /\ t.round = s.round /\ t.published = s.published
  /\ Live(t) /\ (t.awaiting_echo \/ t.needs_completion) => s.awaiting_echo

LEMMA FailedTyped ==
  ASSUME NEW s, SessTyped(s)
  PROVE  SessTyped(Failed(s)) /\ Failed(s).pc = "failed" /\ ~Live(Failed(s))
         /\ Failed(s).round = s.round /\ Failed(s).published = s.published
BY RawRecords DEF SessTyped, Failed, Live, Fields, Pcs

LEMMA FailedInv ==
  ASSUME NEW s, SessTyped(s), Retraction(s)
  PROVE  SessInv(Failed(s)) /\ Taken(s, Failed(s))
<1> DEFINE t == Failed(s)
<1>1. SessTyped(t) /\ t.pc = "failed" /\ ~Live(t) /\ t.round = s.round
      /\ t.published = s.published
  BY FailedTyped
<1>2. ~t.terminal /\ ~t.completed /\ ~t.streaming /\ t.buffer = {} /\ t.shown = s.shown
      /\ t.retracted = s.retracted /\ t.messages = s.messages
  BY DEF SessTyped, Failed, Fields
<1>3. MessageIsOver(t) BY <1>1, <1>2 DEF MessageIsOver
<1>4. Retraction(t) BY <1>2 DEF Retraction
<1> QED BY <1>1, <1>3, <1>4 DEF SessInv, Taken

(* The results of a round are told in full.                                    *)
LEMMA FinishEchoInv ==
  ASSUME NEW s, SessTyped(s), s.pc = "receiving", s.awaiting_echo
  PROVE  LET t == FinishEcho(s) IN
         /\ SessTyped(t)
         /\ t.pc # "failed" => /\ t.pc = "receiving" /\ ~t.awaiting_echo /\ t.needs_completion
                               /\ s.echo_ids = s.expected_ids /\ s.echo_right
         /\ \/ t = Failed(s)
            \/ /\ t.raw = s.raw /\ t.streaming = s.streaming /\ t.terminal = s.terminal
               /\ t.completed = s.completed /\ t.auto = s.auto /\ t.messages = s.messages
               /\ t.buffer = s.buffer /\ t.shown = s.shown /\ t.retracted = s.retracted
               /\ t.awaiting_submit = s.awaiting_submit
               /\ t.heard = s.heard /\ t.round = s.round /\ t.published = s.published
<1> DEFINE t == FinishEcho(s)
<1>1. CASE s.echo_ids = s.expected_ids /\ s.echo_right
  <2>1. t = [s EXCEPT !.awaiting_echo = FALSE, !.needs_completion = TRUE,
                      !.needs_begin = TRUE, !.expected_ids = {}, !.echo_ids = {}]
    BY <1>1 DEF FinishEcho
  <2> HIDE DEF t
  <2>2. SessTyped(t) BY <2>1 DEF SessTyped, Fields
  <2>3. t.pc = "receiving" /\ ~t.awaiting_echo /\ t.needs_completion
    BY <2>1 DEF SessTyped, Fields
  <2>4. /\ t.raw = s.raw /\ t.streaming = s.streaming /\ t.terminal = s.terminal
        /\ t.completed = s.completed /\ t.auto = s.auto /\ t.messages = s.messages
        /\ t.buffer = s.buffer /\ t.shown = s.shown /\ t.retracted = s.retracted
        /\ t.awaiting_submit = s.awaiting_submit
        /\ t.heard = s.heard /\ t.round = s.round /\ t.published = s.published
    BY <2>1 DEF SessTyped, Fields
  <2> QED BY <1>1, <2>2, <2>3, <2>4 DEF t
<1>2. CASE ~(s.echo_ids = s.expected_ids /\ s.echo_right)
  <2>1. t = Failed(s) BY <1>2 DEF FinishEcho
  <2> QED BY <2>1, FailedTyped
<1> QED BY <1>1, <1>2

LEMMA ObserveStartTyped ==
  ASSUME NEW s, SessTyped(s), s.pc = "receiving", NEW m
  PROVE  SessTyped(ObserveStart(s, m))
<1> DEFINE model == IF s.retracting THEN "opus-4.8" ELSE s.model
           e == IF s.awaiting_echo THEN FinishEcho(s) ELSE s
           u == [e EXCEPT !.raw = NewRaw, !.streaming = TRUE, !.model = model,
                          !.retracting = FALSE, !.messages = @ + 1]
<1>1. ObserveStart(s, m) \in {Failed(s), Yields(u, s.messages + 1)} BY DEF ObserveStart
<1>2. SessTyped(e) BY FinishEchoInv
<1>3. SessTyped(u) BY <1>2, RawRecords DEF SessTyped, Fields
<1>4. SessTyped(Yields(u, s.messages + 1)) BY <1>3 DEF Yields, SessTyped, Fields
<1> QED BY <1>1, <1>4, FailedTyped

LEMMA ObserveStartInv ==
  ASSUME NEW s, Taking(s), NEW m, ObserveStart(s, m).pc # "failed"
  PROVE  LET t == ObserveStart(s, m) IN
         /\ SessTyped(t) /\ Retraction(t) /\ Phases(t)
         /\ t.pc = "receiving" /\ t.streaming /\ t.raw = NewRaw
         /\ ~t.terminal /\ ~t.completed /\ ~t.awaiting_submit /\ ~t.awaiting_echo
         /\ t.round = s.round /\ t.published = s.published
         /\ t.needs_completion => s.awaiting_echo
<1> DEFINE model == IF s.retracting THEN "opus-4.8" ELSE s.model
           e == IF s.awaiting_echo THEN FinishEcho(s) ELSE s
           u == [e EXCEPT !.raw = NewRaw, !.streaming = TRUE, !.model = model,
                          !.retracting = FALSE, !.messages = @ + 1]
           t == ObserveStart(s, m)
<1>1. SessTyped(s) /\ MessageIsOver(s) /\ Retraction(s) /\ Phases(s)
      /\ s.pc = "receiving" /\ ~s.needs_completion /\ ~s.completed
  BY DEF Taking, SessInv, Live
<1>2. t = Yields(u, s.messages + 1) /\ ~s.terminal /\ ~s.awaiting_submit
  <2>1. Failed(s).pc = "failed" BY <1>1, FailedTyped
  <2>2. t = Failed(s) \/ (t = Yields(u, s.messages + 1) /\ ~s.terminal /\ ~s.awaiting_submit)
    BY DEF ObserveStart
  <2> QED BY <2>1, <2>2
<1>3. SessTyped(e) BY <1>1, FinishEchoInv
<1>4. SessTyped(u) /\ u.pc = e.pc
  BY <1>3, RawRecords DEF SessTyped, Fields
<1>5. SessTyped(t) /\ t.pc = u.pc
  BY <1>2, <1>4 DEF Yields, SessTyped, Fields
<1>6. e.pc # "failed" BY <1>4, <1>5
<1>7. /\ e.pc = "receiving" /\ ~e.awaiting_echo /\ e.needs_completion = s.awaiting_echo
      /\ s.awaiting_echo => s.echo_ids = s.expected_ids /\ s.echo_right
      /\ e.terminal = s.terminal /\ e.completed = s.completed /\ e.auto = s.auto
      /\ e.messages = s.messages /\ e.awaiting_submit = s.awaiting_submit
      /\ e.buffer = s.buffer /\ e.shown = s.shown /\ e.retracted = s.retracted
      /\ e.heard = s.heard /\ e.round = s.round /\ e.published = s.published
  <2>1. CASE s.awaiting_echo
    <3>1. Failed(s).pc = "failed" BY <1>1, FailedTyped
    <3> QED BY <1>1, <1>3, <1>6, <2>1, <3>1, FinishEchoInv DEF SessTyped
  <2>2. CASE ~s.awaiting_echo BY <1>1, <2>2 DEF SessTyped
  <2> QED BY <2>1, <2>2
<1> HIDE DEF e
<1>8. /\ u.pc = e.pc /\ u.awaiting_echo = e.awaiting_echo
      /\ u.needs_completion = e.needs_completion
      /\ u.terminal = e.terminal /\ u.completed = e.completed /\ u.auto = e.auto
      /\ u.messages = e.messages + 1 /\ u.awaiting_submit = e.awaiting_submit
      /\ u.buffer = e.buffer /\ u.shown = e.shown /\ u.retracted = e.retracted
      /\ u.heard = e.heard /\ u.round = e.round /\ u.published = e.published
      /\ u.streaming /\ u.raw = NewRaw
  BY <1>3 DEF SessTyped, Fields
<1> HIDE DEF u
<1>9. /\ t.pc = u.pc /\ t.awaiting_echo = u.awaiting_echo
      /\ t.needs_completion = u.needs_completion
      /\ t.terminal = u.terminal /\ t.completed = u.completed /\ t.auto = u.auto
      /\ t.messages = u.messages /\ t.awaiting_submit = u.awaiting_submit
      /\ t.retracted = u.retracted
      /\ t.heard = u.heard /\ t.round = u.round /\ t.published = u.published
      /\ t.streaming /\ t.raw = NewRaw
      /\ IF u.auto THEN t.buffer = u.buffer \cup {s.messages + 1} /\ t.shown = u.shown
         ELSE t.shown = u.shown \cup {s.messages + 1} /\ t.buffer = u.buffer
  BY <1>2, <1>4, <1>8 DEF SessTyped, Fields, Yields
<1> HIDE DEF t
<1>10. Retraction(t)
  <2>1. s.messages \in Nat BY <1>1 DEF SessTyped
  <2>2. t.messages = s.messages + 1 BY <1>7, <1>8, <1>9
  <2>3. t.shown \cup t.buffer = s.shown \cup s.buffer \cup {s.messages + 1}
        /\ t.retracted = s.retracted
    BY <1>7, <1>8, <1>9
  <2>4. s.shown \cup s.retracted \cup s.buffer \subseteq 1..s.messages
        /\ s.retracted \cap (s.shown \cup s.buffer) = {}
    BY <1>1 DEF Retraction
  <2>5. s.messages + 1 \notin s.retracted /\ s.messages + 1 \notin s.shown
    BY <2>1, <2>4
  <2>6. t.shown \cup t.retracted \cup t.buffer \subseteq 1..t.messages
    <3>1. 1..s.messages \subseteq 1..t.messages /\ s.messages + 1 \in 1..t.messages
      BY <2>1, <2>2
    <3> QED BY <2>3, <2>4, <3>1
  <2>7. t.retracted \cap (t.shown \cup t.buffer) = {} BY <2>3, <2>4, <2>5
  <2>9. t.messages > 0 BY <2>1, <2>2
  <2>8. t.auto => t.messages \notin t.shown BY <1>7, <1>8, <1>9, <2>2, <2>5
  <2> QED BY <2>6, <2>7, <2>8, <2>9 DEF Retraction
<1>11. Phases(t)
  <2>1. ~t.awaiting_echo /\ ~t.awaiting_submit /\ t.pc = "receiving" /\ ~t.completed
    BY <1>1, <1>2, <1>7, <1>8, <1>9
  <2>2. CASE ~t.needs_completion BY <2>1, <2>2 DEF Phases
  <2>3. CASE t.needs_completion
    <3>1. s.awaiting_echo /\ s.echo_ids = s.expected_ids /\ s.echo_right
      BY <1>7, <1>8, <1>9, <2>3
    <3>2. Told(s) = IdsOf(s.round) /\ ToldRight(s) BY <1>1, <3>1 DEF Phases
    <3>3. t.heard = s.heard /\ t.round = s.round BY <1>7, <1>8, <1>9
    <3>4. Told(t) = IdsOf(t.round) /\ ToldRight(t) BY <3>2, <3>3 DEF Told, ToldRight
    <3> QED BY <2>1, <3>4 DEF Phases
  <2> QED BY <2>2, <2>3
<1> QED BY <1>1, <1>2, <1>5, <1>7, <1>8, <1>9, <1>10, <1>11 DEF t

LEMMA AdmittedInv ==
  ASSUME NEW s, SessTyped(s), NEW m
  PROVE  LET t == Admitted(s, m) IN
         /\ SessTyped(t)
         /\ t.pc # "failed" =>
              /\ t.pc = s.pc /\ t.raw = s.raw /\ t.streaming = s.streaming
              /\ t.terminal = s.terminal /\ t.completed = s.completed /\ t.auto = s.auto
              /\ t.messages = s.messages
              /\ t.buffer = s.buffer /\ t.shown = s.shown /\ t.retracted = s.retracted
              /\ t.awaiting_submit = s.awaiting_submit /\ t.awaiting_echo = s.awaiting_echo
              /\ t.needs_completion = s.needs_completion
              /\ t.expected_ids = s.expected_ids /\ t.echo_ids = s.echo_ids
              /\ t.echo_right = s.echo_right
              /\ t.heard = s.heard /\ t.round = s.round /\ t.published = s.published
<1> DEFINE u == [s EXCEPT !.size = @ + Payload(m)]
<1>1. Admitted(s, m) \in {s, Failed(s), u} BY DEF Admitted
<1>2. SessTyped(Failed(s)) /\ Failed(s).pc = "failed" BY FailedTyped
<1>3. SessTyped(u) BY DEF SessTyped, Fields
<1>4. /\ u.pc = s.pc /\ u.raw = s.raw /\ u.streaming = s.streaming
      /\ u.terminal = s.terminal /\ u.completed = s.completed /\ u.auto = s.auto
      /\ u.messages = s.messages
      /\ u.buffer = s.buffer /\ u.shown = s.shown /\ u.retracted = s.retracted
      /\ u.awaiting_submit = s.awaiting_submit /\ u.awaiting_echo = s.awaiting_echo
      /\ u.needs_completion = s.needs_completion
      /\ u.expected_ids = s.expected_ids /\ u.echo_ids = s.echo_ids
      /\ u.echo_right = s.echo_right
      /\ u.heard = s.heard /\ u.round = s.round /\ u.published = s.published
  BY DEF SessTyped, Fields
<1> QED BY <1>1, <1>2, <1>3, <1>4

(* What of a session the phases of its round depend on.                        *)
LEMMA PhasesFrame ==
  ASSUME NEW s, NEW t, Phases(s), s.pc = "receiving", t.pc = "receiving",
         t.awaiting_submit = s.awaiting_submit, t.awaiting_echo = s.awaiting_echo,
         t.needs_completion = s.needs_completion, t.completed = s.completed,
         t.expected_ids = s.expected_ids, t.echo_ids = s.echo_ids,
         t.echo_right = s.echo_right, t.heard = s.heard, t.round = s.round
  PROVE  Phases(t)
<1>1. Told(t) = Told(s) /\ (ToldRight(t) <=> ToldRight(s)) BY DEF Told, ToldRight
<1> QED BY <1>1 DEF Phases

(* A stream event: the message goes on, or a new one starts.                   *)
LEMMA ObserveStreamInv ==
  ASSUME NEW s, Taking(s), NEW m, m.type \in StreamEvents
  PROVE  /\ Taken(s, ObserveStream(s, m))
         /\ m.type # "message_start" /\ s.awaiting_echo =>
              ObserveStream(s, m).pc = "failed"
<1> DEFINE a == IF m.type = "message_start" THEN ObserveStart(s, m) ELSE s
           t == Admitted(a, m)
           raw == IF t.retracting THEN ObserveTermination(t.raw, m)
                  ELSE IF t.refused THEN ObserveRefusal(t.raw, m)
                  ELSE Observe(t.raw, m)
           u == [t EXCEPT !.raw = raw,
                          !.pc = IF IsComplete(raw) /\ HasTools(raw) THEN "sealing"
                                 ELSE "receiving",
                          !.terminal = @ \/ (IsComplete(raw) /\ ~HasTools(raw)
                                               /\ ~t.retracting)]
<1>1. SessTyped(s) /\ MessageIsOver(s) /\ Retraction(s) /\ Phases(s)
      /\ s.pc = "receiving" /\ ~s.needs_completion /\ ~s.completed
  BY DEF Taking, SessInv, Live
<1>2. Taken(s, Failed(s)) /\ Failed(s).pc = "failed" BY <1>1, FailedInv, FailedTyped
<1>3. CASE t.pc = "failed" \/ ~t.streaming \/ raw.phase = "broken"
  <2>1. ObserveStream(s, m) = Failed(s) BY <1>3 DEF ObserveStream
  <2> QED BY <1>2, <2>1
<1>4. CASE t.pc # "failed" /\ t.streaming /\ raw.phase # "broken"
  <2>1. ObserveStream(s, m) = u BY <1>4 DEF ObserveStream
  <2>2. m.type = "message_start" => ObserveStart(s, m).pc # "failed"
    <3>1. ASSUME m.type = "message_start", ObserveStart(s, m).pc = "failed" PROVE FALSE
      <4>1. t.pc = "failed"
        <5>1. SessTyped(a) /\ a.pc = "failed" BY <1>1, <3>1, ObserveStartTyped
        <5> HIDE DEF a
        <5>2. [a EXCEPT !.size = @ + Payload(m)].pc = a.pc BY <5>1 DEF SessTyped, Fields
        <5>3. Failed(a).pc = "failed" BY <5>1, FailedTyped
        <5> QED BY <5>1, <5>2, <5>3 DEF Admitted
      <4> QED BY <1>4, <4>1
    <3> QED BY <3>1
  <2>3. /\ SessTyped(a) /\ Retraction(a) /\ Phases(a) /\ a.pc = "receiving"
        /\ ~a.completed /\ a.round = s.round /\ a.published = s.published
        /\ a.terminal => IsComplete(a.raw)
        /\ a.awaiting_echo => IsComplete(a.raw) /\ m.type # "message_start"
        /\ ~a.awaiting_submit
        /\ a.awaiting_echo \/ a.needs_completion => s.awaiting_echo
        /\ m.type = "message_start" => a.raw = NewRaw /\ ~a.awaiting_echo
        /\ m.type # "message_start" => a = s
    <3>1. CASE m.type = "message_start"
      BY <2>2, <3>1, ObserveStartInv
    <3>2. CASE m.type # "message_start"
      BY <1>1, <3>2 DEF MessageIsOver, Phases, Live
    <3> QED BY <3>1, <3>2
  <2> HIDE DEF a
  <2>4. /\ SessTyped(t)
        /\ t.pc = a.pc /\ t.raw = a.raw /\ t.streaming = a.streaming
        /\ t.terminal = a.terminal /\ t.completed = a.completed /\ t.auto = a.auto
        /\ t.messages = a.messages
        /\ t.buffer = a.buffer /\ t.shown = a.shown /\ t.retracted = a.retracted
        /\ t.awaiting_submit = a.awaiting_submit /\ t.awaiting_echo = a.awaiting_echo
        /\ t.needs_completion = a.needs_completion
        /\ t.expected_ids = a.expected_ids /\ t.echo_ids = a.echo_ids
        /\ t.echo_right = a.echo_right
        /\ t.heard = a.heard /\ t.round = a.round /\ t.published = a.published
    <3>1. t.pc # "failed" BY <1>4
    <3> QED BY <2>3, <3>1, AdmittedInv
  <2> HIDE DEF t
  <2>5. DOMAIN t.raw = RawFields BY <2>4 DEF SessTyped
  <2>6. RawNext(t.raw, raw) /\ (m.type = "message_start" => ~IsComplete(raw))
    <3>1. RawNext(t.raw, ObserveTermination(t.raw, m))
          /\ (m.type = "message_start" => ~IsComplete(ObserveTermination(t.raw, m)))
      BY <2>5, ClosingNext DEF ObserveTermination
    <3>2. RawNext(t.raw, ObserveRefusal(t.raw, m))
          /\ (m.type = "message_start" => ~IsComplete(ObserveRefusal(t.raw, m)))
      BY <2>5, RefusalNext
    <3>3. RawNext(t.raw, Observe(t.raw, m))
          /\ (m.type = "message_start" => ~IsComplete(Observe(t.raw, m)))
      BY <2>5, ObserveNext
    <3> QED BY <3>1, <3>2, <3>3
  <2> HIDE DEF raw
  <2>7. ~IsComplete(t.raw) /\ ~t.terminal /\ ~t.awaiting_echo /\ DOMAIN raw = RawFields
    BY <1>4, <2>3, <2>4, <2>6 DEF RawNext
  <2>8. /\ SessTyped(u)
        /\ u.pc = IF IsComplete(raw) /\ HasTools(raw) THEN "sealing" ELSE "receiving"
    BY <2>4, <2>7 DEF SessTyped, Fields, Pcs
  <2>9. /\ u.raw = raw /\ u.streaming = t.streaming
        /\ u.terminal => IsComplete(raw)
        /\ u.completed = t.completed /\ u.auto = t.auto /\ u.messages = t.messages
        /\ u.buffer = t.buffer /\ u.shown = t.shown /\ u.retracted = t.retracted
        /\ u.awaiting_submit = t.awaiting_submit /\ u.awaiting_echo = t.awaiting_echo
        /\ u.needs_completion = t.needs_completion
        /\ u.expected_ids = t.expected_ids /\ u.echo_ids = t.echo_ids
        /\ u.echo_right = t.echo_right
        /\ u.heard = t.heard /\ u.round = t.round /\ u.published = t.published
    BY <2>4, <2>7 DEF SessTyped, Fields
  <2> HIDE DEF u
  <2>10. MessageIsOver(u)
    BY <2>3, <2>4, <2>7, <2>8, <2>9 DEF MessageIsOver
  <2>11. Retraction(u) BY <1>4, <2>3, <2>4, <2>7, <2>9 DEF Retraction
  <2>12. Phases(u)
    <3>1. CASE u.pc = "receiving"
      BY <2>3, <2>4, <2>9, <3>1, PhasesFrame
    <3>2. CASE u.pc # "receiving"
      <4>1. u.pc = "sealing" /\ IsComplete(raw) BY <2>8, <3>2
      <4>2. m.type # "message_start" BY <2>6, <4>1
      <4>3. a = s BY <2>3, <4>2
      <4>4. ~u.needs_completion /\ ~u.awaiting_echo /\ ~u.awaiting_submit
        BY <1>1, <2>3, <2>4, <2>7, <2>9, <4>3
      <4>5. ~u.completed BY <2>4, <2>9, <4>3 DEF Taking
      <4> QED BY <4>1, <4>4, <4>5 DEF Phases
    <3> QED BY <3>1, <3>2
  <2>13. Taken(s, u)
    BY <2>3, <2>4, <2>8, <2>9, <2>10, <2>11, <2>12 DEF Taken, SessInv
  <2>14. m.type # "message_start" => ~s.awaiting_echo BY <2>3, <2>4, <2>7
  <2> QED BY <2>1, <2>13, <2>14
<1> QED BY <1>3, <1>4

(* What only changes fields that the invariant does not look at, or the raw    *)
(* record of a message that goes on.                                           *)
LEMMA GoesOnInv ==
  ASSUME NEW s, Taking(s), NEW t, SessTyped(t),
         t.pc = s.pc, t.streaming = s.streaming, t.terminal = s.terminal,
         t.completed = s.completed, t.auto = s.auto, t.messages = s.messages,
         t.buffer = s.buffer, t.shown = s.shown, t.retracted = s.retracted,
         t.awaiting_submit = s.awaiting_submit, t.awaiting_echo = s.awaiting_echo,
         t.needs_completion = s.needs_completion,
         t.expected_ids = s.expected_ids, t.echo_ids = s.echo_ids,
         t.echo_right = s.echo_right,
         t.heard = s.heard, t.round = s.round, t.published = s.published,
         IsComplete(s.raw) => t.raw = s.raw
  PROVE  Taken(s, t)
<1>1. SessTyped(s) /\ MessageIsOver(s) /\ Retraction(s) /\ Phases(s)
      /\ s.pc = "receiving" /\ ~s.needs_completion /\ ~s.completed
  BY DEF Taking, SessInv, Live
<1>2. MessageIsOver(t) BY <1>1 DEF MessageIsOver, Live
<1>3. Retraction(t) BY <1>1 DEF Retraction
<1>4. Phases(t) BY <1>1, PhasesFrame
<1> QED BY <1>1, <1>2, <1>3, <1>4 DEF Taken, SessInv

LEMMA ObserveAssistantInv ==
  ASSUME NEW s, Taking(s), NEW m
  PROVE  Taken(s, ObserveAssistant(s, m))
<1> DEFINE raw == IF m.type = "refusal_assistant" THEN RefusalAssistant(s.raw)
                  ELSE ValidateAssistant(s.raw, m.blocks)
           t == [s EXCEPT !.raw = raw]
<1>1. SessTyped(s) /\ Retraction(s) BY DEF Taking, SessInv
<1>2. Taken(s, Failed(s)) BY <1>1, FailedInv
<1>3. RawNext(s.raw, raw) BY <1>1, TypedNext DEF SessTyped
<1>4. ObserveAssistant(s, m) = Failed(s)
      \/ (ObserveAssistant(s, m) = t /\ raw.phase # "broken")
  BY DEF ObserveAssistant
<1>5. ASSUME raw.phase # "broken" PROVE Taken(s, t)
  <2> HIDE DEF raw
  <2>1. DOMAIN raw = RawFields /\ ~IsComplete(s.raw) BY <1>3, <1>5 DEF RawNext
  <2>2. SessTyped(t) BY <1>1, <2>1 DEF SessTyped, Fields
  <2>3. /\ t.pc = s.pc /\ t.streaming = s.streaming /\ t.terminal = s.terminal
        /\ t.completed = s.completed /\ t.auto = s.auto /\ t.messages = s.messages
        /\ t.buffer = s.buffer /\ t.shown = s.shown /\ t.retracted = s.retracted
        /\ t.awaiting_submit = s.awaiting_submit /\ t.awaiting_echo = s.awaiting_echo
        /\ t.needs_completion = s.needs_completion
        /\ t.expected_ids = s.expected_ids /\ t.echo_ids = s.echo_ids
        /\ t.echo_right = s.echo_right
        /\ t.heard = s.heard /\ t.round = s.round /\ t.published = s.published
    BY <1>1 DEF SessTyped, Fields
  <2> HIDE DEF t
  <2> QED BY <2>1, <2>2, <2>3, GoesOnInv
<1> QED BY <1>2, <1>4, <1>5

LEMMA ObserveRefusalNoticeInv ==
  ASSUME NEW s, Taking(s), NEW m
  PROVE  Taken(s, ObserveRefusalNotice(s, m))
<1> DEFINE t == [s EXCEPT !.refused = TRUE]
<1>1. SessTyped(s) /\ Retraction(s) BY DEF Taking, SessInv
<1>2. Taken(s, Failed(s)) BY <1>1, FailedInv
<1>3. ObserveRefusalNotice(s, m) \in {Failed(s), t} BY DEF ObserveRefusalNotice
<1>4. SessTyped(t) BY <1>1 DEF SessTyped, Fields
<1>5. /\ t.pc = s.pc /\ t.streaming = s.streaming /\ t.terminal = s.terminal
      /\ t.completed = s.completed /\ t.auto = s.auto /\ t.messages = s.messages
      /\ t.buffer = s.buffer /\ t.shown = s.shown /\ t.retracted = s.retracted
      /\ t.awaiting_submit = s.awaiting_submit /\ t.awaiting_echo = s.awaiting_echo
      /\ t.needs_completion = s.needs_completion
      /\ t.expected_ids = s.expected_ids /\ t.echo_ids = s.echo_ids
      /\ t.echo_right = s.echo_right /\ t.raw = s.raw
      /\ t.heard = s.heard /\ t.round = s.round /\ t.published = s.published
  BY <1>1 DEF SessTyped, Fields
<1> HIDE DEF t
<1>6. Taken(s, t) BY <1>4, <1>5, GoesOnInv
<1> QED BY <1>2, <1>3, <1>6

(* A retraction: the message under way has not been shown, and is discarded.   *)
LEMMA ObserveFallbackInv ==
  ASSUME NEW s, Taking(s), NEW m
  PROVE  Taken(s, ObserveFallback(s, m))
<1> DEFINE t == [s EXCEPT !.retracting = TRUE, !.retracted = @ \cup {s.messages},
                          !.buffer = {}, !.size = 0]
<1>1. SessTyped(s) /\ MessageIsOver(s) /\ Retraction(s) /\ Phases(s)
      /\ s.pc = "receiving" /\ ~s.needs_completion /\ ~s.completed
  BY DEF Taking, SessInv, Live
<1>2. Taken(s, Failed(s)) BY <1>1, FailedInv
<1>3. \/ ObserveFallback(s, m) = Failed(s)
      \/ /\ ObserveFallback(s, m) = t
         /\ s.auto /\ s.streaming /\ CanBeginFallback(s.raw)
  BY DEF ObserveFallback
<1>4. ASSUME s.auto, s.streaming, CanBeginFallback(s.raw) PROVE Taken(s, t)
  <2>1. SessTyped(t) BY <1>1 DEF SessTyped, Fields
  <2>2. /\ t.pc = s.pc /\ t.streaming = s.streaming /\ t.terminal = s.terminal
        /\ t.completed = s.completed /\ t.auto = s.auto /\ t.messages = s.messages
        /\ t.buffer = {} /\ t.shown = s.shown
        /\ t.retracted = s.retracted \cup {s.messages}
        /\ t.awaiting_submit = s.awaiting_submit /\ t.awaiting_echo = s.awaiting_echo
        /\ t.needs_completion = s.needs_completion
        /\ t.expected_ids = s.expected_ids /\ t.echo_ids = s.echo_ids
        /\ t.echo_right = s.echo_right /\ t.raw = s.raw
        /\ t.heard = s.heard /\ t.round = s.round /\ t.published = s.published
    BY <1>1 DEF SessTyped, Fields
  <2> HIDE DEF t
  <2>3. ~IsComplete(s.raw) BY <1>4 DEF CanBeginFallback, IsComplete
  <2>4. MessageIsOver(t) BY <1>1, <2>2 DEF MessageIsOver, Live
  <2>5. Phases(t) BY <1>1, <2>2, PhasesFrame
  <2>6. Retraction(t)
    <3>1. s.messages \notin s.shown BY <1>1, <1>4, <2>3 DEF Retraction
    <3>2. s.messages \in 1..s.messages BY <1>1, <1>4 DEF Retraction, SessTyped
    <3> QED BY <1>1, <2>2, <3>1, <3>2 DEF Retraction
  <2> QED BY <1>1, <2>1, <2>2, <2>4, <2>5, <2>6 DEF Taken, SessInv
<1> QED BY <1>2, <1>3, <1>4

(* Results are told: those of the round, none twice.                           *)
LEMMA ObserveEchoInv ==
  ASSUME NEW s, Taking(s), NEW m, NEW early, s.awaiting_echo => ~early
  PROVE  Taken(s, ObserveEcho(s, m, early))
<1> DEFINE e == [ids |-> m.ids, right |-> m.right, early |-> early]
           t == [s EXCEPT !.echo_ids = @ \cup m.ids, !.echo_right = @ /\ m.right,
                          !.heard = @ \cup {e}]
<1>1. SessTyped(s) /\ MessageIsOver(s) /\ Retraction(s) /\ Phases(s)
      /\ s.pc = "receiving" /\ ~s.needs_completion /\ ~s.completed
  BY DEF Taking, SessInv, Live
<1>2. Taken(s, Failed(s)) BY <1>1, FailedInv
<1>3. \/ ObserveEcho(s, m, early) = Failed(s)
      \/ /\ s.awaiting_echo
         /\ ObserveEcho(s, m, early)
              = IF t.echo_ids = t.expected_ids THEN FinishEcho(t) ELSE t
  BY DEF ObserveEcho
<1>4. ASSUME s.awaiting_echo
      PROVE  Taken(s, IF t.echo_ids = t.expected_ids THEN FinishEcho(t) ELSE t)
  <2>1. SessTyped(t) BY <1>1 DEF SessTyped, Fields
  <2>2. /\ t.pc = "receiving" /\ t.streaming = s.streaming /\ t.terminal = s.terminal
        /\ t.completed = s.completed /\ t.auto = s.auto /\ t.messages = s.messages
        /\ t.buffer = s.buffer /\ t.shown = s.shown /\ t.retracted = s.retracted
        /\ t.awaiting_submit = s.awaiting_submit /\ t.awaiting_echo
        /\ ~t.needs_completion /\ t.expected_ids = s.expected_ids /\ t.raw = s.raw
        /\ t.round = s.round /\ t.published = s.published
    BY <1>1, <1>4 DEF SessTyped, Fields
  <2>3. t.echo_ids = s.echo_ids \cup m.ids /\ t.heard = s.heard \cup {e}
    BY <1>1 DEF SessTyped, Fields
  <2>4. t.echo_right <=> s.echo_right /\ m.right
    BY <1>1 DEF SessTyped, Fields
  <2>5. e.ids = m.ids /\ (e.right <=> m.right) /\ ~e.early BY <1>4
  <2> HIDE DEF t, e
  <2>6. MessageIsOver(t) BY <1>1, <1>4, <2>2 DEF MessageIsOver, Live
  <2>7. Retraction(t) BY <1>1, <2>2 DEF Retraction
  <2>8. Phases(t)
    <3>1. Told(t) = Told(s) \cup m.ids BY <2>3, <2>5 DEF Told
    <3>2. Told(t) = t.echo_ids BY <1>1, <1>4, <2>3, <3>1 DEF Phases
    <3>3. \A x \in t.heard : ~x.early BY <1>1, <1>4, <2>3, <2>5 DEF Phases
    <3>4. ASSUME t.echo_right PROVE ToldRight(t)
      <4>1. s.echo_right /\ m.right BY <2>4, <3>4
      <4>2. ToldRight(s) BY <1>1, <1>4, <4>1 DEF Phases
      <4> QED BY <2>3, <2>5, <4>1, <4>2 DEF ToldRight
    <3>5. t.expected_ids = IdsOf(t.round) BY <1>1, <1>4, <2>2 DEF Phases
    <3>6. ~t.awaiting_submit /\ ~t.completed BY <1>1, <2>2 DEF Phases, Taking
    <3> QED BY <2>2, <3>2, <3>3, <3>4, <3>5, <3>6 DEF Phases
  <2>9. Taken(s, t) BY <1>4, <2>1, <2>2, <2>6, <2>7, <2>8 DEF Taken, SessInv
  <2>10. ASSUME t.echo_ids = t.expected_ids PROVE Taken(s, FinishEcho(t))
    <3> DEFINE f == FinishEcho(t)
    <3>1. CASE f = Failed(t)
      <4>1. Taken(t, Failed(t)) BY <2>1, <2>7, FailedInv
      <4>2. ~Live(Failed(t)) BY <2>1, FailedTyped
      <4> QED BY <2>2, <3>1, <4>1, <4>2 DEF Taken
    <3>2. CASE f # Failed(t)
      <4>1. /\ SessTyped(f)
            /\ f.pc # "failed" => /\ f.pc = "receiving" /\ ~f.awaiting_echo
                                  /\ f.needs_completion
                                  /\ t.echo_ids = t.expected_ids /\ t.echo_right
            /\ f.raw = t.raw /\ f.streaming = t.streaming /\ f.terminal = t.terminal
            /\ f.completed = t.completed /\ f.auto = t.auto /\ f.messages = t.messages
            /\ f.buffer = t.buffer /\ f.shown = t.shown /\ f.retracted = t.retracted
            /\ f.awaiting_submit = t.awaiting_submit
            /\ f.heard = t.heard /\ f.round = t.round /\ f.published = t.published
        BY <2>1, <2>2, <3>2, FinishEchoInv
      <4> HIDE DEF f
      <4>2. f.terminal => IsComplete(f.raw) BY <2>6, <4>1 DEF MessageIsOver
      <4>3. ~f.completed BY <1>1, <2>2, <4>1
      <4>4. ~f.awaiting_submit BY <2>2, <2>8, <4>1 DEF Phases
      <4>5. Retraction(f) BY <2>7, <4>1 DEF Retraction
      <4>6. ASSUME f.pc # "failed" PROVE Phases(f) /\ f.pc = "receiving" /\ ~f.awaiting_echo
        <5>1. Told(f) = Told(t) /\ (ToldRight(f) <=> ToldRight(t)) /\ f.round = t.round
          BY <4>1 DEF Told, ToldRight
        <5>2. Told(t) = IdsOf(t.round) /\ ToldRight(t)
          BY <2>2, <2>8, <4>1, <4>6 DEF Phases
        <5> QED BY <4>1, <4>3, <4>4, <4>6, <5>1, <5>2 DEF Phases
      <4>7. MessageIsOver(f) BY <4>2, <4>3, <4>4, <4>6 DEF MessageIsOver, Live
      <4>8. f.pc \in {"failed", "receiving"} BY <4>6
      <4>9. Live(f) => f.pc # "failed" BY DEF Live
      <4>10. SessInv(f) BY <4>1, <4>5, <4>6, <4>7, <4>9 DEF SessInv
      <4>11. f.round = s.round /\ f.published = s.published BY <2>2, <4>1
      <4>12. Taken(s, f) BY <1>4, <4>8, <4>10, <4>11 DEF Taken
      <4> QED BY <4>12 DEF f
    <3> QED BY <3>1, <3>2
  <2> QED BY <2>9, <2>10
<1> QED BY <1>2, <1>3, <1>4

LEMMA ObservedInv ==
  ASSUME NEW s, Taking(s), NEW m, NEW early,
         m.type = "user" /\ s.awaiting_echo => ~early
  PROVE  /\ Taken(s, Observed(s, m, early))
         /\ m.type = "block_start" /\ s.awaiting_echo =>
              Observed(s, m, early).pc = "failed"
<1> DEFINE t == Observed(s, m, early)
<1>1. SessTyped(s) /\ MessageIsOver(s) /\ Retraction(s) /\ Phases(s)
      /\ s.pc = "receiving" /\ ~s.needs_completion /\ ~s.completed
  BY DEF Taking, SessInv, Live
<1>2. Taken(s, Failed(s)) BY <1>1, FailedInv
<1>3. Taken(s, s) BY <1>1, GoesOnInv
<1>4. CASE m.type \in StreamEvents
  <2>1. t = ObserveStream(s, m) BY <1>4 DEF Observed, StreamEvents
  <2> QED BY <1>4, <2>1, ObserveStreamInv
<1>5. CASE m.type \in {"assistant", "refusal_assistant"}
  <2>1. t = ObserveAssistant(s, m) BY <1>5 DEF Observed, StreamEvents
  <2> QED BY <1>5, <2>1, ObserveAssistantInv
<1>6. CASE m.type = "fallback_notice"
  <2>1. t = ObserveFallback(s, m) BY <1>6 DEF Observed, StreamEvents
  <2> QED BY <1>6, <2>1, ObserveFallbackInv
<1>7. CASE m.type = "refusal_notice"
  <2>1. t = ObserveRefusalNotice(s, m) BY <1>7 DEF Observed, StreamEvents
  <2> QED BY <1>7, <2>1, ObserveRefusalNoticeInv
<1>8. CASE m.type = "user"
  <2>1. t = ObserveEcho(s, m, early) BY <1>8 DEF Observed, StreamEvents
  <2> QED BY <1>8, <2>1, ObserveEchoInv
<1>9. CASE m.type = "status"
  <2>1. t \in {Failed(s), s} BY <1>9 DEF Observed, StreamEvents
  <2> QED BY <1>2, <1>3, <1>9, <2>1
<1>10. CASE m.type = "rate_limit"
  <2>1. t \in {Failed(s), s} BY <1>10 DEF Observed, StreamEvents
  <2> QED BY <1>2, <1>3, <1>10, <2>1
<1>11. CASE m.type = "result"
  <2> DEFINE u == [s EXCEPT !.completed = TRUE]
  <2>1. t = Failed(s) \/ (t = u /\ s.terminal /\ ~s.awaiting_echo /\ ~s.awaiting_submit)
    BY <1>11 DEF Observed, StreamEvents
  <2>2. ASSUME s.terminal, ~s.awaiting_echo, ~s.awaiting_submit PROVE Taken(s, u)
    <3>1. SessTyped(u) BY <1>1 DEF SessTyped, Fields
    <3>2. /\ u.pc = "receiving" /\ u.streaming = s.streaming /\ u.terminal
          /\ u.completed /\ u.auto = s.auto /\ u.messages = s.messages
          /\ u.buffer = s.buffer /\ u.shown = s.shown /\ u.retracted = s.retracted
          /\ ~u.awaiting_submit /\ ~u.awaiting_echo /\ ~u.needs_completion
          /\ u.raw = s.raw /\ u.round = s.round /\ u.published = s.published
      BY <1>1, <2>2 DEF SessTyped, Fields
    <3> HIDE DEF u
    <3>3. MessageIsOver(u) BY <1>1, <2>2, <3>2 DEF MessageIsOver
    <3>4. Retraction(u) BY <1>1, <3>2 DEF Retraction
    <3>5. Phases(u) BY <3>2 DEF Phases
    <3> QED BY <3>1, <3>2, <3>3, <3>4, <3>5 DEF Taken, SessInv
  <2> QED BY <1>2, <1>11, <2>1, <2>2
<1>12. CASE m.type \notin StreamEvents \cup {"assistant", "refusal_assistant",
               "fallback_notice", "refusal_notice", "user", "status", "rate_limit", "result"}
  <2>1. t = Failed(s) BY <1>12 DEF Observed
  <2> QED BY <1>2, <1>12, <2>1 DEF StreamEvents
<1> QED BY <1>4, <1>5, <1>6, <1>7, <1>8, <1>9, <1>10, <1>11, <1>12

-----------------------------------------------------------------------------
(* The bridge and its callbacks.  First what leaves the calls alone.           *)
LEMMA BridgeFrame ==
  ASSUME NEW b, NEW cb, BridgeInv(b, cb), NEW u,
         DOMAIN u = BridgeFields, u.pending = b.pending, u.call = b.call,
         u.issued = b.issued, u.seen = b.seen, u.sealed = b.sealed,
         u.cancelled = b.cancelled, u.failure \in BOOLEAN,
         u.expected = b.expected \/ ~b.sealed
  PROVE  BridgeInv(u, cb)
<1>1. BridgeTyped(u) BY DEF BridgeInv, BridgeTyped
<1>2. \A c : Known(u, c) <=> Known(b, c) BY DEF Known
<1>3. BridgeCalls(u) BY <1>2 DEF BridgeInv, BridgeCalls, Numbered
<1>4. CallbackInv(u, cb)
  <2>1. \A h : Waiting(b, cb, h) => Waiting(u, cb, h) BY <1>2 DEF Waiting
  <2>2. \A h : Returned(b, cb, h) => Returned(u, cb, h) BY <1>2 DEF Returned
  <2>3. \A c : Came(b, cb, c) => Came(u, cb, c) BY DEF Came
  <2> QED BY <1>2, <2>1, <2>2, <2>3 DEF BridgeInv, CallbackInv
<1> QED BY <1>1, <1>3, <1>4 DEF BridgeInv

LEMMA SignalledInv ==
  ASSUME NEW b, NEW cb, BridgeInv(b, cb)
  PROVE  LET u == Signalled(b) IN
         /\ BridgeInv(u, cb)
         /\ u.failure /\ u.cancelled = b.cancelled
         /\ u.sealed = b.sealed /\ u.expected = b.expected /\ u.seen = b.seen
         /\ u.call = b.call /\ u.pending = b.pending
<1> DEFINE u == Signalled(b)
<1>1. /\ DOMAIN u = BridgeFields /\ u.pending = b.pending /\ u.call = b.call
      /\ u.issued = b.issued /\ u.seen = b.seen /\ u.sealed = b.sealed
      /\ u.cancelled = b.cancelled /\ u.failure = TRUE /\ u.expected = b.expected
  BY DEF BridgeInv, BridgeTyped, BridgeFields, Signalled
<1> HIDE DEF u
<1>2. BridgeInv(u, cb) BY <1>1, BridgeFrame
<1> QED BY <1>1, <1>2 DEF u

LEMMA ChangedInv ==
  ASSUME NEW b, NEW cb, BridgeInv(b, cb)
  PROVE  LET u == [b EXCEPT !.changed = FALSE] IN
         /\ BridgeInv(u, cb) /\ u.cancelled = b.cancelled
         /\ u.sealed = b.sealed /\ u.expected = b.expected /\ u.seen = b.seen
         /\ u.call = b.call
<1> DEFINE u == [b EXCEPT !.changed = FALSE]
<1>1. /\ DOMAIN u = BridgeFields /\ u.pending = b.pending /\ u.call = b.call
      /\ u.issued = b.issued /\ u.seen = b.seen /\ u.sealed = b.sealed
      /\ u.cancelled = b.cancelled /\ u.failure = b.failure /\ u.expected = b.expected
  BY DEF BridgeInv, BridgeTyped, BridgeFields
<1> HIDE DEF u
<1>2. u.failure \in BOOLEAN BY <1>1 DEF BridgeInv, BridgeTyped
<1>3. BridgeInv(u, cb) BY <1>1, <1>2, BridgeFrame
<1> QED BY <1>1, <1>3 DEF u

(* An epoch that is over has no callback under way, and the next may begin.    *)
LEMMA EpochInv ==
  ASSUME NEW b, NEW cb, BridgeInv(b, cb), b.pending = {}, NEW u,
         u \in {EpochComplete(b), Begun(EpochComplete(b))}
  PROVE  BridgeInv(u, cb) /\ u.cancelled = b.cancelled
<1>1. /\ DOMAIN u = BridgeFields /\ u.pending = {} /\ u.call = b.call
      /\ u.issued = b.issued /\ u.seen = {} /\ u.expected = {} /\ u.sealed \in BOOLEAN
      /\ u.cancelled = b.cancelled /\ u.failure = b.failure
  BY DEF BridgeInv, BridgeTyped, BridgeFields, EpochComplete, Begun
<1>2. BridgeTyped(u) BY <1>1 DEF BridgeInv, BridgeTyped
<1>3. \A c : Known(u, c) <=> Known(b, c) BY <1>1 DEF Known
<1>4. BridgeCalls(u) BY <1>1, <1>3 DEF BridgeInv, BridgeCalls, Numbered
<1>5. CallbackInv(u, cb)
  <2>1. \A h : Waiting(b, cb, h) => Waiting(u, cb, h) BY <1>1, <1>3 DEF Waiting
  <2>2. \A h : Returned(b, cb, h) => Returned(u, cb, h) BY <1>1, <1>3 DEF Returned
  <2> QED BY <1>1, <2>1, <2>2 DEF BridgeInv, CallbackInv
<1> QED BY <1>1, <1>2, <1>4, <1>5 DEF BridgeInv

(* A callback changes its state.                                               *)
LEMMA EndsShape ==
  ASSUME NEW cb, CallbackTyped(cb), NEW h \in Callbacks, NEW st, NEW v, NEW d,
         d = [cb EXCEPT ![h].st = st, ![h].value = v]
  PROVE  /\ CallbackTyped(d)
         /\ d[h].st = st /\ d[h].value = v /\ d[h].id = cb[h].id /\ d[h].args = cb[h].args
         /\ \A g \in Callbacks \ {h} : d[g] = cb[g]
BY DEF CallbackTyped

(* ... which is of no interest unless it waits or returns.                     *)
LEMMA CallbackFrame ==
  ASSUME NEW b, NEW cb, BridgeInv(b, cb), NEW h \in Callbacks, NEW d, CallbackTyped(d),
         \A g \in Callbacks \ {h} : d[g] = cb[g],
         cb[h].st \notin {"waiting", "returned"} \/ (b.cancelled /\ cb[h].st = "waiting"),
         d[h].st \notin {"waiting", "returned"}
  PROVE  BridgeInv(b, d)
<1>1. \A g \in Callbacks : d[g].st = "waiting" => Waiting(b, d, g)
  BY DEF BridgeInv, CallbackInv, Waiting
<1>2. \A g \in Callbacks : d[g].st = "returned" => Returned(b, d, g)
  BY DEF BridgeInv, CallbackInv, Returned
<1>3. ~b.cancelled => \A c \in b.seen : c \in Calls /\ Known(b, c) /\ Came(b, d, c)
  <2>1. ASSUME ~b.cancelled, NEW c \in b.seen PROVE Came(b, d, c)
    <3>1. PICK g \in Callbacks :
            /\ cb[g].id = c
            /\ cb[g].st = "waiting" \/ (cb[g].st = "returned"
                                          /\ cb[g].value.pub = b.call[c].pub)
      BY <2>1 DEF BridgeInv, CallbackInv, Came
    <3>2. d[g] = cb[g] BY <2>1, <3>1
    <3> QED BY <3>1, <3>2 DEF Came
  <2> QED BY <2>1 DEF BridgeInv, CallbackInv
<1> QED BY <1>1, <1>2, <1>3 DEF BridgeInv, CallbackInv

-----------------------------------------------------------------------------
(* A callback enters.  In an open epoch its call gets a new record, in a       *)
(* sealed one it is the first to enter for the record that waits for it.       *)
EnteredOpen(b, u, id, args) ==
  /\ u.pending = b.pending \cup {id} /\ u.issued = b.issued + 1
  /\ u.call[id].pub = [issue |-> b.issued + 1, id |-> id] /\ u.call[id].args = args
  /\ u.call[id].entered /\ u.call[id].future = "open"
  /\ \A c \in Calls \ {id} : u.call[c] = b.call[c]

EnteredSealed(b, u, id) ==
  /\ u.pending = b.pending /\ u.issued = b.issued
  /\ \A c \in Calls :
       /\ u.call[c].pub = b.call[c].pub /\ u.call[c].args = b.call[c].args
       /\ u.call[c].future = b.call[c].future /\ u.call[c].value = b.call[c].value
       /\ u.call[c].entered <=> b.call[c].entered \/ c = id

LEMMA EnteredShape ==
  ASSUME NEW b, BridgeTyped(b), NEW id \in Calls, NEW args
  PROVE  LET u == Entered(b, id, args) IN
         /\ BridgeTyped(u) /\ u.seen = b.seen \cup {id} /\ u.sealed = b.sealed
         /\ u.cancelled = b.cancelled /\ u.expected = b.expected
         /\ ~b.sealed => EnteredOpen(b, u, id, args)
         /\ b.sealed => EnteredSealed(b, u, id)
<1> DEFINE u == Entered(b, id, args)
<1>1. CASE b.sealed
  <2>1. u = [b EXCEPT !.call[id].entered = TRUE, !.seen = @ \cup {id}]
    BY <1>1 DEF Entered
  <2>2. /\ DOMAIN u = BridgeFields /\ u.pending = b.pending /\ u.issued = b.issued
        /\ u.call = [b.call EXCEPT ![id].entered = TRUE] /\ u.seen = b.seen \cup {id}
        /\ u.sealed = b.sealed /\ u.failure = b.failure
        /\ u.cancelled = b.cancelled /\ u.expected = b.expected
    BY <2>1 DEF BridgeTyped, BridgeFields
  <2> HIDE DEF u
  <2>3. /\ DOMAIN u.call = Calls
        /\ \A c \in Calls \ {id} : u.call[c] = b.call[c]
        /\ u.call[id] = [b.call[id] EXCEPT !.entered = TRUE]
    BY <2>2 DEF BridgeTyped
  <2>4. /\ DOMAIN u.call[id] = CallFields /\ u.call[id].entered = TRUE
        /\ u.call[id].pub = b.call[id].pub /\ u.call[id].args = b.call[id].args
        /\ u.call[id].future = b.call[id].future /\ u.call[id].value = b.call[id].value
        /\ u.call[id].delivered = b.call[id].delivered
    BY <2>3 DEF BridgeTyped, CallTyped, CallFields
  <2>5. BridgeTyped(u)
    <3>1. CallTyped(b.call[id]) BY DEF BridgeTyped
    <3>2. CallTyped(u.call[id]) BY <2>4, <3>1 DEF CallTyped
    <3> QED BY <2>2, <2>3, <3>2 DEF BridgeTyped
  <2>6. EnteredSealed(b, u, id) BY <2>2, <2>3, <2>4 DEF EnteredSealed
  <2> QED BY <1>1, <2>2, <2>5, <2>6 DEF u
<1>2. CASE ~b.sealed
  <2> DEFINE r == Issued(b, id, args, TRUE)
  <2>1. u = [NewPending(b, id, args, TRUE) EXCEPT !.seen = @ \cup {id}, !.changed = TRUE]
    BY <1>2 DEF Entered
  <2>2. /\ DOMAIN u = BridgeFields /\ u.pending = b.pending \cup {id}
        /\ u.issued = b.issued + 1 /\ u.call = [b.call EXCEPT ![id] = r]
        /\ u.seen = b.seen \cup {id} /\ u.sealed = b.sealed /\ u.failure = b.failure
        /\ u.cancelled = b.cancelled /\ u.expected = b.expected
    BY <2>1 DEF BridgeTyped, BridgeFields, NewPending
  <2> HIDE DEF u
  <2>3. /\ DOMAIN r = CallFields /\ r.pub = [issue |-> b.issued + 1, id |-> id]
        /\ r.args = args /\ r.entered = TRUE /\ r.delivered = FALSE /\ r.future = "open"
    BY DEF Issued, NoCall, CallFields
  <2> HIDE DEF r
  <2>4. /\ DOMAIN u.call = Calls /\ u.call[id] = r
        /\ \A c \in Calls \ {id} : u.call[c] = b.call[c]
    BY <2>2 DEF BridgeTyped
  <2>5. BridgeTyped(u)
    <3>1. CallTyped(r) BY <2>3 DEF CallTyped
    <3> QED BY <2>2, <2>4, <3>1 DEF BridgeTyped
  <2>6. EnteredOpen(b, u, id, args) BY <2>2, <2>3, <2>4 DEF EnteredOpen
  <2> QED BY <1>2, <2>2, <2>5, <2>6 DEF u
<1> QED BY <1>1, <1>2 DEF BridgeTyped

LEMMA EnterInv ==
  ASSUME NEW b, NEW cb, BridgeInv(b, cb), ~b.cancelled,
         NEW h \in Callbacks, cb[h].st = "spawned",
         Admits(b, cb[h].id, cb[h].args),
         NEW d, d = [cb EXCEPT ![h].st = "waiting", ![h].value = None]
  PROVE  BridgeInv(Entered(b, cb[h].id, cb[h].args), d)
<1> DEFINE id == cb[h].id
           args == cb[h].args
           u == Entered(b, id, args)
<1>1. id \in Calls BY DEF Admits
<1>2. BridgeTyped(b) /\ BridgeCalls(b) /\ CallbackInv(b, cb) /\ CallbackTyped(cb)
  BY DEF BridgeInv, CallbackInv
<1>3. /\ BridgeTyped(u) /\ u.seen = b.seen \cup {id} /\ u.sealed = b.sealed
      /\ u.cancelled = b.cancelled /\ u.expected = b.expected
      /\ ~b.sealed => EnteredOpen(b, u, id, args)
      /\ b.sealed => EnteredSealed(b, u, id)
  BY <1>1, <1>2, EnteredShape
<1>4. /\ CallbackTyped(d)
      /\ d[h].st = "waiting" /\ d[h].id = id /\ d[h].args = args
      /\ \A g \in Callbacks \ {h} : d[g] = cb[g]
  BY <1>2 DEF CallbackTyped
<1>5. ~b.sealed => id \notin b.seen BY DEF Admits
<1>6. b.sealed => id \in b.pending /\ ~b.call[id].entered
                  /\ [id |-> id, args |-> args] \in b.expected
  BY DEF Admits
<1> HIDE DEF u, id, args
<1>7. b.issued \in Nat /\ b.pending \subseteq Calls BY <1>2 DEF BridgeTyped
<1>8. CASE ~b.sealed
  <2>1. EnteredOpen(b, u, id, args) BY <1>3, <1>8
  <2>2. \A c \in Calls : Known(u, c) <=> Known(b, c) \/ c = id
    BY <1>1, <2>1 DEF Known, EnteredOpen
  <2>3. BridgeCalls(u)
    <3>1. \A c \in Calls : Known(u, c) => Numbered(u, c)
      <4>1. Numbered(u, id) BY <1>7, <2>1 DEF Numbered, EnteredOpen
      <4>2. \A c \in Calls \ {id} : Known(u, c) => Numbered(u, c)
        BY <1>2, <1>7, <2>1, <2>2 DEF BridgeCalls, Numbered, EnteredOpen
      <4> QED BY <4>1, <4>2
    <3>2. \A c \in u.pending : Known(u, c)
      BY <1>1, <1>2, <1>7, <2>1, <2>2 DEF BridgeCalls, EnteredOpen
    <3>3. \A c \in Calls : u.call[c].future = "result" => u.call[c].value = AnswerOf(u.call[c])
      BY <1>2, <2>1 DEF BridgeCalls, EnteredOpen
    <3>4. \A c \in Calls : u.call[c].future \in {"none", "open", "result"}
      BY <1>2, <2>1 DEF BridgeCalls, EnteredOpen
    <3>5. u.seen \subseteq u.pending /\ \A c \in u.pending : u.call[c].future = "open"
      BY <1>1, <1>2, <1>3, <1>7, <1>8, <2>1 DEF BridgeCalls, EnteredOpen
    <3> QED BY <1>3, <1>8, <3>1, <3>2, <3>3, <3>4, <3>5 DEF BridgeCalls
  <2>4. \A g \in Callbacks : d[g].st = "waiting" => Waiting(u, d, g)
    <3>1. ASSUME NEW g \in Callbacks \ {h}, cb[g].st = "waiting"
          PROVE  Waiting(b, cb, g) /\ cb[g].id # id
      BY <1>2, <1>5, <1>8, <3>1 DEF CallbackInv, Waiting
    <3>2. ASSUME NEW g \in Callbacks \ {h}, d[g].st = "waiting" PROVE Waiting(u, d, g)
      <4>1. d[g] = cb[g] /\ cb[g].st = "waiting" BY <1>4, <3>2
      <4>2. Waiting(b, cb, g) /\ cb[g].id # id BY <3>1, <4>1
      <4>3. cb[g].id \in Calls /\ Known(u, cb[g].id)
            /\ u.call[cb[g].id].entered /\ u.call[cb[g].id].args = cb[g].args
        BY <2>1, <2>2, <4>2 DEF Waiting, EnteredOpen
      <4>4. cb[g].id \in u.pending /\ cb[g].id \in u.seen
        BY <1>3, <2>1, <4>2 DEF Waiting, EnteredOpen
      <4>5. \A k \in Callbacks \ {g} : d[k].st = "waiting" => d[k].id # cb[g].id
        BY <1>4, <4>2 DEF Waiting
      <4> QED BY <4>1, <4>3, <4>4, <4>5 DEF Waiting
    <3>3. Waiting(u, d, h)
      <4>1. \A k \in Callbacks \ {h} : d[k].st = "waiting" => d[k].id # id
        BY <1>4, <3>1
      <4>2. u.call[id].entered /\ u.call[id].args = args /\ id \in u.pending /\ id \in u.seen
        BY <1>3, <2>1 DEF EnteredOpen
      <4> QED BY <1>1, <1>4, <2>2, <4>1, <4>2 DEF Waiting
    <3> QED BY <3>2, <3>3
  <2>5. \A g \in Callbacks : d[g].st = "returned" => Returned(u, d, g)
    <3>1. SUFFICES ASSUME NEW g \in Callbacks \ {h}, cb[g].st = "returned"
                   PROVE  Returned(u, d, g)
      BY <1>4
    <3>2. Returned(b, cb, g) BY <1>2, <3>1 DEF CallbackInv
    <3>3. cb[g].value.pub.issue \in 1..b.issued BY <3>2 DEF Returned
    <3>4. u.call[id].pub # cb[g].value.pub
      <4>1. u.call[id].pub.issue = b.issued + 1 BY <2>1 DEF EnteredOpen
      <4> QED BY <1>7, <3>3, <4>1
    <3>5. cb[g].value.pub.issue \in 1..u.issued BY <1>7, <2>1, <3>3 DEF EnteredOpen
    <3>6. \A c \in Calls : Known(u, c) /\ u.call[c].pub = cb[g].value.pub =>
            u.call[c].entered /\ \A k \in Callbacks : d[k].st = "waiting" => d[k].id # c
      <4>1. SUFFICES ASSUME NEW c \in Calls, Known(u, c), u.call[c].pub = cb[g].value.pub
                     PROVE  /\ u.call[c].entered
                            /\ \A k \in Callbacks : d[k].st = "waiting" => d[k].id # c
        OBVIOUS
      <4>2. c # id BY <3>4, <4>1
      <4>3. Known(b, c) /\ b.call[c].pub = cb[g].value.pub
            /\ (b.call[c].entered => u.call[c].entered)
        BY <2>1, <2>2, <4>1, <4>2 DEF EnteredOpen
      <4>4. b.call[c].entered /\ \A k \in Callbacks : cb[k].st = "waiting" => cb[k].id # c
        BY <3>2, <4>3 DEF Returned
      <4>5. \A k \in Callbacks : d[k].st = "waiting" => d[k].id # c
        BY <1>4, <4>2, <4>4
      <4> QED BY <4>3, <4>4, <4>5
    <3>7. \A k \in Callbacks \ {g} : d[k].st = "returned" => d[k].value.pub # d[g].value.pub
      BY <1>4, <3>2 DEF Returned
    <3> QED BY <1>4, <3>2, <3>5, <3>6, <3>7 DEF Returned
  <2>6. \A c \in u.seen : c \in Calls /\ Known(u, c) /\ Came(u, d, c)
    <3>1. Came(u, d, id) BY <1>4 DEF Came
    <3>2. ASSUME NEW c \in b.seen PROVE c \in Calls /\ Known(u, c) /\ Came(u, d, c)
      <4>1. c \in Calls /\ Known(b, c) /\ Came(b, cb, c) /\ c # id
        BY <1>2, <1>5, <1>8, <3>2 DEF CallbackInv
      <4>2. u.call[c] = b.call[c] BY <2>1, <4>1 DEF EnteredOpen
      <4> QED BY <1>4, <2>2, <4>1, <4>2 DEF Came
    <3> QED BY <1>1, <1>3, <2>2, <3>1, <3>2
  <2> QED BY <1>3, <1>4, <2>3, <2>4, <2>5, <2>6 DEF BridgeInv, CallbackInv, u, id, args
<1>9. CASE b.sealed
  <2>1. EnteredSealed(b, u, id) BY <1>3, <1>9
  <2>2. \A c \in Calls : Known(u, c) <=> Known(b, c) BY <2>1 DEF Known, EnteredSealed
  <2>3. BridgeCalls(u)
    <3>1. \A c \in Calls : Known(u, c) => Numbered(u, c)
      BY <1>2, <2>1, <2>2 DEF BridgeCalls, Numbered, EnteredSealed
    <3>2. \A c \in u.pending : Known(u, c)
      BY <1>2, <1>7, <2>1, <2>2 DEF BridgeCalls, EnteredSealed
    <3>3. \A c \in Calls : u.call[c].future = "result" => u.call[c].value = AnswerOf(u.call[c])
      BY <1>2, <2>1 DEF BridgeCalls, EnteredSealed, AnswerOf
    <3>4. \A c \in Calls : u.call[c].future \in {"none", "open", "result"}
      BY <1>2, <2>1 DEF BridgeCalls, EnteredSealed
    <3>5. \A e \in u.expected : e.id \in Calls /\ Known(u, e.id) /\ u.call[e.id].args = e.args
      BY <1>2, <1>3, <1>9, <2>1, <2>2 DEF BridgeCalls, EnteredSealed
    <3> QED BY <1>3, <1>9, <3>1, <3>2, <3>3, <3>4, <3>5 DEF BridgeCalls
  <2>4. \A g \in Callbacks : d[g].st = "waiting" => Waiting(u, d, g)
    <3>1. ASSUME NEW g \in Callbacks \ {h}, cb[g].st = "waiting"
          PROVE  Waiting(b, cb, g) /\ cb[g].id # id
      BY <1>2, <1>6, <1>9, <3>1 DEF CallbackInv, Waiting
    <3>2. ASSUME NEW g \in Callbacks \ {h}, d[g].st = "waiting" PROVE Waiting(u, d, g)
      <4>1. d[g] = cb[g] /\ cb[g].st = "waiting" BY <1>4, <3>2
      <4>2. Waiting(b, cb, g) /\ cb[g].id # id BY <3>1, <4>1
      <4>3. cb[g].id \in Calls /\ Known(u, cb[g].id)
            /\ u.call[cb[g].id].entered /\ u.call[cb[g].id].args = cb[g].args
        BY <2>1, <2>2, <4>2 DEF Waiting, EnteredSealed
      <4>4. cb[g].id \in u.pending /\ cb[g].id \in u.seen
        BY <1>3, <2>1, <4>2 DEF Waiting, EnteredSealed
      <4>5. \A k \in Callbacks \ {g} : d[k].st = "waiting" => d[k].id # cb[g].id
        BY <1>4, <4>2 DEF Waiting
      <4> QED BY <4>1, <4>3, <4>4, <4>5 DEF Waiting
    <3>3. Known(b, id) /\ b.call[id].args = args
      <4>1. [id |-> id, args |-> args] \in b.expected BY <1>6, <1>9
      <4>2. [id |-> id, args |-> args].id = id /\ [id |-> id, args |-> args].args = args
        OBVIOUS
      <4> QED BY <1>2, <1>9, <4>1, <4>2 DEF BridgeCalls
    <3>4. Waiting(u, d, h)
      <4>1. \A k \in Callbacks \ {h} : d[k].st = "waiting" => d[k].id # id
        BY <1>4, <3>1
      <4>2. u.call[id].entered /\ u.call[id].args = args /\ id \in u.pending /\ id \in u.seen
        BY <1>1, <1>3, <1>6, <1>9, <2>1, <3>3 DEF EnteredSealed
      <4> QED BY <1>1, <1>4, <2>2, <3>3, <4>1, <4>2 DEF Waiting
    <3> QED BY <3>2, <3>4
  <2>5. \A g \in Callbacks : d[g].st = "returned" => Returned(u, d, g)
    <3>1. SUFFICES ASSUME NEW g \in Callbacks \ {h}, cb[g].st = "returned"
                   PROVE  Returned(u, d, g)
      BY <1>4
    <3>2. Returned(b, cb, g) BY <1>2, <3>1 DEF CallbackInv
    <3>3. Known(b, id) BY <1>2, <1>6, <1>9 DEF BridgeCalls
    <3>4. b.call[id].pub # cb[g].value.pub
      BY <1>1, <1>6, <1>9, <3>2, <3>3 DEF Returned
    <3>5. \A c \in Calls : Known(u, c) /\ u.call[c].pub = cb[g].value.pub =>
            u.call[c].entered /\ \A k \in Callbacks : d[k].st = "waiting" => d[k].id # c
      <4>1. SUFFICES ASSUME NEW c \in Calls, Known(u, c), u.call[c].pub = cb[g].value.pub
                     PROVE  /\ u.call[c].entered
                            /\ \A k \in Callbacks : d[k].st = "waiting" => d[k].id # c
        OBVIOUS
      <4>2. c # id BY <2>1, <3>4, <4>1 DEF EnteredSealed
      <4>3. Known(b, c) /\ b.call[c].pub = cb[g].value.pub
            /\ (b.call[c].entered => u.call[c].entered)
        BY <2>1, <2>2, <4>1, <4>2 DEF EnteredSealed
      <4>4. b.call[c].entered /\ \A k \in Callbacks : cb[k].st = "waiting" => cb[k].id # c
        BY <3>2, <4>3 DEF Returned
      <4>5. \A k \in Callbacks : d[k].st = "waiting" => d[k].id # c
        BY <1>4, <4>2, <4>4
      <4> QED BY <4>3, <4>4, <4>5
    <3>6. \A k \in Callbacks \ {g} : d[k].st = "returned" => d[k].value.pub # d[g].value.pub
      BY <1>4, <3>2 DEF Returned
    <3>7. d[g] = cb[g] /\ u.issued = b.issued BY <1>4, <2>1 DEF EnteredSealed
    <3> QED BY <3>2, <3>5, <3>6, <3>7 DEF Returned
  <2>6. \A c \in u.seen : c \in Calls /\ Known(u, c) /\ Came(u, d, c)
    <3>1. Came(u, d, id) BY <1>4 DEF Came
    <3>2. ASSUME NEW c \in b.seen PROVE c \in Calls /\ Known(u, c) /\ Came(u, d, c)
      <4>1. c \in Calls /\ Known(b, c) /\ Came(b, cb, c)
        BY <1>2, <3>2 DEF CallbackInv
      <4>2. u.call[c].pub = b.call[c].pub BY <2>1, <4>1 DEF EnteredSealed
      <4> QED BY <1>4, <2>2, <4>1, <4>2 DEF Came
    <3>3. Known(u, id) BY <1>1, <1>2, <1>6, <1>9, <2>2 DEF BridgeCalls
    <3> QED BY <1>1, <1>3, <3>1, <3>2, <3>3
  <2> QED BY <1>3, <1>4, <2>3, <2>4, <2>5, <2>6 DEF BridgeInv, CallbackInv, u, id, args
<1> QED BY <1>2, <1>8, <1>9 DEF BridgeTyped

-----------------------------------------------------------------------------
(* A callback that waits is answered: it returns what its call was given, and  *)
(* leaves.  While the bridge is not cancelled there is no other way to wake.   *)
LEMMA LeftShape ==
  ASSUME NEW b, BridgeTyped(b), NEW id
  PROVE  LET u == Left(b, id) IN
         /\ BridgeTyped(u) /\ u.pending = b.pending \ {id} /\ u.call = b.call
         /\ u.issued = b.issued /\ u.seen = b.seen /\ u.sealed = b.sealed
         /\ u.cancelled = b.cancelled /\ u.expected = b.expected
<1> DEFINE u == Left(b, id)
<1>1. CASE id \in b.pending
  <2>1. u = [b EXCEPT !.pending = @ \ {id}, !.changed = TRUE] BY <1>1 DEF Left
  <2>2. /\ DOMAIN u = BridgeFields /\ u.pending = b.pending \ {id} /\ u.call = b.call
        /\ u.issued = b.issued /\ u.seen = b.seen /\ u.sealed = b.sealed
        /\ u.cancelled = b.cancelled /\ u.expected = b.expected /\ u.failure = b.failure
    BY <2>1 DEF BridgeTyped, BridgeFields
  <2> HIDE DEF u
  <2>3. BridgeTyped(u) BY <2>2 DEF BridgeTyped
  <2> QED BY <2>2, <2>3 DEF u
<1>2. CASE id \notin b.pending BY <1>2 DEF Left
<1> QED BY <1>1, <1>2

LEMMA WakeInv ==
  ASSUME NEW b, NEW cb, BridgeInv(b, cb), NEW h \in Callbacks, cb[h].st = "waiting",
         b.call[cb[h].id].future # "open", NEW d,
         IF b.call[cb[h].id].future = "result"
         THEN d = [cb EXCEPT ![h].st = "returned", ![h].value = b.call[cb[h].id].value]
         ELSE d = [cb EXCEPT ![h].st = "failed", ![h].value = None]
  PROVE  BridgeInv(Left(b, cb[h].id), d)
<1> DEFINE id == cb[h].id
           u == Left(b, id)
<1>1. BridgeTyped(b) /\ BridgeCalls(b) /\ CallbackInv(b, cb) /\ CallbackTyped(cb)
  BY DEF BridgeInv, CallbackInv
<1>2. Waiting(b, cb, h) BY <1>1 DEF CallbackInv
<1>3. /\ BridgeTyped(u) /\ u.pending = b.pending \ {id} /\ u.call = b.call
      /\ u.issued = b.issued /\ u.seen = b.seen /\ u.sealed = b.sealed
      /\ u.cancelled = b.cancelled /\ u.expected = b.expected
  BY <1>1, LeftShape
<1>4. /\ CallbackTyped(d) /\ d[h].st # "waiting" /\ d[h].id = id /\ d[h].args = cb[h].args
      /\ \A g \in Callbacks \ {h} : d[g] = cb[g]
  <2>1. CASE b.call[cb[h].id].future = "result" BY <1>1, <2>1 DEF CallbackTyped
  <2>2. CASE b.call[cb[h].id].future # "result" BY <1>1, <2>2 DEF CallbackTyped
  <2> QED BY <2>1, <2>2
<1>5. d[h].st = "returned" => b.call[id].future = "result" /\ d[h].value = b.call[id].value
  <2>1. CASE b.call[cb[h].id].future = "result" BY <1>1, <2>1 DEF CallbackTyped
  <2>2. CASE b.call[cb[h].id].future # "result"
    <3>1. d[h].st = "failed" BY <1>1, <2>2 DEF CallbackTyped
    <3> QED BY <3>1
  <2> QED BY <2>1, <2>2
<1>6. id \in Calls /\ Known(b, id) /\ b.call[id].entered /\ b.call[id].args = cb[h].args
      /\ (~b.cancelled => id \in b.pending)
      /\ (\A g \in Callbacks \ {h} : cb[g].st = "waiting" => cb[g].id # id)
  BY <1>2 DEF Waiting
<1>7. ~b.cancelled => d[h].st = "returned" /\ b.sealed
  <2>1. ASSUME ~b.cancelled PROVE d[h].st = "returned" /\ b.sealed
    <3>1. b.call[id].future = "result" BY <1>1, <1>6, <2>1 DEF BridgeCalls, Known
    <3>2. d[h].st = "returned" BY <1>1, <3>1 DEF CallbackTyped
    <3> QED BY <1>1, <1>6, <2>1, <3>1, <3>2 DEF BridgeCalls, BridgeTyped
  <2> QED BY <2>1
<1> HIDE DEF u, id
<1>8. \A c : Known(u, c) <=> Known(b, c) BY <1>3 DEF Known
<1>9. BridgeCalls(u) BY <1>1, <1>3, <1>7, <1>8 DEF BridgeCalls, BridgeTyped, Numbered
<1>10. ASSUME NEW g \in Callbacks, d[g].st = "waiting" PROVE Waiting(u, d, g)
  <2>1. g # h /\ d[g] = cb[g] BY <1>4, <1>10
  <2>2. Waiting(b, cb, g) /\ cb[g].id # id BY <1>1, <1>6, <1>10, <2>1 DEF CallbackInv
  <2>3. \A k \in Callbacks \ {g} : d[k].st = "waiting" => d[k].id # cb[g].id
    BY <1>4, <2>2 DEF Waiting
  <2>4. cb[g].id \in Calls /\ Known(u, cb[g].id)
        /\ u.call[cb[g].id].entered /\ u.call[cb[g].id].args = cb[g].args
    BY <1>3, <1>8, <2>2 DEF Waiting
  <2>5. ~u.cancelled => cb[g].id \in u.pending /\ cb[g].id \in u.seen
    BY <1>3, <2>2 DEF Waiting
  <2> QED BY <2>1, <2>3, <2>4, <2>5 DEF Waiting
<1>11. ASSUME NEW g \in Callbacks, d[g].st = "returned" PROVE Returned(u, d, g)
  <2>1. ASSUME NEW k \in Callbacks \ {h}, cb[k].st = "returned"
        PROVE  cb[k].value.pub # b.call[id].pub
    <3>1. Returned(b, cb, k) BY <1>1, <2>1 DEF CallbackInv
    <3> QED BY <1>6, <3>1 DEF Returned, id
  <2>2. CASE g = h
    <3>1. d[h].value = AnswerOf(b.call[id]) /\ Numbered(b, id)
      BY <1>1, <1>5, <1>6, <1>11, <2>2 DEF BridgeCalls
    <3>2. d[h].value = [pub |-> b.call[id].pub, args |-> cb[h].args]
      BY <1>6, <3>1 DEF AnswerOf
    <3>3. d[h].value.pub = b.call[id].pub BY <3>2
    <3>4. b.call[id].pub = [issue |-> b.call[id].pub.issue, id |-> id]
          /\ b.call[id].pub.issue \in 1..b.issued
      BY <3>1 DEF Numbered
    <3>5. \A k \in Callbacks \ {h} : d[k].st = "returned" => d[k].value.pub # d[h].value.pub
      BY <1>4, <2>1, <3>3
    <3>6. ASSUME NEW c \in Calls, Known(u, c), u.call[c].pub = d[h].value.pub
          PROVE  u.call[c].entered /\ \A k \in Callbacks : d[k].st = "waiting" => d[k].id # c
      <4>1. Numbered(b, c) BY <1>1, <1>8, <3>6 DEF BridgeCalls
      <4>2. b.call[c].pub = [issue |-> b.call[c].pub.issue, id |-> c] BY <4>1 DEF Numbered
      <4>3. b.call[c].pub.id = c /\ b.call[id].pub.id = id BY <3>4, <4>2
      <4>4. c = id BY <1>3, <3>3, <3>6, <4>3
      <4> QED BY <1>3, <1>4, <1>6, <4>4
    <3> QED BY <1>3, <1>4, <1>6, <2>2, <3>2, <3>3, <3>4, <3>5, <3>6 DEF Returned
  <2>3. CASE g # h
    <3>1. d[g] = cb[g] /\ Returned(b, cb, g) BY <1>1, <1>4, <1>11, <2>3 DEF CallbackInv
    <3>2. cb[g].st = "returned" BY <1>11, <3>1
    <3>3. \A k \in Callbacks \ {g} : d[k].st = "returned" => d[k].value.pub # d[g].value.pub
      <4>1. SUFFICES ASSUME NEW k \in Callbacks \ {g}, d[k].st = "returned"
                     PROVE  d[k].value.pub # cb[g].value.pub
        BY <3>1
      <4>2. CASE k = h
        <5>1. d[h].value = AnswerOf(b.call[id]) BY <1>1, <1>5, <1>6, <4>1, <4>2 DEF BridgeCalls
        <5>2. d[h].value.pub = b.call[id].pub BY <5>1 DEF AnswerOf
        <5> QED BY <2>1, <2>3, <3>2, <4>2, <5>2
      <4>3. CASE k # h BY <1>4, <3>1, <4>1, <4>3 DEF Returned
      <4> QED BY <4>2, <4>3
    <3>4. \A c \in Calls : Known(u, c) /\ u.call[c].pub = cb[g].value.pub =>
            u.call[c].entered /\ \A k \in Callbacks : d[k].st = "waiting" => d[k].id # c
      BY <1>3, <1>4, <1>8, <3>1 DEF Returned
    <3> QED BY <1>3, <3>1, <3>3, <3>4 DEF Returned
  <2> QED BY <2>2, <2>3
<1>12. ASSUME ~u.cancelled, NEW c \in u.seen PROVE c \in Calls /\ Known(u, c) /\ Came(u, d, c)
  <2>1. c \in Calls /\ Known(b, c) /\ Came(b, cb, c) BY <1>1, <1>3, <1>12 DEF CallbackInv
  <2>2. PICK g \in Callbacks :
          /\ cb[g].id = c
          /\ cb[g].st = "waiting" \/ (cb[g].st = "returned"
                                        /\ cb[g].value.pub = b.call[c].pub)
    BY <2>1 DEF Came
  <2>3. CASE g = h
    <3>1. c = id BY <2>2, <2>3 DEF id
    <3>2. d[h].st = "returned" BY <1>3, <1>7, <1>12
    <3>3. d[h].value = AnswerOf(b.call[id]) BY <1>1, <1>5, <1>6, <3>2 DEF BridgeCalls
    <3>4. d[h].value.pub = u.call[c].pub BY <1>3, <3>1, <3>3 DEF AnswerOf
    <3>5. Came(u, d, c) BY <1>4, <3>1, <3>2, <3>4 DEF Came
    <3> QED BY <1>8, <2>1, <3>5
  <2>4. CASE g # h
    <3>1. d[g] = cb[g] BY <1>4, <2>4
    <3>2. Came(u, d, c) BY <1>3, <2>2, <3>1 DEF Came
    <3> QED BY <1>8, <2>1, <3>2
  <2> QED BY <2>3, <2>4
<1> QED BY <1>3, <1>4, <1>9, <1>10, <1>11, <1>12 DEF BridgeInv, CallbackInv, u, id

-----------------------------------------------------------------------------
(* The calls that wait are given their results.                                *)
LEMMA ResolvedInv ==
  ASSUME NEW b, NEW cb, BridgeInv(b, cb), ~b.cancelled, b.sealed, NEW results,
         Matches(b, results),
         \A c \in Undelivered(b) : results[b.call[c].pub] = AnswerOf(b.call[c])
  PROVE  LET u == Resolved(b, results) IN
         /\ BridgeInv(u, cb)
         /\ u.sealed /\ u.cancelled = b.cancelled
         /\ u.expected = b.expected /\ u.seen = b.seen
         /\ \A c \in Calls : AnswerOf(u.call[c]) = AnswerOf(b.call[c])
<1> DEFINE u == Resolved(b, results)
           R(c) == [b.call[c] EXCEPT !.delivered = TRUE, !.future = "result",
                                     !.value = results[b.call[c].pub]]
<1>1. BridgeTyped(b) /\ BridgeCalls(b) /\ CallbackInv(b, cb) /\ CallbackTyped(cb)
  BY DEF BridgeInv, CallbackInv
<1>2. /\ DOMAIN u = BridgeFields /\ u.pending = b.pending /\ u.issued = b.issued
      /\ u.seen = b.seen /\ u.sealed = TRUE /\ u.failure = b.failure
      /\ u.cancelled = b.cancelled /\ u.expected = b.expected
      /\ u.call = [c \in Calls |-> IF c \notin Undelivered(b) THEN b.call[c] ELSE R(c)]
  BY <1>1 DEF BridgeTyped, BridgeFields, Resolved
<1> HIDE DEF u
<1>3. ASSUME NEW c \in Undelivered(b)
      PROVE  /\ CallTyped(R(c)) /\ R(c).pub = b.call[c].pub /\ R(c).args = b.call[c].args
             /\ R(c).entered = b.call[c].entered /\ R(c).future = "result"
             /\ R(c).value = AnswerOf(b.call[c]) /\ b.call[c].future = "open" /\ c \in Calls
  <2>1. c \in b.pending /\ b.call[c].future = "open" BY <1>3 DEF Undelivered, Matches
  <2>2. CallTyped(b.call[c]) /\ c \in Calls BY <1>1, <2>1 DEF BridgeTyped
  <2>3. /\ DOMAIN R(c) = CallFields /\ R(c).delivered = TRUE
        /\ R(c).pub = b.call[c].pub /\ R(c).args = b.call[c].args
        /\ R(c).entered = b.call[c].entered /\ R(c).future = "result"
        /\ R(c).value = results[b.call[c].pub]
    BY <2>2 DEF CallTyped, CallFields
  <2> HIDE DEF R
  <2>4. CallTyped(R(c)) BY <2>2, <2>3 DEF CallTyped
  <2> QED BY <1>3, <2>1, <2>2, <2>3, <2>4
<1> HIDE DEF R
<1>4. ASSUME NEW c \in Calls
      PROVE  /\ CallTyped(u.call[c]) /\ u.call[c].pub = b.call[c].pub
             /\ u.call[c].args = b.call[c].args /\ u.call[c].entered = b.call[c].entered
             /\ u.call[c].future \in {b.call[c].future, "result"}
             /\ u.call[c].future = "result" => u.call[c].value = AnswerOf(b.call[c])
             /\ Known(u, c) <=> Known(b, c)
  <2>1. CASE c \in Undelivered(b)
    <3>1. u.call[c] = R(c) BY <1>2, <1>4, <2>1
    <3> QED BY <1>3, <2>1, <3>1 DEF Known
  <2>2. CASE c \notin Undelivered(b)
    <3>1. u.call[c] = b.call[c] BY <1>2, <1>4, <2>2
    <3> QED BY <1>1, <1>4, <3>1 DEF Known, BridgeTyped, BridgeCalls
  <2> QED BY <2>1, <2>2
<1>5. BridgeTyped(u)
  <2>1. DOMAIN u.call = Calls BY <1>2
  <2> QED BY <1>1, <1>2, <1>4, <2>1 DEF BridgeTyped
<1>6. \A c \in Calls : AnswerOf(u.call[c]) = AnswerOf(b.call[c]) BY <1>4 DEF AnswerOf
<1>7. BridgeCalls(u)
  <2>1. \A c \in Calls : Known(u, c) => Numbered(u, c)
    BY <1>1, <1>2, <1>4 DEF BridgeCalls, Numbered
  <2>2. \A c \in u.pending : Known(u, c) BY <1>1, <1>2, <1>4 DEF BridgeCalls, BridgeTyped
  <2>3. \A c \in Calls : u.call[c].future = "result" => u.call[c].value = AnswerOf(u.call[c])
    BY <1>4, <1>6
  <2>4. \A c \in Calls : u.call[c].future \in {"none", "open", "result"}
    BY <1>1, <1>4 DEF BridgeCalls
  <2>5. \A e \in u.expected : e.id \in Calls /\ Known(u, e.id) /\ u.call[e.id].args = e.args
    BY <1>1, <1>2, <1>4 DEF BridgeCalls
  <2> QED BY <1>2, <2>1, <2>2, <2>3, <2>4, <2>5 DEF BridgeCalls
<1>8. CallbackInv(u, cb)
  <2>1. \A h : Waiting(b, cb, h) => Waiting(u, cb, h) BY <1>2, <1>4 DEF Waiting
  <2>2. \A h : Returned(b, cb, h) => Returned(u, cb, h) BY <1>2, <1>4 DEF Returned
  <2>3. \A c \in Calls : Came(b, cb, c) => Came(u, cb, c) BY <1>4 DEF Came
  <2> QED BY <1>1, <1>2, <1>4, <2>1, <2>2, <2>3 DEF CallbackInv
<1> QED BY <1>2, <1>5, <1>6, <1>7, <1>8 DEF BridgeInv, u

(* The bridge is cancelled: nothing is pending, and who waits is told.         *)
LEMMA CancelledInv ==
  ASSUME NEW b, NEW cb, BridgeInv(b, cb)
  PROVE  BridgeInv(Cancelled(b), cb)
<1> DEFINE u == Cancelled(b)
           R(c) == [b.call[c] EXCEPT !.future = IF b.call[c].entered
                                                THEN "error" ELSE "cancelled"]
<1>1. BridgeTyped(b) /\ BridgeCalls(b) /\ CallbackInv(b, cb) /\ CallbackTyped(cb)
  BY DEF BridgeInv, CallbackInv
<1>2. CASE b.cancelled BY <1>2 DEF Cancelled
<1>3. CASE ~b.cancelled
  <2>1. /\ DOMAIN u = BridgeFields /\ u.pending = {} /\ u.issued = b.issued
        /\ u.seen = {} /\ u.sealed = b.sealed /\ u.failure = b.failure
        /\ u.cancelled = TRUE /\ u.expected = {}
        /\ u.call = [c \in Calls |-> IF c \in b.pending /\ b.call[c].future = "open"
                                     THEN R(c) ELSE b.call[c]]
    BY <1>1, <1>3 DEF BridgeTyped, BridgeFields, Cancelled
  <2> HIDE DEF u
  <2>2. ASSUME NEW c \in Calls
        PROVE  /\ CallTyped(R(c)) /\ R(c).pub = b.call[c].pub /\ R(c).args = b.call[c].args
               /\ R(c).entered = b.call[c].entered /\ R(c).future \in {"error", "cancelled"}
    <3>1. CallTyped(b.call[c]) BY <1>1, <2>2 DEF BridgeTyped
    <3>2. /\ DOMAIN R(c) = CallFields /\ R(c).delivered = b.call[c].delivered
          /\ R(c).pub = b.call[c].pub /\ R(c).args = b.call[c].args
          /\ R(c).entered = b.call[c].entered /\ R(c).future \in {"error", "cancelled"}
      BY <3>1 DEF CallTyped, CallFields
    <3> HIDE DEF R
    <3> QED BY <3>1, <3>2 DEF CallTyped
  <2> HIDE DEF R
  <2>3. ASSUME NEW c \in Calls
        PROVE  /\ CallTyped(u.call[c]) /\ u.call[c].pub = b.call[c].pub
               /\ u.call[c].args = b.call[c].args /\ u.call[c].entered = b.call[c].entered
               /\ u.call[c].future = "result" => u.call[c].value = AnswerOf(b.call[c])
               /\ Known(u, c) <=> Known(b, c)
    <3>1. CASE c \in b.pending /\ b.call[c].future = "open"
      <4>1. u.call[c] = R(c) BY <2>1, <2>3, <3>1
      <4> QED BY <2>2, <3>1, <4>1 DEF Known
    <3>2. CASE ~(c \in b.pending /\ b.call[c].future = "open")
      <4>1. u.call[c] = b.call[c] BY <2>1, <2>3, <3>2
      <4> QED BY <1>1, <2>3, <4>1 DEF Known, BridgeTyped, BridgeCalls
    <3> QED BY <3>1, <3>2
  <2>4. BridgeTyped(u)
    <3>1. DOMAIN u.call = Calls BY <2>1
    <3> QED BY <1>1, <2>1, <2>3, <3>1 DEF BridgeTyped
  <2>5. BridgeCalls(u)
    <3>1. \A c \in Calls : Known(u, c) => Numbered(u, c)
      BY <1>1, <2>1, <2>3 DEF BridgeCalls, Numbered
    <3>2. \A c \in Calls : u.call[c].future = "result" => u.call[c].value = AnswerOf(u.call[c])
      BY <2>3 DEF AnswerOf
    <3> QED BY <2>1, <3>1, <3>2 DEF BridgeCalls
  <2>6. CallbackInv(u, cb)
    <3>1. \A h : Waiting(b, cb, h) => Waiting(u, cb, h) BY <2>1, <2>3 DEF Waiting
    <3>2. \A h : Returned(b, cb, h) => Returned(u, cb, h) BY <2>1, <2>3 DEF Returned
    <3> QED BY <1>1, <2>1, <3>1, <3>2 DEF CallbackInv
  <2> QED BY <2>4, <2>5, <2>6 DEF BridgeInv, u
<1> QED BY <1>1, <1>2, <1>3 DEF BridgeTyped

-----------------------------------------------------------------------------
(* The epoch is sealed: calls that no callback has entered for get a record.   *)
LEMMA PlaceholdersInv ==
  ASSUME NEW b, NEW cb, BridgeInv(b, cb), ~b.cancelled, ~b.sealed, NEW calls,
         \A c \in calls : c.id \in Calls,
         \A c, e \in calls : c.id = e.id => c = e,
         \A c \in calls : Agrees(b, c)
  PROVE  LET u == Placeholders(b, calls) IN
         /\ BridgeInv(u, cb)
         /\ u.sealed = b.sealed /\ u.cancelled = b.cancelled /\ u.failure = b.failure
         /\ u.expected = b.expected /\ u.seen = b.seen
         /\ \A c \in calls : Known(u, c.id) /\ u.call[c.id].args = c.args
<1> DEFINE missing == {c \in calls : c.id \notin b.pending}
           new == {c.id : c \in missing}
           I(id) == Issued(b, id, (CHOOSE c \in missing : c.id = id).args, FALSE)
           u == Placeholders(b, calls)
<1>1. BridgeTyped(b) /\ BridgeCalls(b) /\ CallbackInv(b, cb) /\ CallbackTyped(cb)
  BY DEF BridgeInv, CallbackInv
<1>2. /\ DOMAIN u = BridgeFields /\ u.pending = b.pending \cup new
      /\ u.issued = b.issued + 1 /\ u.seen = b.seen /\ u.sealed = b.sealed
      /\ u.failure = b.failure /\ u.cancelled = b.cancelled /\ u.expected = b.expected
      /\ u.call = [id \in Calls |-> IF \E c \in missing : c.id = id THEN I(id) ELSE b.call[id]]
  BY <1>1 DEF BridgeTyped, BridgeFields, Placeholders
<1> HIDE DEF u
<1>3. ASSUME NEW id
      PROVE  /\ CallTyped(I(id)) /\ I(id).pub = [issue |-> b.issued + 1, id |-> id]
             /\ I(id).args = (CHOOSE c \in missing : c.id = id).args
             /\ I(id).future = "open"
  <2> DEFINE a == (CHOOSE c \in missing : c.id = id).args
  <2> HIDE DEF a
  <2>1. /\ DOMAIN Issued(b, id, a, FALSE) = CallFields
        /\ Issued(b, id, a, FALSE).pub = [issue |-> b.issued + 1, id |-> id]
        /\ Issued(b, id, a, FALSE).args = a /\ Issued(b, id, a, FALSE).entered = FALSE
        /\ Issued(b, id, a, FALSE).delivered = FALSE
        /\ Issued(b, id, a, FALSE).future = "open"
    BY DEF Issued, NoCall, CallFields
  <2>2. CallTyped(Issued(b, id, a, FALSE)) BY <2>1 DEF CallTyped
  <2> QED BY <2>1, <2>2 DEF a
<1> HIDE DEF I
<1>4. \A c \in missing : c.id \in Calls /\ u.call[c.id] = I(c.id)
  BY <1>2
<1>5. \A id \in Calls \ new : u.call[id] = b.call[id] BY <1>2
<1>6. new \subseteq Calls /\ new \cap b.pending = {} /\ \A id \in new : u.call[id] = I(id)
  BY <1>4
<1>7. b.issued \in Nat /\ b.pending \subseteq Calls /\ b.seen \subseteq b.pending
  BY <1>1 DEF BridgeTyped, BridgeCalls
<1>8. \A c \in calls : Known(u, c.id) /\ u.call[c.id].args = c.args
  <2>1. ASSUME NEW c \in calls, c.id \in b.pending
        PROVE  Known(u, c.id) /\ u.call[c.id].args = c.args
    <3>1. c.id \in Calls \ new BY <1>6, <2>1
    <3>2. Known(b, c.id) BY <1>1, <2>1 DEF BridgeCalls
    <3>3. b.call[c.id].args = c.args BY <2>1 DEF Agrees
    <3> QED BY <1>5, <3>1, <3>2, <3>3 DEF Known
  <2>2. ASSUME NEW c \in calls, c.id \notin b.pending
        PROVE  Known(u, c.id) /\ u.call[c.id].args = c.args
    <3>1. c \in missing BY <2>2
    <3>2. (CHOOSE e \in missing : e.id = c.id) = c
      <4>1. (CHOOSE e \in missing : e.id = c.id) \in missing
            /\ (CHOOSE e \in missing : e.id = c.id).id = c.id
        BY <3>1
      <4> QED BY <3>1, <4>1
    <3>3. u.call[c.id] = I(c.id) BY <1>4, <3>1
    <3> QED BY ZenonT(60), <1>3, <3>2, <3>3 DEF Known
  <2> QED BY <2>1, <2>2
<1> HIDE DEF new, missing
<1>13. ASSUME NEW c \in new
       PROVE  /\ CallTyped(u.call[c]) /\ u.call[c].pub = [issue |-> b.issued + 1, id |-> c]
              /\ u.call[c].future = "open" /\ c \in Calls
  <2>1. u.call[c] = I(c) BY <1>6, <1>13
  <2> QED BY <1>3, <1>6, <1>13, <2>1
<1>9. BridgeTyped(u)
  <2>1. DOMAIN u.call = Calls BY <1>2
  <2>2. \A c \in Calls : CallTyped(u.call[c]) BY <1>1, <1>5, <1>13 DEF BridgeTyped
  <2>3. u.pending \subseteq Calls /\ u.issued \in Nat BY <1>2, <1>6, <1>7
  <2> QED BY <1>1, <1>2, <2>1, <2>2, <2>3 DEF BridgeTyped
<1>10. \A c \in Calls : Known(u, c) <=> Known(b, c) \/ c \in new
  BY <1>5, <1>6, <1>13 DEF Known
<1>11. BridgeCalls(u)
  <2>1. ASSUME NEW c \in Calls, Known(u, c) PROVE Numbered(u, c)
    <3>1. CASE c \in new
      <4>1. u.call[c].pub = [issue |-> b.issued + 1, id |-> c] BY <1>13, <3>1
      <4> QED BY <1>2, <1>7, <4>1 DEF Numbered
    <3>2. CASE c \notin new
      <4>1. u.call[c] = b.call[c] /\ Numbered(b, c)
        BY <1>1, <1>5, <1>10, <2>1, <3>2 DEF BridgeCalls
      <4> QED BY <1>2, <1>7, <4>1 DEF Numbered
    <3> QED BY <3>1, <3>2
  <2>2. \A c \in u.pending : Known(u, c) BY <1>1, <1>2, <1>6, <1>7, <1>10 DEF BridgeCalls
  <2>3. ASSUME NEW c \in Calls
        PROVE  /\ u.call[c].future = "result" => u.call[c].value = AnswerOf(u.call[c])
               /\ u.call[c].future \in {"none", "open", "result"}
    <3>1. CASE c \in new
      <4>1. u.call[c].future = "open" BY <1>13, <3>1
      <4> QED BY <4>1
    <3>2. CASE c \notin new
      <4>1. u.call[c] = b.call[c] BY <1>5, <2>3, <3>2
      <4> QED BY <1>1, <2>3, <4>1 DEF BridgeCalls
    <3> QED BY <3>1, <3>2
  <2>4. \A c \in u.pending : u.call[c].future = "open"
    <3>1. \A c \in new : u.call[c].future = "open" BY <1>13
    <3>2. \A c \in b.pending : u.call[c].future = "open"
      BY <1>1, <1>5, <1>6, <1>7 DEF BridgeCalls
    <3> QED BY <1>2, <3>1, <3>2
  <2> QED BY <1>2, <1>7, <2>1, <2>2, <2>3, <2>4 DEF BridgeCalls
<1>12. CallbackInv(u, cb)
  <2>1. ASSUME NEW h \in Callbacks, cb[h].st = "waiting" PROVE Waiting(u, cb, h)
    <3>1. Waiting(b, cb, h) BY <1>1, <2>1 DEF CallbackInv
    <3>2. cb[h].id \in Calls \ new /\ cb[h].id \in u.pending
      BY <1>2, <1>6, <3>1 DEF Waiting
    <3> QED BY <1>2, <1>5, <1>10, <3>1, <3>2 DEF Waiting
  <2>2. ASSUME NEW h \in Callbacks, cb[h].st = "returned" PROVE Returned(u, cb, h)
    <3>1. Returned(b, cb, h) BY <1>1, <2>2 DEF CallbackInv
    <3>2. cb[h].value.pub.issue \in 1..b.issued BY <3>1 DEF Returned
    <3>3. ASSUME NEW c \in new PROVE u.call[c].pub # cb[h].value.pub
      <4>0. u.call[c].pub = [issue |-> b.issued + 1, id |-> c] BY <1>13, <3>3
      <4>1. u.call[c].pub.issue = b.issued + 1 BY <4>0
      <4> QED BY <1>7, <3>2, <4>1
    <3>4. \A c \in Calls : Known(u, c) /\ u.call[c].pub = cb[h].value.pub =>
            Known(b, c) /\ b.call[c] = u.call[c]
      BY <1>5, <1>10, <3>3
    <3>5. \A c \in Calls : Known(u, c) /\ u.call[c].pub = cb[h].value.pub =>
            u.call[c].entered /\ \A g \in Callbacks : cb[g].st = "waiting" => cb[g].id # c
      BY <3>1, <3>4 DEF Returned
    <3>6. cb[h].value.pub.issue \in 1..u.issued BY <1>2, <1>7, <3>2
    <3> QED BY <3>1, <3>5, <3>6 DEF Returned
  <2>3. ASSUME NEW c \in u.seen PROVE c \in Calls /\ Known(u, c) /\ Came(u, cb, c)
    <3>1. c \in Calls /\ Known(b, c) /\ Came(b, cb, c) BY <1>1, <1>2, <2>3 DEF CallbackInv
    <3>2. u.call[c] = b.call[c] BY <1>2, <1>5, <1>6, <1>7, <2>3
    <3> QED BY <1>10, <3>1, <3>2 DEF Came
  <2> QED BY <1>1, <2>1, <2>2, <2>3 DEF CallbackInv
<1> QED BY <1>2, <1>8, <1>9, <1>11, <1>12 DEF BridgeInv, u

LEMMA SealedInv ==
  ASSUME NEW b, NEW cb, BridgeInv(b, cb), NEW calls
  PROVE  LET u == Sealed(b, calls) IN
         /\ BridgeInv(u, cb) /\ u.cancelled = b.cancelled
         /\ ~b.cancelled /\ ~u.failure =>
              /\ u.sealed /\ u.expected = Range(calls) /\ u.seen \subseteq IdsOf(calls)
<1> DEFINE announced == [b EXCEPT !.expected = Range(calls)]
           odd == {i \in DOMAIN calls : ~Agrees(b, calls[i])}
           before == {i \in DOMAIN calls \ odd : \A j \in odd : i < j}
           set == {calls[i] : i \in before}
           made == Placeholders(announced, set)
           done == [made EXCEPT !.sealed = TRUE, !.verified = TRUE]
           u == Sealed(b, calls)
<1>1. BridgeTyped(b) BY DEF BridgeInv
<1>2. CASE b.cancelled \/ b.failure
  <2>1. u = b BY <1>2 DEF Sealed
  <2> QED BY <1>2, <2>1
<1>3. CASE ~(b.cancelled \/ b.failure) /\ (b.sealed \/ ~ProperIds(calls))
  <2>1. u = Signalled(b) BY <1>3 DEF Sealed
  <2> QED BY <2>1, SignalledInv
<1>4. CASE ~(b.cancelled \/ b.failure) /\ ~(b.sealed \/ ~ProperIds(calls))
  <2>1. /\ DOMAIN announced = BridgeFields /\ announced.pending = b.pending
        /\ announced.call = b.call /\ announced.issued = b.issued
        /\ announced.seen = b.seen /\ announced.sealed = b.sealed
        /\ announced.cancelled = b.cancelled /\ announced.failure = b.failure
        /\ announced.expected = Range(calls)
    BY <1>1 DEF BridgeTyped, BridgeFields
  <2> HIDE DEF announced
  <2>2. BridgeInv(announced, cb)
    <3>1. announced.failure \in BOOLEAN BY <1>1, <2>1 DEF BridgeTyped
    <3> QED BY <1>4, <2>1, <3>1, BridgeFrame
  <2>3. CASE ~(b.seen \subseteq {c.id : c \in Range(calls)})
    <3>1. u = Signalled(announced) BY <1>4, <2>3 DEF Sealed, announced
    <3> QED BY <2>1, <2>2, <3>1, SignalledInv
  <2>4. CASE b.seen \subseteq {c.id : c \in Range(calls)}
    <3> DEFINE all == {calls[i] : i \in DOMAIN calls}
    <3>1. before \subseteq DOMAIN calls /\ before \cap odd = {}
          /\ (odd = {} => before = DOMAIN calls)
      OBVIOUS
    <3>2. \A c \in set : c.id \in Calls /\ Agrees(announced, c)
      BY <1>4, <2>1, <3>1 DEF ProperIds, Agrees
    <3>3. \A c, e \in set : c.id = e.id => c = e BY <1>4, <3>1 DEF ProperIds
    <3>4. ~announced.cancelled /\ ~announced.sealed BY <1>4, <2>1
    <3> HIDE DEF before, odd
    <3>5. /\ BridgeInv(made, cb)
          /\ made.sealed = b.sealed /\ made.cancelled = b.cancelled
          /\ made.failure = b.failure
          /\ made.expected = Range(calls) /\ made.seen = b.seen
          /\ \A c \in set : Known(made, c.id) /\ made.call[c.id].args = c.args
      <4> HIDE DEF set
      <4> QED BY <2>1, <2>2, <3>2, <3>3, <3>4, PlaceholdersInv
    <3>6. CASE odd # {}
      <4>1. u = Signalled(made) BY <1>4, <2>4, <3>6 DEF Sealed, announced, odd, before
      <4> HIDE DEF made
      <4> QED BY <3>5, <4>1, SignalledInv
    <3>7. CASE odd = {}
      <4>1. u = done BY <1>4, <2>4, <3>7 DEF Sealed, announced, odd, before
      <4>2. \A e \in Range(calls) : e \in set BY <3>1, <3>7 DEF Range
      <4>3. \A e \in Range(calls) : e.id \in Calls /\ Known(made, e.id)
                                     /\ made.call[e.id].args = e.args
        BY <3>2, <3>5, <4>2
      <4> HIDE DEF set, made
      <4>4. BridgeTyped(made) /\ BridgeCalls(made) /\ CallbackInv(made, cb)
        BY <3>5 DEF BridgeInv
      <4>5. /\ DOMAIN done = BridgeFields /\ done.pending = made.pending
            /\ done.call = made.call /\ done.issued = made.issued
            /\ done.seen = made.seen /\ done.sealed = TRUE
            /\ done.cancelled = made.cancelled /\ done.failure = made.failure
            /\ done.expected = made.expected
        BY <4>4 DEF BridgeTyped, BridgeFields
      <4> HIDE DEF done
      <4>6. \A c : Known(done, c) <=> Known(made, c) BY <4>5 DEF Known
      <4>7. BridgeTyped(done) BY <4>4, <4>5 DEF BridgeTyped
      <4>8. BridgeCalls(done)
        <5>1. \A e \in done.expected : e.id \in Calls /\ Known(done, e.id)
                                       /\ done.call[e.id].args = e.args
          BY <3>5, <4>3, <4>5, <4>6
        <5> QED BY <4>4, <4>5, <4>6, <5>1 DEF BridgeCalls, Numbered
      <4>9. CallbackInv(done, cb)
        <5>1. \A h : Waiting(made, cb, h) => Waiting(done, cb, h) BY <4>5, <4>6 DEF Waiting
        <5>2. \A h : Returned(made, cb, h) => Returned(done, cb, h)
          BY <4>5, <4>6 DEF Returned
        <5>3. \A c : Came(made, cb, c) => Came(done, cb, c) BY <4>5 DEF Came
        <5> QED BY <4>4, <4>5, <4>6, <5>1, <5>2, <5>3 DEF CallbackInv
      <4>10. done.seen \subseteq IdsOf(calls) BY <2>4, <3>5, <4>5 DEF IdsOf
      <4> QED BY <3>5, <4>1, <4>5, <4>7, <4>8, <4>9, <4>10 DEF BridgeInv
    <3> QED BY <3>6, <3>7
  <2> QED BY <2>3, <2>4
<1> QED BY <1>1, <1>2, <1>3, <1>4 DEF BridgeTyped

-----------------------------------------------------------------------------
(* What a round has of the bridge is kept while the bridge keeps its calls.    *)
LEMMA RoundKept ==
  ASSUME NEW s, NEW b, NEW cb, BridgeInv(b, cb), ~b.cancelled, RoundIsSealed(s, b),
         NEW u, u.sealed, u.expected = b.expected, u.seen \subseteq b.seen \cup IdsOf(s.round),
         \A c \in Calls : AnswerOf(u.call[c]) = AnswerOf(b.call[c]),
         NEW t, t.round = s.round, t.published = s.published
  PROVE  RoundIsSealed(t, u)
<1>1. ASSUME NEW i \in DOMAIN s.round PROVE PublishedCall(t, u, i)
  <2>1. PublishedCall(s, b, i) BY <1>1 DEF RoundIsSealed
  <2>2. s.round[i] \in b.expected BY <1>1 DEF RoundIsSealed, Range
  <2>3. s.round[i].id \in Calls BY <2>2 DEF RoundIsSealed, BridgeInv, BridgeCalls
  <2> QED BY <2>1, <2>3 DEF PublishedCall
<1>2. u.seen \subseteq IdsOf(t.round) BY DEF RoundIsSealed
<1> QED BY <1>1, <1>2 DEF RoundIsSealed

LEMMA SameRound ==
  ASSUME NEW s, NEW b, RoundIsSealed(s, b), NEW t, t.round = s.round, t.published = s.published
  PROVE  RoundIsSealed(t, b)
BY DEF RoundIsSealed, PublishedCall

LEMMA DoneKept ==
  ASSUME NEW s, NEW cb, RoundIsDone(s, cb), NEW d,
         \A g \in Callbacks : cb[g].st = "returned" => d[g] = cb[g]
  PROVE  RoundIsDone(s, d)
<1>1. ASSUME NEW i \in DOMAIN s.round
      PROVE  \E h \in Callbacks :
               /\ d[h].st = "returned" /\ d[h].id = s.round[i].id
               /\ d[h].value.pub = s.published[i].pub
  <2>1. PICK h \in Callbacks :
          /\ cb[h].st = "returned" /\ cb[h].id = s.round[i].id
          /\ cb[h].value.pub = s.published[i].pub
    BY <1>1 DEF RoundIsDone
  <2>2. d[h] = cb[h] BY <2>1
  <2> QED BY <2>1, <2>2
<1> QED BY <1>1 DEF RoundIsDone

(* The end of a session.                                                       *)
LEMMA GivenUp ==
  ASSUME NEW s, SessInv(s), NEW x, NEW t, t = [Failed(s) EXCEPT !.abandoned = x]
  PROVE  SessInv(t) /\ t.pc = "failed" /\ ~Live(t) /\ ~InRound(t)
         /\ t.needs_completion = s.needs_completion
<1> DEFINE f == Failed(s)
<1>1. SessInv(f) /\ f.pc = "failed" BY FailedInv, FailedTyped DEF SessInv
<1>2. f.needs_completion = s.needs_completion BY DEF SessInv, SessTyped, Fields, Failed
<1> HIDE DEF f
<1>3. SessTyped(t) BY <1>1 DEF SessInv, SessTyped, Fields, f
<1>4. /\ t.pc = f.pc /\ t.raw = f.raw /\ t.streaming = f.streaming
      /\ t.terminal = f.terminal /\ t.completed = f.completed /\ t.auto = f.auto
      /\ t.messages = f.messages /\ t.buffer = f.buffer /\ t.shown = f.shown
      /\ t.retracted = f.retracted /\ t.awaiting_submit = f.awaiting_submit
      /\ t.awaiting_echo = f.awaiting_echo /\ t.needs_completion = f.needs_completion
  BY <1>1 DEF SessInv, SessTyped, Fields, f
<1>5. MessageIsOver(t) /\ Retraction(t)
  BY <1>1, <1>4 DEF SessInv, MessageIsOver, Retraction, Live
<1> QED BY <1>1, <1>2, <1>3, <1>4, <1>5 DEF SessInv, Live, InRound

LEMMA FailedSession ==
  ASSUME NEW s, SessInv(s)
  PROVE  LET t == Failed(s) IN
         SessInv(t) /\ t.pc = "failed" /\ ~Live(t) /\ ~InRound(t)
         /\ t.needs_completion = s.needs_completion
<1>1. SessInv(Failed(s)) /\ Failed(s).pc = "failed" BY FailedInv, FailedTyped DEF SessInv
<1>2. Failed(s).needs_completion = s.needs_completion
  BY DEF SessInv, SessTyped, Fields, Failed
<1> QED BY <1>1, <1>2 DEF Live, InRound

LEMMA TasksShape ==
  /\ DOMAIN NotReceiving = {"st", "m", "phase", "epoch", "early"} /\ NotReceiving.st = "none"
  /\ DOMAIN Receiving = {"st", "m", "phase", "epoch", "early"} /\ Receiving.st = "waiting"
  /\ DOMAIN NoWaiter = {"st", "first"} /\ NoWaiter.st = "none" /\ NoWaiter.first = "none"
BY DEF NotReceiving, Receiving, NoWaiter

-----------------------------------------------------------------------------
(* A message is processed.                                                     *)
LEMMA ProcessesInv ==
  ASSUME NEW s, Taking(s), NEW m, NEW early, m.type = "user" /\ s.awaiting_echo => ~early,
         BridgeInv(bridge, callback), ~bridge.cancelled,
         s.awaiting_echo => RoundIsSealed(s, bridge),
         Processes(s, m, early)
  PROVE  /\ SessInv(sess') /\ sess'.pc \in {"receiving", "sealing", "failed"}
         /\ BridgeInv(bridge', callback) /\ ~bridge'.cancelled
         /\ InRound(sess') => RoundIsSealed(sess', bridge')
<1> DEFINE opens == OpensEpoch(s, m)
           fails == opens /\ (WaitFails(bridge) \/ Premature(bridge))
           u == [s EXCEPT !.needs_begin = @ /\ ~opens]
<1>1. SessInv(s) /\ SessTyped(s) /\ s.pc = "receiving" BY DEF Taking, SessInv
<1>2. opens \in BOOLEAN BY DEF OpensEpoch
<1>3. Taken(s, u) /\ Taking(u) /\ u.awaiting_echo = s.awaiting_echo
      /\ u.round = s.round /\ u.published = s.published
  <2> HIDE DEF opens
  <2>1. SessTyped(u) BY <1>1, <1>2 DEF SessTyped, Fields
  <2>2. /\ u.pc = s.pc /\ u.streaming = s.streaming /\ u.terminal = s.terminal
        /\ u.completed = s.completed /\ u.auto = s.auto /\ u.messages = s.messages
        /\ u.buffer = s.buffer /\ u.shown = s.shown /\ u.retracted = s.retracted
        /\ u.awaiting_submit = s.awaiting_submit /\ u.awaiting_echo = s.awaiting_echo
        /\ u.needs_completion = s.needs_completion
        /\ u.expected_ids = s.expected_ids /\ u.echo_ids = s.echo_ids
        /\ u.echo_right = s.echo_right /\ u.raw = s.raw
        /\ u.heard = s.heard /\ u.round = s.round /\ u.published = s.published
    BY <1>1 DEF SessTyped, Fields
  <2> HIDE DEF u
  <2>3. Taken(s, u) BY <2>1, <2>2, GoesOnInv
  <2> QED BY <2>2, <2>3 DEF Taken, Taking
<1>4. CASE fails
  <2>1. sess' = Failed(s) /\ bridge' = WaitFailed(bridge) BY <1>4 DEF Processes
  <2>2. BridgeInv(bridge', callback) /\ ~bridge'.cancelled
    BY <2>1, SignalledInv DEF WaitFailed
  <2> QED BY <1>1, <2>1, <2>2, FailedSession
<1>5. CASE ~fails /\ ~opens
  <2>1. sess' = Observed(u, m, early) /\ bridge' = bridge BY <1>5 DEF Processes
  <2> HIDE DEF u
  <2>2. Taken(u, sess') BY <1>3, <2>1, ObservedInv
  <2>3. SessInv(sess') /\ sess'.pc \in {"receiving", "sealing", "failed"} BY <2>2 DEF Taken
  <2>4. ASSUME InRound(sess') PROVE RoundIsSealed(sess', bridge')
    <3>1. s.awaiting_echo BY <1>3, <2>2, <2>3, <2>4 DEF Taken, InRound
    <3>2. sess'.round = s.round /\ sess'.published = s.published BY <1>3, <2>2 DEF Taken
    <3>3. RoundIsSealed(sess', bridge) BY <3>1, <3>2, SameRound
    <3> QED BY <2>1, <3>3
  <2> QED BY <2>1, <2>3, <2>4
<1>6. CASE ~fails /\ opens
  <2>1. /\ sess' = Observed(u, m, early) /\ bridge' = Begun(EpochComplete(bridge))
        /\ bridge.pending = {}
    BY <1>6 DEF Processes
  <2>2. m.type = "block_start" BY <1>6 DEF OpensEpoch
  <2>3. BridgeInv(bridge', callback) /\ ~bridge'.cancelled BY <2>1, EpochInv
  <2> HIDE DEF u
  <2>4. Taken(u, sess') /\ (s.awaiting_echo => sess'.pc = "failed")
    BY <1>3, <2>1, <2>2, ObservedInv
  <2>5. ~InRound(sess') BY <1>3, <2>4 DEF Taken, InRound, Live
  <2> QED BY <2>3, <2>4, <2>5 DEF Taken
<1> QED BY <1>4, <1>5, <1>6

LEMMA ReceivesInv ==
  ASSUME Inv, Receives PROVE Inv' /\ sess'.pc # "boundary"
<1>1. SessInv(sess) /\ Phases(sess) /\ sess.pc = "receiving" /\ Taking(sess)
  BY DEF Inv, SessInv, Receives, Taking, Live
<1>2. waiter.st = "none" /\ incoming.st = "none"
  BY <1>1 DEF Inv, TasksInv, TasksFollow
<1>3. ~bridge.cancelled BY <1>1 DEF Inv
<1>4. sess.awaiting_echo => ~sess.awaiting_submit BY <1>1 DEF Phases
<1>5. sess.awaiting_echo => RoundIsSealed(sess, bridge)
  BY <1>1, <1>2 DEF Inv, RoundInv, InRound, Live
<1>6. Processes(sess, Head(queue), sess.awaiting_submit) BY DEF Receives
<1>7. /\ SessInv(sess') /\ sess'.pc \in {"receiving", "sealing", "failed"}
      /\ BridgeInv(bridge', callback) /\ ~bridge'.cancelled
      /\ InRound(sess') => RoundIsSealed(sess', bridge')
  BY <1>1, <1>3, <1>4, <1>5, <1>6, ProcessesInv DEF Inv
<1>8. UNCHANGED <<incoming, waiter, callback>> BY DEF Receives
<1>9. TasksInv' BY <1>2, <1>7, <1>8 DEF Inv, TasksInv, TasksFollow
<1>10. RoundInv(sess, bridge, callback, waiter)' BY <1>2, <1>7, <1>8 DEF RoundInv
<1> QED BY <1>7, <1>8, <1>9, <1>10 DEF Inv

LEMMA TakesAheadInv ==
  ASSUME Inv, TakesAhead PROVE Inv' /\ sess'.pc # "boundary"
<1> DEFINE s == [sess EXCEPT !.pc = "receiving"]
<1>1. SessInv(sess) /\ SessTyped(sess) /\ MessageIsOver(sess) /\ Retraction(sess)
      /\ Phases(sess) /\ sess.pc = "resumed"
  BY DEF Inv, SessInv, TakesAhead, Live
<1>2. /\ SessTyped(s) /\ s.pc = "receiving"
      /\ s.streaming = sess.streaming /\ s.terminal = sess.terminal
      /\ s.completed = sess.completed /\ s.auto = sess.auto /\ s.messages = sess.messages
      /\ s.buffer = sess.buffer /\ s.shown = sess.shown /\ s.retracted = sess.retracted
      /\ s.awaiting_submit = sess.awaiting_submit /\ s.awaiting_echo = sess.awaiting_echo
      /\ s.needs_completion = sess.needs_completion
      /\ s.expected_ids = sess.expected_ids /\ s.echo_ids = sess.echo_ids
      /\ s.echo_right = sess.echo_right /\ s.raw = sess.raw /\ s.heard = sess.heard
      /\ s.round = sess.round /\ s.published = sess.published
      /\ s.tool_epoch = sess.tool_epoch
  BY <1>1 DEF SessTyped, Fields, Pcs
<1>3. \/ InPosition(s, incoming) /\ ~s.completed
         /\ Processes(s, incoming.m, incoming.early)
      \/ sess' = Failed(s) /\ UNCHANGED bridge
  BY DEF TakesAhead
<1> HIDE DEF s
<1>4. ~s.needs_completion /\ ~s.awaiting_submit BY <1>1, <1>2 DEF Phases
<1>5. SessInv(s)
  <2>1. MessageIsOver(s) /\ Retraction(s)
    BY <1>1, <1>2 DEF MessageIsOver, Retraction, Live
  <2>2. Told(s) = Told(sess) /\ (ToldRight(s) <=> ToldRight(sess)) BY <1>2 DEF Told, ToldRight
  <2>3. Phases(s) BY <1>1, <1>2, <1>4, <2>2 DEF Phases
  <2> QED BY <1>2, <2>1, <2>3 DEF SessInv
<1>6. waiter.st = "none" /\ ~bridge.cancelled /\ incoming.st = "done"
  BY <1>1 DEF Inv, TasksInv, TasksFollow, TakesAhead
<1>7. s.awaiting_echo => RoundIsSealed(s, bridge)
  <2>1. ASSUME s.awaiting_echo PROVE RoundIsSealed(s, bridge)
    <3>1. RoundIsSealed(sess, bridge)
      BY <1>1, <1>2, <1>6, <2>1 DEF Inv, RoundInv, InRound, Live
    <3> QED BY <1>2, <3>1, SameRound
  <2> QED BY <2>1
<1>8. /\ SessInv(sess') /\ sess'.pc \in {"receiving", "sealing", "failed"}
      /\ BridgeInv(bridge', callback) /\ ~bridge'.cancelled
      /\ InRound(sess') => RoundIsSealed(sess', bridge')
  <2>1. CASE sess' = Failed(s) /\ UNCHANGED bridge
    BY <1>5, <1>6, <2>1, FailedSession DEF Inv
  <2>2. CASE InPosition(s, incoming) /\ ~s.completed
             /\ Processes(s, incoming.m, incoming.early)
    <3>1. ASSUME incoming.m.type = "user", s.awaiting_echo PROVE ~incoming.early
      <4>1. Position(s).phase = "awaiting_echo" BY <1>4, <3>1 DEF Position
      <4>2. incoming.phase = "awaiting_echo"
        BY <2>2, <3>1, <4>1 DEF InPosition
      <4> QED BY <1>6, <4>2 DEF Inv, TasksInv
    <3>2. Taking(s) BY <1>2, <1>4, <1>5, <2>2 DEF Taking
    <3> QED BY <1>6, <1>7, <2>2, <3>1, <3>2, ProcessesInv DEF Inv
  <2> QED BY <1>3, <2>1, <2>2
<1>9. incoming' = NotReceiving /\ UNCHANGED <<waiter, callback>> BY DEF TakesAhead
<1>10. TasksInv' BY <1>6, <1>8, <1>9, TasksShape DEF Inv, TasksInv, TasksFollow
<1>11. RoundInv(sess, bridge, callback, waiter)' BY <1>6, <1>8, <1>9 DEF RoundInv
<1> QED BY <1>8, <1>9, <1>10, <1>11 DEF Inv

LEMMA ReceivesAheadInv ==
  ASSUME Inv, ReceivesAhead PROVE Inv'
<1>1. UNCHANGED <<sess, bridge, callback>> BY DEF ReceivesAhead
<1>2. /\ waiter'.st = waiter.st /\ DOMAIN waiter' = {"st", "first"}
      /\ waiter'.first \in {waiter.first, "incoming"}
  BY DEF ReceivesAhead, Inv, TasksInv
<1>3. /\ DOMAIN incoming' = {"st", "m", "phase", "epoch", "early"} /\ incoming'.st = "done"
      /\ incoming'.phase = Position(sess).phase /\ incoming'.early = sess.awaiting_submit
      /\ incoming.st # "none"
  BY DEF ReceivesAhead
<1>4. sess.awaiting_submit => Position(sess).phase = "awaiting_submit" BY DEF Position
<1>5. TasksInv' BY <1>1, <1>2, <1>3, <1>4 DEF Inv, TasksInv, TasksFollow
<1>6. RoundInv(sess, bridge, callback, waiter)' BY <1>1, <1>2 DEF Inv, RoundInv
<1> QED BY <1>1, <1>5, <1>6 DEF Inv

-----------------------------------------------------------------------------
(* Steps that leave the session and its tasks alone: the callbacks', which are *)
(* the bridge's, and the CLI's, which are nobody's.                            *)
LEMMA SessionStays ==
  ASSUME Inv, UNCHANGED <<sess, incoming, waiter>>,
         BridgeInv(bridge', callback'), bridge'.cancelled = bridge.cancelled,
         ~bridge.cancelled /\ RoundIsSealed(sess, bridge) => RoundIsSealed(sess, bridge'),
         \A g \in Callbacks : callback[g].st = "returned" => callback'[g] = callback[g]
  PROVE  Inv'
<1>1. InRound(sess) => ~bridge.cancelled BY DEF Inv, InRound, Live
<1>2. RoundIsDone(sess, callback) => RoundIsDone(sess, callback') BY DoneKept
<1>3. RoundInv(sess, bridge', callback', waiter) BY <1>1, <1>2 DEF Inv, RoundInv
<1>4. TasksInv' BY DEF Inv, TasksInv, TasksFollow
<1> QED BY <1>3, <1>4 DEF Inv

LEMMA AllStays ==
  ASSUME Inv, UNCHANGED <<sess, incoming, waiter, bridge, callback>> PROVE Inv'
BY SessionStays DEF Inv

LEMMA SpawnsInv ==
  ASSUME Inv, NEW h \in Callbacks, NEW id, NEW args, Spawns(h, id, args) PROVE Inv'
<1>1. /\ callback[h].st = "none" /\ UNCHANGED <<sess, incoming, waiter, bridge>>
      /\ callback' = [callback EXCEPT ![h] = [st |-> "spawned", id |-> id, args |-> args,
                                              value |-> None]]
  BY DEF Spawns
<1>2. BridgeInv(bridge, callback) /\ CallbackTyped(callback)
  BY DEF Inv, BridgeInv, CallbackInv
<1>3. /\ CallbackTyped(callback') /\ callback'[h].st = "spawned"
      /\ \A g \in Callbacks \ {h} : callback'[g] = callback[g]
  BY <1>1, <1>2 DEF CallbackTyped
<1>4. BridgeInv(bridge, callback') BY <1>1, <1>2, <1>3, CallbackFrame
<1>5. \A g \in Callbacks : callback[g].st = "returned" => callback'[g] = callback[g]
  BY <1>1, <1>3
<1> QED BY <1>1, <1>4, <1>5, SessionStays

(* What a callback does when it enters keeps the round.                        *)
LEMMA EnteredRound ==
  ASSUME NEW s, NEW b, NEW cb, BridgeInv(b, cb), ~b.cancelled, RoundIsSealed(s, b),
         NEW id, NEW args, Admits(b, id, args)
  PROVE  RoundIsSealed(s, Entered(b, id, args))
<1> DEFINE u == Entered(b, id, args)
<1>1. id \in Calls /\ b.sealed /\ [id |-> id, args |-> args] \in Range(s.round)
  BY DEF Admits, RoundIsSealed
<1>2. /\ u.seen = b.seen \cup {id} /\ u.sealed = b.sealed /\ u.expected = b.expected
      /\ EnteredSealed(b, u, id)
  BY ZenonT(60), <1>1, EnteredShape DEF BridgeInv
<1>3. id \in IdsOf(s.round)
  <2>1. [id |-> id, args |-> args].id = id OBVIOUS
  <2> QED BY <1>1, <2>1 DEF IdsOf
<1> HIDE DEF u
<1>4. \A c \in Calls : AnswerOf(u.call[c]) = AnswerOf(b.call[c])
  BY <1>2 DEF EnteredSealed, AnswerOf
<1>5. RoundIsSealed(s, u) BY <1>1, <1>2, <1>3, <1>4, RoundKept
<1> QED BY <1>5 DEF u

LEMMA LeftRound ==
  ASSUME NEW s, NEW b, NEW cb, BridgeInv(b, cb), ~b.cancelled, RoundIsSealed(s, b), NEW id
  PROVE  RoundIsSealed(s, Left(b, id))
<1> DEFINE u == Left(b, id)
<1>1. /\ u.seen = b.seen /\ u.sealed = b.sealed /\ u.expected = b.expected
      /\ u.call = b.call
  BY LeftShape DEF BridgeInv
<1>2. b.sealed BY DEF RoundIsSealed
<1> HIDE DEF u
<1>3. RoundIsSealed(s, u) BY <1>1, <1>2, RoundKept
<1> QED BY <1>3 DEF u

LEMMA SignalledRound ==
  ASSUME NEW s, NEW b, NEW cb, BridgeInv(b, cb), RoundIsSealed(s, b)
  PROVE  RoundIsSealed(s, Signalled(b))
<1> DEFINE u == Signalled(b)
<1>1. /\ u.seen = b.seen /\ u.sealed = b.sealed /\ u.expected = b.expected
      /\ u.call = b.call
  BY SignalledInv
<1> HIDE DEF u
<1>2. RoundIsSealed(s, u) BY <1>1 DEF RoundIsSealed, PublishedCall
<1> QED BY <1>2 DEF u

LEMMA EntersInv ==
  ASSUME Inv, NEW h \in Callbacks, Enters(h) PROVE Inv'
<1> DEFINE id == callback[h].id
           args == callback[h].args
           b == Entered(bridge, id, args)
<1>1. callback[h].st = "spawned" /\ UNCHANGED <<sess, incoming, waiter>>
  BY DEF Enters
<1>2. BridgeInv(bridge, callback) /\ CallbackTyped(callback)
  BY DEF Inv, BridgeInv, CallbackInv
<1>3. CASE bridge.cancelled /\ Ends(h, "failed", None) /\ UNCHANGED bridge
  <2>1. callback' = [callback EXCEPT ![h].st = "failed", ![h].value = None]
    BY <1>3 DEF Ends
  <2>2. /\ CallbackTyped(callback') /\ callback'[h].st = "failed"
        /\ \A g \in Callbacks \ {h} : callback'[g] = callback[g]
    BY <1>2, <2>1 DEF CallbackTyped
  <2>3. BridgeInv(bridge, callback') BY <1>1, <1>2, <2>2, CallbackFrame
  <2>4. \A g \in Callbacks : callback[g].st = "returned" => callback'[g] = callback[g]
    BY <1>1, <2>2
  <2> QED BY <1>1, <1>3, <2>3, <2>4, SessionStays
<1>4. CASE ~bridge.cancelled /\ Ends(h, "parked", None) /\ bridge' = Signalled(bridge)
  <2>1. callback' = [callback EXCEPT ![h].st = "parked", ![h].value = None]
    BY <1>4 DEF Ends
  <2>2. /\ CallbackTyped(callback') /\ callback'[h].st = "parked"
        /\ \A g \in Callbacks \ {h} : callback'[g] = callback[g]
    BY <1>2, <2>1 DEF CallbackTyped
  <2>3. BridgeInv(bridge, callback') BY <1>1, <1>2, <2>2, CallbackFrame
  <2>4. BridgeInv(bridge', callback') /\ bridge'.cancelled = bridge.cancelled
    BY <1>4, <2>3, SignalledInv
  <2>5. \A g \in Callbacks : callback[g].st = "returned" => callback'[g] = callback[g]
    BY <1>1, <2>2
  <2>6. RoundIsSealed(sess, bridge) => RoundIsSealed(sess, bridge')
    BY <1>2, <1>4, SignalledRound
  <2> QED BY <1>1, <2>4, <2>5, <2>6, SessionStays
<1>5. CASE /\ ~bridge.cancelled /\ Admits(bridge, id, args)
           /\ IF b.call[id].future = "open"
              THEN Ends(h, "waiting", None) /\ bridge' = b ELSE Wakes(h, b)
  <2> DEFINE d == [callback EXCEPT ![h].st = "waiting", ![h].value = None]
  <2>1. BridgeInv(b, d) BY <1>1, <1>2, <1>5, EnterInv
  <2>2. b.cancelled = bridge.cancelled
    BY <1>2, <1>5, EnteredShape DEF Admits, BridgeInv
  <2>3. /\ CallbackTyped(d) /\ d[h].st = "waiting" /\ d[h].id = id
        /\ \A g \in Callbacks \ {h} : d[g] = callback[g]
    BY <1>2 DEF CallbackTyped
  <2>4. RoundIsSealed(sess, bridge) => RoundIsSealed(sess, b)
    BY <1>2, <1>5, EnteredRound
  <2>5. CASE Ends(h, "waiting", None) /\ bridge' = b
    <3>1. callback' = d BY <2>5 DEF Ends
    <3>2. \A g \in Callbacks : callback[g].st = "returned" => callback'[g] = callback[g]
      BY <1>1, <2>3, <3>1
    <3> HIDE DEF b, d
    <3> QED BY <1>1, <2>1, <2>2, <2>4, <2>5, <3>1, <3>2, SessionStays
  <2>6. CASE Wakes(h, b) /\ b.call[id].future # "open"
    <3>1. bridge' = Left(b, id) BY <2>6 DEF Wakes
    <3>2. IF b.call[id].future = "result"
          THEN callback' = [callback EXCEPT ![h].st = "returned",
                                            ![h].value = b.call[id].value]
          ELSE callback' = [callback EXCEPT ![h].st = "failed", ![h].value = None]
      BY <2>6 DEF Wakes, Ends
    <3> HIDE DEF b, id, args
    <3>3. /\ [d EXCEPT ![h].st = "returned", ![h].value = b.call[id].value]
               = [callback EXCEPT ![h].st = "returned", ![h].value = b.call[id].value]
          /\ [d EXCEPT ![h].st = "failed", ![h].value = None]
               = [callback EXCEPT ![h].st = "failed", ![h].value = None]
      BY <1>2 DEF CallbackTyped
    <3>4. IF b.call[d[h].id].future = "result"
          THEN callback' = [d EXCEPT ![h].st = "returned", ![h].value = b.call[d[h].id].value]
          ELSE callback' = [d EXCEPT ![h].st = "failed", ![h].value = None]
      <4>1. d[h].id = id BY <2>3
      <4> HIDE DEF d
      <4>2. CASE b.call[id].future = "result"
        <5>1. callback' = [d EXCEPT ![h].st = "returned", ![h].value = b.call[id].value]
          BY <3>2, <3>3, <4>2, Zenon
        <5> QED BY <4>1, <4>2, <5>1
      <4>3. CASE b.call[id].future # "result"
        <5>1. callback' = [d EXCEPT ![h].st = "failed", ![h].value = None]
          BY <3>2, <3>3, <4>3, Zenon
        <5> QED BY <4>1, <4>3, <5>1
      <4> QED BY <4>2, <4>3
    <3> HIDE DEF d
    <3>5. BridgeInv(bridge', callback') BY <2>1, <2>3, <2>6, <3>1, <3>4, WakeInv
    <3>6. bridge'.cancelled = bridge.cancelled
      BY <2>1, <2>2, <3>1, LeftShape DEF BridgeInv
    <3>7. RoundIsSealed(sess, bridge) => RoundIsSealed(sess, bridge')
      BY <1>5, <2>1, <2>2, <2>4, <3>1, LeftRound
    <3>8. \A g \in Callbacks \ {h} : callback'[g] = callback[g]
      BY <1>2, <3>2 DEF CallbackTyped
    <3>9. \A g \in Callbacks : callback[g].st = "returned" => callback'[g] = callback[g]
      BY <1>1, <3>8
    <3> QED BY <1>1, <3>5, <3>6, <3>7, <3>9, SessionStays
  <2> QED BY <1>5, <2>5, <2>6
<1> QED BY <1>3, <1>4, <1>5 DEF Enters

LEMMA WakesUpInv ==
  ASSUME Inv, NEW h \in Callbacks, WakesUp(h) PROVE Inv'
<1> DEFINE id == callback[h].id
<1>1. UNCHANGED <<sess, incoming, waiter>> BY DEF WakesUp
<1>2. BridgeInv(bridge, callback) /\ CallbackTyped(callback)
  BY DEF Inv, BridgeInv, CallbackInv
<1>3. CASE callback[h].st = "waiting" /\ bridge.call[id].future # "open"
           /\ Wakes(h, bridge)
  <2>1. bridge' = Left(bridge, id) BY <1>3 DEF Wakes
  <2>2. IF bridge.call[id].future = "result"
        THEN callback' = [callback EXCEPT ![h].st = "returned",
                                          ![h].value = bridge.call[id].value]
        ELSE callback' = [callback EXCEPT ![h].st = "failed", ![h].value = None]
    BY <1>3 DEF Wakes, Ends
  <2>3. BridgeInv(bridge', callback') BY <1>2, <1>3, <2>1, <2>2, WakeInv
  <2>4. bridge'.cancelled = bridge.cancelled BY <1>2, <2>1, LeftShape DEF BridgeInv
  <2>5. ~bridge.cancelled /\ RoundIsSealed(sess, bridge) => RoundIsSealed(sess, bridge')
    BY <1>2, <2>1, LeftRound
  <2>6. \A g \in Callbacks \ {h} : callback'[g] = callback[g]
    BY <1>2, <2>2 DEF CallbackTyped
  <2>7. \A g \in Callbacks : callback[g].st = "returned" => callback'[g] = callback[g]
    BY <1>3, <2>6
  <2> QED BY <1>1, <2>3, <2>4, <2>5, <2>7, SessionStays
<1>4. CASE callback[h].st = "parked" /\ Ends(h, "failed", None) /\ UNCHANGED bridge
  <2>1. callback' = [callback EXCEPT ![h].st = "failed", ![h].value = None]
    BY <1>4 DEF Ends
  <2>2. /\ CallbackTyped(callback') /\ callback'[h].st = "failed"
        /\ \A g \in Callbacks \ {h} : callback'[g] = callback[g]
    BY <1>2, <2>1 DEF CallbackTyped
  <2>3. BridgeInv(bridge, callback') BY <1>2, <1>4, <2>2, CallbackFrame
  <2>4. \A g \in Callbacks : callback[g].st = "returned" => callback'[g] = callback[g]
    BY <1>4, <2>2
  <2> QED BY <1>1, <1>4, <2>3, <2>4, SessionStays
<1> QED BY <1>3, <1>4 DEF WakesUp

-----------------------------------------------------------------------------
(* The session moves on.  First what a change of its place leaves alone.       *)
SameMessage(s, t) ==
  /\ t.raw = s.raw /\ t.streaming = s.streaming /\ t.terminal = s.terminal
  /\ t.completed = s.completed /\ t.auto = s.auto /\ t.messages = s.messages
  /\ t.retracted = s.retracted

SameRoundOf(s, t) ==
  /\ t.round = s.round /\ t.published = s.published /\ t.heard = s.heard
  /\ t.expected_ids = s.expected_ids /\ t.echo_ids = s.echo_ids
  /\ t.echo_right = s.echo_right

LEMMA MoveShape ==
  ASSUME NEW s, SessTyped(s), NEW p \in Pcs, NEW t, t = [s EXCEPT !.pc = p]
  PROVE  /\ SessTyped(t) /\ t.pc = p /\ SameMessage(s, t) /\ SameRoundOf(s, t)
         /\ t.buffer = s.buffer /\ t.shown = s.shown
         /\ t.awaiting_submit = s.awaiting_submit /\ t.awaiting_echo = s.awaiting_echo
         /\ t.needs_completion = s.needs_completion
<1>1. SessTyped(t) BY DEF SessTyped, Fields
<1>2. /\ t.pc = p /\ SameMessage(s, t) /\ SameRoundOf(s, t)
      /\ t.buffer = s.buffer /\ t.shown = s.shown
      /\ t.awaiting_submit = s.awaiting_submit /\ t.awaiting_echo = s.awaiting_echo
      /\ t.needs_completion = s.needs_completion
  BY DEF SessTyped, Fields, SameMessage, SameRoundOf
<1> QED BY <1>1, <1>2

(* Where nothing of a round is left, there is little to keep.                  *)
LEMMA AtRest ==
  ASSUME NEW s, SessInv(s), NEW t, SessTyped(t), SameMessage(s, t),
         t.shown \cup t.buffer \subseteq s.shown \cup s.buffer,
         t.auto /\ t.streaming /\ ~IsComplete(t.raw) => t.messages \notin t.shown,
         t.pc \in {"idle", "receiving", "resumed"}, t.completed => t.pc = "idle",
         ~t.awaiting_submit, ~t.awaiting_echo, ~t.needs_completion
  PROVE  SessInv(t) /\ ~InRound(t)
<1>1. MessageIsOver(t) BY DEF SessInv, MessageIsOver, SameMessage
<1>2. Retraction(t) BY DEF SessInv, Retraction, SameMessage
<1>3. Phases(t) BY DEF Phases
<1> QED BY <1>1, <1>2, <1>3 DEF SessInv, InRound

(* What a release does.                                                        *)
LEMMA ReleasedShape ==
  ASSUME NEW s, SessTyped(s)
  PROVE  LET t == Released(s) IN
         /\ SessTyped(t) /\ t.pc = s.pc /\ SameMessage(s, t) /\ SameRoundOf(s, t)
         /\ t.buffer = {} /\ t.shown = s.shown \cup s.buffer
         /\ t.awaiting_submit = s.awaiting_submit /\ t.awaiting_echo = s.awaiting_echo
         /\ t.needs_completion = s.needs_completion
<1>1. SessTyped(Released(s)) BY DEF SessTyped, Fields, Released
<1> QED BY <1>1 DEF SessTyped, Fields, Released, SameMessage, SameRoundOf

LEMMA StartsInv ==
  ASSUME Inv, Starts PROVE Inv'
<1>1. SessInv(sess) /\ SessTyped(sess) /\ Phases(sess) /\ sess.pc = "new" /\ Live(sess)
  BY DEF Inv, SessInv, Live, Starts
<1>2. UNCHANGED <<incoming, waiter, bridge, callback>> BY DEF Starts
<1>3. waiter.st = "none" /\ incoming.st = "none" /\ ~bridge.cancelled
  BY <1>1 DEF Inv, TasksInv, TasksFollow
<1>4. SessInv(sess') /\ ~InRound(sess') /\ sess'.pc \in {"idle", "failed"}
  <2>1. CASE sess' = [sess EXCEPT !.pc = "idle"]
    <3>1. "idle" \in Pcs BY DEF Pcs
    <3>2. /\ SessTyped(sess') /\ sess'.pc = "idle" /\ SameMessage(sess, sess')
          /\ sess'.buffer = sess.buffer /\ sess'.shown = sess.shown
          /\ sess'.awaiting_submit = sess.awaiting_submit
          /\ sess'.awaiting_echo = sess.awaiting_echo
          /\ sess'.needs_completion = sess.needs_completion
      BY <1>1, <2>1, <3>1, MoveShape
    <3>3. ~sess.awaiting_submit /\ ~sess.awaiting_echo /\ ~sess.needs_completion
      BY <1>1 DEF Phases
    <3>4. sess'.auto /\ sess'.streaming /\ ~IsComplete(sess'.raw) =>
            sess'.messages \notin sess'.shown
      BY <1>1, <3>2 DEF SessInv, Retraction, SameMessage
    <3> QED BY <1>1, <3>2, <3>3, <3>4, AtRest
  <2>2. CASE sess' = [Failed(sess) EXCEPT !.abandoned = TRUE] BY ZenonT(60), <1>1, <2>2, GivenUp
  <2> QED BY <2>1, <2>2 DEF Starts
<1>5. TasksInv' BY <1>2, <1>3, <1>4 DEF Inv, TasksInv, TasksFollow
<1> QED BY <1>2, <1>3, <1>4, <1>5 DEF Inv, RoundInv

LEMMA QueryInv ==
  ASSUME Inv, Query PROVE Inv'
<1>1. SessTyped(sess) /\ Phases(sess) /\ sess.pc = "idle"
  BY DEF Inv, SessInv, Live, Query
<1>2. UNCHANGED <<incoming, waiter, bridge, callback>> BY DEF Query
<1>3. waiter.st = "none" /\ incoming.st = "none" /\ ~bridge.cancelled
  BY <1>1 DEF Inv, TasksInv, TasksFollow
<1>4. sess' = [sess EXCEPT !.pc = "receiving", !.turn = @ + 1, !.streaming = FALSE,
                 !.raw = NewRaw, !.terminal = FALSE, !.completed = FALSE,
                 !.refused = FALSE, !.retracting = FALSE, !.messages = 0,
                 !.buffer = {}, !.size = 0, !.shown = {}, !.retracted = {}]
  BY DEF Query
<1>5. /\ DOMAIN sess' = Fields /\ sess'.raw = NewRaw /\ sess'.pc = "receiving"
      /\ sess'.messages = 0 /\ sess'.streaming = FALSE /\ sess'.terminal = FALSE
      /\ sess'.completed = FALSE /\ sess'.refused = FALSE /\ sess'.retracting = FALSE
      /\ sess'.buffer = {} /\ sess'.shown = {} /\ sess'.retracted = {}
      /\ sess'.auto = sess.auto /\ sess'.needs_begin = sess.needs_begin
      /\ sess'.awaiting_submit = sess.awaiting_submit
      /\ sess'.awaiting_echo = sess.awaiting_echo
      /\ sess'.needs_completion = sess.needs_completion
  BY <1>1, <1>4 DEF SessTyped, Fields
<1>6. DOMAIN NewRaw = RawFields BY DEF NewRaw, RawFields
<1>7. SessTyped(sess') BY <1>1, <1>4, <1>5, <1>6 DEF SessTyped, Fields, Pcs
<1>8. ~sess.awaiting_submit /\ ~sess.awaiting_echo /\ ~sess.needs_completion
  BY <1>1 DEF Phases
<1>9. MessageIsOver(sess') /\ Retraction(sess') /\ Phases(sess')
  BY <1>5, <1>8 DEF MessageIsOver, Retraction, Phases
<1>10. ~InRound(sess') BY <1>5, <1>8 DEF InRound
<1>11. TasksInv' BY <1>2, <1>3, <1>5 DEF Inv, TasksInv, TasksFollow
<1> QED BY <1>2, <1>3, <1>7, <1>9, <1>10, <1>11 DEF Inv, RoundInv, SessInv

LEMMA FinishesInv ==
  ASSUME Inv, Finishes PROVE Inv'
<1> DEFINE s == Released(sess)
<1>1. /\ SessInv(sess) /\ SessTyped(sess) /\ Phases(sess) /\ MessageIsOver(sess)
      /\ sess.pc = "receiving" /\ sess.completed
  BY DEF Inv, SessInv, Live, Finishes
<1>2. UNCHANGED <<incoming, waiter, bridge, callback>> BY DEF Finishes
<1>3. waiter.st = "none" /\ incoming.st = "none" /\ ~bridge.cancelled
  BY <1>1 DEF Inv, TasksInv, TasksFollow
<1>4. /\ SessTyped(s) /\ SameMessage(sess, s)
      /\ s.buffer = {} /\ s.shown = sess.shown \cup sess.buffer
      /\ s.awaiting_submit = sess.awaiting_submit /\ s.awaiting_echo = sess.awaiting_echo
      /\ s.needs_completion = sess.needs_completion
  BY <1>1, ReleasedShape
<1>5. sess' = [s EXCEPT !.pc = "idle"] /\ "idle" \in Pcs BY DEF Finishes, Pcs
<1> HIDE DEF s
<1>6. /\ SessTyped(sess') /\ sess'.pc = "idle" /\ SameMessage(s, sess')
      /\ sess'.buffer = s.buffer /\ sess'.shown = s.shown
      /\ sess'.awaiting_submit = s.awaiting_submit /\ sess'.awaiting_echo = s.awaiting_echo
      /\ sess'.needs_completion = s.needs_completion
  BY <1>4, <1>5, MoveShape
<1>7. SameMessage(sess, sess') BY <1>4, <1>6 DEF SameMessage
<1>8. ~sess.awaiting_submit /\ ~sess.awaiting_echo /\ ~sess.needs_completion
  BY <1>1 DEF Phases
<1>9. IsComplete(sess'.raw) BY <1>1, <1>7 DEF MessageIsOver, SameMessage
<1>10. SessInv(sess') /\ ~InRound(sess')
  BY <1>1, <1>4, <1>6, <1>7, <1>8, <1>9, AtRest
<1>11. TasksInv' BY <1>2, <1>3, <1>6 DEF Inv, TasksInv, TasksFollow
<1> QED BY <1>2, <1>3, <1>10, <1>11 DEF Inv, RoundInv

-----------------------------------------------------------------------------
(* The wait for the callbacks of a round.                                      *)
LEMMA StartsWaitingInv ==
  ASSUME Inv, StartsWaiting PROVE Inv'
<1>1. /\ SessInv(sess) /\ SessTyped(sess) /\ Phases(sess) /\ MessageIsOver(sess)
      /\ Retraction(sess) /\ sess.pc = "receiving" /\ sess.needs_completion
  BY DEF Inv, SessInv, Live, StartsWaiting
<1>2. UNCHANGED <<bridge, callback>> BY DEF StartsWaiting
<1>3. waiter.st = "none" /\ ~bridge.cancelled
  BY <1>1 DEF Inv, TasksInv, TasksFollow
<1>4. SessTyped(sess) /\ sess' = [sess EXCEPT !.pc = "completing"] /\ "completing" \in Pcs
  BY <1>1 DEF StartsWaiting, Pcs
<1>5. /\ SessTyped(sess') /\ sess'.pc = "completing"
      /\ SameMessage(sess, sess') /\ SameRoundOf(sess, sess')
      /\ sess'.buffer = sess.buffer /\ sess'.shown = sess.shown
      /\ sess'.awaiting_submit = sess.awaiting_submit
      /\ sess'.awaiting_echo = sess.awaiting_echo
      /\ sess'.needs_completion = sess.needs_completion
  BY <1>4, MoveShape
<1>6. ~sess.awaiting_submit /\ ~sess.awaiting_echo /\ ~sess.completed
  BY <1>1 DEF Phases
<1>7. MessageIsOver(sess') /\ Retraction(sess')
  BY <1>1, <1>5, <1>6 DEF MessageIsOver, Retraction, SameMessage
<1>8. Phases(sess')
  <2>1. Told(sess') = IdsOf(sess'.round) /\ ToldRight(sess')
    BY <1>1, <1>5 DEF Phases, Told, ToldRight, SameRoundOf
  <2> QED BY <1>5, <1>6, <2>1 DEF Phases, SameMessage
<1>9. RoundIsSealed(sess, bridge) BY <1>1, <1>3 DEF Inv, RoundInv, InRound, Live
<1>10. RoundIsSealed(sess', bridge') BY <1>2, <1>5, <1>9, SameRound DEF SameRoundOf
<1>11. waiter' = [st |-> "new", first |-> "none"] /\ incoming' = Receiving
  BY DEF StartsWaiting
<1>12. DOMAIN waiter' = {"st", "first"} /\ waiter'.st = "new" /\ waiter'.first = "none"
  BY <1>11
<1>13. TasksInv' BY <1>5, <1>11, <1>12, TasksShape DEF TasksInv, TasksFollow
<1>14. RoundInv(sess, bridge, callback, waiter)' BY <1>10, <1>12 DEF RoundInv
<1> QED BY <1>2, <1>3, <1>5, <1>7, <1>8, <1>13, <1>14 DEF Inv, SessInv

(* When the wait ends, every callback of the round has returned.               *)
LEMMA RoundEnds ==
  ASSUME NEW s, NEW b, NEW cb, BridgeInv(b, cb), ~b.cancelled, RoundIsSealed(s, b),
         b.pending = {}, ~WaitFails(b)
  PROVE  RoundIsDone(s, cb)
<1>1. b.seen = IdsOf(s.round) BY DEF WaitFails, RoundIsSealed, IdsOf
<1>2. ASSUME NEW i \in DOMAIN s.round
      PROVE  \E h \in Callbacks :
               /\ cb[h].st = "returned" /\ cb[h].id = s.round[i].id
               /\ cb[h].value.pub = s.published[i].pub
  <2>1. s.round[i].id \in b.seen BY <1>1, <1>2 DEF IdsOf, Range
  <2>2. PICK h \in Callbacks :
          /\ cb[h].id = s.round[i].id
          /\ cb[h].st = "waiting"
             \/ (cb[h].st = "returned" /\ cb[h].value.pub = b.call[s.round[i].id].pub)
    BY <2>1 DEF BridgeInv, CallbackInv, Came
  <2>3. cb[h].st # "waiting" BY DEF BridgeInv, CallbackInv, Waiting
  <2>4. s.published[i] = AnswerOf(b.call[s.round[i].id])
    BY <1>2 DEF RoundIsSealed, PublishedCall
  <2>5. s.published[i].pub = b.call[s.round[i].id].pub BY <2>4 DEF AnswerOf
  <2> QED BY <2>2, <2>3, <2>5
<1> QED BY <1>2 DEF RoundIsDone

LEMMA WaitsInv ==
  ASSUME Inv, Waits PROVE Inv'
<1> DEFINE fails == WaitFails(bridge) \/ (waiter.st = "new" /\ Premature(bridge))
           ends == fails \/ bridge.pending = {}
<1>1. UNCHANGED <<sess, incoming, callback>> /\ waiter.st \in {"new", "waiting"}
  BY DEF Waits
<1>2. waiter' = [st |-> IF fails THEN "failed" ELSE IF ends THEN "done" ELSE "waiting",
                 first |-> IF ends /\ waiter.first = "none" THEN "callback"
                           ELSE waiter.first]
  BY DEF Waits
<1>3. bridge' = IF fails THEN WaitFailed(bridge)
                ELSE IF ends THEN EpochComplete(bridge)
                ELSE [bridge EXCEPT !.changed = FALSE]
  BY DEF Waits
<1>4. BridgeInv(bridge, callback) /\ sess.pc = "completing" /\ ~bridge.cancelled
      /\ waiter.first # "callback"
  BY <1>1 DEF Inv, TasksInv, TasksFollow
<1>5. InRound(sess) => RoundIsSealed(sess, bridge) BY <1>1 DEF Inv, RoundInv
<1>6. /\ DOMAIN waiter' = {"st", "first"}
      /\ waiter'.st = IF fails THEN "failed" ELSE IF ends THEN "done" ELSE "waiting"
      /\ waiter'.first = "callback" => ends
  BY <1>2, <1>4
<1>7. WaitFails(bridge) => fails OBVIOUS
<1>8. ~fails /\ ends => bridge.pending = {} OBVIOUS
<1> HIDE DEF fails, ends
<1>9. TasksInv'
  <2>1. waiter'.st \in {"waiting", "done", "failed"} BY <1>6
  <2>2. waiter'.first = "callback" => waiter'.st \in {"done", "failed"} BY <1>6
  <2> QED BY <1>1, <1>4, <1>6, <2>1, <2>2 DEF Inv, TasksInv, TasksFollow
<1>10. CASE fails
  <2>1. bridge' \in {bridge, Signalled(bridge)} BY <1>3, <1>10 DEF WaitFailed
  <2>2. BridgeInv(bridge', callback') /\ ~bridge'.cancelled
    BY <1>1, <1>4, <2>1, SignalledInv
  <2>3. InRound(sess) => RoundIsSealed(sess, bridge')
    BY <1>4, <1>5, <2>1, SignalledRound
  <2>4. waiter'.st # "done" BY <1>6, <1>10
  <2> QED BY <1>1, <1>9, <2>2, <2>3, <2>4 DEF Inv, RoundInv
<1>11. CASE ~fails /\ ends
  <2>1. bridge' = EpochComplete(bridge) /\ waiter'.st = "done" BY <1>3, <1>6, <1>11
  <2>2. BridgeInv(bridge', callback') /\ ~bridge'.cancelled
    BY <1>1, <1>4, <1>8, <1>11, <2>1, EpochInv
  <2>3. InRound(sess) => RoundIsDone(sess, callback)
    BY <1>4, <1>5, <1>7, <1>8, <1>11, RoundEnds
  <2> QED BY <1>1, <1>9, <2>1, <2>2, <2>3 DEF Inv, RoundInv
<1>12. CASE ~fails /\ ~ends
  <2>1. bridge' = [bridge EXCEPT !.changed = FALSE] /\ waiter'.st # "done"
    BY <1>3, <1>6, <1>12
  <2>2. /\ BridgeInv(bridge', callback) /\ bridge'.cancelled = bridge.cancelled
        /\ bridge'.sealed = bridge.sealed /\ bridge'.expected = bridge.expected
        /\ bridge'.seen = bridge.seen /\ bridge'.call = bridge.call
    BY <1>4, <2>1, ChangedInv
  <2>3. InRound(sess) => RoundIsSealed(sess, bridge')
    BY <1>5, <2>2 DEF RoundIsSealed, PublishedCall
  <2> QED BY <1>1, <1>4, <1>9, <2>1, <2>2, <2>3 DEF Inv, RoundInv
<1> QED BY <1>10, <1>11, <1>12

LEMMA CallbacksWereFirstInv ==
  ASSUME Inv, CallbacksWereFirst PROVE Inv'
<1>1. /\ SessInv(sess) /\ SessTyped(sess) /\ Phases(sess) /\ Retraction(sess)
      /\ sess.pc = "completing"
  BY DEF Inv, SessInv, Live, CallbacksWereFirst
<1>2. UNCHANGED <<bridge, callback>> /\ waiter' = NoWaiter /\ waiter.first = "callback"
  BY DEF CallbacksWereFirst
<1>3. ~bridge.cancelled BY <1>1 DEF Inv
<1>4. CASE waiter.st = "failed"
  <2>1. sess' = Failed(sess) /\ incoming' = NotReceiving BY <1>4 DEF CallbacksWereFirst
  <2>2. SessInv(sess') /\ ~InRound(sess') /\ sess'.pc = "failed"
    BY <1>1, <2>1, FailedSession
  <2>3. TasksInv' BY <1>2, <2>1, <2>2, TasksShape DEF TasksInv, TasksFollow
  <2> QED BY <1>2, <1>3, <2>2, <2>3 DEF Inv, RoundInv
<1>5. CASE waiter.st # "failed"
  <2>1. sess' = [sess EXCEPT !.pc = "resumed", !.needs_completion = FALSE]
        /\ UNCHANGED incoming
    BY <1>5 DEF CallbacksWereFirst
  <2>2. SessTyped(sess') BY <1>1, <2>1 DEF SessTyped, Fields, Pcs
  <2>3. /\ sess'.pc = "resumed" /\ SameMessage(sess, sess')
        /\ sess'.buffer = sess.buffer /\ sess'.shown = sess.shown
        /\ sess'.awaiting_submit = sess.awaiting_submit
        /\ sess'.awaiting_echo = sess.awaiting_echo /\ ~sess'.needs_completion
    BY <1>1, <2>1 DEF SessTyped, Fields, SameMessage
  <2>4. ~sess.awaiting_submit /\ ~sess.awaiting_echo /\ ~sess.completed
    BY <1>1 DEF Phases
  <2>5. sess'.auto /\ sess'.streaming /\ ~IsComplete(sess'.raw) =>
          sess'.messages \notin sess'.shown
    BY <1>1, <2>3 DEF Retraction, SameMessage
  <2>6. ~sess'.completed BY <2>3, <2>4 DEF SameMessage
  <2>7. SessInv(sess') /\ ~InRound(sess')
    BY <1>1, <2>2, <2>3, <2>4, <2>5, <2>6, AtRest
  <2>8. TasksInv' BY <1>1, <1>2, <2>1, <2>3, TasksShape DEF Inv, TasksInv, TasksFollow
  <2> QED BY <1>2, <1>3, <2>7, <2>8 DEF Inv, RoundInv
<1> QED BY <1>4, <1>5

LEMMA MessageWasFirstInv ==
  ASSUME Inv, MessageWasFirst PROVE Inv'
<1>1. SessInv(sess) /\ ~bridge.cancelled BY DEF Inv, MessageWasFirst
<1>2. /\ UNCHANGED <<bridge, callback>> /\ waiter' = NoWaiter /\ incoming' = NotReceiving
      /\ sess' = Failed(sess)
  BY DEF MessageWasFirst
<1>3. SessInv(sess') /\ ~InRound(sess') /\ sess'.pc = "failed" BY <1>1, <1>2, FailedSession
<1>4. TasksInv' BY <1>2, <1>3, TasksShape DEF TasksInv, TasksFollow
<1> QED BY <1>1, <1>2, <1>3, <1>4 DEF Inv, RoundInv

-----------------------------------------------------------------------------
(* The end of a session.                                                       *)
LEMMA GivesUpInv ==
  ASSUME Inv, NEW abandoned, GivesUp(abandoned) PROVE Inv'
<1>1. SessInv(sess) /\ ~bridge.cancelled BY DEF Inv, GivesUp, Ended
<1>2. /\ UNCHANGED <<bridge, callback>> /\ waiter' = NoWaiter /\ incoming' = NotReceiving
      /\ sess' = [Failed(sess) EXCEPT !.abandoned = abandoned]
  BY DEF GivesUp
<1>3. SessInv(sess') /\ ~InRound(sess') /\ sess'.pc = "failed" BY <1>1, <1>2, GivenUp
<1>4. TasksInv' BY <1>2, <1>3, TasksShape DEF TasksInv, TasksFollow
<1> QED BY <1>1, <1>2, <1>3, <1>4 DEF Inv, RoundInv

LEMMA ClosesInv ==
  ASSUME Inv, Closes PROVE Inv'
<1>1. SessInv(sess) /\ SessTyped(sess) /\ BridgeInv(bridge, callback) BY DEF Inv, SessInv
<1>2. /\ UNCHANGED callback /\ waiter' = NoWaiter /\ incoming' = NotReceiving
      /\ bridge' = Cancelled(bridge)
      /\ sess' = [sess EXCEPT !.pc = "closed"] /\ "closed" \in Pcs
  BY DEF Closes, Pcs
<1>3. /\ SessTyped(sess') /\ sess'.pc = "closed" /\ SameMessage(sess, sess')
      /\ sess'.buffer = sess.buffer /\ sess'.shown = sess.shown
  BY <1>1, <1>2, MoveShape
<1>4. MessageIsOver(sess') /\ Retraction(sess')
  BY <1>1, <1>3 DEF SessInv, MessageIsOver, Retraction, SameMessage, Live
<1>5. SessInv(sess') /\ ~InRound(sess') BY <1>3, <1>4 DEF SessInv, InRound, Live
<1>6. BridgeInv(bridge', callback') BY <1>1, <1>2, CancelledInv
<1>7. TasksInv' BY <1>2, <1>3, TasksShape DEF TasksInv, TasksFollow
<1> QED BY <1>3, <1>5, <1>6, <1>7 DEF Inv, RoundInv

-----------------------------------------------------------------------------
(* The calls of a message are published ...                                    *)
LEMMA SealsInv ==
  ASSUME Inv, Seals PROVE Inv'
<1> DEFINE calls == [i \in DOMAIN ToolCalls(sess.raw) |->
                      [id |-> ToolCalls(sess.raw)[i].id, args |-> ToolCalls(sess.raw)[i].id]]
           b == Sealed(bridge, calls)
           r == Released(sess)
<1>1. /\ SessInv(sess) /\ SessTyped(sess) /\ Phases(sess) /\ MessageIsOver(sess)
      /\ Retraction(sess) /\ sess.pc = "sealing" /\ Live(sess) /\ IsComplete(sess.raw)
  BY DEF Inv, SessInv, Live, Seals, MessageIsOver
<1>2. /\ bridge' = b /\ UNCHANGED <<waiter, callback>>
      /\ incoming' = IF bridge.cancelled \/ b.failure THEN incoming ELSE Receiving
  BY DEF Seals
<1>3. waiter.st = "none" /\ incoming.st = "none" /\ ~bridge.cancelled
  BY <1>1 DEF Inv, TasksInv, TasksFollow
<1>4. /\ BridgeInv(b, callback) /\ ~b.cancelled
      /\ ~b.failure => b.sealed /\ b.expected = Range(calls) /\ b.seen \subseteq IdsOf(calls)
  BY <1>3, SealedInv DEF Inv
<1>5. CASE b.failure
  <2>1. sess' = Failed(sess) /\ incoming' = incoming BY <1>2, <1>5 DEF Seals
  <2>2. SessInv(sess') /\ ~InRound(sess') /\ sess'.pc = "failed"
    BY <1>1, <2>1, FailedSession
  <2> HIDE DEF b
  <2>3. TasksInv' BY <1>2, <1>3, <2>1, <2>2 DEF Inv, TasksInv, TasksFollow
  <2> QED BY <1>2, <1>4, <2>2, <2>3 DEF Inv, RoundInv
<1>6. CASE ~b.failure
  <2>1. /\ incoming' = Receiving
        /\ sess' = [r EXCEPT !.pc = "boundary", !.tool_epoch = @ + 1,
                      !.awaiting_submit = TRUE, !.expected_ids = IdsOf(calls),
                      !.published = Published(b, calls), !.round = calls, !.heard = {}]
    BY Zenon, <1>2, <1>3, <1>6 DEF Seals, IdsOf
  <2> HIDE DEF b, calls
  <2>2. /\ SessTyped(r) /\ SameMessage(sess, r)
        /\ r.buffer = {} /\ r.shown = sess.shown \cup sess.buffer
        /\ r.awaiting_echo = sess.awaiting_echo /\ r.needs_completion = sess.needs_completion
    BY <1>1, ReleasedShape
  <2> HIDE DEF r
  <2>3. /\ sess'.pc = "boundary" /\ SameMessage(r, sess')
        /\ sess'.buffer = r.buffer /\ sess'.shown = r.shown
        /\ sess'.awaiting_submit = TRUE /\ sess'.awaiting_echo = r.awaiting_echo
        /\ sess'.needs_completion = r.needs_completion
        /\ sess'.expected_ids = IdsOf(calls) /\ sess'.published = Published(b, calls)
        /\ sess'.round = calls /\ sess'.heard = {}
    BY <2>1, <2>2 DEF SessTyped, Fields, SameMessage
  <2>4. SessTyped(sess') BY <2>1, <2>2 DEF SessTyped, Fields, Pcs
  <2>5. ~sess.awaiting_echo /\ ~sess.needs_completion /\ ~sess.completed
    BY <1>1 DEF Phases
  <2>6. SameMessage(sess, sess') BY <2>2, <2>3 DEF SameMessage
  <2>7. MessageIsOver(sess') BY <1>1, <2>6 DEF MessageIsOver, SameMessage
  <2>8. Retraction(sess')
    BY <1>1, <2>2, <2>3, <2>6 DEF Retraction, SameMessage
  <2>9. Phases(sess') BY <2>2, <2>3, <2>5, <2>6 DEF Phases, SameMessage
  <2>10. RoundIsSealed(sess', b)
    <3>1. DOMAIN Published(b, calls) = DOMAIN calls BY DEF Published
    <3>2. ASSUME NEW i \in DOMAIN calls PROVE PublishedCall(sess', b, i)
      <4>1. calls[i] = [id |-> calls[i].id, args |-> calls[i].args] BY <3>2 DEF calls
      <4>2. Published(b, calls)[i] = AnswerOf(b.call[calls[i].id])
        BY <3>2 DEF Published, AnswerOf
      <4> QED BY <2>3, <4>1, <4>2 DEF PublishedCall
    <3> QED BY <1>4, <1>6, <2>3, <3>1, <3>2 DEF RoundIsSealed
  <2>11. TasksInv' BY <1>2, <1>3, <2>1, <2>3, TasksShape DEF Inv, TasksInv, TasksFollow
  <2>12. RoundInv(sess, bridge, callback, waiter)' BY <1>2, <1>3, <2>10 DEF RoundInv
  <2> QED BY <1>2, <1>4, <2>4, <2>7, <2>8, <2>9, <2>11, <2>12 DEF Inv, SessInv
<1> QED BY <1>5, <1>6

(* ... and answered.  A call that waits was published under its public id, and *)
(* no other call was.                                                          *)
LEMMA AnswersFit ==
  ASSUME BridgeInv(bridge, callback), ~bridge.cancelled, RoundIsSealed(sess, bridge),
         Matches(bridge, Answers), NEW c \in Undelivered(bridge)
  PROVE  Answers[bridge.call[c].pub] = AnswerOf(bridge.call[c])
<1> DEFINE p == bridge.call[c].pub
           e == CHOOSE x \in Range(sess.published) : x.pub = p
<1>1. p \in DOMAIN Answers BY DEF Matches
<1>2. DOMAIN Answers = {x.pub : x \in Range(sess.published)} BY DEF Answers
<1>3. e \in Range(sess.published) /\ e.pub = p
  <2>1. \E x \in Range(sess.published) : x.pub = p BY <1>1, <1>2
  <2> QED BY <2>1
<1>4. Answers[p] = [pub |-> p, args |-> e.args] BY <1>1, <1>2 DEF Answers
<1> HIDE DEF e
<1>5. PICK i \in DOMAIN sess.published : e = sess.published[i] BY <1>3 DEF Range
<1> DEFINE k == sess.round[i].id
<1>6. e = AnswerOf(bridge.call[k]) BY <1>5 DEF RoundIsSealed, PublishedCall
<1>7. sess.round[i] \in bridge.expected BY <1>5 DEF RoundIsSealed, Range
<1>8. k \in Calls /\ Known(bridge, k) BY <1>7 DEF RoundIsSealed, BridgeInv, BridgeCalls
<1>9. c \in Calls /\ Known(bridge, c)
  BY DEF Undelivered, BridgeInv, BridgeCalls, BridgeTyped
<1>10. bridge.call[k].pub = p BY <1>3, <1>6 DEF AnswerOf
<1>11. Numbered(bridge, k) /\ Numbered(bridge, c) BY <1>8, <1>9 DEF BridgeInv, BridgeCalls
<1> HIDE DEF k
<1>12. bridge.call[k].pub.id = k
  <2>1. bridge.call[k].pub = [issue |-> bridge.call[k].pub.issue, id |-> k]
    BY <1>11 DEF Numbered
  <2> QED BY <2>1
<1>13. p.id = c
  <2>1. bridge.call[c].pub = [issue |-> bridge.call[c].pub.issue, id |-> c]
    BY <1>11 DEF Numbered
  <2> QED BY <2>1
<1>14. e = AnswerOf(bridge.call[c]) BY <1>6, <1>10, <1>12, <1>13
<1> QED BY <1>4, <1>14 DEF AnswerOf

LEMMA SubmitsInv ==
  ASSUME Inv, Submits PROVE Inv'
<1>1. /\ SessInv(sess) /\ SessTyped(sess) /\ Phases(sess) /\ MessageIsOver(sess)
      /\ Retraction(sess) /\ sess.pc = "boundary" /\ Live(sess)
  BY DEF Inv, SessInv, Live, Submits
<1>2. UNCHANGED <<incoming, waiter, callback>> BY DEF Submits
<1>3. waiter.st = "none" /\ ~bridge.cancelled /\ BridgeInv(bridge, callback)
  BY <1>1 DEF Inv, TasksInv, TasksFollow
<1>4. RoundIsSealed(sess, bridge) BY <1>1, <1>3 DEF Inv, RoundInv, InRound
<1>5. CASE sess' = Failed(sess)
  <2>1. BridgeInv(bridge', callback') /\ ~bridge'.cancelled
    <3>1. CASE bridge' = bridge BY <1>2, <1>3, <3>1
    <3>2. CASE bridge' = Resolved(bridge, Answers) /\ Matches(bridge, Answers)
      <4>1. bridge.sealed BY <1>4 DEF RoundIsSealed
      <4> QED BY <1>2, <1>3, <1>4, <3>2, <4>1, AnswersFit, ResolvedInv
    <3> QED BY <3>1, <3>2 DEF Submits
  <2>2. SessInv(sess') /\ ~InRound(sess') /\ sess'.pc = "failed"
    BY <1>1, <1>5, FailedSession
  <2>3. TasksInv' BY <1>2, <1>3, <2>2 DEF Inv, TasksInv, TasksFollow
  <2> QED BY <1>2, <2>1, <2>2, <2>3 DEF Inv, RoundInv
<1>6. CASE /\ Matches(bridge, Answers) /\ bridge' = Resolved(bridge, Answers)
           /\ sess' = [sess EXCEPT !.pc = "resumed", !.awaiting_submit = FALSE,
                         !.awaiting_echo = TRUE, !.echo_ids = {}, !.echo_right = TRUE]
  <2>1. SessTyped(sess') BY <1>1, <1>6 DEF SessTyped, Fields, Pcs
  <2>2. /\ sess'.pc = "resumed" /\ SameMessage(sess, sess')
        /\ sess'.buffer = sess.buffer /\ sess'.shown = sess.shown
        /\ ~sess'.awaiting_submit /\ sess'.awaiting_echo
        /\ sess'.needs_completion = sess.needs_completion
        /\ sess'.expected_ids = sess.expected_ids /\ sess'.published = sess.published
        /\ sess'.round = sess.round /\ sess'.heard = sess.heard
        /\ sess'.echo_ids = {} /\ sess'.echo_right = TRUE
    BY <1>1, <1>6 DEF SessTyped, Fields, SameMessage
  <2>3. /\ sess.awaiting_submit /\ ~sess.needs_completion /\ ~sess.completed
        /\ sess.heard = {} /\ sess.expected_ids = IdsOf(sess.round)
    BY <1>1 DEF Phases
  <2>4. MessageIsOver(sess') BY <1>1, <2>2, <2>3 DEF MessageIsOver, SameMessage
  <2>5. Retraction(sess') BY <1>1, <2>2 DEF Retraction, SameMessage
  <2>6. Told(sess') = {} /\ ToldRight(sess') BY <2>2, <2>3 DEF Told, ToldRight
  <2>7. Phases(sess') BY <2>2, <2>3, <2>6 DEF Phases, SameMessage
  <2>8. bridge.sealed BY <1>4 DEF RoundIsSealed
  <2>9. /\ BridgeInv(bridge', callback) /\ bridge'.cancelled = bridge.cancelled
        /\ bridge'.sealed /\ bridge'.expected = bridge.expected
        /\ bridge'.seen = bridge.seen
        /\ \A c \in Calls : AnswerOf(bridge'.call[c]) = AnswerOf(bridge.call[c])
    BY <1>3, <1>4, <1>6, <2>8, AnswersFit, ResolvedInv
  <2>10. RoundIsSealed(sess', bridge') BY <1>3, <1>4, <2>2, <2>9, RoundKept
  <2>11. TasksInv' BY <1>1, <1>2, <1>3, <2>2 DEF Inv, TasksInv, TasksFollow
  <2>12. RoundInv(sess, bridge, callback, waiter)' BY <1>2, <1>3, <2>10 DEF RoundInv
  <2> QED BY <1>2, <1>3, <2>1, <2>4, <2>5, <2>7, <2>9, <2>11, <2>12 DEF Inv, SessInv
<1> QED BY <1>5, <1>6 DEF Submits

-----------------------------------------------------------------------------
(* The invariant holds.                                                        *)
LEMMA InitInv ==
  ASSUME Init PROVE Inv
<1>1. PICK auto \in Policies :
        sess = [pc |-> "new", raw |-> NewRaw, streaming |-> FALSE,
                terminal |-> FALSE, completed |-> FALSE,
                auto |-> auto, model |-> "opus-5", refused |-> FALSE,
                retracting |-> FALSE, messages |-> 0, buffer |-> {}, size |-> 0,
                shown |-> {}, retracted |-> {},
                awaiting_submit |-> FALSE, awaiting_echo |-> FALSE, tool_epoch |-> 0,
                needs_begin |-> FALSE, needs_completion |-> FALSE,
                expected_ids |-> {}, echo_ids |-> {}, echo_right |-> TRUE,
                turn |-> 0, round |-> <<>>, published |-> <<>>, heard |-> {},
                abandoned |-> FALSE]
  BY DEF Init
<1>2. auto \in BOOLEAN BY SessionAssumption
<1>3. DOMAIN NewRaw = RawFields BY DEF NewRaw, RawFields
<1>4. /\ DOMAIN sess = Fields /\ sess.pc = "new" /\ sess.raw = NewRaw /\ sess.auto = auto
      /\ sess.streaming = FALSE /\ sess.terminal = FALSE /\ sess.completed = FALSE
      /\ sess.refused = FALSE /\ sess.retracting = FALSE /\ sess.messages = 0
      /\ sess.buffer = {} /\ sess.shown = {} /\ sess.retracted = {}
      /\ sess.awaiting_submit = FALSE /\ sess.awaiting_echo = FALSE
      /\ sess.needs_begin = FALSE /\ sess.needs_completion = FALSE
  BY <1>1 DEF Fields
<1>5. SessTyped(sess) BY <1>1, <1>2, <1>3 DEF SessTyped, Fields, Pcs
<1>6. SessInv(sess)
  BY <1>4, <1>5 DEF SessInv, MessageIsOver, Retraction, Phases
<1>7. bridge = NewBridge /\ callback = [h \in Callbacks |-> NoCallback]
      /\ incoming = NotReceiving /\ waiter = NoWaiter
  BY DEF Init
<1>8. BridgeInv(bridge, callback)
  <2>1. /\ DOMAIN bridge = BridgeFields /\ bridge.call = [c \in Calls |-> NoCall]
        /\ bridge.pending = {} /\ bridge.issued = 0 /\ bridge.seen = {}
        /\ bridge.expected = {} /\ bridge.sealed = FALSE /\ bridge.failure = FALSE
        /\ bridge.cancelled = FALSE
    BY <1>7 DEF NewBridge, BridgeFields
  <2>2. DOMAIN NoCall = CallFields /\ NoCall.entered = FALSE /\ NoCall.delivered = FALSE
        /\ NoCall.future = "none"
    BY DEF NoCall, CallFields
  <2>3. CallTyped(NoCall) BY <2>2 DEF CallTyped
  <2>4. BridgeTyped(bridge)
    <3>1. DOMAIN bridge.call = Calls /\ \A c \in Calls : bridge.call[c] = NoCall BY <2>1
    <3>2. DOMAIN bridge = BridgeFields /\ bridge.pending \subseteq Calls BY <2>1
    <3>3. bridge.issued \in Nat BY <2>1
    <3>4. bridge.sealed \in BOOLEAN /\ bridge.failure \in BOOLEAN
          /\ bridge.cancelled \in BOOLEAN
      BY <2>1
    <3> QED BY <2>3, <3>1, <3>2, <3>3, <3>4 DEF BridgeTyped
  <2>5. BridgeCalls(bridge) BY <2>1, <2>2 DEF BridgeCalls, Known
  <2>6. DOMAIN NoCallback = {"st", "id", "args", "value"} /\ NoCallback.st = "none"
    BY DEF NoCallback
  <2>7. CallbackInv(bridge, callback) BY <1>7, <2>1, <2>6 DEF CallbackInv, CallbackTyped
  <2> QED BY <2>4, <2>5, <2>7 DEF BridgeInv
<1>9. TasksInv BY <1>4, <1>7, TasksShape DEF TasksInv, TasksFollow
<1>10. ~bridge.cancelled BY <1>7 DEF NewBridge
<1>11. ~InRound(sess) BY <1>4 DEF InRound
<1> QED BY <1>6, <1>8, <1>9, <1>10, <1>11 DEF Inv, RoundInv

LEMMA StepInv ==
  ASSUME Inv, [Next]_vars PROVE Inv'
<1>1. CASE Speaks BY <1>1, AllStays DEF Speaks
<1>2. CASE Refuses BY <1>2, AllStays DEF Refuses
<1>3. CASE FallsBack BY <1>3, AllStays DEF FallsBack
<1>4. CASE Streams BY <1>4, AllStays DEF Streams
<1>5. CASE \E c \in Calls : CallsBack(c)
  <2>1. PICK c \in Calls : CallsBack(c) BY <1>5
  <2>2. c \in Callbacks /\ Spawns(c, c, c) BY <2>1 DEF CallsBack, Callbacks
  <2> QED BY <2>2, SpawnsInv
<1>6. CASE Echoes BY <1>6, AllStays DEF Echoes
<1>7. CASE GoesOn BY <1>7, AllStays DEF GoesOn
<1>8. CASE Submits BY <1>8, SubmitsInv
<1>9. CASE Receives BY <1>9, ReceivesInv
<1>10. CASE ReceivesAhead BY <1>10, ReceivesAheadInv
<1>11. CASE TakesAhead BY <1>11, TakesAheadInv
<1>12. CASE Seals BY <1>12, SealsInv
<1>13. CASE StartsWaiting BY <1>13, StartsWaitingInv
<1>14. CASE Waits BY <1>14, WaitsInv
<1>15. CASE Starts BY <1>15, StartsInv
<1>16. CASE CallbacksWereFirst BY <1>16, CallbacksWereFirstInv
<1>17. CASE MessageWasFirst BY <1>17, MessageWasFirstInv
<1>18. CASE Finishes BY <1>18, FinishesInv
<1>19. CASE WatcherFails BY <1>19, GivesUpInv DEF WatcherFails
<1>20. CASE Closes BY <1>20, ClosesInv
<1>21. CASE Query BY <1>21, QueryInv
<1>22. CASE Status BY <1>22, AllStays DEF Status
<1>23. CASE Deviates
  <2>1. CASE UNCHANGED <<sess, incoming, waiter, bridge, callback>> BY <2>1, AllStays
  <2>2. CASE \E id \in Calls \cup {None}, args \in Calls : Spawns(Rogue, id, args)
    BY <2>2, SpawnsInv DEF Callbacks
  <2> QED BY <1>23, <2>1, <2>2 DEF Deviates
<1>24. CASE Abandons BY <1>24, GivesUpInv DEF Abandons
<1>25. CASE \E h \in Callbacks : Enters(h) \/ WakesUp(h)
  BY <1>25, EntersInv, WakesUpInv
<1>26. CASE UNCHANGED vars BY <1>26, AllStays DEF vars
<1> QED
  BY <1>1, <1>2, <1>3, <1>4, <1>5, <1>6, <1>7, <1>8, <1>9, <1>10, <1>11, <1>12, <1>13,
     <1>14, <1>15, <1>16, <1>17, <1>18, <1>19, <1>20, <1>21, <1>22, <1>23, <1>24, <1>25,
     <1>26 DEF Next, Conversing, Serving

(* The invariant the other theorems rest on: the session, its bridge and the   *)
(* callbacks agree on the round that is under way (SdkSession._tool_boundary   *)
(* to _receive_after_epoch_completion).                                        *)
THEOREM Invariant == Spec => []Inv
<1>1. Init => Inv BY InitInv
<1>2. Inv /\ [Next]_vars => Inv' BY StepInv
<1> QED BY <1>1, <1>2, PTL DEF Spec

-----------------------------------------------------------------------------
(* What the invariant says of a boundary, of results and of retractions.       *)
LEMMA BoundaryShows ==
  ASSUME Inv PROVE BoundaryShowsTheMessage
<1>1. SUFFICES ASSUME sess.pc = "boundary"
      PROVE  /\ [i \in DOMAIN sess.published |-> sess.published[i].args]
                  = [i \in DOMAIN sess.round |-> sess.round[i].args]
             /\ \A h \in Callbacks : callback[h].st = "waiting" =>
                  \E i \in DOMAIN sess.round :
                    /\ sess.round[i] = [id |-> callback[h].id, args |-> callback[h].args]
                    /\ sess.published[i].pub = bridge.call[callback[h].id].pub
  BY DEF BoundaryShowsTheMessage
<1>2. RoundIsSealed(sess, bridge) /\ BridgeInv(bridge, callback) /\ ~bridge.cancelled
  BY <1>1 DEF Inv, RoundInv, InRound, Live, TasksInv, TasksFollow
<1>3. ASSUME NEW i \in DOMAIN sess.round
      PROVE  /\ sess.round[i] = [id |-> sess.round[i].id, args |-> sess.round[i].args]
             /\ bridge.call[sess.round[i].id].args = sess.round[i].args
             /\ sess.published[i].args = sess.round[i].args
             /\ sess.published[i].pub = bridge.call[sess.round[i].id].pub
  <2>1. sess.round[i] \in bridge.expected BY <1>2, <1>3 DEF RoundIsSealed, Range
  <2>2. bridge.call[sess.round[i].id].args = sess.round[i].args
    BY <1>2, <2>1 DEF RoundIsSealed, BridgeInv, BridgeCalls
  <2>3. PublishedCall(sess, bridge, i) BY <1>2, <1>3 DEF RoundIsSealed
  <2>4. sess.published[i] = AnswerOf(bridge.call[sess.round[i].id]) BY <2>3 DEF PublishedCall
  <2> QED BY <2>2, <2>3, <2>4 DEF PublishedCall, AnswerOf
<1>4. DOMAIN sess.published = DOMAIN sess.round BY <1>2 DEF RoundIsSealed
<1>5. [i \in DOMAIN sess.published |-> sess.published[i].args]
        = [i \in DOMAIN sess.round |-> sess.round[i].args]
  BY <1>3, <1>4
<1>6. ASSUME NEW h \in Callbacks, callback[h].st = "waiting"
      PROVE  \E i \in DOMAIN sess.round :
               /\ sess.round[i] = [id |-> callback[h].id, args |-> callback[h].args]
               /\ sess.published[i].pub = bridge.call[callback[h].id].pub
  <2>1. Waiting(bridge, callback, h) BY <1>2, <1>6 DEF BridgeInv, CallbackInv
  <2>2. callback[h].id \in IdsOf(sess.round)
    BY <1>2, <2>1 DEF Waiting, RoundIsSealed
  <2>3. PICK i \in DOMAIN sess.round : sess.round[i].id = callback[h].id
    BY <2>2 DEF IdsOf, Range
  <2>4. sess.round[i].args = callback[h].args BY <1>3, <2>1, <2>3 DEF Waiting
  <2>5. sess.round[i] = [id |-> callback[h].id, args |-> callback[h].args]
    BY <1>3, <2>3, <2>4
  <2>6. sess.published[i].pub = bridge.call[callback[h].id].pub BY <1>3, <2>3
  <2> QED BY <2>5, <2>6
<1> QED BY <1>5, <1>6

LEMMA ResultsReach ==
  ASSUME Inv PROVE ResultsReachTheirCall
<1>1. ASSUME NEW h \in Callbacks, callback[h].st = "returned"
      PROVE  /\ callback[h].value.args = callback[h].args
             /\ \A g \in Callbacks \ {h} :
                  callback[g].st = "returned" => callback[g].value # callback[h].value
  <2>1. Returned(bridge, callback, h) BY <1>1 DEF Inv, BridgeInv, CallbackInv
  <2>2. callback[h].value = [pub |-> [issue |-> callback[h].value.pub.issue,
                                      id |-> callback[h].id],
                             args |-> callback[h].args]
    BY <2>1 DEF Returned
  <2>3. callback[h].value.args = callback[h].args BY <2>2
  <2> QED BY <2>1, <2>3 DEF Returned
<1> QED BY <1>1 DEF ResultsReachTheirCall

-----------------------------------------------------------------------------
(* A round counts as complete in one place only.                               *)
Closed(s, cb) ==
  RoundIsDone(s, cb) /\ Told(s) = IdsOf(s.round) /\ ToldRight(s)

LEMMA KeepsWaiting ==
  ASSUME Inv, Next, sess.needs_completion, ~sess'.needs_completion
  PROVE  Closed(sess, callback)
<1>1. SessInv(sess) /\ SessTyped(sess) BY DEF Inv, SessInv
<1>2. Live(sess) => Phases(sess) BY <1>1 DEF SessInv
<1>3. sess' # sess OBVIOUS
<1>4. sess.pc \notin {"new", "idle", "boundary", "resumed", "sealing"}
  BY <1>1, <1>2 DEF Phases, Live
<1>5. sess.completed => ~Live(sess) BY <1>2 DEF Phases
<1>6. CASE CallbacksWereFirst
  <2>1. sess.pc = "completing" /\ waiter.first = "callback" BY <1>6 DEF CallbacksWereFirst
  <2>2. waiter.st # "failed"
    <3>1. ASSUME waiter.st = "failed" PROVE FALSE
      <4>1. sess' = Failed(sess) BY <1>6, <3>1 DEF CallbacksWereFirst
      <4> QED BY <1>1, <4>1, FailedSession
    <3> QED BY <3>1
  <2>3. waiter.st = "done" BY <2>1, <2>2 DEF Inv, TasksInv
  <2>4. RoundIsDone(sess, callback) BY <2>1, <2>3 DEF Inv, RoundInv, InRound, Live
  <2> QED BY <1>2, <2>1, <2>4 DEF Phases, Live, Closed
<1>7. CASE MessageWasFirst
  <2>1. sess' = Failed(sess) BY <1>7 DEF MessageWasFirst
  <2> QED BY <1>1, <2>1, FailedSession
<1>8. CASE StartsWaiting
  <2>1. sess' = [sess EXCEPT !.pc = "completing"] BY <1>8 DEF StartsWaiting
  <2> QED BY <1>1, <2>1 DEF SessTyped, Fields
<1>9. CASE \E x \in BOOLEAN : GivesUp(x)
  <2>1. PICK x \in BOOLEAN : GivesUp(x) BY <1>9
  <2>2. sess' = [Failed(sess) EXCEPT !.abandoned = x] BY <2>1 DEF GivesUp
  <2> QED BY <1>1, <2>2, GivenUp
<1>10. CASE Closes
  <2>1. sess' = [sess EXCEPT !.pc = "closed"] BY <1>10 DEF Closes
  <2> QED BY <1>1, <2>1 DEF SessTyped, Fields
<1>11. ~Receives /\ ~TakesAhead /\ ~Seals /\ ~Submits /\ ~Starts /\ ~Query
  BY <1>4 DEF Receives, TakesAhead, Seals, Submits, Starts, Query
<1>12. ~Finishes BY <1>5 DEF Finishes, Live
<1>13. ~Speaks /\ ~Refuses /\ ~FallsBack /\ ~Streams /\ ~Echoes /\ ~GoesOn /\ ~Status
  BY Zenon, <1>3 DEF Speaks, Refuses, FallsBack, Streams, Echoes, GoesOn, Status
<1>14. ~ReceivesAhead /\ ~Waits BY <1>3 DEF ReceivesAhead, Waits
<1>15. ~\E c \in Calls : CallsBack(c) BY <1>3 DEF CallsBack, Spawns
<1>16. ~Deviates BY <1>3 DEF Deviates, Spawns
<1>17. ~\E h \in Callbacks : Enters(h) \/ WakesUp(h) BY <1>3 DEF Enters, WakesUp
<1>18. WatcherFails \/ Abandons => \E x \in BOOLEAN : GivesUp(x)
  BY DEF WatcherFails, Abandons
<1> QED
  BY <1>6, <1>7, <1>8, <1>9, <1>10, <1>11, <1>12, <1>13, <1>14, <1>15, <1>16, <1>17, <1>18
  DEF Next, Conversing, Serving

(* After a round no message is accepted before every callback of it has        *)
(* returned its result, and the SDK has told exactly these results, each right *)
(* and after they were submitted (_receive_after_epoch_completion).            *)
THEOREM Rounds == Spec => RoundIsClosed
<1> DEFINE Step ==
      sess.needs_completion /\ ~sess'.needs_completion =>
       /\ \A i \in DOMAIN sess.round : \E h \in Callbacks :
            /\ callback[h].st = "returned" /\ callback[h].id = sess.round[i].id
            /\ callback[h].value.pub = sess.published[i].pub
       /\ UNION {e.ids : e \in sess.heard} = {c.id : c \in Range(sess.round)}
       /\ \A e \in sess.heard : e.right /\ ~e.early
<1>1. Inv /\ Next => Step
  BY KeepsWaiting DEF Closed, RoundIsDone, Told, IdsOf, ToldRight
<1>2. Inv /\ [Next]_vars => [Step]_vars BY <1>1
<1>3. RoundIsClosed <=> [][Step]_vars BY DEF RoundIsClosed
<1> HIDE DEF Step
<1> QED BY <1>2, <1>3, Invariant, PTL DEF Spec

-----------------------------------------------------------------------------
(* The answers to the calls of a boundary are taken.  The calls that wait are  *)
(* those of the message, and no one else has answered them; an open epoch has  *)
(* only calls a callback came for, unless the bridge has failed.               *)
Fresh(b) ==
  ~b.cancelled /\ ~b.sealed =>
    /\ \A c \in b.pending : ~b.call[c].delivered
    /\ ~b.failure => b.pending \subseteq b.seen

Ready(s, b) ==
  /\ b.pending = IdsOf(s.round)
  /\ \A c \in b.pending : b.call[c].future = "open" /\ ~b.call[c].delivered

BoundaryInv ==
  /\ Fresh(bridge)
  /\ sess.pc = "boundary" => Ready(sess, bridge)
  /\ incoming.st # "none" => sess.pc # "failed"

LEMMA SignalledFresh ==
  ASSUME NEW b, BridgeTyped(b), Fresh(b) PROVE Fresh(Signalled(b))
<1> DEFINE u == Signalled(b)
<1>1. /\ u.pending = b.pending /\ u.call = b.call /\ u.sealed = b.sealed
      /\ u.cancelled = b.cancelled /\ u.failure = TRUE
  BY DEF BridgeTyped, BridgeFields, Signalled
<1> HIDE DEF u
<1>2. Fresh(u) BY <1>1 DEF Fresh
<1> QED BY <1>2 DEF u

LEMMA PlaceholdersPending ==
  ASSUME NEW b, BridgeTyped(b), NEW calls, \A c \in calls : c.id \in Calls
  PROVE  LET u == Placeholders(b, calls) IN
         /\ u.pending = b.pending \cup {c.id : c \in calls}
         /\ u.sealed = b.sealed /\ u.cancelled = b.cancelled /\ u.seen = b.seen
         /\ DOMAIN u = BridgeFields
         /\ \A k \in u.pending :
              \/ k \in b.pending /\ u.call[k] = b.call[k]
              \/ u.call[k].future = "open" /\ ~u.call[k].delivered
<1> DEFINE missing == {c \in calls : c.id \notin b.pending}
           A(id) == (CHOOSE c \in missing : c.id = id).args
           u == Placeholders(b, calls)
<1>1. /\ DOMAIN u = BridgeFields /\ u.pending = b.pending \cup {c.id : c \in missing}
      /\ u.seen = b.seen /\ u.sealed = b.sealed /\ u.cancelled = b.cancelled
      /\ u.call = [id \in Calls |-> IF \E c \in missing : c.id = id
                                    THEN Issued(b, id, A(id), FALSE) ELSE b.call[id]]
  BY DEF BridgeTyped, BridgeFields, Placeholders
<1> HIDE DEF u, A
<1>2. ASSUME NEW id, NEW a
      PROVE  Issued(b, id, a, FALSE).future = "open"
             /\ Issued(b, id, a, FALSE).delivered = FALSE
  BY DEF Issued, NoCall
<1>3. b.pending \subseteq Calls BY DEF BridgeTyped
<1>4. ASSUME NEW k \in b.pending PROVE u.call[k] = b.call[k]
  <2>1. k \in Calls /\ ~\E c \in missing : c.id = k BY <1>3, <1>4
  <2> HIDE DEF missing
  <2> QED BY <1>1, <2>1
<1>5. ASSUME NEW c \in missing
      PROVE  u.call[c.id].future = "open" /\ ~u.call[c.id].delivered
  <2>1. c.id \in Calls OBVIOUS
  <2>2. u.call[c.id] = Issued(b, c.id, A(c.id), FALSE) BY <1>1, <1>5, <2>1
  <2> QED BY <1>2, <2>2
<1>6. b.pending \cup {c.id : c \in missing} = b.pending \cup {c.id : c \in calls} OBVIOUS
<1> HIDE DEF missing
<1>7. \A k \in u.pending :
        \/ k \in b.pending /\ u.call[k] = b.call[k]
        \/ u.call[k].future = "open" /\ ~u.call[k].delivered
  <2>1. SUFFICES ASSUME NEW k \in u.pending
                 PROVE  \/ k \in b.pending /\ u.call[k] = b.call[k]
                        \/ u.call[k].future = "open" /\ ~u.call[k].delivered
    OBVIOUS
  <2>2. CASE k \in b.pending BY <1>4, <2>2
  <2>3. CASE \E c \in missing : c.id = k BY <1>5, <2>3
  <2> QED BY <1>1, <2>1, <2>2, <2>3
<1> QED BY <1>1, <1>6, <1>7 DEF u

LEMMA SealedReady ==
  ASSUME NEW b, NEW cb, BridgeInv(b, cb), Fresh(b), NEW calls
  PROVE  LET u == Sealed(b, calls) IN
         /\ Fresh(u)
         /\ ~b.cancelled /\ ~u.failure =>
              /\ u.pending = IdsOf(calls)
              /\ \A c \in u.pending : u.call[c].future = "open" /\ ~u.call[c].delivered
<1> DEFINE announced == [b EXCEPT !.expected = Range(calls)]
           odd == {i \in DOMAIN calls : ~Agrees(b, calls[i])}
           before == {i \in DOMAIN calls \ odd : \A j \in odd : i < j}
           set == {calls[i] : i \in before}
           made == Placeholders(announced, set)
           done == [made EXCEPT !.sealed = TRUE, !.verified = TRUE]
           u == Sealed(b, calls)
<1>1. BridgeTyped(b) /\ BridgeCalls(b) BY DEF BridgeInv
<1>2. CASE b.cancelled \/ b.failure
  <2>1. u = b BY <1>2 DEF Sealed
  <2> QED BY <1>2, <2>1
<1>3. CASE ~(b.cancelled \/ b.failure) /\ (b.sealed \/ ~ProperIds(calls))
  <2>1. u = Signalled(b) BY <1>3 DEF Sealed
  <2>2. Signalled(b).failure BY SignalledInv
  <2> QED BY <1>1, <2>1, <2>2, SignalledFresh
<1>4. CASE ~(b.cancelled \/ b.failure) /\ ~(b.sealed \/ ~ProperIds(calls))
  <2>1. /\ DOMAIN announced = BridgeFields /\ announced.pending = b.pending
        /\ announced.call = b.call /\ announced.issued = b.issued
        /\ announced.seen = b.seen /\ announced.sealed = b.sealed
        /\ announced.cancelled = b.cancelled /\ announced.failure = b.failure
    BY <1>1 DEF BridgeTyped, BridgeFields
  <2> HIDE DEF announced
  <2>2. BridgeTyped(announced) BY <1>1, <2>1 DEF BridgeTyped
  <2>3. CASE ~(b.seen \subseteq {c.id : c \in Range(calls)})
    <3>1. u = Signalled(announced) BY <1>4, <2>3 DEF Sealed, announced
    <3>2. Fresh(announced) BY <2>1 DEF Fresh
    <3>3. Signalled(announced).failure = TRUE
      BY <2>1 DEF Signalled, BridgeFields
    <3> QED BY <2>2, <3>1, <3>2, <3>3, SignalledFresh
  <2>4. CASE b.seen \subseteq {c.id : c \in Range(calls)}
    <3>1. before \subseteq DOMAIN calls /\ (odd = {} => before = DOMAIN calls) OBVIOUS
    <3>2. \A c \in set : c.id \in Calls BY <1>4, <3>1 DEF ProperIds
    <3> HIDE DEF before, odd
    <3>3. /\ made.pending = b.pending \cup {c.id : c \in set}
          /\ made.sealed = b.sealed /\ made.cancelled = b.cancelled
          /\ DOMAIN made = BridgeFields
          /\ \A k \in made.pending :
               \/ k \in b.pending /\ made.call[k] = b.call[k]
               \/ made.call[k].future = "open" /\ ~made.call[k].delivered
      <4> HIDE DEF set
      <4> QED BY <2>1, <2>2, <3>2, PlaceholdersPending
    <3>4. b.pending \subseteq b.seen
          /\ \A k \in b.pending : b.call[k].future = "open" /\ ~b.call[k].delivered
      BY <1>1, <1>4 DEF BridgeCalls, Fresh
    <3>5. \A k \in made.pending : made.call[k].future = "open" /\ ~made.call[k].delivered
      BY <3>3, <3>4
    <3>6. CASE odd # {}
      <4>1. u = Signalled(made) BY <1>4, <2>4, <3>6 DEF Sealed, announced, odd, before
      <4> HIDE DEF made
      <4>2. /\ Signalled(made).failure = TRUE /\ Signalled(made).pending = made.pending
            /\ Signalled(made).call = made.call
        BY <3>3 DEF Signalled, BridgeFields
      <4> QED BY <3>5, <4>1, <4>2 DEF Fresh
    <3>7. CASE odd = {}
      <4>1. u = done BY <1>4, <2>4, <3>7 DEF Sealed, announced, odd, before
      <4>2. {c.id : c \in set} = IdsOf(calls) BY <3>1, <3>7 DEF Range, IdsOf
      <4>3. b.seen \subseteq IdsOf(calls) BY <2>4 DEF IdsOf
      <4> HIDE DEF set, made
      <4>4. done.pending = made.pending /\ done.call = made.call /\ done.sealed = TRUE
        BY <3>3 DEF BridgeFields
      <4>5. made.pending = IdsOf(calls) BY <3>3, <3>4, <4>2, <4>3
      <4> HIDE DEF done
      <4> QED BY <3>5, <4>1, <4>4, <4>5 DEF Fresh
    <3> QED BY <3>6, <3>7
  <2> QED BY <2>3, <2>4
<1> QED BY <1>2, <1>3, <1>4

LEMMA EnteredFresh ==
  ASSUME NEW b, NEW cb, BridgeInv(b, cb), ~b.cancelled, Fresh(b), NEW id, NEW args,
         Admits(b, id, args)
  PROVE  LET u == Entered(b, id, args) IN
         /\ Fresh(u) /\ u.sealed = b.sealed /\ u.pending = b.pending \cup {id}
         /\ b.sealed => \A c \in Calls : /\ u.call[c].future = b.call[c].future
                                         /\ u.call[c].delivered = b.call[c].delivered
         /\ ~b.sealed => u.call[id].future = "open"
<1> DEFINE u == Entered(b, id, args)
<1>1. BridgeTyped(b) /\ BridgeCalls(b) /\ id \in Calls BY DEF BridgeInv, Admits
<1>2. CASE b.sealed
  <2>1. u = [b EXCEPT !.call[id].entered = TRUE, !.seen = @ \cup {id}]
    BY <1>2 DEF Entered
  <2>2. /\ u.pending = b.pending /\ u.call = [b.call EXCEPT ![id].entered = TRUE]
        /\ u.sealed = TRUE
    BY <1>1, <1>2, <2>1 DEF BridgeTyped, BridgeFields
  <2>3. id \in b.pending BY <1>2 DEF Admits
  <2> HIDE DEF u
  <2>4. /\ \A c \in Calls \ {id} : u.call[c] = b.call[c]
        /\ u.call[id] = [b.call[id] EXCEPT !.entered = TRUE]
    BY <1>1, <2>2 DEF BridgeTyped
  <2>5. CallTyped(b.call[id]) BY <1>1 DEF BridgeTyped
  <2>6. u.call[id].future = b.call[id].future /\ u.call[id].delivered = b.call[id].delivered
    BY <2>4, <2>5 DEF CallTyped, CallFields
  <2> QED BY <1>2, <2>2, <2>3, <2>4, <2>6 DEF Fresh, u
<1>3. CASE ~b.sealed
  <2> DEFINE r == Issued(b, id, args, TRUE)
  <2>1. u = [NewPending(b, id, args, TRUE) EXCEPT !.seen = @ \cup {id}, !.changed = TRUE]
    BY <1>3 DEF Entered
  <2>2. /\ u.pending = b.pending \cup {id} /\ u.call = [b.call EXCEPT ![id] = r]
        /\ u.seen = b.seen \cup {id} /\ u.sealed = b.sealed /\ u.failure = b.failure
        /\ u.cancelled = b.cancelled
    BY <1>1, <2>1 DEF BridgeTyped, BridgeFields, NewPending
  <2> HIDE DEF u
  <2>3. r.delivered = FALSE /\ r.future = "open" BY DEF Issued, NoCall
  <2> HIDE DEF r
  <2>4. u.call[id] = r /\ \A c \in Calls \ {id} : u.call[c] = b.call[c]
    BY <1>1, <2>2 DEF BridgeTyped
  <2>5. b.pending \subseteq Calls BY <1>1 DEF BridgeTyped
  <2>6. Fresh(u) BY <1>3, <2>2, <2>3, <2>4, <2>5 DEF Fresh
  <2> QED BY <1>3, <2>2, <2>3, <2>4, <2>6 DEF u
<1> QED BY <1>2, <1>3

LEMMA BoundaryStays ==
  ASSUME BoundaryInv, UNCHANGED <<sess, incoming>>,
         Fresh(bridge'), sess.pc = "boundary" => Ready(sess, bridge')
  PROVE  BoundaryInv'
BY DEF BoundaryInv

(* No callback of a boundary can leave: its call is not answered yet.          *)
LEMMA NobodyLeaves ==
  ASSUME NEW b, NEW cb, BridgeInv(b, cb), ~b.cancelled, NEW h \in Callbacks,
         cb[h].st = "waiting", b.call[cb[h].id].future # "open"
  PROVE  b.sealed /\ \A s : ~Ready(s, b)
<1>1. Waiting(b, cb, h) BY DEF BridgeInv, CallbackInv
<1>2. cb[h].id \in b.pending BY <1>1 DEF Waiting
<1>3. b.sealed BY <1>2 DEF BridgeInv, BridgeCalls, BridgeTyped
<1> QED BY <1>2, <1>3 DEF Ready

LEMMA CallbacksKeepBoundary ==
  ASSUME Inv, BoundaryInv, NEW h \in Callbacks, Enters(h) \/ WakesUp(h)
  PROVE  BoundaryInv'
<1> DEFINE id == callback[h].id
           args == callback[h].args
           b == Entered(bridge, id, args)
<1>1. UNCHANGED <<sess, incoming>> BY DEF Enters, WakesUp
<1>2. BridgeInv(bridge, callback) /\ BridgeTyped(bridge) /\ Fresh(bridge)
      /\ (sess.pc = "boundary" => Ready(sess, bridge) /\ ~bridge.cancelled)
  BY DEF Inv, BoundaryInv, BridgeInv
<1>3. CASE UNCHANGED bridge BY <1>1, <1>2, <1>3, BoundaryStays
<1>4. CASE bridge' = Signalled(bridge)
  <2>1. Fresh(bridge') BY <1>2, <1>4, SignalledFresh
  <2>2. bridge'.pending = bridge.pending /\ bridge'.call = bridge.call
    BY <1>2, <1>4, SignalledInv
  <2> QED BY <1>1, <1>2, <2>1, <2>2, BoundaryStays DEF Ready
<1>5. CASE ~bridge.cancelled /\ Admits(bridge, id, args) /\ callback[h].st = "spawned"
           /\ (bridge' = b \/ (b.call[id].future # "open" /\ bridge' = Left(b, id)))
  <2>1. /\ Fresh(b) /\ b.sealed = bridge.sealed /\ b.pending = bridge.pending \cup {id}
        /\ bridge.sealed => \A c \in Calls :
             b.call[c].future = bridge.call[c].future
             /\ b.call[c].delivered = bridge.call[c].delivered
        /\ ~bridge.sealed => b.call[id].future = "open"
    BY <1>2, <1>5, EnteredFresh
  <2>2. id \in Calls /\ (bridge.sealed => id \in bridge.pending) BY <1>5 DEF Admits
  <2>3. bridge.pending \subseteq Calls BY <1>2 DEF BridgeTyped
  <2>4. sess.pc = "boundary" => bridge.sealed
    BY DEF Inv, RoundInv, InRound, Live, TasksInv, TasksFollow, RoundIsSealed, SessInv, Phases
  <2>5. sess.pc = "boundary" => Ready(sess, b) /\ b.call[id].future = "open"
    BY <1>2, <2>1, <2>2, <2>3, <2>4 DEF Ready
  <2>6. BridgeTyped(b) BY <1>2, <2>2, EnteredShape
  <2> HIDE DEF b
  <2>7. CASE bridge' = b BY <1>1, <2>1, <2>5, <2>7, BoundaryStays
  <2>8. CASE b.call[id].future # "open" /\ bridge' = Left(b, id)
    <3>1. sess.pc # "boundary" /\ b.sealed BY <2>1, <2>5, <2>8
    <3>2. bridge'.sealed = b.sealed BY <2>6, <2>8, LeftShape
    <3> QED BY <1>1, <3>1, <3>2, BoundaryStays DEF Fresh
  <2> QED BY <1>5, <2>7, <2>8
<1>6. CASE callback[h].st = "waiting" /\ bridge.call[id].future # "open"
           /\ bridge' = Left(bridge, id)
  <2>1. /\ bridge'.sealed = bridge.sealed /\ bridge'.cancelled = bridge.cancelled
    BY <1>2, <1>6, LeftShape
  <2>2. ~bridge.cancelled => bridge.sealed /\ ~Ready(sess, bridge)
    BY <1>2, <1>6, NobodyLeaves
  <2>3. Fresh(bridge') /\ sess.pc # "boundary" BY <1>2, <2>1, <2>2 DEF Fresh
  <2> QED BY <1>1, <2>3, BoundaryStays
<1>7. CASE Enters(h) BY <1>3, <1>4, <1>5, <1>7 DEF Enters, Wakes
<1>8. CASE WakesUp(h) BY <1>3, <1>6, <1>8 DEF WakesUp, Wakes
<1> QED BY <1>7, <1>8

(* The message of a round's next call opens an epoch that is empty.            *)
LEMMA ProcessesFresh ==
  ASSUME NEW s, NEW m, NEW early, BridgeTyped(bridge), Fresh(bridge),
         Processes(s, m, early)
  PROVE  Fresh(bridge')
<1>1. CASE bridge' = bridge BY <1>1
<1>2. CASE bridge' = Signalled(bridge) BY <1>2, SignalledFresh
<1>3. CASE bridge' = Begun(EpochComplete(bridge)) /\ bridge.pending = {}
  <2>1. bridge'.pending = {} BY <1>3 DEF BridgeTyped, BridgeFields, Begun, EpochComplete
  <2> QED BY <2>1 DEF Fresh
<1> QED BY <1>1, <1>2, <1>3 DEF Processes, WaitFailed

LEMMA WaitsKeepsBoundary ==
  ASSUME Inv, BoundaryInv, Waits PROVE BoundaryInv'
<1>1. UNCHANGED <<sess, incoming>> BY DEF Waits
<1>2. sess.pc = "completing" BY DEF Waits, Inv, TasksInv, TasksFollow
<1>3. BridgeTyped(bridge) /\ Fresh(bridge) BY DEF Inv, BoundaryInv, BridgeInv
<1>4. Fresh(bridge')
  <2>1. CASE bridge' = bridge BY <1>3, <2>1
  <2>2. CASE bridge' = Signalled(bridge) BY <1>3, <2>2, SignalledFresh
  <2>3. CASE bridge' = EpochComplete(bridge) /\ bridge.pending = {}
    <3>1. bridge'.pending = {} BY <1>3, <2>3 DEF BridgeTyped, BridgeFields, EpochComplete
    <3> QED BY <3>1 DEF Fresh
  <2>4. CASE bridge' = [bridge EXCEPT !.changed = FALSE]
    <3>1. /\ bridge'.pending = bridge.pending /\ bridge'.call = bridge.call
          /\ bridge'.sealed = bridge.sealed /\ bridge'.cancelled = bridge.cancelled
          /\ bridge'.seen = bridge.seen /\ bridge'.failure = bridge.failure
      BY <1>3, <2>4 DEF BridgeTyped, BridgeFields
    <3> QED BY <1>3, <3>1 DEF Fresh
  <2> QED BY <2>1, <2>2, <2>3, <2>4 DEF Waits, WaitFailed
<1> QED BY <1>1, <1>2, <1>4, BoundaryStays

LEMMA SealsKeepsBoundary ==
  ASSUME Inv, BoundaryInv, Seals PROVE BoundaryInv'
<1> DEFINE calls == [i \in DOMAIN ToolCalls(sess.raw) |->
                      [id |-> ToolCalls(sess.raw)[i].id, args |-> ToolCalls(sess.raw)[i].id]]
           b == Sealed(bridge, calls)
<1>1. BridgeInv(bridge, callback) /\ Fresh(bridge) /\ ~bridge.cancelled
      /\ SessTyped(sess) /\ incoming.st = "none"
  BY DEF Inv, BoundaryInv, SessInv, Seals, TasksInv, TasksFollow
<1>2. /\ Fresh(b)
      /\ ~b.failure =>
           /\ b.pending = IdsOf(calls)
           /\ \A c \in b.pending : b.call[c].future = "open" /\ ~b.call[c].delivered
  BY <1>1, SealedReady
<1>3. /\ bridge' = b
      /\ sess' = IF b.failure THEN Failed(sess)
                 ELSE [Released(sess) EXCEPT !.pc = "boundary", !.tool_epoch = @ + 1,
                         !.awaiting_submit = TRUE, !.expected_ids = IdsOf(calls),
                         !.published = Published(b, calls), !.round = calls, !.heard = {}]
      /\ incoming' = IF b.failure THEN incoming ELSE Receiving
  BY <1>1 DEF Seals, IdsOf
<1> HIDE DEF b, calls
<1>4. CASE b.failure
  <2>1. sess'.pc = "failed" /\ incoming'.st = "none" BY <1>1, <1>3, <1>4, FailedTyped
  <2> QED BY <1>2, <1>3, <2>1 DEF BoundaryInv
<1>5. CASE ~b.failure
  <2> DEFINE r == Released(sess)
  <2>1. SessTyped(r) BY <1>1, ReleasedShape
  <2>2. sess' = [r EXCEPT !.pc = "boundary", !.tool_epoch = @ + 1,
                   !.awaiting_submit = TRUE, !.expected_ids = IdsOf(calls),
                   !.published = Published(b, calls), !.round = calls, !.heard = {}]
    BY <1>3, <1>5
  <2> HIDE DEF r
  <2>3. sess'.pc = "boundary" /\ sess'.round = calls BY <2>1, <2>2 DEF SessTyped, Fields
  <2> QED BY <1>2, <1>3, <1>5, <2>3 DEF BoundaryInv, Ready
<1> QED BY <1>4, <1>5

(* So the answers are those of the calls that wait, all of them.               *)
LEMMA Takes ==
  ASSUME Inv, BoundaryInv PROVE AnswersAreTaken
<1>1. SUFFICES ASSUME sess.pc = "boundary"
               PROVE  Matches(bridge, Answers) /\ Undelivered(bridge) = sess.expected_ids
  BY DEF AnswersAreTaken
<1>2. Ready(sess, bridge) BY <1>1 DEF BoundaryInv
<1>3. Phases(sess) /\ Live(sess) BY <1>1 DEF Inv, SessInv, Live
<1>4. RoundIsSealed(sess, bridge)
  BY <1>1, <1>3 DEF Inv, RoundInv, InRound, TasksInv, TasksFollow
<1>5. Undelivered(bridge) = bridge.pending BY <1>2 DEF Ready, Undelivered
<1>6. bridge.pending = sess.expected_ids BY <1>1, <1>2, <1>3 DEF Ready, Phases
<1>7. DOMAIN Answers = {x.pub : x \in Range(sess.published)} BY DEF Answers
<1>8. ASSUME NEW i \in DOMAIN sess.round
      PROVE  /\ sess.published[i].pub = bridge.call[sess.round[i].id].pub
             /\ i \in DOMAIN sess.published
  <2>1. PublishedCall(sess, bridge, i) /\ i \in DOMAIN sess.published
    BY <1>4, <1>8 DEF RoundIsSealed
  <2>2. sess.published[i] = AnswerOf(bridge.call[sess.round[i].id])
    BY <2>1 DEF PublishedCall
  <2> QED BY <2>1, <2>2 DEF AnswerOf
<1>9. {x.pub : x \in Range(sess.published)} = {bridge.call[c].pub : c \in IdsOf(sess.round)}
  <2>1. ASSUME NEW x \in Range(sess.published)
        PROVE  \E c \in IdsOf(sess.round) : x.pub = bridge.call[c].pub
    <3>1. PICK i \in DOMAIN sess.round : x = sess.published[i]
      BY <1>4, <2>1 DEF Range, RoundIsSealed
    <3>2. sess.round[i].id \in IdsOf(sess.round) BY DEF IdsOf, Range
    <3> QED BY <1>8, <3>1, <3>2
  <2>2. ASSUME NEW c \in IdsOf(sess.round)
        PROVE  \E x \in Range(sess.published) : x.pub = bridge.call[c].pub
    <3>1. PICK i \in DOMAIN sess.round : c = sess.round[i].id BY <2>2 DEF IdsOf, Range
    <3>2. sess.published[i] \in Range(sess.published) BY <1>8 DEF Range
    <3> QED BY <1>8, <3>1, <3>2
  <2> QED BY <2>1, <2>2
<1>10. Matches(bridge, Answers)
  BY <1>2, <1>5, <1>7, <1>9 DEF Matches, Ready
<1> QED BY <1>5, <1>6, <1>10

LEMMA SubmitsKeepsBoundary ==
  ASSUME Inv, BoundaryInv, Submits PROVE BoundaryInv'
<1>1. AnswersAreTaken /\ sess.pc = "boundary" /\ sess.awaiting_submit
      /\ SessTyped(sess) /\ BridgeTyped(bridge)
  BY Takes DEF Submits, Inv, SessInv, Phases, Live, BridgeInv
<1>2. /\ bridge' = Resolved(bridge, Answers) /\ UNCHANGED incoming
      /\ sess' = [sess EXCEPT !.pc = "resumed", !.awaiting_submit = FALSE,
                    !.awaiting_echo = TRUE, !.echo_ids = {}, !.echo_right = TRUE]
  BY <1>1 DEF Submits, AnswersAreTaken
<1>3. bridge'.sealed = TRUE BY <1>1, <1>2 DEF BridgeTyped, BridgeFields, Resolved
<1>4. sess'.pc = "resumed" BY <1>1, <1>2 DEF SessTyped, Fields
<1> QED BY <1>3, <1>4 DEF BoundaryInv, Fresh

(* The steps of the generator that are neither at a boundary nor reach one.    *)
LEMMA ElsewhereKeepsBoundary ==
  ASSUME Inv, BoundaryInv,
         \/ Starts \/ Query \/ Finishes \/ StartsWaiting \/ CallbacksWereFirst
         \/ MessageWasFirst \/ (\E x : GivesUp(x))
  PROVE  BoundaryInv'
<1>1. SessTyped(sess) /\ SessInv(sess) BY DEF Inv, SessInv
<1>2. UNCHANGED bridge
  BY DEF Starts, Query, Finishes, StartsWaiting, CallbacksWereFirst, MessageWasFirst, GivesUp
<1>3. sess'.pc # "boundary" /\ (sess'.pc = "failed" => incoming'.st = "none")
  <2>1. CASE Starts
    <3>1. incoming' = incoming /\ incoming.st = "none"
      BY <2>1 DEF Starts, Inv, TasksInv, TasksFollow
    <3>2. CASE sess' = [sess EXCEPT !.pc = "idle"] BY <1>1, <3>2 DEF SessTyped, Fields
    <3>3. CASE sess' = [Failed(sess) EXCEPT !.abandoned = TRUE] BY <1>1, <3>1, <3>3, GivenUp
    <3> QED BY <2>1, <3>2, <3>3 DEF Starts
  <2>2. CASE Query BY <1>1, <2>2 DEF Query, SessTyped, Fields
  <2>3. CASE Finishes
    <3> DEFINE r == Released(sess)
    <3>1. SessTyped(r) BY <1>1, ReleasedShape
    <3>2. sess' = [r EXCEPT !.pc = "idle"] BY <2>3 DEF Finishes
    <3> HIDE DEF r
    <3> QED BY <3>1, <3>2 DEF SessTyped, Fields
  <2>4. CASE StartsWaiting BY <1>1, <2>4 DEF StartsWaiting, SessTyped, Fields
  <2>5. CASE CallbacksWereFirst
    <3>1. CASE waiter.st = "failed"
      <4>1. sess' = Failed(sess) /\ incoming' = NotReceiving
        BY <2>5, <3>1 DEF CallbacksWereFirst
      <4> QED BY <1>1, <4>1, FailedTyped, TasksShape
    <3>2. CASE waiter.st # "failed"
      <4>1. sess' = [sess EXCEPT !.pc = "resumed", !.needs_completion = FALSE]
        BY <2>5, <3>2 DEF CallbacksWereFirst
      <4> QED BY <1>1, <4>1 DEF SessTyped, Fields
    <3> QED BY <3>1, <3>2
  <2>6. CASE MessageWasFirst
    <3>1. sess' = Failed(sess) /\ incoming' = NotReceiving BY <2>6 DEF MessageWasFirst
    <3> QED BY <1>1, <3>1, FailedTyped, TasksShape
  <2>7. CASE \E x : GivesUp(x)
    <3>1. PICK x : GivesUp(x) BY <2>7
    <3>2. sess' = [Failed(sess) EXCEPT !.abandoned = x] /\ incoming' = NotReceiving
      BY <3>1 DEF GivesUp
    <3> QED BY <1>1, <3>2, GivenUp, TasksShape
  <2> QED BY <2>1, <2>2, <2>3, <2>4, <2>5, <2>6, <2>7
<1> QED BY <1>2, <1>3 DEF BoundaryInv

LEMMA BoundaryStep ==
  ASSUME Inv, BoundaryInv, [Next]_vars PROVE BoundaryInv'
<1>1. CASE UNCHANGED <<sess, incoming, bridge>> BY <1>1 DEF BoundaryInv
<1>2. CASE Submits BY <1>2, SubmitsKeepsBoundary
<1>3. CASE Receives
  <2>1. sess'.pc # "boundary" BY <1>3, ReceivesInv
  <2>2. /\ UNCHANGED incoming /\ sess.pc = "receiving" /\ ~sess.needs_completion
        /\ ~sess.completed /\ Processes(sess, Head(queue), sess.awaiting_submit)
    BY <1>3 DEF Receives
  <2>3. Fresh(bridge') BY <2>2, ProcessesFresh DEF Inv, BoundaryInv, BridgeInv
  <2>4. incoming.st = "none" BY <2>2 DEF Inv, TasksInv, TasksFollow
  <2> QED BY <2>1, <2>2, <2>3, <2>4 DEF BoundaryInv
<1>4. CASE ReceivesAhead
  <2>1. UNCHANGED <<sess, bridge>> /\ incoming.st # "none"
    BY <1>4 DEF ReceivesAhead
  <2> QED BY <2>1 DEF BoundaryInv
<1>5. CASE TakesAhead
  <2>1. incoming' = NotReceiving BY <1>5 DEF TakesAhead
  <2>2. Fresh(bridge')
    BY <1>5, ProcessesFresh DEF TakesAhead, Inv, BoundaryInv, BridgeInv
  <2>3. sess'.pc # "boundary" BY <1>5, TakesAheadInv
  <2> QED BY <2>1, <2>2, <2>3, TasksShape DEF BoundaryInv
<1>6. CASE Seals BY <1>6, SealsKeepsBoundary
<1>7. CASE Waits BY <1>7, WaitsKeepsBoundary
<1>8. CASE Closes
  <2>1. /\ sess' = [sess EXCEPT !.pc = "closed"] /\ bridge' = Cancelled(bridge)
    BY <1>8 DEF Closes
  <2>2. sess'.pc = "closed" BY <2>1 DEF Inv, SessInv, SessTyped, Fields
  <2>3. bridge'.cancelled BY <2>1 DEF Cancelled, Inv, BridgeInv, BridgeTyped, BridgeFields
  <2> QED BY <2>2, <2>3 DEF BoundaryInv, Fresh
<1>9. CASE \E h \in Callbacks : Enters(h) \/ WakesUp(h) BY <1>9, CallbacksKeepBoundary
<1>10. CASE \/ Starts \/ Query \/ Finishes \/ StartsWaiting \/ CallbacksWereFirst
            \/ MessageWasFirst \/ (\E x : GivesUp(x))
  BY <1>10, ElsewhereKeepsBoundary
<1>11. Speaks \/ Refuses \/ FallsBack \/ Streams \/ Echoes \/ GoesOn \/ Status
       \/ (\E c \in Calls : CallsBack(c)) \/ Deviates => UNCHANGED <<sess, incoming, bridge>>
  BY Zenon DEF Speaks, Refuses, FallsBack, Streams, Echoes, GoesOn, Status, CallsBack, Spawns,
         Deviates
<1>12. WatcherFails \/ Abandons => \E x : GivesUp(x) BY DEF WatcherFails, Abandons
<1>13. UNCHANGED vars => UNCHANGED <<sess, incoming, bridge>> BY DEF vars
<1> QED
  BY <1>1, <1>2, <1>3, <1>4, <1>5, <1>6, <1>7, <1>8, <1>9, <1>10, <1>11, <1>12, <1>13
  DEF Next, Conversing, Serving

LEMMA BoundaryInvariant == Spec => []BoundaryInv
<1>1. Init => BoundaryInv
  <2>1. Init => sess.pc = "new" /\ bridge = NewBridge BY DEF Init
  <2>2. Init => Fresh(bridge) BY <2>1 DEF NewBridge, Fresh
  <2> QED BY <2>1, <2>2 DEF BoundaryInv
<1>2. Inv /\ BoundaryInv /\ [Next]_vars => BoundaryInv' BY BoundaryStep
<1> QED BY <1>1, <1>2, Invariant, PTL DEF Spec

(* The user sees the calls and the answers of the model, and the model the     *)
(* results of the user, all of them and nothing else, for every set of calls,  *)
(* every shape of message and every CLI, however much it deviates              *)
(* (ToolBridge.invoke, seal_epoch and resolve; submit_tool_results and         *)
(* _observe_model_fallback of SdkSession).                                     *)
THEOREM Faithful == Spec => []ExchangeIsFaithful
<1>1. Inv => NothingRetractedIsShown BY DEF Inv, SessInv, Retraction, NothingRetractedIsShown
<1>2. Inv /\ BoundaryInv => ExchangeIsFaithful
  BY <1>1, BoundaryShows, ResultsReach, Takes DEF ExchangeIsFaithful
<1> QED BY <1>2, Invariant, BoundaryInvariant, PTL

(* Neither receive task outlives what it was started for (the cancellations in *)
(* _receive_after_epoch_completion and close).                                 *)
THEOREM Tasks == Spec => []TasksMatchTheTurn
<1>1. Inv /\ BoundaryInv => TasksMatchTheTurn
  BY DEF Inv, TasksInv, TasksFollow, BoundaryInv, TasksMatchTheTurn
<1> QED BY <1>1, Invariant, BoundaryInvariant, PTL
=============================================================================
