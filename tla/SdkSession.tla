------------------------------ MODULE SdkSession ------------------------------
(***************************************************************************)
(* A tool session of sdk_session.py: the generator that reads the messages *)
(* of the SDK, the bridge (ToolBridge) through which the SDK calls back for *)
(* every tool, and the validator (RawSdkMessage) of the message at hand.   *)
(*                                                                         *)
(* Everything runs on one event loop and an action is what happens between *)
(* two suspensions: a message taken by the generator, a callback that      *)
(* starts or wakes up, a task that makes a step.  The actor (see           *)
(* ToolSessionActor) submits results, watches the bridge and gives up.     *)
(*                                                                         *)
(* The CLI behind the SDK is not part of the repository.  It streams       *)
(* messages and issues callbacks in the order the gateway's tests and      *)
(* recorded fixtures show; up to MaxExtras times it deviates from it.      *)
(***************************************************************************)
EXTENDS ToolBridge, RawSdkMessage

CONSTANTS
  Shapes,       \* the assistant messages the CLI may stream: sequences of kinds
  Policies,     \* whether the model may be replaced: FALSE is off, TRUE is auto
  BufferLimit,  \* payload the buffer of a response may hold
  Rogue,        \* a callback that is not one of the announced calls
  MaxTurns,     \* bound: prompts of one session
  MaxLag,       \* bound: messages the SDK has read ahead of the generator
  MaxExtras     \* bound: status messages and deviations of the CLI, together
ASSUME SessionAssumption ==
  /\ Rogue \notin Calls \cup {None}
  /\ \A s \in Shapes : s # <<>> /\ \A i \in DOMAIN s : s[i] \in BlockKinds
  /\ Policies \subseteq BOOLEAN
  /\ {BufferLimit, MaxTurns, MaxLag, MaxExtras} \subseteq Nat

VARIABLES
  sess,      \* fields of the SdkSession and locals of its generator
  incoming,  \* the task that receives the next message
  waiter,    \* the task of wait_epoch_complete, and which of the two was first
  bridge,    \* the ToolBridge
  callback,  \* tasks in which the SDK runs ToolBridge.invoke
  queue,     \* messages the SDK has read and the generator has not
  cli        \* what the CLI goes on to do
vars == <<sess, incoming, waiter, bridge, callback, queue, cli>>

Callbacks == Calls \cup {Rogue}
NoMessage == [type |-> "none"]
NotReceiving == [st |-> "none", m |-> NoMessage, phase |-> "generation", epoch |-> 0,
                 early |-> FALSE]
Receiving == [NotReceiving EXCEPT !.st = "waiting"]
NoWaiter == [st |-> "none", first |-> "none"]
NoCallback == [st |-> "none", id |-> None, args |-> None, value |-> None]

\* The model asked for, and the one that may take its place.
Models == {"opus-5", "opus-4.8"}

\* turn, early, round, heard, abandoned, shown and retracted are kept for the
\* properties; the last two and the buffer hold messages of the turn by number.
Init ==
  \E auto \in Policies :
  /\ sess = [pc |-> "new", raw |-> NewRaw, streaming |-> FALSE,
             terminal |-> FALSE, completed |-> FALSE,
             auto |-> auto, model |-> "opus-5", refused |-> FALSE,
             retracting |-> FALSE, messages |-> 0, buffer |-> {}, size |-> 0,
             shown |-> {}, retracted |-> {},
             awaiting_submit |-> FALSE, awaiting_echo |-> FALSE, tool_epoch |-> 0,
             needs_begin |-> FALSE, needs_completion |-> FALSE,
             expected_ids |-> {}, echo_ids |-> {}, echo_right |-> TRUE,
             turn |-> 0, round |-> <<>>, published |-> <<>>, heard |-> {},
             abandoned |-> FALSE]
  /\ incoming = NotReceiving /\ waiter = NoWaiter
  /\ bridge = NewBridge
  /\ callback = [h \in Callbacks |-> NoCallback]
  /\ queue = <<>>
  /\ cli = [at |-> "idle", out |-> <<>>, model |-> "opus-5", offered |-> {},
            told |-> {}, used |-> 0, statuses |-> 0, faults |-> 0]

Ended == sess.pc \in {"failed", "closed"}
\* The generator ends, and with it its locals.
Failed(s) ==
  [s EXCEPT !.pc = "failed", !.raw = NewRaw, !.streaming = FALSE, !.terminal = FALSE,
            !.completed = FALSE, !.refused = FALSE, !.retracting = FALSE,
            !.buffer = {}, !.size = 0]

----------------------------------------------------------------------------
(* The CLI.                                                                *)

HasRoom == Len(queue) < MaxLag
Sends(m) == HasRoom /\ ~Ended /\ queue' = Append(queue, m)
ToolIds(blocks) == {b.id : b \in {x \in Range(blocks) : x.kind = "tool_use"}}

\* The blocks of a message, with new ids for its tools, as stream events and
\* typed messages, one for every block or one for all of them.
Blocks(shape) ==
  [i \in DOMAIN shape |->
    [kind |-> shape[i],
     id |-> IF shape[i] # "tool_use" THEN 0
            ELSE cli.used + Cardinality({j \in 1..i : shape[j] = "tool_use"})]]
BlockEvents(b, mode) ==
  <<[type |-> "block_start", block |-> b]>>
  \o (IF b.kind = "redacted_thinking" THEN <<>> ELSE <<[type |-> "block_delta"]>>)
  \o (IF mode # "per_block" THEN <<>>
      ELSE <<[type |-> "assistant", blocks |-> Typed(<<b>>)]>>)
  \o <<[type |-> "block_stop"]>>
Opening(model) == <<[type |-> "message_start", model |-> model, again |-> FALSE]>>
AllBlocks(blocks, mode) ==
  FlattenSeq([i \in DOMAIN blocks |-> BlockEvents(blocks[i], mode)])
MessageEvents(blocks, mode) ==
  Opening(cli.model) \o AllBlocks(blocks, mode)
  \o (IF mode # "batch" THEN <<>>
      ELSE <<[type |-> "assistant", blocks |-> Typed(blocks)]>>)
  \o <<[type |-> "message_delta"], [type |-> "message_stop"]>>

Speaks ==
  /\ cli.at = "speak" /\ cli.out = <<>> /\ ~Ended
  /\ \E shape \in Shapes, mode \in {"per_block", "batch"} :
       LET blocks == Blocks(shape)
           ids == ToolIds(blocks)
       IN  /\ ids \subseteq Calls
           /\ cli' = [cli EXCEPT
                !.at = IF ids = {} THEN "idle" ELSE "round",
                !.used = @ + Cardinality(ids),
                !.out = MessageEvents(blocks, mode)
                        \o (IF ids = {} THEN <<[type |-> "result", refused |-> FALSE]>>
                            ELSE <<>>)]
  /\ UNCHANGED <<sess, incoming, waiter, bridge, callback, queue>>

\* The model refuses.
Refuses ==
  /\ cli.at = "speak" /\ cli.out = <<>> /\ ~Ended
  /\ cli' = [cli EXCEPT
       !.at = "idle",
       !.out = Opening(cli.model)
               \o <<[type |-> "refusal_notice", model |-> cli.model],
                    [type |-> "refusal_assistant"], [type |-> "refusal_delta"],
                    [type |-> "message_stop"], [type |-> "result", refused |-> TRUE]>>]
  /\ UNCHANGED <<sess, incoming, waiter, bridge, callback, queue>>

\* ... or is replaced by another, which starts its message again.  What is
\* discarded are the first blocks of a message, before any tool.
FallsBack ==
  /\ cli.at = "speak" /\ cli.out = <<>> /\ ~Ended
  /\ sess.auto /\ cli.model = "opus-5" /\ cli.statuses + cli.faults < MaxExtras
  /\ \E shape \in Shapes, n \in 0..1 :
       LET blocks == SubSeq(Blocks(shape), 1, n) IN
         /\ ToolIds(blocks) = {}
         /\ cli' = [cli EXCEPT
              !.model = "opus-4.8", !.statuses = @ + 1,
              !.out = Opening("opus-5") \o AllBlocks(blocks, "per_block")
                      \o <<[type |-> "fallback_notice", model |-> "opus-5"],
                           [type |-> "refusal_delta"], [type |-> "message_stop"]>>]
  /\ UNCHANGED <<sess, incoming, waiter, bridge, callback, queue>>

\* A tool may be called back once the typed message has named it.
Streams ==
  /\ cli.out # <<>>
  /\ LET m == Head(cli.out) IN
       /\ Sends(m)
       /\ cli' = [cli EXCEPT
            !.out = Tail(@),
            !.offered = IF m.type = "assistant" THEN @ \cup ToolIds(m.blocks) ELSE @]
  /\ UNCHANGED <<sess, incoming, waiter, bridge, callback>>

Spawns(h, id, args) ==
  /\ callback[h].st = "none" /\ ~Ended
  /\ callback' = [callback EXCEPT ![h] = [st |-> "spawned", id |-> id, args |-> args,
                                          value |-> None]]
  /\ UNCHANGED <<sess, incoming, waiter, bridge, queue>>

CallsBack(c) == c \in cli.offered /\ Spawns(c, c, c) /\ UNCHANGED cli

\* The results come back as they are returned, or in one message.
Echoes ==
  /\ cli.at = "round" /\ cli.out = <<>>
  /\ \E ids \in SUBSET (cli.offered \ cli.told) :
       /\ ids # {}
       /\ \A c \in ids : callback[c].st = "returned"
       /\ Sends([type |-> "user", ids |-> ids, right |-> TRUE])
       /\ cli' = [cli EXCEPT !.told = @ \cup ids]
  /\ UNCHANGED <<sess, incoming, waiter, bridge, callback>>

GoesOn ==
  /\ cli.at = "round" /\ cli.out = <<>> /\ cli.offered \subseteq cli.told /\ ~Ended
  /\ cli' = [cli EXCEPT !.at = "speak", !.offered = {}, !.told = {}]
  /\ UNCHANGED <<sess, incoming, waiter, bridge, callback, queue>>

\* A refusal leaves room for rate limits only.
Refusing == cli.out # <<>> /\ Last(cli.out) = [type |-> "result", refused |-> TRUE]
Status ==
  /\ cli.statuses + cli.faults < MaxExtras /\ sess.pc \notin {"new", "idle"}
  /\ Sends([type |-> IF Refusing THEN "rate_limit" ELSE "status"])
  /\ cli' = [cli EXCEPT !.statuses = @ + 1]
  /\ UNCHANGED <<sess, incoming, waiter, bridge, callback>>

\* Deviations: a message left out or out of place, an echo of what was not
\* returned, a callback that was not announced, repeated or changed.
OddMessages ==
  {[type |-> t] : t \in {"message_stop", "block_stop", "refusal_delta"}}
    \cup [type : {"result"}, refused : BOOLEAN]
    \cup [type : {"message_start"}, model : Models, again : {cli.model # "opus-5"}]
    \cup [type : {"fallback_notice", "refusal_notice"}, model : {cli.model}]
    \cup [type : {"block_start"}, block : [kind : {"tool_use"}, id : Calls]]
    \cup [type : {"user"}, ids : SUBSET Calls, right : BOOLEAN]
Deviates ==
  /\ cli.statuses + cli.faults < MaxExtras /\ cli.at # "idle"
  /\ \/ /\ cli.out # <<>> /\ ~Ended
        /\ cli' = [cli EXCEPT !.faults = @ + 1, !.out = Tail(@)]
        /\ UNCHANGED <<sess, incoming, waiter, bridge, callback, queue>>
     \/ /\ \E m \in OddMessages :
             /\ Sends(m)
             /\ cli' = [cli EXCEPT !.faults = @ + 1,
                          !.told = IF m.type = "user" THEN @ \cup m.ids ELSE @]
        /\ UNCHANGED <<sess, incoming, waiter, bridge, callback>>
     \/ /\ \E id \in Calls \cup {None}, args \in Calls : Spawns(Rogue, id, args)
        /\ cli' = [cli EXCEPT !.faults = @ + 1]

----------------------------------------------------------------------------
(* The callbacks: invoke, _park_protocol_failure and _await_result.        *)

Ends(h, st, value) ==
  callback' = [callback EXCEPT ![h].st = st, ![h].value = value]

\* What a callback that waits for the future of id gets.
Wakes(h, b) ==
  LET c == b.call[callback[h].id] IN
    /\ IF c.future = "result" THEN Ends(h, "returned", c.value)
                              ELSE Ends(h, "failed", None)
    /\ bridge' = Left(b, callback[h].id)

Enters(h) ==
  LET id == callback[h].id
      args == callback[h].args
      b == Entered(bridge, id, args)
  IN  /\ callback[h].st = "spawned"
      /\ \/ /\ bridge.cancelled
            /\ Ends(h, "failed", None) /\ UNCHANGED bridge
         \/ /\ ~bridge.cancelled /\ ~Admits(bridge, id, args)
            /\ Ends(h, "parked", None)
            /\ bridge' = Signalled(bridge)
         \/ /\ ~bridge.cancelled /\ Admits(bridge, id, args)
            /\ IF b.call[id].future = "open"
               THEN Ends(h, "waiting", None) /\ bridge' = b
               ELSE Wakes(h, b)
      /\ UNCHANGED <<sess, incoming, waiter, queue, cli>>

WakesUp(h) ==
  /\ \/ /\ callback[h].st = "waiting"
        /\ bridge.call[callback[h].id].future # "open"
        /\ Wakes(h, bridge)
     \/ /\ callback[h].st = "parked" /\ bridge.cancelled
        /\ Ends(h, "failed", None) /\ UNCHANGED bridge
  /\ UNCHANGED <<sess, incoming, waiter, queue, cli>>

----------------------------------------------------------------------------
(* What the generator does with a message.                                 *)

Position(s) ==
  [phase |-> IF s.awaiting_submit THEN "awaiting_submit"
             ELSE IF s.awaiting_echo THEN "awaiting_echo" ELSE "generation",
   epoch |-> s.tool_epoch]

\* Wrong: when a message was received is not looked at.
InPosition_Any(s, r) == TRUE

\* A message counts for the phase it was received in; only status and rate limit
\* may have come before the results were submitted.
InPosition(s, r) ==
  LET here == Position(s) IN
    \/ r.phase = here.phase /\ r.epoch = here.epoch
    \/ /\ r.m.type \in {"status", "rate_limit"} /\ here.phase = "awaiting_echo"
       /\ r.phase \in {"generation", "awaiting_submit"}
       /\ s.tool_epoch \in {r.epoch, r.epoch + 1}

FinishEcho(s) ==
  IF s.echo_ids = s.expected_ids /\ s.echo_right
  THEN [s EXCEPT !.awaiting_echo = FALSE, !.needs_completion = TRUE,
                 !.needs_begin = TRUE, !.expected_ids = {}, !.echo_ids = {}]
  ELSE Failed(s)

\* The results as the SDK tells them: all blocks are of calls of the round, none
\* twice; with the last of them the values are compared.
ObserveEcho(s, m, early) ==
  LET t == [s EXCEPT !.echo_ids = @ \cup m.ids, !.echo_right = @ /\ m.right,
                     !.heard = @ \cup {[ids |-> m.ids, right |-> m.right,
                                        early |-> early]}]
  IN  IF \/ ~s.awaiting_echo \/ m.ids = {} \/ ~(m.ids \subseteq s.expected_ids)
         \/ m.ids \cap s.echo_ids # {}
      THEN Failed(s)
      ELSE IF t.echo_ids = t.expected_ids THEN FinishEcho(t) ELSE t

\* What the consumer is given at once, or when the response is complete.
Yields(s, n) ==
  IF s.auto THEN [s EXCEPT !.buffer = @ \cup {n}] ELSE [s EXCEPT !.shown = @ \cup {n}]
\* Wrong: what was released still counts.
Released_Counts(s) == [s EXCEPT !.shown = @ \cup s.buffer, !.buffer = {}]
Released(s) == [s EXCEPT !.shown = @ \cup s.buffer, !.buffer = {}, !.size = 0]

\* The payload of an event is counted before it is looked at.
Payload(m) ==
  IF \/ m.type = "block_delta"
     \/ m.type = "block_start" /\ m.block.kind = "redacted_thinking" THEN 1 ELSE 0
Admitted(s, m) ==
  IF ~s.auto THEN s
  ELSE IF s.size + Payload(m) > BufferLimit THEN Failed(s)
  ELSE [s EXCEPT !.size = @ + Payload(m)]

\* A new message may start where the last one is complete and nothing is awaited;
\* after a retraction it is the other model's, with another id.
ObserveStart(s, m) ==
  LET model == IF s.retracting THEN "opus-4.8" ELSE s.model IN
  IF \/ s.terminal \/ s.awaiting_submit \/ s.refused
     \/ s.streaming /\ ~IsComplete(s.raw)
     \/ s.retracting /\ m.again
     \/ m.model # model
  THEN Failed(s)
  ELSE Yields([(IF s.awaiting_echo THEN FinishEcho(s) ELSE s) EXCEPT
                 !.raw = NewRaw, !.streaming = TRUE, !.model = model,
                 !.retracting = FALSE, !.messages = @ + 1],
              s.messages + 1)

\* A complete message with tools is a boundary, one without is the last, unless it
\* is retracted.
ObserveStream(s, m) ==
  LET t == Admitted(IF m.type = "message_start" THEN ObserveStart(s, m) ELSE s, m)
      raw == IF t.retracting THEN ObserveTermination(t.raw, m)
             ELSE IF t.refused THEN ObserveRefusal(t.raw, m)
             ELSE Observe(t.raw, m)
  IN  IF t.pc = "failed" \/ ~t.streaming \/ raw.phase = "broken"
      THEN Failed(s)
      ELSE [t EXCEPT !.raw = raw,
                     !.pc = IF IsComplete(raw) /\ HasTools(raw) THEN "sealing"
                            ELSE "receiving",
                     !.terminal = @ \/ (IsComplete(raw) /\ ~HasTools(raw)
                                          /\ ~t.retracting)]

\* The typed message of a block, of all blocks, or of a refusal.
ObserveAssistant(s, m) ==
  LET raw == IF m.type = "refusal_assistant" THEN RefusalAssistant(s.raw)
             ELSE ValidateAssistant(s.raw, m.blocks)
  IN  IF \/ ~s.streaming \/ s.awaiting_echo \/ s.awaiting_submit \/ s.retracting
         \/ s.refused # (m.type = "refusal_assistant") \/ raw.phase = "broken"
      THEN Failed(s) ELSE [s EXCEPT !.raw = raw]

\* Wrong: what the message had shown so far stays in the buffer.
ObserveFallback_Keeps(s, m) ==
  IF \/ ~s.auto \/ ~s.streaming \/ ~CanBeginFallback(s.raw) \/ HasEpochActivity(bridge)
     \/ s.terminal \/ s.refused \/ s.retracting \/ s.awaiting_submit \/ s.awaiting_echo
     \/ m.model # s.model \/ s.model # "opus-5"
  THEN Failed(s)
  ELSE [s EXCEPT !.retracting = TRUE, !.retracted = @ \cup {s.messages}]

\* The model is replaced, once and where the policy allows it: what its message
\* has shown so far is discarded, unless a tool was begun.
ObserveFallback(s, m) ==
  IF \/ ~s.auto \/ ~s.streaming \/ ~CanBeginFallback(s.raw) \/ HasEpochActivity(bridge)
     \/ s.terminal \/ s.refused \/ s.retracting \/ s.awaiting_submit \/ s.awaiting_echo
     \/ m.model # s.model \/ s.model # "opus-5"
  THEN Failed(s)
  ELSE [s EXCEPT !.retracting = TRUE, !.retracted = @ \cup {s.messages},
                 !.buffer = {}, !.size = 0]

\* The model refuses, before it has said anything, and is not replaced.
ObserveRefusalNotice(s, m) ==
  IF \/ ~s.streaming \/ ~CanBeginRefusal(s.raw) \/ s.terminal \/ s.refused
     \/ s.awaiting_submit \/ s.awaiting_echo \/ m.model # s.model
  THEN Failed(s) ELSE [s EXCEPT !.refused = TRUE]

Observed(s, m, early) ==
  CASE m.type \in StreamEvents -> ObserveStream(s, m)
    [] m.type \in {"assistant", "refusal_assistant"} -> ObserveAssistant(s, m)
    [] m.type = "fallback_notice" -> ObserveFallback(s, m)
    [] m.type = "refusal_notice" -> ObserveRefusalNotice(s, m)
    [] m.type = "user" -> ObserveEcho(s, m, early)
    [] m.type = "status" -> IF s.awaiting_submit \/ s.refused THEN Failed(s) ELSE s
    [] m.type = "rate_limit" -> IF s.awaiting_submit THEN Failed(s) ELSE s
    [] m.type = "result" ->
         IF \/ ~s.streaming \/ ~s.terminal \/ s.awaiting_submit \/ s.awaiting_echo
            \/ s.refused # m.refused
         THEN Failed(s) ELSE [s EXCEPT !.completed = TRUE]
    [] OTHER -> Failed(s)

\* A tool that starts after a round opens the next epoch of the bridge.
OpensEpoch(s, m) ==
  m.type = "block_start" /\ m.block.kind = "tool_use" /\ s.streaming /\ s.needs_begin
Processes(s, m, early) ==
  LET opens == OpensEpoch(s, m)
      fails == opens /\ (WaitFails(bridge) \/ Premature(bridge))
  IN  /\ opens => fails \/ bridge.pending = {}
      /\ sess' = IF fails THEN Failed(s)
                 ELSE Observed([s EXCEPT !.needs_begin = @ /\ ~opens], m, early)
      /\ bridge' = IF fails THEN WaitFailed(bridge)
                   ELSE IF opens THEN Begun(EpochComplete(bridge)) ELSE bridge

----------------------------------------------------------------------------
(* The generator and its tasks.                                            *)

\* start: the client is connected, or what there is of it is closed.
Starts ==
  /\ sess.pc = "new"
  /\ \E connected \in BOOLEAN :
       sess' = IF connected THEN [sess EXCEPT !.pc = "idle"]
               ELSE [Failed(sess) EXCEPT !.abandoned = TRUE]
  /\ UNCHANGED <<incoming, waiter, bridge, callback, queue, cli>>

\* client.query, and the model takes the floor.
Query ==
  /\ sess.pc = "idle" /\ sess.turn < MaxTurns /\ cli.at = "idle" /\ cli.out = <<>>
  /\ sess' = [sess EXCEPT !.pc = "receiving", !.turn = @ + 1, !.streaming = FALSE,
                          !.raw = NewRaw, !.terminal = FALSE, !.completed = FALSE,
                          !.refused = FALSE, !.retracting = FALSE, !.messages = 0,
                          !.buffer = {}, !.size = 0, !.shown = {}, !.retracted = {}]
  /\ cli' = [cli EXCEPT !.at = "speak"]
  /\ UNCHANGED <<incoming, waiter, bridge, callback, queue>>

\* _receive_message, awaited by the generator itself.
Receives ==
  /\ sess.pc = "receiving" /\ ~sess.completed /\ ~sess.needs_completion
  /\ queue # <<>>
  /\ Processes(sess, Head(queue), sess.awaiting_submit)
  /\ queue' = Tail(queue)
  /\ UNCHANGED <<incoming, waiter, callback, cli>>

\* ... and in a task of its own.  The completion task was created before it.
ReceivesAhead ==
  /\ incoming.st = "waiting" /\ queue # <<>> /\ waiter.st # "new"
  /\ incoming' = [st |-> "done", m |-> Head(queue), phase |-> Position(sess).phase,
                  epoch |-> Position(sess).epoch, early |-> sess.awaiting_submit]
  /\ queue' = Tail(queue)
  /\ waiter' = IF waiter.st # "none" /\ waiter.first = "none"
               THEN [waiter EXCEPT !.first = "incoming"] ELSE waiter
  /\ UNCHANGED <<sess, bridge, callback, cli>>
TakesAhead ==
  /\ sess.pc = "resumed" /\ incoming.st = "done"
  /\ LET s == [sess EXCEPT !.pc = "receiving"] IN
       IF InPosition(s, incoming) /\ ~s.completed
       THEN Processes(s, incoming.m, incoming.early)
       ELSE sess' = Failed(s) /\ UNCHANGED bridge
  /\ incoming' = NotReceiving
  /\ UNCHANGED <<waiter, callback, queue, cli>>

\* seal_epoch after its one turn of the loop, and the rest of _tool_boundary: the
\* calls are published, and the next message is already waited for.
Seals ==
  LET calls == [i \in DOMAIN ToolCalls(sess.raw) |->
                  [id |-> ToolCalls(sess.raw)[i].id, args |-> ToolCalls(sess.raw)[i].id]]
      b == Sealed(bridge, calls)
      refused == bridge.cancelled \/ b.failure
  IN  /\ sess.pc = "sealing"
      /\ bridge' = b
      /\ sess' = IF refused THEN Failed(sess)
                 ELSE [Released(sess) EXCEPT !.pc = "boundary", !.tool_epoch = @ + 1,
                         !.awaiting_submit = TRUE,
                         !.expected_ids = {c.id : c \in Range(calls)},
                         !.published = Published(b, calls),
                         !.round = calls, !.heard = {}]
      /\ incoming' = IF refused THEN incoming ELSE Receiving
      /\ UNCHANGED <<waiter, callback, queue, cli>>

\* submit_tool_results with the answers to the published calls, after which the
\* actor asks for the next event.
Answers == [p \in {c.pub : c \in Range(sess.published)} |->
              [pub |-> p,
               args |-> (CHOOSE c \in Range(sess.published) : c.pub = p).args]]
Submits ==
  /\ sess.pc = "boundary"
  /\ IF sess.awaiting_submit /\ Matches(bridge, Answers)
     THEN LET echoed == Undelivered(bridge) IN
       /\ bridge' = Resolved(bridge, Answers)
       /\ sess' = IF echoed # sess.expected_ids THEN Failed(sess)
                  ELSE [sess EXCEPT !.pc = "resumed", !.awaiting_submit = FALSE,
                          !.awaiting_echo = TRUE, !.echo_ids = {},
                          !.echo_right = TRUE]
     ELSE sess' = Failed(sess) /\ UNCHANGED bridge
  /\ UNCHANGED <<incoming, waiter, callback, queue, cli>>

\* _receive_after_epoch_completion: two tasks, and the first to end decides.
StartsWaiting ==
  /\ sess.pc = "receiving" /\ sess.needs_completion
  /\ sess' = [sess EXCEPT !.pc = "completing"]
  /\ waiter' = [st |-> "new", first |-> "none"]
  /\ incoming' = Receiving
  /\ UNCHANGED <<bridge, callback, queue, cli>>

\* wait_epoch_complete, from its start or from entry_changed to the next wait.
Waits ==
  /\ waiter.st = "new" \/ (waiter.st = "waiting" /\ bridge.changed)
  /\ LET fails == WaitFails(bridge) \/ (waiter.st = "new" /\ Premature(bridge))
         ends == fails \/ bridge.pending = {}
     IN  /\ waiter' = [st |-> IF fails THEN "failed" ELSE IF ends THEN "done"
                              ELSE "waiting",
                       first |-> IF ends /\ waiter.first = "none" THEN "callback"
                                 ELSE waiter.first]
         /\ bridge' = IF fails THEN WaitFailed(bridge)
                      ELSE IF ends THEN EpochComplete(bridge)
                      ELSE [bridge EXCEPT !.changed = FALSE]
  /\ UNCHANGED <<sess, incoming, callback, queue, cli>>

CallbacksWereFirst ==
  /\ sess.pc = "completing" /\ waiter.first = "callback"
  /\ sess' = IF waiter.st = "failed" THEN Failed(sess)
             ELSE [sess EXCEPT !.pc = "resumed", !.needs_completion = FALSE]
  /\ waiter' = NoWaiter
  /\ incoming' = IF waiter.st = "failed" THEN NotReceiving ELSE incoming
  /\ UNCHANGED <<bridge, callback, queue, cli>>
MessageWasFirst ==
  /\ sess.pc = "completing" /\ waiter.first = "incoming"
  /\ sess' = Failed(sess)
  /\ waiter' = NoWaiter /\ incoming' = NotReceiving
  /\ UNCHANGED <<bridge, callback, queue, cli>>

\* The response ends with its result.
Finishes ==
  /\ sess.pc = "receiving" /\ sess.completed
  /\ sess' = [Released(sess) EXCEPT !.pc = "idle"]
  /\ UNCHANGED <<incoming, waiter, bridge, callback, queue, cli>>

----------------------------------------------------------------------------
(* The end of a session: a failure in the generator closes it, the actor   *)
(* gives up on its own timers and demands or when the bridge has failed.   *)

GivesUp(abandoned) ==
  /\ ~Ended
  /\ sess' = [Failed(sess) EXCEPT !.abandoned = abandoned]
  /\ incoming' = NotReceiving /\ waiter' = NoWaiter
  /\ UNCHANGED <<bridge, callback, queue, cli>>
WatcherFails == bridge.failure /\ GivesUp(FALSE)
Abandons == GivesUp(TRUE)

\* close: the bridge is cancelled and the client disconnected.
Closes ==
  /\ sess.pc = "failed"
  /\ sess' = [sess EXCEPT !.pc = "closed"]
  /\ bridge' = Cancelled(bridge)
  /\ incoming' = NotReceiving /\ waiter' = NoWaiter
  /\ queue' = <<>> /\ cli' = [cli EXCEPT !.at = "idle", !.out = <<>>]
  /\ UNCHANGED callback

----------------------------------------------------------------------------
Conversing ==
  \/ Speaks \/ Refuses \/ FallsBack \/ Streams \/ (\E c \in Calls : CallsBack(c))
  \/ Echoes \/ GoesOn \/ Submits
Serving ==
  \/ Receives \/ ReceivesAhead \/ TakesAhead \/ Seals \/ StartsWaiting \/ Waits
  \/ Starts \/ CallbacksWereFirst \/ MessageWasFirst \/ Finishes \/ WatcherFails \/ Closes
Next ==
  \/ Conversing \/ Serving \/ Query \/ Status \/ Deviates \/ Abandons
  \/ \E h \in Callbacks : Enters(h) \/ WakesUp(h)
Spec == Init /\ [][Next]_vars

\* While something is ready the loop goes on; a CLI that has not deviated goes on,
\* and so does its user; where it has, the actor's timers end what does not.
Progress ==
  \/ Serving
  \/ \E h \in Callbacks : Enters(h) \/ WakesUp(h)
  \/ cli.faults = 0 /\ Conversing
  \/ cli.faults > 0 /\ Abandons
FairSpec == Spec /\ WF_vars(Progress)

----------------------------------------------------------------------------
(* Properties.                                                             *)

\* A callback returns only what the user answered to the public call that was
\* made of this very callback's call, and no answer is returned twice: however
\* callbacks and announcements of calls overtake each other.
ResultsReachTheirCall ==
  \A h \in Callbacks : callback[h].st = "returned" =>
    /\ callback[h].value.args = callback[h].args
    /\ \A g \in Callbacks \ {h} :
         callback[g].st = "returned" => callback[g].value # callback[h].value

\* What the user is shown at a boundary are the calls of the message, in its
\* order, and every callback that waits is for one of them and agrees with it.
BoundaryShowsTheMessage ==
  sess.pc = "boundary" /\ ~bridge.failure =>
    /\ [i \in DOMAIN sess.published |-> sess.published[i].args]
         = [i \in DOMAIN sess.round |-> sess.round[i].args]
    /\ \A h \in Callbacks : callback[h].st = "waiting" =>
         \E i \in DOMAIN sess.round :
           /\ sess.round[i] = [id |-> callback[h].id, args |-> callback[h].args]
           /\ sess.published[i].pub = bridge.call[callback[h].id].pub

\* Nothing of a message that was retracted reaches the user, whatever else the turn
\* shows before and after it.
NothingRetractedIsShown == sess.shown \cap sess.retracted = {}

\* The answers to the calls that were shown are accepted, all of them, whatever
\* callbacks have come or failed since.
AnswersAreTaken ==
  sess.pc = "boundary" =>
    Matches(bridge, Answers) /\ Undelivered(bridge) = sess.expected_ids

\* The user sees the calls and the answers of the model, and the model the results
\* of the user.
ExchangeIsFaithful ==
  /\ BoundaryShowsTheMessage /\ AnswersAreTaken
  /\ ResultsReachTheirCall /\ NothingRetractedIsShown

\* After a round of tools no message is accepted before every callback of the
\* round has returned its result; and the SDK has told exactly these results, each
\* once, and after they were submitted.
RoundIsClosed ==
  [][sess.needs_completion /\ ~sess'.needs_completion =>
       /\ \A i \in DOMAIN sess.round : \E h \in Callbacks :
            /\ callback[h].st = "returned" /\ callback[h].id = sess.round[i].id
            /\ callback[h].value.pub = sess.published[i].pub
       /\ UNION {e.ids : e \in sess.heard} = {c.id : c \in Range(sess.round)}
       /\ \A e \in sess.heard : e.right /\ ~e.early]_vars

\* A CLI that keeps to the protocol is never failed, whatever the order in which
\* its callbacks, its messages, and the tasks that serve them run.
NoFalseAlarm ==
  cli.faults = 0 /\ ~sess.abandoned => ~Ended /\ ~bridge.failure

\* Neither receive task outlives what it was started for: the one ahead of the
\* round ends with it, the one that races the callbacks with their wait.
TasksMatchTheTurn ==
  /\ incoming.st # "none" => sess.pc \in {"boundary", "resumed", "completing"}
  /\ waiter.st # "none" <=> sess.pc = "completing"

\* A correct conversation goes on undisturbed, by alarms and by stray tasks.
ConversationIsUndisturbed == NoFalseAlarm /\ TasksMatchTheTurn

\* Nothing hangs.  Again and again there is a time when no callback is under way, in
\* place or not, and no turn: it has come to its end, or the session is closed, as
\* one is that fails or whose CLI has deviated.
Quiet ==
  /\ sess.pc \in {"idle", "closed"}
  /\ \A h \in Callbacks : callback[h].st \in {"none", "returned", "failed"}
NothingHangs == []<>Quiet
=============================================================================
