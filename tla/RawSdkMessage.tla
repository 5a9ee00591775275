---------------------------- MODULE RawSdkMessage ----------------------------
(***************************************************************************)
(* RawSdkMessageValidator of sdk_tool_protocol.py: the grammar of one      *)
(* assistant message, as raw stream events and as the typed message the    *)
(* SDK derives from them.  A validator is a record; every event maps it to *)
(* the next one, or to one that is Broken where the code calls             *)
(* fail_protocol.                                                          *)
(*                                                                         *)
(* A block is its kind and, for a tool, the id of the call; one delta      *)
(* stands for all of its content.  A refusal is closed by a message_delta  *)
(* of its own kind, refusal_delta.  Usage counters and indexes are left    *)
(* out.                                                                    *)
(***************************************************************************)
EXTENDS Naturals, Sequences, FiniteSets

BlockKinds == {"text", "thinking", "redacted_thinking", "tool_use"}

NoBlock == [kind |-> "none", id |-> 0]
NewRaw == [phase |-> "message_start", blocks |-> <<>>, current |-> NoBlock,
           delta |-> FALSE, suffix |-> FALSE, mode |-> "none", validated |-> {},
           diagnostic |-> FALSE]
Broken(r) == [r EXCEPT !.phase = "broken"]
Unless(refused, r, next) == IF refused THEN Broken(r) ELSE next

IsComplete(r) == r.phase = "complete"
ToolCalls(r) == SelectSeq(r.blocks, LAMBDA b : b.kind = "tool_use")
HasTools(r) == ToolCalls(r) # <<>>

MessageStart(r) ==
  Unless(r.phase # "message_start", r, [r EXCEPT !.phase = "block_start"])

\* The next block of a message whose typed counterparts come one by one starts
\* when the last one has come; text does not follow a tool; a tool's id is new.
BlockStart(r, b) ==
  Unless(\/ r.phase # "block_start"
         \/ r.mode = "per_block" /\ Cardinality(r.validated) # Len(r.blocks)
         \/ b.kind = "text" /\ r.suffix
         \/ b.kind = "tool_use" /\ \E i \in DOMAIN r.blocks : r.blocks[i] = b,
         r, [r EXCEPT !.phase = "block_delta", !.current = b,
                      !.delta = b.kind = "redacted_thinking",
                      !.suffix = @ \/ b.kind = "tool_use"])

BlockDelta(r) ==
  Unless(\/ r.phase # "block_delta" \/ r.current.kind = "redacted_thinking"
         \/ Len(r.blocks) + 1 \in r.validated,
         r, [r EXCEPT !.delta = TRUE])

BlockStop(r) ==
  Unless(r.phase # "block_delta" \/ ~r.delta, r,
         [r EXCEPT !.phase = "block_start", !.blocks = Append(@, r.current),
                   !.current = NoBlock, !.delta = FALSE])

MessageDelta(r) ==
  Unless(r.phase # "block_start" \/ r.blocks = <<>>, r,
         [r EXCEPT !.phase = "message_stop"])

\* A message with tools or thoughts ends when all its blocks were validated.
MessageStop(r) ==
  Unless(\/ r.phase # "message_stop"
         \/ /\ \E i \in DOMAIN r.blocks : r.blocks[i].kind # "text"
            /\ Cardinality(r.validated) # Len(r.blocks),
         r, [r EXCEPT !.phase = "complete"])

\* What the SDK keeps of blocks in the typed message.
Typed(blocks) == SelectSeq(blocks, LAMBDA b : b.kind # "redacted_thinking")

\* validate_assistant: in the middle of a block the typed message is of that
\* block, between blocks of all of them, and a message is one or the other.
ValidateAssistant(r, content) ==
  IF r.phase = "block_delta"
  THEN LET i == Len(r.blocks) + 1 IN
       Unless(\/ r.mode = "batch" \/ ~r.delta \/ i \in r.validated
              \/ content # Typed(<<r.current>>),
              r, [r EXCEPT !.mode = "per_block", !.validated = @ \cup {i}])
  ELSE Unless(\/ r.phase # "block_start" \/ r.mode = "per_block"
              \/ r.blocks = <<>> \/ r.validated # {} \/ content # Typed(r.blocks),
              r, [r EXCEPT !.mode = "batch", !.validated = DOMAIN r.blocks])

\* Where the model may be changed, and where its refusal may be announced.
ToolActivity(r) == HasTools(r) \/ r.current.kind = "tool_use"
CanBeginFallback(r) == r.phase = "block_start" /\ ~ToolActivity(r) /\ ~r.diagnostic
CanBeginRefusal(r) ==
  r.phase = "block_start" /\ r.blocks = <<>> /\ r.mode = "none" /\ ~r.diagnostic

\* The typed message of a refusal, and the delta that closes one: a refusal has
\* no blocks, what a fallback discards may have some.
RefusalAssistant(r) == Unless(~CanBeginRefusal(r), r, [r EXCEPT !.diagnostic = TRUE])
RefusalDelta(r, discarded) ==
  Unless(r.phase # "block_start" \/ (r.blocks # <<>> /\ ~discarded), r,
         [r EXCEPT !.phase = "message_stop"])

\* One stream event of a message, of a refusal, and of what is discarded.
Observe(r, m) ==
  CASE m.type = "message_start" -> MessageStart(r)
    [] m.type = "block_start"   -> BlockStart(r, m.block)
    [] m.type = "block_delta"   -> BlockDelta(r)
    [] m.type = "block_stop"    -> BlockStop(r)
    [] m.type = "message_delta" -> MessageDelta(r)
    [] m.type = "message_stop"  -> MessageStop(r)
    [] m.type = "refusal_delta" -> Broken(r)
Closing(r, m, discarded) ==
  CASE m.type = "refusal_delta" -> RefusalDelta(r, discarded)
    [] m.type = "message_stop"  -> MessageStop(r)
    [] OTHER                    -> Broken(r)
ObserveRefusal(r, m) == IF r.diagnostic THEN Closing(r, m, FALSE) ELSE Broken(r)
ObserveTermination(r, m) == Closing(r, m, TRUE)
StreamEvents == {"message_start", "block_start", "block_delta", "block_stop",
                 "message_delta", "refusal_delta", "message_stop"}
=============================================================================
