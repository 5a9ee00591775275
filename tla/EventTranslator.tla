--------------------------- MODULE EventTranslator ---------------------------
(* EventTranslator of openai_subscription/events.py: the events of a Responses *)
(* stream become the events of a conversation.  A translator is a record;      *)
(* "says" holds the events that the last call has returned.  Output indices    *)
(* start at 1.  A text is a sequence of letters, and JSON parses unless empty. *)
EXTENDS Naturals, Sequences, SequencesExt

CONSTANTS
  Items,     \* the output items that upstream may send
  Letters,   \* what a text is made of
  MaxItems,  \* bound: MAX_ITEMS
  NoItem

Message(id, text, refusal) == [type |-> "message", id |-> id, text |-> text, refusal |-> refusal]
Call(id, call, args) == [type |-> "function_call", id |-> id, call |-> call, args |-> args]
Reasoning(id, summary, cipher) ==
  [type |-> "reasoning", id |-> id, summary |-> summary, cipher |-> cipher]

Index == 1..MaxItems

(* An item is a message, a call or a reasoning; NoItem is none, not even one    *)
(* that has kept the ciphertext of an earlier event.                           *)
WellFormed(item) ==
  \/ /\ item.type = "message" /\ item = Message(item.id, item.text, item.refusal)
     /\ item.text \in Seq(Letters) /\ item.refusal \in Seq(Letters)
  \/ /\ item.type = "function_call" /\ item = Call(item.id, item.call, item.args)
     /\ item.args \in Seq(Letters)
  \/ /\ item.type = "reasoning" /\ item = Reasoning(item.id, item.summary, item.cipher)
     /\ item.summary \in Seq(Letters) /\ item.cipher \in BOOLEAN
KnownItems ==
  Items \cup {[r EXCEPT !.cipher = TRUE] : r \in {item \in Items : item.type = "reasoning"}}

ASSUME ItemsAssumption ==
  MaxItems \in Nat /\ NoItem \notin KnownItems /\ \A item \in Items : WellFormed(item)

Outputs == UNION {[1..n -> Items] : n \in 0..MaxItems}
Statuses == {"completed", "max_output_tokens", "content_filter", "other"}
Deltas == {"text", "refusal", "summary", "args"}

NewTranslator ==
  [items |-> [i \in Index |-> NoItem], done |-> {}, calls |-> {},
   heard |-> [kind \in Deltas |-> [i \in Index |-> <<>>]],  \* what deltas have brought
   output |-> <<>>, finished |-> FALSE, cacheable |-> FALSE, failed |-> FALSE,
   reason |-> "none", says |-> <<>>]

Known(t) == {i \in Index : t.items[i] # NoItem}
Fails(t) == [t EXCEPT !.failed = TRUE, !.says = <<>>]

Says(kind, i, what) == [kind |-> kind, index |-> i, what |-> what]

-----------------------------------------------------------------------------
(* _call: a call whose id is new and whose arguments are an object; it is told *)
(* once.                                                                       *)
CallIds(t) == {t.items[i].call : i \in t.calls}
IsCall(t, i, item) == i \in t.calls \/ (item.args # <<>> /\ item.call \notin CallIds(t))
TellsCall(t, i, item) ==
  IF i \in t.calls THEN <<>> ELSE <<Says("call", i, [call |-> item.call, args |-> item.args])>>

(* Mutant: the item that comes last replaces what is known of the earlier one. *)
WithCipher_Last(item, before) == item

(* An item that comes without its ciphertext keeps the one that is known.      *)
WithCipher(item, before) ==
  IF before # NoItem /\ item.type = "reasoning" /\ before.type = "reasoning" /\ ~item.cipher
  THEN [item EXCEPT !.cipher = before.cipher] ELSE item

SameItem(a, b) ==
  /\ a.id = b.id /\ a.type = b.type
  /\ a.type = "function_call" => a.call = b.call

(* response.output_item.added *)
Added(t, i, item) ==
  IF i \in Known(t) THEN Fails(t)
  ELSE [t EXCEPT !.items[i] = item, !.says = <<>>]

(* response.output_item.done *)
ArgumentsMatch(t, i, item) ==
  \/ t.heard["args"][i] = <<>>
  \/ item.type = "function_call" /\ t.heard["args"][i] = item.args
MayBeDone(t, i, item) ==
  /\ i \in Known(t) => SameItem(t.items[i], item)
  /\ ArgumentsMatch(t, i, item)
  /\ item.type = "function_call" => IsCall(t, i, item)

Done(t, i, item) ==
  IF ~MayBeDone(t, i, item) THEN Fails(t)
  ELSE LET call == item.type = "function_call"
       IN [t EXCEPT !.items[i] = WithCipher(item, @), !.done = @ \cup {i},
                    !.calls = IF call THEN @ \cup {i} ELSE @,
                    !.says = IF call THEN TellsCall(t, i, item) ELSE <<>>]

(* The four kinds of delta, each for an item of its type.                      *)
TypeOf(kind) ==
  CASE kind \in {"text", "refusal"} -> "message" [] kind = "summary" -> "reasoning"
    [] kind = "args" -> "function_call"

Delta(t, kind, i, letter) ==
  IF i \notin Known(t) \/ t.items[i].type # TypeOf(kind) THEN Fails(t)
  ELSE [t EXCEPT !.heard[kind][i] = Append(@, letter),
                 !.says = IF kind = "args" THEN <<>> ELSE <<Says(kind, i, <<letter>>)>>]

-----------------------------------------------------------------------------
(* _finish.  A terminal event without output stands for the items, if each one *)
(* of a completed response has been done.                                      *)
ItemsAreDone(t, status) ==
  /\ status = "completed" /\ t.done = Known(t)
  /\ \E n \in Index : Known(t) = 1..n

Terminal(t, output) ==
  IF output = <<>> THEN [i \in Known(t) |-> t.items[i]] ELSE output

(* Mutant: the text that comes with the terminal event is told as a whole. *)
Remainder_Whole(kind, i, whole, prior) ==
  IF whole = <<>> THEN <<>> ELSE <<Says(kind, i, whole)>>

(* What the client has not been told yet of a text. *)
Remainder(kind, i, whole, prior) ==
  LET rest == SubSeq(whole, Len(prior) + 1, Len(whole))
  IN IF rest = <<>> THEN <<>> ELSE <<Says(kind, i, rest)>>

(* The terminal output may add to what the client was told, never change it.   *)
Agrees(t, i, item) ==
  /\ i \in Known(t) => t.items[i].id = item.id /\ t.items[i].type = item.type
  /\ CASE item.type = "function_call" ->
            /\ i \in t.calls => t.items[i] = item
            /\ ArgumentsMatch(t, i, item) /\ IsCall(t, i, item)
       [] item.type = "reasoning" -> IsPrefix(t.heard["summary"][i], item.summary)
       [] item.type = "message" -> /\ IsPrefix(t.heard["text"][i], item.text)
                                   /\ IsPrefix(t.heard["refusal"][i], item.refusal)

CallsDiffer(t, output) ==
  \A i, j \in DOMAIN output :
    /\ i # j /\ {i, j} \cap t.calls # {i, j}
    /\ output[i].type = "function_call" /\ output[j].type = "function_call"
    => output[i].call # output[j].call

Adds(t, i, item) ==
  CASE item.type = "function_call" -> TellsCall(t, i, item)
    [] item.type = "reasoning" -> Remainder("summary", i, item.summary, t.heard["summary"][i])
    [] item.type = "message" -> Remainder("text", i, item.text, t.heard["text"][i])
                                  \o Remainder("refusal", i, item.refusal, t.heard["refusal"][i])

MayFinish(t, output, status) ==
  /\ output = <<>> /\ Known(t) # {} => ItemsAreDone(t, status)
  /\ Known(t) \subseteq DOMAIN Terminal(t, output)
  /\ \A i \in DOMAIN Terminal(t, output) : Agrees(t, i, Terminal(t, output)[i])
  /\ CallsDiffer(t, Terminal(t, output)) /\ status # "other"

(* The reason that Completed gives: of a completed turn the strongest one.     *)
StopReason(output, status) ==
  LET refuses == \E i \in DOMAIN output : output[i].type = "message" /\ output[i].refusal # <<>>
      calls == \E i \in DOMAIN output : output[i].type = "function_call"
  IN IF status = "max_output_tokens" THEN "max_tokens"
     ELSE IF status = "content_filter" \/ refuses THEN "refusal"
     ELSE IF calls THEN "tool_use" ELSE "end_turn"

Finish(t, output, status) ==
  IF ~MayFinish(t, output, status) THEN Fails(t)
  ELSE LET out == Terminal(t, output)
       IN [t EXCEPT
             !.output = [i \in DOMAIN out |-> WithCipher(out[i], t.items[i])],
             !.calls = {i \in DOMAIN out : out[i].type = "function_call"},
             !.finished = TRUE, !.cacheable = status = "completed",
             !.reason = StopReason(out, status),
             !.says = FlattenSeq([i \in DOMAIN out |-> Adds(t, i, out[i])])]
=============================================================================
