------------------------- MODULE SubscriptionReplay -------------------------
(* What a turn of the OpenAI subscription sends upstream (openai_subscription/ *)
(* translation.py, replay.py): the transcript that the client presents, with   *)
(* the native output of earlier turns in its place where it is still valid.    *)
(* An OpenAI client keeps no opaque state: the backend's cache does, for exact *)
(* transcripts.  An Anthropic client gets the native output in envelopes that  *)
(* it returns, and may lose, move or edit.  Turns run one after the other: a   *)
(* turn reads the cache in one step and writes it in another, in its last one. *)
(* A hash is the record of what it covers.                                     *)
EXTENDS EventTranslator, FiniteSets

CONSTANTS
  Accounts, Models,   \* Models: a model with its system prompt and its tools
  Prompts,            \* the user messages
  Bounds,             \* bounds of a run: its turns, its events before terminal
                      \* ones, its edits, and the items of a terminal output
  MaxEntries, MaxBytes             \* ReplayCache: max_entries, max_bytes

ASSUME CacheAssumption == MaxEntries \in Nat /\ MaxBytes \in Nat

VARIABLES
  dialect,   \* of the client
  history,   \* the transcript as the client keeps it
  request,   \* the turn's request: account, model, messages
  input,     \* the input that was sent for it
  tr,        \* the translator of the turn
  told,      \* the events that the client was sent
  cache,     \* the entries, the least recently used one first
  used,      \* bytes_used
  made,      \* history: the results put under each key that is in the cache
  issued,    \* history: the reasoning that upstream has issued, and to whom
  stage,
  left       \* what the bounds of the run leave

replayVars == <<dialect, history, request, input, tr, told, cache, used, made, issued, stage, left>>

NoRequest == [messages |-> <<>>]

ReplayInit ==
  /\ dialect \in {"openai", "anthropic"}
  /\ history = <<>> /\ request = NoRequest /\ input = <<>>
  /\ tr = NewTranslator /\ told = <<>>
  /\ cache = <<>> /\ used = 0 /\ made = {} /\ issued = {}
  /\ stage = "idle" /\ left \in Bounds

-----------------------------------------------------------------------------
(* Messages.  Of an assistant's blocks the order is kept in each channel.      *)
User(prompt) == [role |-> "user", prompt |-> prompt]
Assistant(text, calls, summaries, sealed, carriers) ==
  [role |-> "assistant", text |-> text, calls |-> calls, summaries |-> summaries,
   sealed |-> sealed, carriers |-> carriers]

(* The values of F over the elements of a sequence that satisfy Test, joined.  *)
Joined(s, Test(_), F(_)) ==
  FlattenSeq([i \in DOMAIN s |-> IF Test(s[i]) THEN F(s[i]) ELSE <<>>])

IsMessage(item) == item.type = "message"
IsFunctionCall(item) == item.type = "function_call"
IsReasoning(item) == item.type = "reasoning"

NativeAssistant(output) ==
  Assistant(Joined(output, IsMessage, LAMBDA m : m.text)
              \o Joined(output, IsMessage, LAMBDA m : m.refusal),
            Joined(output, IsFunctionCall, LAMBDA c : <<[call |-> c.call, args |-> c.args]>>),
            Joined(output, IsReasoning, LAMBDA r : <<r.summary>>), <<>>, <<>>)

(* _key: opaque blocks and the place of text among calls are left out.         *)
Visible(m) ==
  IF m.role = "user" THEN m ELSE [role |-> m.role, text |-> m.text, calls |-> m.calls]
WithSummaries(m) ==
  IF m.role = "user" THEN m
  ELSE [role |-> m.role, text |-> m.text, calls |-> m.calls, summaries |-> m.summaries]

(* Mutant: the key has the text of the transcript but not its calls. *)
Key_Text(req, messages) ==
  [account |-> req.account, model |-> req.model,
   visible |-> [i \in DOMAIN messages |->
                  IF messages[i].role = "user" THEN messages[i]
                  ELSE [role |-> "assistant", text |-> messages[i].text]]]

(* Mutant: the key has the transcript but not whose it is. *)
Key_Shared(req, messages) ==
  [visible |-> [i \in DOMAIN messages |-> Visible(messages[i])]]

Key(req, messages) ==
  [account |-> req.account, model |-> req.model,
   visible |-> [i \in DOMAIN messages |-> Visible(messages[i])]]
EnvelopeScope(req, messages) ==
  [account |-> req.account, model |-> req.model,
   visible |-> [i \in DOMAIN messages |-> WithSummaries(messages[i])]]

-----------------------------------------------------------------------------
(* Envelopes: encode_reasoning and encode_assistant, decode_reasoning and      *)
(* decode_assistant.  Their length limit is left out.                          *)
Envelope(req, scope, what) ==
  [account |-> req.account, model |-> req.model, scope |-> scope, what |-> what]

Opens(envelope, req, boundary) ==
  /\ envelope.account = req.account /\ envelope.model = req.model
  /\ envelope.scope = EnvelopeScope(req, boundary)

SealedReasoning(req, scope, item) == Envelope(req, scope, item)

(* Mutant: the scope is checked, not what the carrier contains. *)
CarrierHolds_Scope(carrier, req, boundary) == Opens(carrier, req, boundary)

(* A carrier must also show what its message shows. *)
CarrierHolds(carrier, req, boundary) ==
  /\ Opens(carrier, req, boundary)
  /\ EnvelopeScope(req, Append(Front(boundary), NativeAssistant(carrier.what)))
       = EnvelopeScope(req, boundary)

Prompt(prompt) == [type |-> "input", prompt |-> prompt]
PlainText(text) == Message(NoItem, text, <<>>)

(* One message: the native output of its carrier, or its blocks one by one.    *)
Translated(req, boundary) ==
  LET m == Last(boundary)
  IN IF m.role = "user" THEN <<Prompt(m.prompt)>>
     ELSE IF Len(m.carriers) = 1 /\ CarrierHolds(m.carriers[1], req, boundary)
     THEN m.carriers[1].what
     ELSE Joined(m.sealed, LAMBDA e : Opens(e, req, boundary), LAMBDA e : <<e.what>>)
            \o (IF m.text = <<>> THEN <<>> ELSE <<PlainText(m.text)>>)
            \o [i \in DOMAIN m.calls |-> Call(NoItem, m.calls[i].call, m.calls[i].args)]

TranslateMessages(req) ==
  FlattenSeq([i \in DOMAIN req.messages |-> Translated(req, SubSeq(req.messages, 1, i))])

-----------------------------------------------------------------------------
(* ReplayCache.  An entry without value is ambiguous: a miss until evicted.    *)
Ambiguous == [ambiguous |-> TRUE]
Unambiguous(value) == [ambiguous |-> FALSE, items |-> value]
Keeps(key) == {i \in DOMAIN cache : cache[i].key = key}
Place(key) == CHOOSE i \in Keeps(key) : TRUE
Without(key) == IF Keeps(key) = {} THEN cache ELSE RemoveAt(cache, Place(key))
Stored(e) == <<e.key>> \o (IF e.value.ambiguous THEN <<>> ELSE e.value.items)
SizeOf(e) == Len(Stored(e))
Bytes(entries) == Len(FlattenSeq([i \in DOMAIN entries |-> Stored(entries[i])]))

(* get(): an entry that is looked up is the last to be evicted.                *)
Gets(key) ==
  cache' = IF Keeps(key) = {} THEN cache
           ELSE Append(Without(key), cache[Place(key)])

Replay(key) ==
  IF Keeps(key) = {} THEN Ambiguous ELSE cache[Place(key)].value

(* Mutant: a second result replaces the first. *)
Merged_Newest(old, items) == Unambiguous(items)

(* Two results for one transcript: none of them can be told to be its own.     *)
Merged(old, items) ==
  IF old = Unambiguous(items) THEN old ELSE Ambiguous

(* Mutant: the bytes of an entry that is replaced stay counted. *)
Freed_Not(key) == 0

(* The bytes of an entry that is replaced. *)
Freed(key) == IF Keeps(key) = {} THEN 0 ELSE SizeOf(cache[Place(key)])

(* What eviction leaves: the longest suffix that is within the bounds.         *)
Evicted(entries, bytes) ==
  LET Drop(n) == SubSeq(entries, n + 1, Len(entries))
      BytesAfter(n) == bytes - Bytes(SubSeq(entries, 1, n))
      n == CHOOSE k \in 0..Len(entries) :
             /\ Len(entries) - k <= MaxEntries /\ BytesAfter(k) <= MaxBytes
             /\ \A j \in 0..(k - 1) : Len(entries) - j > MaxEntries \/ BytesAfter(j) > MaxBytes
  IN [entries |-> Drop(n), bytes |-> BytesAfter(n)]

Puts(key, items) ==
  LET value == IF Keeps(key) = {} THEN Unambiguous(items)
               ELSE Merged(cache[Place(key)].value, items)
      entry == [key |-> key, value |-> value]
      room == used - Freed(key)
      kept == IF SizeOf(entry) > MaxBytes \/ MaxEntries = 0
              THEN [entries |-> Without(key), bytes |-> room]
              ELSE Evicted(Append(Without(key), entry), room + SizeOf(entry))
      InCache(m) == \E i \in DOMAIN kept.entries : kept.entries[i].key = m.key
  IN /\ cache' = kept.entries /\ used' = kept.bytes
     /\ made' = {m \in made \cup {[key |-> key, items |-> items]} : InCache(m)}

-----------------------------------------------------------------------------
(* build_body: a replay stands for all messages but the last one.              *)
Body(req, replay) ==
  IF replay.ambiguous THEN TranslateMessages(req)
  ELSE replay.items \o Translated(req, req.messages)

(* A turn: the client presents its transcript with a new prompt.               *)
Asks ==
  /\ stage = "idle" /\ left.turns > 0
  /\ \E account \in Accounts, model \in Models, prompt \in Prompts :
       LET req == [account |-> account, model |-> model,
                   messages |-> Append(history, User(prompt))]
           key == Key(req, history)
           replay == IF dialect = "openai" THEN Replay(key) ELSE Ambiguous
       IN /\ request' = req
          /\ input' = Body(req, replay)
          /\ IF dialect = "openai" THEN Gets(key) ELSE UNCHANGED cache
  /\ stage' = "reading" /\ left' = [left EXCEPT !.turns = @ - 1]
  /\ tr' = NewTranslator /\ told' = <<>>
  /\ UNCHANGED <<dialect, history, used, made, issued>>

(* An event, and what the client is told of it; a turn that fails is over.     *)
Ends == request' = NoRequest /\ input' = <<>> /\ stage' = "idle"

Consumes(t) ==
  IF t.failed THEN Ends /\ tr' = NewTranslator /\ told' = <<>>
  ELSE /\ tr' = [t EXCEPT !.says = <<>>] /\ told' = told \o t.says
       /\ UNCHANGED <<request, input, stage>>

Hears ==
  /\ stage = "reading" /\ left.events > 0
  /\ \/ \E i \in Index, item \in Items : Consumes(Added(tr, i, item))
     \/ \E i \in Index, item \in Items :
          (* upstream reports the end of a call once *)
          /\ item.type = "function_call" => i \notin tr.done
          /\ Consumes(Done(tr, i, item))
     \/ \E kind \in Deltas, i \in Index, letter \in Letters : Consumes(Delta(tr, kind, i, letter))
  /\ left' = [left EXCEPT !.events = @ - 1]
  /\ UNCHANGED <<dialect, history, cache, used, made, issued>>

(* What a client keeps of the events it was told: an OpenAI client no opaque   *)
(* state, and a refusal as text or not at all.                                 *)
ToldOf(kind, events_) == Joined(events_, LAMBDA e : e.kind = kind, LAMBDA e : e.what)
CallsOf(events_) == Joined(events_, LAMBDA e : e.kind = "call", LAMBDA e : <<e.what>>)

(* The blocks of _finish that come after the items: the reasoning's envelopes  *)
(* and, for a completed turn of an Anthropic client, the carrier.              *)
Sealed(t, req) ==
  LET scope == EnvelopeScope(req, Append(req.messages, NativeAssistant(t.output)))
  IN [reasoning |-> Joined(t.output, IsReasoning, LAMBDA r : <<SealedReasoning(req, scope, r)>>),
      carriers |-> IF t.cacheable THEN <<Envelope(req, scope, t.output)>> ELSE <<>>]

Kept(t, sent, refusal) ==
  LET text == ToldOf("text", sent) \o refusal
  IN IF dialect = "openai" THEN Assistant(text, CallsOf(sent), <<>>, <<>>, <<>>)
     ELSE Assistant(text, CallsOf(sent), Joined(t.output, IsReasoning, LAMBDA r : <<r.summary>>),
                    Sealed(t, request).reasoning, Sealed(t, request).carriers)

Stores(t) ==
  IF dialect = "openai" /\ t.cacheable
  THEN Puts(Key(request, Append(request.messages, NativeAssistant(t.output))), input \o t.output)
  ELSE UNCHANGED <<cache, used, made>>

(* The terminal event.  The client appends the turn to its transcript.         *)
Completes ==
  /\ stage = "reading"
  /\ \E output \in {o \in Outputs : Len(o) <= left.items}, status \in Statuses :
       LET t == Finish(tr, output, status)
           sent == told \o t.says
           refusals == IF dialect = "openai" THEN {<<>>, ToldOf("refusal", sent)}
                       ELSE {ToldOf("refusal", sent)}
           Issued(r) == [account |-> request.account, model |-> request.model, item |-> r]
       IN IF t.failed
          THEN /\ tr' = NewTranslator /\ told' = <<>>
               /\ UNCHANGED <<history, cache, used, made, issued>>
          ELSE /\ tr' = [t EXCEPT !.says = <<>>] /\ told' = sent
               /\ \E refusal \in refusals :
                    history' = Append(request.messages, Kept(t, sent, refusal))
               /\ Stores(t)
               /\ issued' = issued \cup
                    {Issued(t.output[i]) : i \in {j \in DOMAIN t.output : IsReasoning(t.output[j])}}
  /\ Ends
  /\ UNCHANGED <<dialect, left>>

-----------------------------------------------------------------------------
(* Between its turns a client goes back to an earlier point of its transcript, *)
(* rewrites an answer, forgets its opaque blocks, changes what a carrier       *)
(* contains, or puts it into another message.                                  *)
Answers == {i \in DOMAIN history : history[i].role = "assistant"}

Edits ==
  /\ stage = "idle" /\ left.edits > 0
  /\ \/ \E i \in Answers \cup {0} : i < Len(history) /\ history' = SubSeq(history, 1, i)
     \/ \E i \in Answers, letter \in Letters :
          history' = [history EXCEPT ![i].text = Append(@, letter)]
     \/ \E i \in Answers : history' = [history EXCEPT ![i].sealed = <<>>, ![i].carriers = <<>>]
     \/ \E i \in Answers, item \in Items :
          /\ history[i].carriers # <<>> /\ item.type # "reasoning"
          /\ history' = [history EXCEPT ![i].carriers[1].what = <<item>>]
     \/ \E i, j \in Answers : history' = [history EXCEPT ![i].carriers = history[j].carriers]
  /\ left' = [left EXCEPT !.edits = @ - 1]
  /\ tr' = NewTranslator /\ told' = <<>>
  /\ UNCHANGED <<dialect, request, input, cache, used, made, issued, stage>>

ReplayNext == Asks \/ Hears \/ Completes \/ Edits

ReplaySpec == ReplayInit /\ [][ReplayNext]_replayVars

-----------------------------------------------------------------------------
(* A turn that has ended: what the client was told, item by item, is the       *)
(* terminal output - no text, refusal or summary twice, none missing, each     *)
(* call once - in whatever order deltas, ends of items and the terminal event  *)
(* have brought it (events.py's prefix rules).  The reason it is given to stop  *)
(* asks for the results of calls only if there are some, and never hides them. *)
ToldOfItem(kind, i) ==
  Joined(told, LAMBDA e : e.kind = kind /\ e.index = i, LAMBDA e : e.what)
CallsOfItem(i) ==
  Joined(told, LAMBDA e : e.kind = "call" /\ e.index = i, LAMBDA e : <<e.what>>)
ToldIsTheOutput ==
  tr.finished => \A i \in Index :
    LET item == IF i \in DOMAIN tr.output THEN tr.output[i] ELSE NoItem
        Is(type) == item # NoItem /\ item.type = type
    IN /\ ToldOfItem("text", i) = IF Is("message") THEN item.text ELSE <<>>
       /\ ToldOfItem("refusal", i) = IF Is("message") THEN item.refusal ELSE <<>>
       /\ ToldOfItem("summary", i) = IF Is("reasoning") THEN item.summary ELSE <<>>
       /\ CallsOfItem(i)
            = IF Is("function_call") THEN <<[call |-> item.call, args |-> item.args]>> ELSE <<>>
       /\ tr.reason = "tool_use" => CallsOf(told) # <<>>
       /\ tr.reason = "end_turn" => CallsOf(told) = <<>> /\ ToldOf("refusal", told) = <<>>

(* The ciphertext of a reasoning item is not lost when a later event of the    *)
(* item, or the terminal one, comes without it.                                *)
HasCipher(item) == item # NoItem /\ item.type = "reasoning" /\ item.cipher
CipherIsKept ==
  [][\A i \in Index :
       HasCipher(tr.items[i]) /\ tr' # NewTranslator =>
         HasCipher(tr'.items[i]) /\ (tr'.finished => HasCipher(tr'.output[i]))]_replayVars

(* What is sent upstream shows exactly the transcript that the client has      *)
(* presented, message by message, whether it comes from the cache, from a      *)
(* carrier or from the blocks, after any edits of the client: opaque state     *)
(* never overrides visible text and calls.                                     *)
Shown(messages) ==
  Joined([i \in DOMAIN messages |-> Visible(messages[i])],
         LAMBDA m : m.role = "user" \/ m.text # <<>> \/ m.calls # <<>>, LAMBDA m : <<m>>)

(* An item that is sent is a prompt, or belongs to the output that it follows. *)
WithItem(runs, item) ==
  IF item.type = "input" THEN Append(runs, User(item.prompt))
  ELSE IF runs # <<>> /\ Last(runs).role = "output"
  THEN Append(Front(runs), [role |-> "output", items |-> Append(Last(runs).items, item)])
  ELSE Append(runs, [role |-> "output", items |-> <<item>>])
Runs(items) ==
  LET runs[n \in 0..Len(items)] == IF n = 0 THEN <<>> ELSE WithItem(runs[n - 1], items[n])
  IN runs[Len(items)]
AsMessage(r) == IF r.role = "user" THEN r ELSE NativeAssistant(r.items)
Transcript(items) == [i \in DOMAIN Runs(items) |-> AsMessage(Runs(items)[i])]
InputIsTheTranscript ==
  stage = "reading" => Shown(Transcript(input)) = Shown(request.messages)

(* Encrypted reasoning goes back to the account and the model it was issued    *)
(* for, and to no other.                                                       *)
ReasoningGoesHome ==
  stage = "reading" =>
    \A i \in DOMAIN input : input[i].type = "reasoning" =>
      [account |-> request.account, model |-> request.model, item |-> input[i]] \in issued

(* Upstream is sent the client's transcript and its own reasoning, no other.   *)
InputIsFaithful == InputIsTheTranscript /\ ReasoningGoesHome

(* A replay is never a guess: the cache gives a value only when every result   *)
(* for its transcript since the entry came in was that value.                  *)
ReplayIsNoGuess ==
  \A e \in {cache[i] : i \in DOMAIN cache} :
    ~e.value.ambiguous => {m.items : m \in {n \in made : n.key = e.key}} = {e.value.items}

(* The cache stays within its bounds, and bytes_used is what its entries take: *)
(* it neither leaks its capacity nor outgrows it.                              *)
CacheIsBounded ==
  /\ Len(cache) <= MaxEntries /\ used = Bytes(cache) /\ used <= MaxBytes
  /\ \A i, j \in DOMAIN cache : cache[i].key = cache[j].key => i = j

(* The cache is sound: never a guess, never beyond its bounds.                 *)
CacheIsSound == ReplayIsNoGuess /\ CacheIsBounded
=============================================================================
