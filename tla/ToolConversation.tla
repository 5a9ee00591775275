-------------------------- MODULE ToolConversation --------------------------
(***************************************************************************)
(* What a caller-tool conversation promises, as the design states it       *)
(* (READY -> GENERATING -> READY or WAITING_FOR_TOOLS -> GENERATING, any   *)
(* nonterminal state -> CLOSED): a log that grows by whole turns, whose    *)
(* result messages answer the calls before them, and which no phase is     *)
(* stuck in while the model or the harness owes something.                 *)
(* ToolSessionActor implements it.                                         *)
(***************************************************************************)
EXTENDS Sequences, Naturals

CONSTANT Calls

VARIABLES phase, log
vars == <<phase, log>>

User(calls) == [role |-> "user", calls |-> calls]
Assistant(calls) == [role |-> "assistant", calls |-> calls]

Init ==
  /\ phase = "READY"
  /\ log \in {<<>>, <<User({}), Assistant({})>>}

Prompt ==
  /\ phase = "READY" /\ phase' = "GENERATING"
  /\ UNCHANGED log

\* A turn without calls ends the exchange, one with calls asks for results.
\* The prompt of the turn joins the log with its answer; results are in it
\* already.
Answer(calls) ==
  /\ phase = "GENERATING"
  /\ phase' = IF calls = {} THEN "READY" ELSE "WAITING_FOR_TOOLS"
  /\ log' = IF Len(log) % 2 = 0
              THEN log \o <<User({}), Assistant(calls)>>
              ELSE Append(log, Assistant(calls))

Results ==
  /\ phase = "WAITING_FOR_TOOLS" /\ phase' = "GENERATING"
  /\ log' = Append(log, User(log[Len(log)].calls))

Close == phase # "CLOSED" /\ phase' = "CLOSED" /\ UNCHANGED log

Next == Prompt \/ (\E calls \in SUBSET Calls : Answer(calls)) \/ Results \/ Close

\* Neither a generation nor a wait for results lasts for ever.
Leave == phase \in {"GENERATING", "WAITING_FOR_TOOLS"} /\ Next

Spec == Init /\ [][Next]_vars
FairSpec == Spec /\ WF_vars(Leave)
=============================================================================
