----------------------- MODULE SessionRegistry_proofs -----------------------
(***************************************************************************)
(* Machine-checked proofs about SessionRegistry, for every number of       *)
(* requests, conversations and ids and every --max-sessions.               *)
(***************************************************************************)
EXTENDS SessionRegistry, SequenceTheorems, WellFoundedInduction, TLAPS

(* The table as a sequence.                                                *)

Items(s) == {s[i] : i \in 1..Len(s)}
Once(s) == \A i, j \in 1..Len(s) : s[i] = s[j] => i = j

\* The table without one of its entries holds the others, once each.
LEMMA WithoutOne ==
  ASSUME NEW s \in Seq(Entries), Once(s), NEW e \in Items(s)
  PROVE  /\ Without(s, e) \in Seq(Entries) /\ Once(Without(s, e))
         /\ Items(Without(s, e)) = Items(s) \ {e}
         /\ Len(Without(s, e)) = Len(s) - 1 /\ Len(s) \in Nat \ {0}
<1> DEFINE n == CHOOSE i \in 1..Len(s) : s[i] = e
           a == SubSeq(s, 1, n - 1)
           b == SubSeq(s, n + 1, Len(s))
<1>1. n \in 1..Len(s) /\ s[n] = e /\ Len(s) \in Nat
  BY LenProperties DEF Items
<1> HIDE DEF n
<1>2. /\ a \in Seq(Entries) /\ Len(a) = n - 1
      /\ \A i \in 1..(n - 1) : a[i] = s[i]
  <2>1. \A i \in 1..(n - 1) : s[i] \in Entries
    BY <1>1, ElementOfSeq
  <2>2. 1 \in Int /\ n - 1 \in Int /\ n - 1 - 1 + 1 = n - 1
        /\ \A i \in Int : 1 + i - 1 = i
    BY <1>1
  <2>3. /\ SubSeq(s, 1, n - 1) \in Seq(Entries)
        /\ Len(SubSeq(s, 1, n - 1)) = IF 1 <= n - 1 THEN n - 1 - 1 + 1 ELSE 0
        /\ \A i \in 1..(n - 1 - 1 + 1) : SubSeq(s, 1, n - 1)[i] = s[1 + i - 1]
    BY <2>1, <2>2, SubSeqProperties
  <2> QED BY <1>1, <2>2, <2>3
<1>3. /\ b \in Seq(Entries) /\ Len(b) = Len(s) - n
      /\ \A i \in 1..(Len(s) - n) : b[i] = s[n + i]
  <2> DEFINE m == n + 1  l == Len(s)
  <2>1. m \in Int /\ l \in Int /\ \A i \in m..l : s[i] \in Entries
    BY <1>1, ElementOfSeq
  <2> HIDE DEF m, l
  <2>2. /\ SubSeq(s, m, l) \in Seq(Entries)
        /\ Len(SubSeq(s, m, l)) = IF m <= l THEN l - m + 1 ELSE 0
        /\ \A i \in 1..(l - m + 1) : SubSeq(s, m, l)[i] = s[m + i - 1]
    BY <2>1, SubSeqProperties
  <2>3. l - m + 1 = Len(s) - n /\ (m <= l <=> n < Len(s)) /\ \A i \in Int : m + i - 1 = n + i
    BY <1>1 DEF m, l
  <2>4. b = SubSeq(s, m, l)
    BY DEF m, l
  <2>5. Len(b) = IF n < Len(s) THEN Len(s) - n ELSE 0
    BY <2>2, <2>3, <2>4
  <2>6. Len(b) = Len(s) - n
    BY <1>1, <2>5
  <2> HIDE DEF b
  <2>7. ASSUME NEW i \in 1..(Len(s) - n) PROVE b[i] = s[n + i]
    <3>1. i \in Int /\ i \in 1..(l - m + 1)
      BY <1>1, <2>3
    <3> QED BY <2>2, <2>3, <2>4, <3>1
  <2> QED BY <2>2, <2>4, <2>6, <2>7
<1> DEFINE w == a \o b
<1> HIDE DEF a, b
<1>4. /\ w \in Seq(Entries) /\ Len(w) = Len(s) - 1
      /\ \A i \in 1..Len(w) : w[i] = IF i < n THEN s[i] ELSE s[i + 1]
  <2>1. /\ w \in Seq(Entries) /\ Len(w) = Len(a) + Len(b)
        /\ \A i \in 1..(Len(a) + Len(b)) : w[i] = IF i <= Len(a) THEN a[i] ELSE b[i - Len(a)]
    BY <1>2, <1>3, ConcatProperties
  <2>2. Len(w) = Len(s) - 1
    BY <1>1, <1>2, <1>3, <2>1
  <2>3. ASSUME NEW i \in 1..Len(w) PROVE w[i] = IF i < n THEN s[i] ELSE s[i + 1]
    <3>1. CASE i < n
      BY <1>1, <1>2, <1>3, <2>1, <2>2, <3>1
    <3>2. CASE ~(i < n)
      <4>1. i - (n - 1) \in 1..(Len(s) - n) /\ n + (i - (n - 1)) = i + 1 /\ ~(i <= n - 1)
        BY <1>1, <2>2, <3>2
      <4> QED BY <1>1, <1>2, <1>3, <2>1, <2>2, <3>2, <4>1
    <3> QED BY <3>1, <3>2
  <2> QED BY <2>1, <2>2, <2>3
<1> HIDE DEF w
<1>5. Once(w)
  BY <1>1, <1>4 DEF Once
<1>6. Items(w) = Items(s) \ {e}
  <2>1. ASSUME NEW x \in Items(w) PROVE x \in Items(s) \ {e}
    <3>1. PICK i \in 1..Len(w) : x = w[i]
      BY DEF Items
    <3> QED BY <1>1, <1>4, <3>1 DEF Items, Once
  <2>2. ASSUME NEW x \in Items(s) \ {e} PROVE x \in Items(w)
    <3>1. PICK i \in 1..Len(s) : x = s[i]
      BY DEF Items
    <3>2. i # n
      BY <1>1, <3>1
    <3>3. CASE i < n
      <4>1. i \in 1..Len(w) /\ w[i] = x
        BY <1>1, <1>4, <3>1, <3>3
      <4> QED BY <4>1 DEF Items
    <3>4. CASE i > n
      <4>1. i - 1 \in 1..Len(w) /\ w[i - 1] = s[i - 1 + 1] /\ i - 1 + 1 = i
        BY <1>1, <1>4, <3>4
      <4> QED BY <3>1, <4>1 DEF Items
    <3> QED BY <1>1, <3>2, <3>3, <3>4
  <2> QED BY <2>1, <2>2
<1>7. Without(s, e) = w
  BY DEF Without, w, a, b, n
<1> QED BY <1>1, <1>4, <1>5, <1>6, <1>7

\* Another entry joins the table at its end.
LEMMA WithAnother ==
  ASSUME NEW s \in Seq(Entries), Once(s), NEW e \in Entries, e \notin Items(s)
  PROVE  /\ Append(s, e) \in Seq(Entries) /\ Once(Append(s, e))
         /\ Items(Append(s, e)) = Items(s) \cup {e}
         /\ Len(Append(s, e)) = Len(s) + 1
<1>1. /\ Append(s, e) \in Seq(Entries) /\ Len(Append(s, e)) = Len(s) + 1
      /\ Len(s) \in Nat /\ Append(s, e)[Len(s) + 1] = e
      /\ \A i \in 1..Len(s) : Append(s, e)[i] = s[i]
  OBVIOUS
<1> DEFINE t == Append(s, e)
<1> HIDE DEF t
<1>2. \A i \in 1..Len(t) : i = Len(s) + 1 \/ i \in 1..Len(s)
  BY <1>1 DEF t
<1>3. Once(t) /\ Items(t) = Items(s) \cup {e}
  <2>1. Once(t)
    BY <1>1, <1>2 DEF Once, Items, t
  <2>2. Items(t) \subseteq Items(s) \cup {e}
    BY <1>1, <1>2 DEF Items, t
  <2>3. Items(s) \subseteq Items(t) /\ e \in Items(t)
    BY <1>1 DEF Items, t
  <2> QED BY <2>1, <2>2, <2>3
<1> QED BY <1>1, <1>3 DEF t

----------------------------------------------------------------------------
(* The inductive invariant.                                                *)

Used == Entries \ Unused
Lease ==
  [pc : {"idle", "turn", "tool", "aborting", "replay", "rebasing", "installed"},
   entry : Entries \cup {None}, old : Entries \cup {None}, q : Request \cup {None},
   durable : BOOLEAN]

TypeOK ==
  /\ entry \in [Entries -> Conversation \cup {None}]
  /\ order \in Seq(Entries) /\ closed \in BOOLEAN
  /\ draining \in SUBSET Entries
  /\ closes \in [Entries -> Nat]
  /\ tasks \in SUBSET Job
  /\ client \in [Clients -> Lease]

\* What a lease and a cleanup task name exists, and is of the kind they are for.
LeaseOK(c) ==
  /\ client[c].pc = "idle" => client[c].entry = None /\ client[c].old = None
  /\ client[c].pc # "idle" => client[c].entry \in Used /\ client[c].q \in Request
  /\ client[c].old \in Used \cup {None}
  /\ client[c].pc = "rebasing" => client[c].old # None
  /\ client[c].pc \in {"rebasing", "installed"} =>
       entry[client[c].entry].kind = client[c].q.kind
  /\ client[c].pc \in {"turn", "aborting"} => entry[client[c].entry].kind = "text"
  /\ client[c].pc = "tool" => entry[client[c].entry].kind = "tool"
TaskOK(t) ==
  /\ t.entry \in Used
  /\ t.do = "cancel" => t.old \in Used /\ t.q \in Request
  /\ t.do # "cancel" => t = Task(t.do, t.entry)
  /\ t.do \in {"notify", "shutdown", "dispose"} => entry[t.entry].kind = "tool"
  /\ t.do = "notify" => entry[t.entry].phase = "CLOSED"
  /\ t.do = "invalidate" => entry[t.entry].kind = "text"
References ==
  /\ \A c \in Clients : LeaseOK(c)
  /\ \A t \in tasks : TaskOK(t)
  /\ draining \subseteq Used

PhaseOK(e) ==
  /\ entry[e].kind = "text" => entry[e].phase = "READY"
  /\ entry[e].phase = "GENERATING" => entry[e].in_flight # None
  /\ entry[e].phase = "WAITING_FOR_TOOLS" => entry[e].transcript # <<>>
Phases == \A e \in Used : PhaseOK(e)

\* An entry is in the table once, and so is an id.
Table ==
  /\ Len(order) <= MaxSessions /\ Once(order)
  /\ Mapped \subseteq Used
  /\ \A d, e \in Mapped : entry[d].key = entry[e].key => d = e
  /\ closed => order = <<>>
  /\ draining # {} => closed

----------------------------------------------------------------------------
(* Types.                                                                  *)

LEMMA UsedEntry ==
  ASSUME TypeOK, NEW e \in Entries
  PROVE  e \in Used <=> entry[e] \in Conversation
  BY NoneAssumption DEF TypeOK, Used, Unused

\* What a client may send is a request.
LEMMA RequestsAreRequests == Requests \subseteq Request
<1> SUFFICES ASSUME NEW q \in Requests PROVE q.history \in Seq(Turn)
  BY DEF Requests, Request
<1>1. PICK n \in 0..(MaxTurns - 1) : q.history \in [1..n -> [input : Inputs, calls : {None} \cup Issued]]
  BY DEF Requests, Histories
<1>2. [input : Inputs, calls : {None} \cup Issued] \subseteq Turn
  BY DEF Turn, Issued
<1>3. n \in Nat
  BY TurnsAssumption
<1>4. q.history \in [1..n -> Turn]
  BY <1>1, <1>2
<1> QED BY <1>3, <1>4

\* Keys that a request names.
LEMMA KeysAreIds ==
  ASSUME TypeOK, NEW key \in Sids \cup {entry[e].key : e \in Entries \ Unused} \cup {None},
         key # None
  PROVE  key \in Sids \cup Uuids
  BY UsedEntry DEF Used, Conversation

\* A request that names no entry selects among the entries in the table.
LEMMA SelectedIsMapped ==
  ASSUME NEW key, NEW q
  PROVE  Selected(key, q) \subseteq Mapped
  BY DEF Selected, Named, Implicit

\* One conversation changes.
LEMMA EntryChanges ==
  ASSUME TypeOK, NEW e \in Entries, NEW r \in Conversation,
         entry' = [entry EXCEPT ![e] = r]
  PROVE  /\ entry' \in [Entries -> Conversation \cup {None}]
         /\ entry'[e] = r /\ Used' = Used \cup {e}
         /\ \A x \in Entries \ {e} : entry'[x] = entry[x]
  BY NoneAssumption DEF TypeOK, Used, Unused

\* What a conversation becomes.
LEMMA Reserves ==
  ASSUME NEW r \in Conversation, NEW q \in Request \cup {None}
  PROVE  /\ [r EXCEPT !.in_flight = q] \in Conversation
         /\ [r EXCEPT !.in_flight = q].in_flight = q
         /\ [r EXCEPT !.in_flight = q].kind = r.kind /\ [r EXCEPT !.in_flight = q].key = r.key
         /\ [r EXCEPT !.in_flight = q].phase = r.phase
         /\ [r EXCEPT !.in_flight = q].replay = r.replay
         /\ [r EXCEPT !.in_flight = q].transcript = r.transcript
         /\ [r EXCEPT !.in_flight = q].config = r.config
         /\ [r EXCEPT !.in_flight = q].explicit = r.explicit
  BY DEF Conversation

LEMMA Admits ==
  ASSUME NEW r \in Conversation
  PROVE  /\ Admitted(r) \in Conversation
         /\ Admitted(r).in_flight = r.in_flight
         /\ Admitted(r).kind = r.kind /\ Admitted(r).key = r.key
         /\ Admitted(r).phase = IF r.kind = "tool" THEN "GENERATING" ELSE r.phase
         /\ Admitted(r).replay = r.replay
         /\ Admitted(r).transcript = r.transcript
<1>1. CASE r.kind = "tool"
  <2>1. Admitted(r) = [r EXCEPT !.phase = "GENERATING"]
    BY <1>1 DEF Admitted
  <2> QED BY <1>1, <2>1 DEF Conversation
<1>2. CASE r.kind # "tool"
  BY <1>2 DEF Admitted
<1> QED BY <1>1, <1>2

LEMMA Closes ==
  ASSUME NEW r \in Conversation
  PROVE  LET s == [r EXCEPT !.phase = "CLOSED", !.in_flight = None]
         IN /\ s \in Conversation /\ s.in_flight = None /\ s.phase = "CLOSED"
            /\ s.kind = r.kind /\ s.key = r.key /\ s.replay = r.replay /\ s.transcript = r.transcript
  BY DEF Conversation

LEMMA Begins ==
  ASSUME NEW k \in Sids \cup Uuids, NEW x \in BOOLEAN, NEW q \in Request, NEW s \in Seq(Turn)
  PROVE  LET r == NewEntry(k, x, q, s)
         IN /\ r \in Conversation /\ r.key = k /\ r.kind = q.kind /\ r.in_flight = q
            /\ r.phase = "READY" /\ r.replay = None /\ r.transcript = s
  BY DEF NewEntry, Conversation, Request

----------------------------------------------------------------------------
(* What the actions do to the entries and to the table.                    *)

\* Entry e goes on with another reservation, phase, record and transcript.
Alters(e, v, f, p, s) ==
  /\ entry' \in [Entries -> Conversation \cup {None}] /\ Used' = Used
  /\ entry'[e] \in Conversation
  /\ entry'[e].kind = entry[e].kind /\ entry'[e].key = entry[e].key
  /\ entry'[e].in_flight = v /\ entry'[e].phase = f /\ entry'[e].replay = p
  /\ entry'[e].transcript = s
  /\ \A x \in Entries : x # e => entry'[x] = entry[x]

\* Entry e begins as a conversation that request q has reserved.
Creates(e, k, q, f, s) ==
  /\ entry' \in [Entries -> Conversation \cup {None}] /\ Used' = Used \cup {e}
  /\ entry'[e] \in Conversation
  /\ entry'[e].kind = q.kind /\ entry'[e].key = k
  /\ entry'[e].in_flight = q /\ entry'[e].phase = f /\ entry'[e].replay = None
  /\ entry'[e].transcript = s

LEMMA Altered ==
  ASSUME TypeOK, NEW e \in Used, NEW r \in Conversation,
         r.kind = entry[e].kind, r.key = entry[e].key, entry' = [entry EXCEPT ![e] = r]
  PROVE  Alters(e, r.in_flight, r.phase, r.replay, r.transcript)
<1>1. e \in Entries
  BY DEF Used
<1>2. /\ entry' \in [Entries -> Conversation \cup {None}]
      /\ entry'[e] = r /\ Used' = Used \cup {e}
      /\ \A x \in Entries \ {e} : entry'[x] = entry[x]
  BY <1>1, EntryChanges
<1>3. Used' = Used
  BY <1>2
<1> QED BY <1>2, <1>3 DEF Alters

LEMMA AltersReservation ==
  ASSUME TypeOK, NEW e \in Used, NEW v \in Request \cup {None},
         entry' = [entry EXCEPT ![e].in_flight = v]
  PROVE  Alters(e, v, entry[e].phase, entry[e].replay, entry[e].transcript)
<1> DEFINE r == [entry[e] EXCEPT !.in_flight = v]
<1>1. e \in Entries /\ entry[e] \in Conversation /\ entry' = [entry EXCEPT ![e] = r]
  BY UsedEntry DEF Used
<1>2. /\ r \in Conversation /\ r.in_flight = v /\ r.kind = entry[e].kind
      /\ r.key = entry[e].key /\ r.phase = entry[e].phase /\ r.replay = entry[e].replay
      /\ r.transcript = entry[e].transcript
  BY <1>1, Reserves
<1> HIDE DEF r
<1> QED BY <1>1, <1>2, Altered

LEMMA AltersByRelease ==
  ASSUME TypeOK, NEW e \in Used, NEW q \in Request, entry' = Release(e, q)
  PROVE  Alters(e, IF entry[e].in_flight = q THEN None ELSE entry[e].in_flight,
                entry[e].phase, entry[e].replay, entry[e].transcript)
<1> DEFINE v == IF entry[e].in_flight = q THEN None ELSE entry[e].in_flight
<1>1. v \in Request \cup {None} /\ entry' = [entry EXCEPT ![e].in_flight = v]
  BY UsedEntry DEF Release, Used, Conversation
<1> HIDE DEF v
<1>2. Alters(e, v, entry[e].phase, entry[e].replay, entry[e].transcript)
  BY <1>1, AltersReservation
<1> QED BY <1>2 DEF v

LEMMA AltersByAdmission ==
  ASSUME TypeOK, NEW e \in Used, NEW q \in Request \cup {None},
         entry' = [entry EXCEPT ![e] = Admitted([@ EXCEPT !.in_flight = q])]
  PROVE  Alters(e, q, IF IsTool(e) THEN "GENERATING" ELSE entry[e].phase,
                entry[e].replay, entry[e].transcript)
<1> DEFINE r == [entry[e] EXCEPT !.in_flight = q]
<1>1. e \in Entries /\ entry[e] \in Conversation /\ entry' = [entry EXCEPT ![e] = Admitted(r)]
  BY UsedEntry DEF Used
<1>2. /\ r \in Conversation /\ r.in_flight = q /\ r.kind = entry[e].kind
      /\ r.key = entry[e].key /\ r.phase = entry[e].phase /\ r.replay = entry[e].replay
      /\ r.transcript = entry[e].transcript
  BY <1>1, Reserves
<1> HIDE DEF r
<1> DEFINE a == Admitted(r)
<1>3. /\ a \in Conversation /\ a.in_flight = q /\ a.kind = entry[e].kind
      /\ a.key = entry[e].key
      /\ a.phase = IF IsTool(e) THEN "GENERATING" ELSE entry[e].phase
      /\ a.replay = entry[e].replay /\ a.transcript = entry[e].transcript
  BY <1>2, Admits DEF IsTool
<1> HIDE DEF a
<1>4. entry' = [entry EXCEPT ![e] = a]
  BY <1>1 DEF a
<1> QED BY <1>3, <1>4, Altered

LEMMA AltersByStart ==
  ASSUME TypeOK, NEW e \in Used, entry' = [entry EXCEPT ![e] = Admitted(@)]
  PROVE  Alters(e, entry[e].in_flight, IF IsTool(e) THEN "GENERATING" ELSE entry[e].phase,
                entry[e].replay, entry[e].transcript)
<1>1. e \in Entries /\ entry[e] \in Conversation /\ entry' = [entry EXCEPT ![e] = Admitted(entry[e])]
  BY UsedEntry DEF Used
<1> DEFINE a == Admitted(entry[e])
<1>3. /\ a \in Conversation /\ a.in_flight = entry[e].in_flight /\ a.kind = entry[e].kind
      /\ a.key = entry[e].key
      /\ a.phase = IF IsTool(e) THEN "GENERATING" ELSE entry[e].phase
      /\ a.replay = entry[e].replay /\ a.transcript = entry[e].transcript
  BY <1>1, Admits DEF IsTool
<1> HIDE DEF a
<1>4. entry' = [entry EXCEPT ![e] = a]
  BY <1>1 DEF a
<1> QED BY <1>3, <1>4, Altered

LEMMA AltersByClose ==
  ASSUME TypeOK, NEW e \in Used, entry' = CloseActor(e)
  PROVE  Alters(e, None, "CLOSED", entry[e].replay, entry[e].transcript)
<1> DEFINE r == [entry[e] EXCEPT !.phase = "CLOSED", !.in_flight = None]
<1>1. e \in Entries /\ entry[e] \in Conversation /\ entry' = [entry EXCEPT ![e] = r]
  BY UsedEntry DEF Used, CloseActor, TypeOK
<1>2. /\ r \in Conversation /\ r.in_flight = None /\ r.phase = "CLOSED" /\ r.kind = entry[e].kind
      /\ r.key = entry[e].key /\ r.replay = entry[e].replay /\ r.transcript = entry[e].transcript
  BY <1>1, Closes
<1> HIDE DEF r
<1> QED BY <1>1, <1>2, Altered

LEMMA AltersByCommit ==
  ASSUME TypeOK, NEW e \in Used, NEW q \in Request, NEW m \in Turn,
         entry' = [entry EXCEPT ![e].transcript = Append(@, m), ![e].replay = q,
                                ![e].in_flight = None]
  PROVE  Alters(e, None, entry[e].phase, q, Append(entry[e].transcript, m))
<1> DEFINE r == [entry[e] EXCEPT !.transcript = Append(@, m), !.replay = q, !.in_flight = None]
<1>1. e \in Entries /\ entry[e] \in Conversation /\ entry' = [entry EXCEPT ![e] = r]
  BY UsedEntry DEF Used, TypeOK
<1>2. /\ r \in Conversation /\ r.in_flight = None /\ r.phase = entry[e].phase
      /\ r.kind = entry[e].kind /\ r.key = entry[e].key /\ r.replay = q
      /\ r.transcript = Append(entry[e].transcript, m)
  <2>1. Append(entry[e].transcript, m) \in Seq(Turn)
    BY <1>1 DEF Conversation
  <2> QED BY <1>1, <2>1 DEF Conversation
<1> HIDE DEF r
<1> QED BY <1>1, <1>2, Altered

LEMMA AltersByParking ==
  ASSUME TypeOK, NEW e \in Used, NEW q \in Request \cup {None}, NEW m \in Turn,
         NEW f \in {"READY", "WAITING_FOR_TOOLS"},
         entry' = [entry EXCEPT ![e].transcript = Append(@, m), ![e].replay = q,
                                ![e].in_flight = None, ![e].phase = f]
  PROVE  /\ Alters(e, None, f, q, Append(entry[e].transcript, m))
         /\ Append(entry[e].transcript, m) # <<>>
<1> DEFINE r == [entry[e] EXCEPT !.transcript = Append(@, m), !.replay = q, !.in_flight = None,
                                 !.phase = f]
<1>1. e \in Entries /\ entry[e] \in Conversation /\ entry' = [entry EXCEPT ![e] = r]
  BY UsedEntry DEF Used, TypeOK
<1>2. /\ r \in Conversation /\ r.in_flight = None /\ r.phase = f
      /\ r.kind = entry[e].kind /\ r.key = entry[e].key /\ r.replay = q
      /\ r.transcript = Append(entry[e].transcript, m) /\ r.transcript # <<>>
  <2>1. /\ Append(entry[e].transcript, m) \in Seq(Turn)
        /\ Append(entry[e].transcript, m) # <<>>
    BY <1>1 DEF Conversation
  <2> QED BY <1>1, <2>1 DEF Conversation
<1> HIDE DEF r
<1> QED BY ZenonT(60), <1>1, <1>2, Altered

LEMMA CreatesFresh ==
  ASSUME TypeOK, NEW e \in Unused, NEW k \in Sids \cup Uuids, NEW x \in BOOLEAN,
         NEW q \in Request,
         entry' = [entry EXCEPT ![e] = Admitted(NewEntry(k, x, q, q.history))]
  PROVE  /\ Creates(e, k, q, IF q.kind = "tool" THEN "GENERATING" ELSE "READY", q.history)
         /\ \A d \in Entries : d # e => entry'[d] = entry[d]
<1> DEFINE r == NewEntry(k, x, q, q.history)
<1>1. /\ r \in Conversation /\ r.key = k /\ r.kind = q.kind /\ r.in_flight = q
      /\ r.phase = "READY" /\ r.replay = None /\ r.transcript = q.history
  BY Begins DEF Request
<1> HIDE DEF r
<1>2. e \in Entries /\ entry' = [entry EXCEPT ![e] = Admitted(r)]
  BY DEF Unused, r
<1> DEFINE a == Admitted(r)
<1>3. /\ a \in Conversation /\ a.in_flight = q /\ a.kind = q.kind /\ a.key = k
      /\ a.phase = IF q.kind = "tool" THEN "GENERATING" ELSE "READY"
      /\ a.replay = None /\ a.transcript = q.history
  BY <1>1, Admits
<1> HIDE DEF a
<1>4. entry' = [entry EXCEPT ![e] = a]
  BY <1>2 DEF a
<1>5. /\ entry' \in [Entries -> Conversation \cup {None}]
      /\ entry'[e] = a /\ Used' = Used \cup {e}
      /\ \A d \in Entries \ {e} : entry'[d] = entry[d]
  BY <1>2, <1>3, <1>4, EntryChanges
<1> QED BY <1>3, <1>5 DEF Creates

\* A candidate takes over the id of the entry it reserves.
LEMMA RebaseCreates ==
  ASSUME TypeOK, NEW c \in Clients, NEW e \in Used, NEW q \in Request, NEW s \in Seq(Turn),
         Rebase(c, q, e, s)
  PROVE  \E n \in Unused :
           /\ Creates(n, entry[e].key, q, "READY", s) /\ n # e
           /\ entry'[e] \in Conversation
           /\ entry'[e].kind = entry[e].kind /\ entry'[e].key = entry[e].key
           /\ entry'[e].in_flight = q /\ entry'[e].phase = entry[e].phase
           /\ entry'[e].replay = entry[e].replay /\ entry'[e].transcript = entry[e].transcript
           /\ \A d \in Entries : d \notin {e, n} => entry'[d] = entry[d]
           /\ order' = Touch(order, e)
           /\ client' = [client EXCEPT ![c] = [pc |-> "rebasing", entry |-> n, old |-> e,
                                               q |-> q, durable |-> FALSE]]
           /\ UNCHANGED <<closed, draining, closes, tasks>>
<1>1. PICK n \in Unused :
        /\ entry' = [entry EXCEPT ![e].in_flight = q,
                                  ![n] = NewEntry(entry[e].key, entry[e].explicit, q, s)]
        /\ order' = Touch(order, e)
        /\ client' = [client EXCEPT ![c] = [pc |-> "rebasing", entry |-> n, old |-> e,
                                            q |-> q, durable |-> FALSE]]
        /\ UNCHANGED <<closed, draining, closes, tasks>>
  BY DEF Rebase
<1> DEFINE r == NewEntry(entry[e].key, entry[e].explicit, q, s)
           o == [entry[e] EXCEPT !.in_flight = q]
<1>2. entry[e] \in Conversation /\ e \in Entries /\ n \in Entries /\ n # e
  BY UsedEntry DEF Used, Unused
<1>3. /\ r \in Conversation /\ r.key = entry[e].key /\ r.kind = q.kind /\ r.in_flight = q
      /\ r.phase = "READY" /\ r.replay = None /\ r.transcript = s
  BY <1>2, Begins DEF Conversation
<1>4. /\ o \in Conversation /\ o.in_flight = q /\ o.kind = entry[e].kind
      /\ o.key = entry[e].key /\ o.phase = entry[e].phase /\ o.replay = entry[e].replay
      /\ o.transcript = entry[e].transcript
  BY <1>2, Reserves
<1>5. entry' = [entry EXCEPT ![e] = o, ![n] = r]
  BY <1>1, <1>2 DEF TypeOK
<1> HIDE DEF r, o
<1>6. /\ entry' \in [Entries -> Conversation \cup {None}]
      /\ entry'[n] = r /\ entry'[e] = o
      /\ \A d \in Entries : d \notin {e, n} => entry'[d] = entry[d]
  BY <1>2, <1>3, <1>4, <1>5 DEF TypeOK
<1>7. Used' = Used \cup {n}
  BY <1>2, <1>3, <1>4, <1>6, NoneAssumption DEF Used, Unused
<1>8. Creates(n, entry[e].key, q, "READY", s)
  BY <1>3, <1>6, <1>7 DEF Creates
<1> QED BY ZenonT(60), <1>1, <1>2, <1>4, <1>6, <1>8

\* What order becomes.
OrderIs(M) ==
  order' \in Seq(Entries) /\ Once(order') /\ Mapped' = M /\ Len(order') <= MaxSessions

LEMMA OrderTouched ==
  ASSUME TypeOK, Table, NEW e \in Mapped, order' = Touch(order, e)
  PROVE  OrderIs(Mapped)
<1>1. order \in Seq(Entries) /\ Once(order) /\ e \in Items(order) /\ e \in Entries
  BY DEF TypeOK, Table, Mapped, Items, Used
<1> DEFINE w == Without(order, e)
<1>2. /\ w \in Seq(Entries) /\ Once(w) /\ Items(w) = Items(order) \ {e}
      /\ Len(w) = Len(order) - 1 /\ Len(order) \in Nat
  BY <1>1, WithoutOne
<1> HIDE DEF w
<1>3. order' = Append(w, e)
  BY DEF Touch, w
<1>4. /\ order' \in Seq(Entries) /\ Once(order') /\ Items(order') = Items(w) \cup {e}
      /\ Len(order') = Len(w) + 1
  BY <1>1, <1>2, <1>3, WithAnother
<1>5. Items(order') = Items(order)
  BY <1>1, <1>2, <1>4
<1>6. Len(order') <= MaxSessions
  BY <1>2, <1>4 DEF Table
<1> QED BY <1>4, <1>5, <1>6 DEF OrderIs, Mapped, Items

LEMMA OrderReplaced ==
  ASSUME TypeOK, Table, NEW e \in Mapped, NEW n \in Entries \ Mapped,
         order' = Append(Without(order, e), n)
  PROVE  OrderIs((Mapped \ {e}) \cup {n})
<1>1. /\ order \in Seq(Entries) /\ Once(order) /\ e \in Items(order) /\ n \notin Items(order)
      /\ n \in Entries
  BY DEF TypeOK, Table, Mapped, Items
<1> DEFINE w == Without(order, e)
<1>2. /\ w \in Seq(Entries) /\ Once(w) /\ Items(w) = Items(order) \ {e}
      /\ Len(w) = Len(order) - 1 /\ Len(order) \in Nat
  BY <1>1, WithoutOne
<1> HIDE DEF w
<1>3. order' = Append(w, n)
  BY DEF w
<1>4. /\ order' \in Seq(Entries) /\ Once(order') /\ Items(order') = Items(w) \cup {n}
      /\ Len(order') = Len(w) + 1
  BY <1>1, <1>2, <1>3, WithAnother
<1>5. Len(order') <= MaxSessions
  BY <1>2, <1>4 DEF Table
<1> QED BY <1>2, <1>4, <1>5 DEF OrderIs, Mapped, Items

LEMMA OrderDrops ==
  ASSUME TypeOK, Table, NEW e \in Mapped, order' = Without(order, e)
  PROVE  OrderIs(Mapped \ {e})
<1>1. order \in Seq(Entries) /\ Once(order) /\ e \in Items(order)
  BY DEF TypeOK, Table, Mapped, Items
<1>2. /\ order' \in Seq(Entries) /\ Once(order') /\ Items(order') = Items(order) \ {e}
      /\ Len(order') = Len(order) - 1 /\ Len(order) \in Nat
  BY <1>1, WithoutOne
<1>3. Len(order') <= MaxSessions
  BY <1>2, CapacityAssumption DEF Table
<1> QED BY <1>2, <1>3 DEF OrderIs, Mapped, Items

\* When the table is full and something in it may go, the victim is such a one.
LEMMA VictimIsIdle ==
  ASSUME TypeOK, Table, HasRoom, ~(Len(order) < MaxSessions)
  PROVE  Victim \in Mapped /\ Evictable(Victim)
<1> DEFINE T == {i \in 1..Len(order) : Evictable(order[i])}
<1>1. T \subseteq Nat /\ T # {}
  BY DEF HasRoom, Mapped
<1>2. PICK i \in T : \A j \in T : ~(<<j, i>> \in OpToRel(<, Nat))
  BY <1>1, NatLessThanWellFounded, WFMin
<1>3. \A j \in 1..(i-1) : ~Evictable(order[j])
  <2> SUFFICES ASSUME NEW j \in 1..(i-1), Evictable(order[j]) PROVE FALSE
    OBVIOUS
  <2>1. j \in T /\ j < i /\ i \in Nat /\ j \in Nat /\ Len(order) \in Nat
    BY LenProperties DEF TypeOK
  <2>2. <<j, i>> \in OpToRel(<, Nat)
    BY <2>1 DEF OpToRel
  <2> QED BY <1>2, <2>1, <2>2
<1> DEFINE P(k) == Evictable(order[k]) /\ \A j \in 1..(k-1) : ~Evictable(order[j])
           n == CHOOSE k \in 1..Len(order) : P(k)
<1>4. n \in 1..Len(order) /\ P(n)
  BY <1>2, <1>3
<1>5. Victim = order[n]
  BY DEF Victim
<1> QED BY <1>4, <1>5 DEF Mapped

LEMMA OrderGrows ==
  ASSUME TypeOK, Table, HasRoom, NEW n \in Entries \ Mapped, order' = Append(Roomy, n)
  PROVE  /\ OrderIs((Mapped \ Evicted) \cup {n})
         /\ Evicted \subseteq Mapped /\ \A e \in Evicted : Evictable(e)
<1>1. /\ order \in Seq(Entries) /\ Once(order) /\ n \notin Items(order) /\ n \in Entries
      /\ Len(order) \in Nat
  BY LenProperties DEF TypeOK, Table, Mapped, Items
<1>2. CASE Len(order) < MaxSessions
  <2>1. Evicted = {} /\ order' = Append(order, n)
    BY <1>2 DEF Evicted, Roomy
  <2>2. /\ order' \in Seq(Entries) /\ Once(order') /\ Items(order') = Items(order) \cup {n}
        /\ Len(order') = Len(order) + 1
    BY <1>1, <2>1, WithAnother
  <2>3. Len(order') <= MaxSessions
    BY <1>1, <1>2, <2>2, CapacityAssumption
  <2> QED BY <2>1, <2>2, <2>3 DEF OrderIs, Mapped, Items
<1>3. CASE ~(Len(order) < MaxSessions)
  <2>1. Evicted = {Victim} /\ order' = Append(Without(order, Victim), n)
    BY <1>3 DEF Evicted, Roomy
  <2>2. Victim \in Mapped /\ Evictable(Victim)
    BY <1>3, VictimIsIdle
  <2>3. OrderIs((Mapped \ {Victim}) \cup {n})
    BY <2>1, <2>2, OrderReplaced
  <2> QED BY <2>1, <2>2, <2>3
<1> QED BY <1>2, <1>3

LEMMA TaskIsJob ==
  ASSUME NEW do \in {"shutdown", "notify", "invalidate", "discard", "dispose", "cancel"},
         NEW e \in Entries
  PROVE  /\ Task(do, e) \in Job /\ Task(do, e).do = do /\ Task(do, e).entry = e
         /\ Task(do, e).old = None
  BY DEF Task, Job

LEMMA ShutdownsAreJobs ==
  ASSUME NEW E \in SUBSET Entries
  PROVE  /\ Shutdowns(E) \subseteq Job
         /\ \A t \in Shutdowns(E) : /\ t = Task("shutdown", t.entry) /\ t.do = "shutdown"
                                    /\ t.old = None /\ t.entry \in E /\ IsTool(t.entry)
<1> SUFFICES ASSUME NEW t \in Shutdowns(E)
             PROVE  /\ t \in Job /\ t = Task("shutdown", t.entry) /\ t.do = "shutdown"
                    /\ t.old = None /\ t.entry \in E /\ IsTool(t.entry)
  OBVIOUS
<1>1. PICK e \in E : t = Task("shutdown", e) /\ IsTool(e)
  BY DEF Shutdowns
<1>2. /\ Task("shutdown", e) \in Job /\ Task("shutdown", e).do = "shutdown"
      /\ Task("shutdown", e).entry = e /\ Task("shutdown", e).old = None
  BY TaskIsJob
<1> QED BY <1>1, <1>2

LEMMA ScheduledCloses ==
  ASSUME TypeOK, NEW E \in SUBSET Entries, Scheduled(E)
  PROVE  /\ closes' \in [Entries -> Nat]
         /\ \A e \in Entries : closes'[e] = IF e \in E THEN closes[e] + 1 ELSE closes[e]
  BY DEF TypeOK, Scheduled

\* What a lease becomes.
Leases(c, r) ==
  /\ client' \in [Clients -> Lease] /\ client'[c] = r
  /\ \A d \in Clients : d # c => client'[d] = client[d]

LEMMA LeaseChanges ==
  ASSUME TypeOK, NEW c \in Clients, NEW r \in Lease, client' = [client EXCEPT ![c] = r]
  PROVE  Leases(c, r)
  BY DEF TypeOK, Leases

LEMMA LeaseEnds ==
  ASSUME TypeOK, NEW c \in Clients, Ended(c)
  PROVE  Leases(c, Idle)
<1>1. Idle \in Lease
  BY DEF Idle, Lease
<1> QED BY <1>1, LeaseChanges DEF Ended

\* The lease of a turn.
Turning(c, e, q) ==
  \E b \in BOOLEAN :
    Leases(c, [pc |-> IF q.kind = "text" THEN "turn" ELSE "tool", entry |-> e, old |-> None,
               q |-> q, durable |-> b])

LEMMA LeaseTurns ==
  ASSUME TypeOK, NEW c \in Clients, NEW e \in Entries, NEW q \in Request,
         client' = [client EXCEPT ![c] = Leased(e, q)]
  PROVE  Turning(c, e, q)
<1> DEFINE b == entry[e] # None /\ entry[e].phase = "WAITING_FOR_TOOLS"
           p == IF q.kind = "text" THEN "turn" ELSE "tool"
           r == [pc |-> p, entry |-> e, old |-> None, q |-> q, durable |-> b]
<1>1. b \in BOOLEAN /\ p \in {"turn", "tool"}
  OBVIOUS
<1>2. client' = [client EXCEPT ![c] = r]
  BY DEF Leased
<1>3. r \in Lease
  <2> HIDE DEF b, p
  <2> QED BY <1>1 DEF Lease
<1>4. Leases(c, r)
  <2> HIDE DEF r
  <2> QED BY <1>2, <1>3, LeaseChanges
<1> QED BY <1>1, <1>4 DEF Turning

\* The types are kept.
LEMMA TypeKept ==
  ASSUME TypeOK, UNCHANGED vars
  PROVE  TypeOK'
  BY DEF TypeOK, vars

----------------------------------------------------------------------------
(* What each action does.                                                  *)

\* An admission of request q that names key.
Asked(q, key) ==
  /\ q \in Request
  /\ key \in Sids \cup {entry[e].key : e \in Entries \ Unused} \cup {None}

LEMMA OpenFreshEffect ==
  ASSUME TypeOK, References, Table, NEW c \in Clients, NEW key, NEW q, Asked(q, key),
         OpenFresh(c, key, q)
  PROVE  /\ TypeOK' /\ ~closed
         /\ \E e \in Unused, k \in Sids \cup Uuids :
              /\ Creates(e, k, q, IF q.kind = "tool" THEN "GENERATING" ELSE "READY", q.history)
              /\ \A x \in Entries : x # e => entry'[x] = entry[x]
              /\ OrderIs((Mapped \ Evicted) \cup {e})
              /\ \A x \in Mapped : entry[x].key # k
              /\ Turning(c, e, q)
         /\ Evicted \subseteq Mapped /\ (\A e \in Evicted : Evictable(e))
         /\ client[c].pc = "idle" /\ Scheduled(Evicted)
         /\ tasks' = tasks \cup Shutdowns(Evicted) /\ UNCHANGED <<closed, draining>>
<1>1. PICK e \in Unused, k \in IF key # None THEN {key} ELSE Uuids :
        /\ key = None => \A x \in Entries \ Unused : entry[x].key # k
        /\ entry' = [entry EXCEPT ![e] = Admitted(NewEntry(k, key # None, q, q.history))]
        /\ order' = Append(Roomy, e)
        /\ client' = [client EXCEPT ![c] = Leased(e, q)]
  BY DEF OpenFresh
<1>2. k \in Sids \cup Uuids
  BY <1>1, KeysAreIds DEF Asked
<1>3. e \in Entries \ Mapped
  BY DEF Table, Used, Unused
<1>4. /\ Creates(e, k, q, IF q.kind = "tool" THEN "GENERATING" ELSE "READY", q.history)
      /\ \A x \in Entries : x # e => entry'[x] = entry[x]
  BY <1>1, <1>2, CreatesFresh DEF Asked
<1>5. /\ OrderIs((Mapped \ Evicted) \cup {e})
      /\ Evicted \subseteq Mapped /\ (\A x \in Evicted : Evictable(x))
  BY <1>1, <1>3, OrderGrows DEF OpenFresh
<1>6. Turning(c, e, q)
  BY <1>1, <1>3, LeaseTurns DEF Asked
<1>7. \A x \in Mapped : entry[x].key # k
  <2>1. CASE key # None
    BY <1>1, <2>1 DEF OpenFresh, Selected, Named
  <2>2. CASE key = None
    BY <1>1, <2>2 DEF Table, Used
  <2> QED BY <2>1, <2>2
<1>8. closes' \in [Entries -> Nat] /\ tasks' \in SUBSET Job
  <2>1. Evicted \in SUBSET Entries
    BY <1>5 DEF Table, Used
  <2> QED BY <2>1, ScheduledCloses, ShutdownsAreJobs DEF OpenFresh, TypeOK
<1>9. TypeOK'
  BY <1>4, <1>5, <1>6, <1>8 DEF TypeOK, OpenFresh, Creates, OrderIs, Turning, Leases
<1> QED BY <1>2, <1>4, <1>5, <1>6, <1>7, <1>9 DEF OpenFresh

LEMMA OpenReplayEffect ==
  ASSUME TypeOK, References, Table, NEW c \in Clients, NEW key, NEW q, Asked(q, key),
         NEW e \in Mapped, OpenReplay(c, key, q, e)
  PROVE  /\ TypeOK' /\ OrderIs(Mapped) /\ e \in Used /\ ~closed
         /\ Alters(e, q, entry[e].phase, entry[e].replay, entry[e].transcript)
         /\ Leases(c, [Idle EXCEPT !.pc = "replay", !.entry = e, !.q = q])
         /\ client[c].pc = "idle" /\ Free(e)
         /\ UNCHANGED <<closed, draining, closes, tasks>>
<1>1. e \in Used /\ e \in Entries
  BY DEF Table, Used
<1>2. OrderIs(Mapped)
  BY OrderTouched DEF OpenReplay
<1>3. Alters(e, q, entry[e].phase, entry[e].replay, entry[e].transcript)
  BY <1>1, AltersReservation DEF OpenReplay, Asked
<1>4. [Idle EXCEPT !.pc = "replay", !.entry = e, !.q = q] \in Lease
  BY <1>1 DEF Idle, Lease, Asked
<1>5. Leases(c, [Idle EXCEPT !.pc = "replay", !.entry = e, !.q = q])
  BY <1>4, LeaseChanges DEF OpenReplay
<1>6. TypeOK'
  BY <1>2, <1>3, <1>5 DEF TypeOK, OpenReplay, Alters, OrderIs, Leases
<1> QED BY <1>1, <1>2, <1>3, <1>5, <1>6 DEF OpenReplay, Asks

LEMMA OpenContinueEffect ==
  ASSUME TypeOK, References, Table, NEW c \in Clients, NEW key, NEW q, Asked(q, key),
         NEW e \in Mapped, OpenContinue(c, key, q, e)
  PROVE  /\ TypeOK' /\ OrderIs(Mapped) /\ e \in Used /\ ~closed
         /\ Alters(e, q, IF IsTool(e) THEN "GENERATING" ELSE entry[e].phase,
                   entry[e].replay, entry[e].transcript)
         /\ Turning(c, e, q) /\ entry[e].kind = q.kind
         /\ client[c].pc = "idle" /\ Free(e) /\ ~OldClosed(e)
         /\ UNCHANGED <<closed, draining, closes, tasks>>
<1>1. e \in Used /\ e \in Entries
  BY DEF Table, Used
<1>2. OrderIs(Mapped)
  BY OrderTouched DEF OpenContinue
<1>3. Alters(e, q, IF IsTool(e) THEN "GENERATING" ELSE entry[e].phase,
             entry[e].replay, entry[e].transcript)
  BY <1>1, AltersByAdmission DEF OpenContinue, Asked
<1>4. Turning(c, e, q)
  BY <1>1, LeaseTurns DEF OpenContinue, Asked
<1>5. TypeOK'
  BY <1>2, <1>3, <1>4 DEF TypeOK, OpenContinue, Alters, OrderIs, Turning, Leases
<1> QED BY <1>1, <1>2, <1>3, <1>4, <1>5 DEF OpenContinue, Asks

LEMMA OpenExpiredEffect ==
  ASSUME TypeOK, References, Table, NEW c \in Clients, NEW key, NEW q, Asked(q, key),
         NEW e \in Mapped, OpenExpired(c, key, q, e)
  PROVE  /\ TypeOK' /\ OrderIs(Mapped) /\ e \in Used /\ ~closed
         /\ Alters(e, None, "CLOSED", entry[e].replay, entry[e].transcript)
         /\ entry[e].phase = "WAITING_FOR_TOOLS"
         /\ tasks' = tasks \cup {Task("notify", e)}
         /\ UNCHANGED <<closed, draining, closes, client>>
<1>1. e \in Used /\ e \in Entries
  BY DEF Table, Used
<1>2. OrderIs(Mapped)
  BY OrderTouched DEF OpenExpired
<1>3. Alters(e, None, "CLOSED", entry[e].replay, entry[e].transcript)
  BY <1>1, AltersByClose DEF OpenExpired
<1>4. Task("notify", e) \in Job
  BY <1>1, TaskIsJob
<1>5. TypeOK'
  BY <1>2, <1>3, <1>4 DEF TypeOK, OpenExpired, Alters, OrderIs
<1> QED BY <1>1, <1>2, <1>3, <1>5 DEF OpenExpired, Asks

\* A rebase reserves an entry that is idle, or waits for the calls in which the
\* imported history ends.
Rebases(c, e, n, q, s) ==
  /\ Creates(n, entry[e].key, q, "READY", s) /\ n \in Unused /\ n # e
  /\ entry'[e] \in Conversation
  /\ entry'[e].kind = entry[e].kind /\ entry'[e].key = entry[e].key
  /\ entry'[e].in_flight = q /\ entry'[e].phase = entry[e].phase
  /\ entry'[e].replay = entry[e].replay /\ entry'[e].transcript = entry[e].transcript
  /\ \A d \in Entries : d \notin {e, n} => entry'[d] = entry[d]
  /\ Leases(c, [pc |-> "rebasing", entry |-> n, old |-> e, q |-> q, durable |-> FALSE])

LEMMA OpenRebaseEffect ==
  ASSUME TypeOK, References, Phases, Table, NEW c \in Clients, NEW key, NEW q, Asked(q, key),
         NEW e \in Mapped, OpenSettings(c, key, q, e) \/ OpenRewrite(c, key, q, e)
  PROVE  /\ TypeOK' /\ OrderIs(Mapped) /\ e \in Used /\ ~closed
         /\ \E n \in Unused, s \in Seq(Turn) :
              /\ Rebases(c, e, n, q, s)
              /\ entry[e].phase = "WAITING_FOR_TOOLS" =>
                   CallsAtEnd(s) = CallsAtEnd(entry[e].transcript)
         /\ entry[e].kind = q.kind /\ client[c].pc = "idle" /\ Free(e)
         /\ UNCHANGED <<closed, draining, closes, tasks>>
<1>1. e \in Used /\ e \in Entries /\ q \in Request /\ entry[e] \in Conversation
  BY UsedEntry DEF Table, Used, Asked
<1>2. PICK s \in Seq(Turn) :
        /\ Rebase(c, q, e, s)
        /\ entry[e].phase = "WAITING_FOR_TOOLS" => CallsAtEnd(s) = CallsAtEnd(entry[e].transcript)
  <2>1. CASE OpenSettings(c, key, q, e)
    BY <1>1, <2>1 DEF OpenSettings, Conversation
  <2>2. CASE OpenRewrite(c, key, q, e)
    <3>1. q.history \in Seq(Turn) /\ Rebase(c, q, e, q.history)
      BY <1>1, <2>2 DEF OpenRewrite, Request
    <3>2. ASSUME entry[e].phase = "WAITING_FOR_TOOLS"
          PROVE  CallsAtEnd(q.history) = CallsAtEnd(entry[e].transcript)
      <4>1. IsTool(e) /\ entry[e].transcript # <<>>
        BY <1>1, <3>2, KindsAssumption DEF IsTool, Conversation, Phases, PhaseOK
      <4>2. Awaits(e, q)
        BY <2>2, <3>2, <4>1 DEF OpenRewrite, Evictable
      <4> QED BY <4>1, <4>2 DEF Awaits, CallsAtEnd
    <3> QED BY <3>1, <3>2
  <2> QED BY <2>1, <2>2
<1>3. PICK n \in Unused :
        /\ Creates(n, entry[e].key, q, "READY", s) /\ n # e
        /\ entry'[e] \in Conversation
        /\ entry'[e].kind = entry[e].kind /\ entry'[e].key = entry[e].key
        /\ entry'[e].in_flight = q /\ entry'[e].phase = entry[e].phase
        /\ entry'[e].replay = entry[e].replay /\ entry'[e].transcript = entry[e].transcript
        /\ \A d \in Entries : d \notin {e, n} => entry'[d] = entry[d]
        /\ order' = Touch(order, e)
        /\ client' = [client EXCEPT ![c] = [pc |-> "rebasing", entry |-> n, old |-> e,
                                            q |-> q, durable |-> FALSE]]
        /\ UNCHANGED <<closed, draining, closes, tasks>>
  BY <1>1, <1>2, RebaseCreates
<1>4. OrderIs(Mapped)
  BY <1>3, OrderTouched
<1>5. Leases(c, [pc |-> "rebasing", entry |-> n, old |-> e, q |-> q, durable |-> FALSE])
  <2>1. [pc |-> "rebasing", entry |-> n, old |-> e, q |-> q, durable |-> FALSE] \in Lease
    BY <1>1 DEF Lease, Unused
  <2> QED BY <1>3, <2>1, LeaseChanges
<1>6. Rebases(c, e, n, q, s)
  BY <1>3, <1>5 DEF Rebases
<1>7. TypeOK'
  BY <1>3, <1>4, <1>5 DEF TypeOK, Creates, OrderIs, Leases
<1>8. entry[e].kind = q.kind /\ client[c].pc = "idle" /\ Free(e) /\ ~closed
  BY DEF OpenSettings, OpenRewrite, Asks
<1> QED BY <1>1, <1>2, <1>3, <1>4, <1>6, <1>7, <1>8

\* The candidate of a rebase: outside the table, and nobody else knows it.
NamedBy(c, e) == client[c].entry = e \/ client[c].old = e
Concerns(t, e) == t.entry = e \/ t.old = e
Candidate(e) == entry[e].phase = "READY" /\ entry[e].replay = None
CandidateOfClient(c) ==
  LET n == client[c].entry  o == client[c].old
  IN /\ \A d \in Clients : d # c => ~NamedBy(d, n)
     /\ \A t \in tasks : ~Concerns(t, n)
     /\ o # n /\ Candidate(n)
     /\ entry[n].in_flight = client[c].q
     /\ entry[n].key = entry[o].key
     /\ entry[o].phase = "WAITING_FOR_TOOLS" =>
          CallsAtEnd(entry[n].transcript) = CallsAtEnd(entry[o].transcript)
CandidateOfTask(t) ==
  /\ \A d \in Clients : ~NamedBy(d, t.entry)
  /\ \A u \in tasks : u # t => ~Concerns(u, t.entry)
  /\ t.old # t.entry /\ Candidate(t.entry)
Candidates ==
  /\ \A c \in Clients : client[c].pc = "rebasing" => CandidateOfClient(c)
  /\ \A t \in tasks : t.do = "cancel" => CandidateOfTask(t)

\* A backend is in one place, and after its close in none.
PlacedOnce(e) ==
  /\ e \in Mapped => ~Starting(e) /\ ~Discarding(e) /\ e \notin draining /\ closes[e] = 0
  /\ Starting(e) => ~Discarding(e) /\ e \notin draining /\ closes[e] = 0
  /\ Discarding(e) => e \notin draining /\ closes[e] = 0
  /\ e \in draining => closes[e] = 0
  /\ closes[e] <= 1
  /\ ~(Task("discard", e) \in tasks /\ Task("dispose", e) \in tasks)
  /\ e \in Used => e \in Mapped \/ Starting(e) \/ Discarding(e) \/ e \in draining \/ closes[e] > 0
  /\ e \notin Used => closes[e] = 0
Placed == \A e \in Entries : PlacedOnce(e)

Sound == TypeOK /\ References /\ Phases /\ Table /\ Candidates /\ Placed

LEMMA InstallRebaseEffect ==
  ASSUME Sound, NEW c \in Clients, InstallRebase(c)
  PROVE  LET n == client[c].entry  o == client[c].old
         IN /\ TypeOK' /\ n \in Used \ Mapped /\ o \in Mapped /\ OrderIs((Mapped \ {o}) \cup {n})
            /\ Alters(o, None, entry[o].phase, entry[o].replay, entry[o].transcript)
            /\ client[c].pc = "rebasing" /\ Leases(c, [client[c] EXCEPT !.pc = "installed"])
            /\ tasks' = tasks \cup {Task("discard", o)} /\ ~closed
            /\ UNCHANGED <<closed, draining, closes>>
<1> DEFINE n == client[c].entry  o == client[c].old
<1>1. n \in Used /\ o \in Used /\ n \in Entries /\ o \in Entries /\ client[c] \in Lease
  BY DEF Sound, References, LeaseOK, InstallRebase, Used, TypeOK
<1>2. n \notin Mapped
  BY <1>1 DEF Sound, Placed, PlacedOnce, Starting, InstallRebase
<1>3. o \in Mapped
  BY DEF InstallRebase, Installable, Named
<1>4. OrderIs((Mapped \ {o}) \cup {n})
  BY <1>1, <1>2, <1>3, OrderReplaced DEF InstallRebase, Sound
<1>5. Alters(o, None, entry[o].phase, entry[o].replay, entry[o].transcript)
  BY <1>1, AltersReservation DEF InstallRebase, Sound
<1>6. [client[c] EXCEPT !.pc = "installed"] \in Lease
  BY <1>1 DEF Lease
<1>7. Leases(c, [client[c] EXCEPT !.pc = "installed"])
  BY <1>6, LeaseChanges DEF InstallRebase, Sound, TypeOK
<1>8. Task("discard", o) \in Job
  BY <1>1, TaskIsJob
<1>9. TypeOK'
  BY <1>4, <1>5, <1>7, <1>8 DEF Sound, TypeOK, InstallRebase, Alters, OrderIs, Leases
<1> QED BY <1>1, <1>2, <1>3, <1>4, <1>5, <1>7, <1>9 DEF InstallRebase, Installable

LEMMA InstallRemovedEffect ==
  ASSUME Sound, NEW c \in Clients, InstallRemoved(c)
  PROVE  LET n == client[c].entry
         IN /\ TypeOK' /\ n \in Used \ Mapped /\ OrderIs((Mapped \ Evicted) \cup {n})
            /\ Alters(n, entry[n].in_flight, IF IsTool(n) THEN "GENERATING" ELSE entry[n].phase,
                      entry[n].replay, entry[n].transcript)
            /\ Named(entry[n].key) = {}
            /\ Evicted \subseteq Mapped /\ (\A e \in Evicted : Evictable(e))
            /\ client[c].pc = "rebasing" /\ Turning(c, n, client[c].q) /\ ~closed
            /\ Scheduled(Evicted) /\ tasks' = tasks \cup Shutdowns(Evicted)
            /\ UNCHANGED <<closed, draining>>
<1> DEFINE n == client[c].entry
<1>1. n \in Used /\ n \in Entries /\ client[c].q \in Request
  BY DEF Sound, References, LeaseOK, InstallRemoved, Used
<1>2. n \notin Mapped
  BY <1>1 DEF Sound, Placed, PlacedOnce, Starting, InstallRemoved
<1>3. /\ OrderIs((Mapped \ Evicted) \cup {n})
      /\ Evicted \subseteq Mapped /\ (\A e \in Evicted : Evictable(e))
  BY <1>1, <1>2, OrderGrows DEF InstallRemoved, Sound
<1>4. Alters(n, entry[n].in_flight, IF IsTool(n) THEN "GENERATING" ELSE entry[n].phase,
             entry[n].replay, entry[n].transcript)
  BY <1>1, AltersByStart DEF InstallRemoved, Sound
<1>5. Turning(c, n, client[c].q)
  BY <1>1, LeaseTurns DEF InstallRemoved, Sound
<1>6. closes' \in [Entries -> Nat] /\ tasks' \in SUBSET Job
  <2>1. Evicted \in SUBSET Entries
    BY <1>3 DEF Sound, Table, Used
  <2> QED BY <2>1, ScheduledCloses, ShutdownsAreJobs DEF InstallRemoved, Sound, TypeOK
<1>7. TypeOK'
  BY <1>3, <1>4, <1>5, <1>6 DEF Sound, TypeOK, InstallRemoved, Alters, OrderIs, Turning, Leases
<1> QED BY <1>1, <1>2, <1>3, <1>4, <1>5, <1>7 DEF InstallRemoved, Removed, Installable

LEMMA InstallConflictEffect ==
  ASSUME Sound, NEW c \in Clients, InstallConflict(c)
  PROVE  /\ TypeOK' /\ client[c].pc = "rebasing" /\ Leases(c, Idle)
         /\ tasks' = tasks \cup {Task("discard", client[c].entry)} /\ client[c].entry \in Used
         /\ UNCHANGED <<entry, order, closed, draining, closes>>
<1>1. client[c].entry \in Used /\ Task("discard", client[c].entry) \in Job
  BY TaskIsJob DEF Sound, References, LeaseOK, InstallConflict, Used
<1>2. Leases(c, Idle)
  BY LeaseEnds DEF InstallConflict, Sound
<1>3. TypeOK'
  BY <1>1, <1>2 DEF Sound, TypeOK, InstallConflict, Leases
<1> QED BY <1>1, <1>2, <1>3 DEF InstallConflict

LEMMA RebaseFailsEffect ==
  ASSUME Sound, NEW c \in Clients, RebaseFails(c)
  PROVE  /\ TypeOK' /\ client[c].pc = "rebasing" /\ Leases(c, Idle)
         /\ tasks' = tasks \cup {CancelTask(c)} /\ CancelTask(c) \in Job
         /\ CancelTask(c).do = "cancel" /\ CancelTask(c).entry = client[c].entry
         /\ CancelTask(c).old = client[c].old /\ CancelTask(c).q = client[c].q
         /\ UNCHANGED <<entry, order, closed, draining, closes>>
<1>1. client[c].entry \in Entries /\ client[c].old \in Entries /\ client[c].q \in Request
  BY DEF Sound, References, LeaseOK, RebaseFails, Used
<1>2. /\ CancelTask(c) \in Job
      /\ CancelTask(c).do = "cancel" /\ CancelTask(c).entry = client[c].entry
      /\ CancelTask(c).old = client[c].old /\ CancelTask(c).q = client[c].q
  BY <1>1 DEF CancelTask, Job
<1>3. Leases(c, Idle)
  BY LeaseEnds DEF RebaseFails, Sound
<1>4. TypeOK'
  BY <1>2, <1>3 DEF Sound, TypeOK, RebaseFails, Leases
<1> QED BY <1>2, <1>3, <1>4 DEF RebaseFails

\* What a release leaves of a reservation.
Released(e, q) == IF entry[e].in_flight = q THEN None ELSE entry[e].in_flight

LEMMA RebaseProceedsEffect ==
  ASSUME Sound, NEW c \in Clients, RebaseProceeds(c)
  PROVE  LET n == client[c].entry
         IN /\ TypeOK' /\ client[c].pc = "installed" /\ n \in Used
            /\ \/ /\ OldClosed(n) /\ Leases(c, Idle)
                  /\ Alters(n, Released(n, client[c].q), entry[n].phase, entry[n].replay,
                            entry[n].transcript)
               \/ /\ ~OldClosed(n) /\ Turning(c, n, client[c].q)
                  /\ Alters(n, entry[n].in_flight,
                            IF IsTool(n) THEN "GENERATING" ELSE entry[n].phase,
                            entry[n].replay, entry[n].transcript)
            /\ UNCHANGED <<order, closed, draining, closes, tasks>>
<1> DEFINE n == client[c].entry
<1>1. n \in Used /\ n \in Entries /\ client[c].q \in Request
  BY DEF Sound, References, LeaseOK, RebaseProceeds, Used
<1>2. CASE OldClosed(n)
  <2>1. Leases(c, Idle)
    BY <1>2, LeaseEnds DEF RebaseProceeds, Sound
  <2>2. Alters(n, Released(n, client[c].q), entry[n].phase, entry[n].replay, entry[n].transcript)
    BY <1>1, <1>2, AltersByRelease DEF RebaseProceeds, Sound, Released
  <2>3. TypeOK'
    BY <2>1, <2>2 DEF Sound, TypeOK, RebaseProceeds, Alters, Leases, Mapped
  <2> QED BY <1>1, <1>2, <2>1, <2>2, <2>3 DEF RebaseProceeds
<1>3. CASE ~OldClosed(n)
  <2>1. Turning(c, n, client[c].q)
    BY <1>1, <1>3, LeaseTurns DEF RebaseProceeds, Sound
  <2>2. Alters(n, entry[n].in_flight, IF IsTool(n) THEN "GENERATING" ELSE entry[n].phase,
               entry[n].replay, entry[n].transcript)
    BY <1>1, <1>3, AltersByStart DEF RebaseProceeds, Sound
  <2>3. TypeOK'
    BY <2>1, <2>2 DEF Sound, TypeOK, RebaseProceeds, Alters, Turning, Leases
  <2> QED BY <1>1, <1>3, <2>1, <2>2, <2>3 DEF RebaseProceeds
<1> QED BY <1>2, <1>3

LEMMA ReleaseEffect ==
  ASSUME Sound, NEW c \in Clients, RebaseCancelled(c) \/ ReplayEnds(c)
  PROVE  LET e == client[c].entry
         IN /\ TypeOK' /\ client[c].pc \in {"installed", "replay"} /\ e \in Used
            /\ Leases(c, Idle)
            /\ Alters(e, Released(e, client[c].q), entry[e].phase, entry[e].replay,
                      entry[e].transcript)
            /\ UNCHANGED <<order, closed, draining, closes, tasks>>
<1> DEFINE e == client[c].entry
<1>1. e \in Used /\ client[c].q \in Request
  BY DEF Sound, References, LeaseOK, RebaseCancelled, ReplayEnds
<1>2. Leases(c, Idle)
  BY LeaseEnds DEF RebaseCancelled, ReplayEnds, Sound
<1>3. Alters(e, Released(e, client[c].q), entry[e].phase, entry[e].replay, entry[e].transcript)
  BY <1>1, AltersByRelease DEF RebaseCancelled, ReplayEnds, Sound, Released
<1>4. TypeOK'
  BY <1>2, <1>3 DEF Sound, TypeOK, RebaseCancelled, ReplayEnds, Alters, Leases
<1> QED BY <1>1, <1>2, <1>3, <1>4 DEF RebaseCancelled, ReplayEnds

LEMMA TurnCommitsEffect ==
  ASSUME Sound, NEW c \in Clients, TurnCommits(c)
  PROVE  LET e == client[c].entry
         IN /\ TypeOK' /\ client[c].pc = "turn" /\ e \in Mapped /\ e \in Used
            /\ Leases(c, Idle)
            /\ \E s \in Seq(Turn), q \in Request :
                 Alters(e, None, entry[e].phase, q, s) /\ s # <<>>
            /\ UNCHANGED <<order, closed, draining, closes, tasks>>
<1> DEFINE e == client[c].entry
           q == client[c].q
           m == [input |-> q.input, calls |-> None]
<1>1. e \in Used /\ q \in Request /\ e \in Mapped
  BY Zenon DEF Sound, References, LeaseOK, TurnCommits
<1>2. Leases(c, Idle)
  BY Zenon, LeaseEnds DEF TurnCommits, Sound
<1>3. m \in Turn
  BY <1>1 DEF Turn, Request
<1>4. /\ Alters(e, None, entry[e].phase, q, Append(entry[e].transcript, m))
  BY Zenon, <1>1, <1>3, AltersByCommit DEF TurnCommits, Sound
<1>5. Append(entry[e].transcript, m) \in Seq(Turn) /\ Append(entry[e].transcript, m) # <<>>
  <2>1. entry[e].transcript \in Seq(Turn)
    BY <1>1, UsedEntry DEF Sound, Conversation, Used
  <2> HIDE DEF m
  <2> QED BY <1>3, <2>1
<1>6. TypeOK'
  BY Zenon, <1>2, <1>4 DEF Sound, TypeOK, TurnCommits, Alters, Leases
<1> QED BY Zenon, <1>1, <1>2, <1>4, <1>5, <1>6 DEF TurnCommits

\* An entry leaves the table, or is not in it any more.
Invalidated(e) ==
  \/ /\ e \in Mapped /\ OrderIs(Mapped \ {e})
     /\ Alters(e, None, entry[e].phase, entry[e].replay, entry[e].transcript)
     /\ closes' \in [Entries -> Nat] /\ closes'[e] = closes[e] + 1
     /\ \A x \in Entries : x # e => closes'[x] = closes[x]
  \/ e \notin Mapped /\ UNCHANGED <<entry, order, closes>>

LEMMA InvalidateEffect ==
  ASSUME Sound, NEW e \in Used, Invalidate(e)
  PROVE  Invalidated(e)
<1>1. CASE e \in Mapped
  <2>1. OrderIs(Mapped \ {e})
    BY <1>1, OrderDrops DEF Invalidate, Sound
  <2>2. Alters(e, None, entry[e].phase, entry[e].replay, entry[e].transcript)
    BY <1>1, AltersReservation DEF Invalidate, Sound
  <2>3. /\ closes' \in [Entries -> Nat]
        /\ \A x \in Entries : closes'[x] = IF x \in {e} THEN closes[x] + 1 ELSE closes[x]
    <3>1. {e} \in SUBSET Entries
      BY DEF Used
    <3> QED BY <1>1, <3>1, ScheduledCloses DEF Invalidate, Sound
  <2> QED BY <1>1, <2>1, <2>2, <2>3 DEF Invalidated, Used
<1>2. CASE e \notin Mapped
  BY <1>2 DEF Invalidate, Invalidated
<1> QED BY <1>1, <1>2

LEMMA TurnFailsEffect ==
  ASSUME Sound, NEW c \in Clients, TurnFails(c)
  PROVE  LET e == client[c].entry
         IN /\ TypeOK' /\ client[c].pc \in {"turn", "aborting"} /\ e \in Used
            /\ Leases(c, Idle) /\ Invalidated(e) /\ entry[e].kind = "text"
            /\ UNCHANGED <<closed, draining, tasks>>
<1> DEFINE e == client[c].entry
<1>1. e \in Used /\ entry[e].kind = "text"
  BY DEF Sound, References, LeaseOK, TurnFails
<1>2. Leases(c, Idle)
  BY LeaseEnds DEF TurnFails, Sound
<1>3. Invalidated(e)
  BY <1>1, InvalidateEffect DEF TurnFails
<1>4. TypeOK'
  BY <1>2, <1>3 DEF Sound, TypeOK, TurnFails, Invalidated, Alters, OrderIs, Leases
<1> QED BY <1>1, <1>2, <1>3, <1>4 DEF TurnFails

LEMMA AbortEffect ==
  ASSUME Sound, NEW c \in Clients, Abort(c)
  PROVE  LET e == client[c].entry
         IN /\ TypeOK' /\ client[c].pc = "turn" /\ e \in Used
            /\ Leases(c, [client[c] EXCEPT !.pc = "aborting"])
            /\ entry[e].kind = "text"
            /\ tasks' = tasks \cup {Task("invalidate", e)}
            /\ UNCHANGED <<entry, order, closed, draining, closes>>
<1> DEFINE e == client[c].entry
<1>1. e \in Used /\ entry[e].kind = "text" /\ e \in Entries
  BY DEF Sound, References, LeaseOK, Abort, Used
<1>2. client[c] \in Lease
  BY DEF Sound, TypeOK
<1>3. [client[c] EXCEPT !.pc = "aborting"] \in Lease
  BY <1>2 DEF Lease
<1>4. Leases(c, [client[c] EXCEPT !.pc = "aborting"])
  BY <1>3, LeaseChanges DEF Abort, Sound, TypeOK
<1>5. Task("invalidate", e) \in Job
  BY <1>1, TaskIsJob
<1>6. TypeOK'
  BY <1>4, <1>5 DEF Sound, TypeOK, Abort, Leases
<1> QED BY <1>1, <1>4, <1>6 DEF Abort

LEMMA ToolCommitsEffect ==
  ASSUME Sound, NEW e \in Entries, NEW calls \in {None, e}, ToolCommits(e, calls)
  PROVE  /\ TypeOK' /\ e \in Used /\ IsTool(e) /\ entry[e].phase = "GENERATING"
         /\ \E s \in Seq(Turn), f \in {"READY", "WAITING_FOR_TOOLS"}, q \in Request \cup {None} :
              Alters(e, None, f, q, s) /\ s # <<>> /\ q # None
         /\ \A c \in Clients :
              /\ client'[c].pc = client[c].pc /\ client'[c].entry = client[c].entry
              /\ client'[c].old = client[c].old /\ client'[c].q = client[c].q
         /\ UNCHANGED <<order, closed, draining, closes, tasks>>
<1> DEFINE q == entry[e].in_flight
           m == [input |-> q.input, calls |-> calls]
           f == IF calls = None THEN "READY" ELSE "WAITING_FOR_TOOLS"
<1>1. e \in Used /\ entry[e] \in Conversation
  BY UsedEntry DEF ToolCommits, Used, Unused, Sound
<1>2. q \in Request
  BY <1>1 DEF Sound, Phases, PhaseOK, ToolCommits, Conversation
<1>3. m \in Turn /\ f \in {"READY", "WAITING_FOR_TOOLS"}
  BY <1>2 DEF Turn, Request
<1>4. Alters(e, None, f, q, Append(entry[e].transcript, m))
  <2>1. entry' = [entry EXCEPT ![e].transcript = Append(@, m), ![e].replay = q,
                               ![e].in_flight = None, ![e].phase = f]
    BY DEF ToolCommits
  <2> HIDE DEF q, m, f
  <2> QED BY Zenon, <1>1, <1>2, <1>3, <2>1, AltersByParking DEF Sound
<1>5. Append(entry[e].transcript, m) \in Seq(Turn) /\ Append(entry[e].transcript, m) # <<>>
  BY <1>1, <1>3 DEF Conversation
<1>6. client' = [c \in Clients |->
         IF client[c].pc = "tool" /\ client[c].entry = e /\ client[c].q = q
           THEN [client[c] EXCEPT !.durable = TRUE] ELSE client[c]]
  BY DEF ToolCommits
<1>7. ASSUME NEW c \in Clients
      PROVE  /\ client'[c] \in Lease
             /\ client'[c].pc = client[c].pc /\ client'[c].entry = client[c].entry
             /\ client'[c].old = client[c].old /\ client'[c].q = client[c].q
  <2>1. client[c] \in Lease
    BY DEF Sound, TypeOK
  <2>2. client'[c] \in {[client[c] EXCEPT !.durable = TRUE], client[c]}
    BY <1>6
  <2> QED BY <2>1, <2>2 DEF Lease
<1>8. client' \in [Clients -> Lease]
  BY <1>6, <1>7
<1>9. TypeOK'
  BY Zenon, <1>4, <1>8 DEF Sound, TypeOK, ToolCommits, Alters
<1> QED BY <1>1, <1>2, <1>3, <1>4, <1>5, <1>7, <1>9, NoneAssumption DEF ToolCommits

\* A tool actor closes and leaves a notice.
ActorCloses(e) == Alters(e, None, "CLOSED", entry[e].replay, entry[e].transcript)

LEMMA ToolFailsEffect ==
  ASSUME Sound, NEW e \in Entries, ToolFails(e)
  PROVE  /\ TypeOK' /\ e \in Used /\ IsTool(e) /\ ActorCloses(e) /\ ~Candidate(e)
         /\ tasks' = tasks \cup {Task("notify", e)}
         /\ UNCHANGED <<order, closed, draining, closes, client>>
<1>1. e \in Used /\ Task("notify", e) \in Job
  BY TaskIsJob DEF ToolFails, Used, Unused
<1>2. ActorCloses(e)
  BY <1>1, AltersByClose DEF ToolFails, Sound, ActorCloses
<1>3. TypeOK'
  BY <1>1, <1>2 DEF Sound, TypeOK, ToolFails, ActorCloses, Alters
<1> QED BY <1>1, <1>2, <1>3 DEF ToolFails, Candidate

LEMMA ToolLeavesEffect ==
  ASSUME Sound, NEW c \in Clients, ToolLeaves(c)
  PROVE  LET e == client[c].entry
         IN /\ TypeOK' /\ client[c].pc = "tool" /\ e \in Used /\ Leases(c, Idle)
            /\ \/ /\ ActorCloses(e) /\ tasks' = tasks \cup {Task("notify", e)}
               \/ UNCHANGED <<entry, tasks>>
            /\ UNCHANGED <<order, closed, draining, closes>>
<1> DEFINE e == client[c].entry
<1>1. e \in Used /\ Task("notify", e) \in Job
  BY TaskIsJob DEF ToolLeaves, Used, Sound, References, LeaseOK
<1>2. Leases(c, Idle)
  BY LeaseEnds DEF ToolLeaves, Sound
<1>3. \/ /\ ActorCloses(e) /\ tasks' = tasks \cup {Task("notify", e)}
      \/ UNCHANGED <<entry, tasks>>
  BY <1>1, AltersByClose DEF ToolLeaves, Sound, ActorCloses
<1>4. TypeOK'
  BY <1>1, <1>2, <1>3 DEF Sound, TypeOK, ToolLeaves, ActorCloses, Alters, Leases
<1> QED BY <1>1, <1>2, <1>3, <1>4 DEF ToolLeaves

\* An actor shuts down, unless it is closed already.
ShutsDown(e, T) ==
  \/ entry[e].phase = "CLOSED" /\ UNCHANGED entry /\ tasks' = T
  \/ ActorCloses(e) /\ tasks' = T \cup {Task("notify", e)}

LEMMA RunShutdownEffect ==
  ASSUME Sound, NEW t \in tasks, RunShutdown(t)
  PROVE  /\ TypeOK' /\ t.do = "shutdown" /\ t.entry \in Used /\ t.old = None
         /\ entry[t.entry].kind = "tool" /\ ShutsDown(t.entry, tasks \ {t})
         /\ UNCHANGED <<order, closed, draining, closes, client>>
<1>1. /\ t.entry \in Used /\ Task("notify", t.entry) \in Job /\ t.old = None
      /\ entry[t.entry].kind = "tool"
  BY TaskIsJob DEF RunShutdown, Used, Sound, References, TaskOK
<1>2. ShutsDown(t.entry, tasks \ {t})
  <2>1. CASE entry[t.entry].phase = "CLOSED"
    BY <2>1 DEF RunShutdown, ShutsDown, ShutDown, Notices
  <2>2. CASE entry[t.entry].phase # "CLOSED"
    BY <1>1, <2>2, AltersByClose DEF RunShutdown, ShutsDown, ShutDown, Notices, ActorCloses, Sound
  <2> QED BY <2>1, <2>2
<1>3. TypeOK'
  BY <1>1, <1>2 DEF Sound, TypeOK, RunShutdown, ShutsDown, ActorCloses, Alters
<1> QED BY <1>1, <1>2, <1>3 DEF RunShutdown

LEMMA RunNotifyEffect ==
  ASSUME Sound, NEW t \in tasks, RunNotify(t)
  PROVE  /\ TypeOK' /\ t.do \in {"notify", "invalidate"} /\ t.entry \in Used /\ t.old = None
         /\ Invalidated(t.entry) /\ tasks' = tasks \ {t}
         /\ UNCHANGED <<closed, draining, client>>
<1>1. t.entry \in Used /\ t.old = None
  BY TaskIsJob DEF RunNotify, Used, Sound, References, TaskOK
<1>2. Invalidated(t.entry)
  BY <1>1, InvalidateEffect DEF RunNotify
<1>3. TypeOK'
  BY <1>1, <1>2 DEF Sound, TypeOK, RunNotify, Invalidated, Alters, OrderIs
<1> QED BY <1>1, <1>2, <1>3 DEF RunNotify

\* One more close of an entry's backend is scheduled.
ClosesOne(e) ==
  /\ closes' \in [Entries -> Nat] /\ closes'[e] = closes[e] + 1
  /\ \A x \in Entries : x # e => closes'[x] = closes[x]

LEMMA RunDiscardEffect ==
  ASSUME Sound, NEW t \in tasks, RunDiscard(t)
  PROVE  /\ TypeOK' /\ t.do = "discard" /\ t.entry \in Used /\ t = Task("discard", t.entry)
         /\ \/ /\ IsTool(t.entry) /\ UNCHANGED closes
               /\ ShutsDown(t.entry, (tasks \ {t}) \cup {Task("dispose", t.entry)})
            \/ /\ ~IsTool(t.entry) /\ ClosesOne(t.entry) /\ UNCHANGED entry
               /\ tasks' = tasks \ {t}
         /\ UNCHANGED <<order, closed, draining, client>>
<1>1. /\ t.entry \in Used /\ t.entry \in Entries /\ t = Task("discard", t.entry)
      /\ Task("notify", t.entry) \in Job /\ Task("dispose", t.entry) \in Job
  BY TaskIsJob DEF RunDiscard, Used, Sound, References, TaskOK
<1>2. CASE IsTool(t.entry)
  <2>1. ShutsDown(t.entry, (tasks \ {t}) \cup {Task("dispose", t.entry)})
    <3>1. CASE entry[t.entry].phase = "CLOSED"
      BY <1>2, <3>1 DEF RunDiscard, ShutsDown, ShutDown, Notices
    <3>2. CASE entry[t.entry].phase # "CLOSED"
      BY <1>1, <1>2, <3>2, AltersByClose DEF RunDiscard, ShutsDown, ShutDown, Notices, ActorCloses, Sound
    <3> QED BY <3>1, <3>2
  <2>2. TypeOK'
    BY <1>1, <1>2, <2>1 DEF Sound, TypeOK, RunDiscard, ShutsDown, ActorCloses, Alters
  <2> QED BY <1>1, <1>2, <2>1, <2>2 DEF RunDiscard
<1>3. CASE ~IsTool(t.entry)
  <2>1. ClosesOne(t.entry)
    BY <1>1, <1>3, ScheduledCloses DEF RunDiscard, ClosesOne, Sound
  <2>2. TypeOK'
    BY <1>1, <1>3, <2>1 DEF Sound, TypeOK, RunDiscard, ClosesOne
  <2> QED BY <1>1, <1>3, <2>1, <2>2 DEF RunDiscard
<1> QED BY <1>2, <1>3

LEMMA RunDisposeEffect ==
  ASSUME Sound, NEW t \in tasks, RunDispose(t)
  PROVE  /\ TypeOK' /\ t.do = "dispose" /\ t.entry \in Used /\ t = Task("dispose", t.entry)
         /\ ClosesOne(t.entry) /\ tasks' = tasks \ {t}
         /\ UNCHANGED <<entry, order, closed, draining, client>>
<1>1. t.entry \in Used /\ t.entry \in Entries /\ t = Task("dispose", t.entry)
  BY DEF RunDispose, Used, Sound, References, TaskOK
<1>2. ClosesOne(t.entry)
  BY <1>1, ScheduledCloses DEF RunDispose, ClosesOne, Sound
<1>3. TypeOK'
  BY <1>1, <1>2 DEF Sound, TypeOK, RunDispose, ClosesOne
<1> QED BY <1>1, <1>2, <1>3 DEF RunDispose

LEMMA RunCancelEffect ==
  ASSUME Sound, NEW t \in tasks, RunCancel(t)
  PROVE  /\ TypeOK' /\ t.do = "cancel" /\ t.entry \in Used /\ t.old \in Used
         /\ Alters(t.old, Released(t.old, t.q), entry[t.old].phase, entry[t.old].replay,
                   entry[t.old].transcript)
         /\ tasks' = (tasks \ {t}) \cup {Task("discard", t.entry)}
         /\ UNCHANGED <<order, closed, draining, closes, client>>
<1>1. t.entry \in Used /\ t.old \in Used /\ t.q \in Request /\ Task("discard", t.entry) \in Job
  BY TaskIsJob DEF RunCancel, Used, Sound, References, TaskOK
<1>2. Alters(t.old, Released(t.old, t.q), entry[t.old].phase, entry[t.old].replay,
             entry[t.old].transcript)
  BY <1>1, AltersByRelease DEF RunCancel, Sound, Released
<1>3. TypeOK'
  BY <1>1, <1>2 DEF Sound, TypeOK, RunCancel, Alters
<1> QED BY <1>1, <1>2, <1>3 DEF RunCancel

LEMMA CloseEffect ==
  ASSUME Sound, Close
  PROVE  /\ TypeOK' /\ ~closed /\ closed' /\ draining' = Mapped /\ draining = {}
         /\ order' = <<>> /\ Once(order') /\ Mapped' = {}
         /\ tasks' = tasks \cup Shutdowns(Mapped) /\ UNCHANGED <<entry, closes, client>>
<1>1. Mapped \in SUBSET Entries
  BY DEF Sound, Table, Used
<1>2. TypeOK'
  BY <1>1, ShutdownsAreJobs DEF Close, Sound, TypeOK
<1>3. Once(order') /\ Mapped' = {}
  <2>1. Len(order') = 0 /\ 1..0 = {}
    BY DEF Close
  <2> QED BY <2>1 DEF Once, Mapped
<1> QED BY <1>2, <1>3 DEF Close, Sound, Table

LEMMA DrainedEffect ==
  ASSUME Sound, Drained
  PROVE  /\ TypeOK' /\ draining' = {}
         /\ closes' \in [Entries -> Nat]
         /\ \A e \in Entries : closes'[e] = IF e \in draining THEN closes[e] + 1 ELSE closes[e]
         /\ UNCHANGED <<entry, order, closed, tasks, client>>
<1>1. /\ closes' \in [Entries -> Nat]
      /\ \A e \in Entries : closes'[e] = IF e \in draining THEN closes[e] + 1 ELSE closes[e]
  BY ScheduledCloses DEF Drained, Sound, TypeOK
<1>2. TypeOK'
  BY <1>1 DEF Drained, Sound, TypeOK
<1> QED BY <1>1, <1>2 DEF Drained

----------------------------------------------------------------------------
(* Every step keeps the references, the phases and the table.              *)

\* What holds of an entry for good.
Grows ==
  /\ Used \subseteq Used'
  /\ \A e \in Used :
       /\ entry'[e].kind = entry[e].kind /\ entry'[e].key = entry[e].key
       /\ entry[e].phase = "CLOSED" => entry'[e].phase = "CLOSED"

LEMMA AltersGrows ==
  ASSUME NEW e \in Used, NEW v, NEW f, NEW p, NEW s, Alters(e, v, f, p, s),
         entry[e].phase = "CLOSED" => f = "CLOSED"
  PROVE  Grows
  BY DEF Grows, Alters, Used

LEMMA CreatesGrows ==
  ASSUME NEW e \in Unused, NEW k, NEW q, NEW f, NEW s, Creates(e, k, q, f, s),
         \A x \in Entries : x # e => entry'[x] = entry[x]
  PROVE  Grows
  BY DEF Grows, Creates, Used

LEMMA RebaseGrows ==
  ASSUME NEW c, NEW e \in Used, NEW n \in Unused, NEW q, NEW s, Rebases(c, e, n, q, s)
  PROVE  Grows
  BY DEF Grows, Rebases, Creates, Used

LEMMA SameGrows ==
  ASSUME UNCHANGED entry
  PROVE  Grows /\ Used' = Used
  BY DEF Grows, Used, Unused

LEMMA InvalidatedGrows ==
  ASSUME NEW e \in Used, Invalidated(e)
  PROVE  Grows
  BY AltersGrows, SameGrows DEF Invalidated

LEMMA ShutsDownGrows ==
  ASSUME NEW e \in Used, NEW T, ShutsDown(e, T)
  PROVE  Grows
  BY AltersGrows, SameGrows DEF ShutsDown, ActorCloses

LEMMA TurningTurns ==
  ASSUME NEW c, NEW e, NEW q, Turning(c, e, q)
  PROVE  /\ client'[c].pc = IF q.kind = "text" THEN "turn" ELSE "tool"
         /\ client'[c].entry = e /\ client'[c].old = None /\ client'[c].q = q
         /\ \A d \in Clients : d # c => client'[d] = client[d]
  BY DEF Turning, Leases

LEMMA TurnLeaseOK ==
  ASSUME Grows, NEW c \in Clients, NEW e \in Used', NEW q \in Request, Turning(c, e, q),
         entry'[e].kind = q.kind
  PROVE  LeaseOK(c)'
<1>1. q.kind # "text" => q.kind = "tool"
  BY KindsAssumption DEF Request
<1> QED BY <1>1, TurningTurns DEF LeaseOK

LEMMA IdleLeaseOK ==
  ASSUME NEW c \in Clients, Leases(c, Idle)
  PROVE  LeaseOK(c)'
  BY DEF LeaseOK, Leases, Idle

LEMMA TaskKept ==
  ASSUME Grows, NEW t, TaskOK(t)
  PROVE  TaskOK(t)'
  BY DEF TaskOK, Grows

LEMMA NewTaskOK ==
  ASSUME NEW do \in {"shutdown", "notify", "invalidate", "discard", "dispose"},
         NEW e \in Used', do \in {"notify", "shutdown", "dispose"} => entry'[e].kind = "tool",
         do = "notify" => entry'[e].phase = "CLOSED",
         do = "invalidate" => entry'[e].kind = "text"
  PROVE  TaskOK(Task(do, e))'
<1> DEFINE t == Task(do, e)
<1>1. t.do = do /\ t.entry = e /\ do # "cancel"
  BY DEF Task
<1>2. t = Task(t.do, t.entry)
  BY <1>1
<1> HIDE DEF t
<1>3. TaskOK(t)'
  BY <1>1, <1>2 DEF TaskOK
<1> QED BY <1>3 DEF t

LEMMA ShutdownsOK ==
  ASSUME Grows, NEW E \in SUBSET Used, NEW t \in Shutdowns(E)
  PROVE  TaskOK(t)'
<1>1. E \in SUBSET Entries
  BY DEF Used
<1>2. t = Task("shutdown", t.entry) /\ t.entry \in E /\ IsTool(t.entry)
  BY <1>1, ShutdownsAreJobs
<1>3. TaskOK(Task("shutdown", t.entry))'
  BY <1>2, NewTaskOK DEF Grows, IsTool
<1> QED BY <1>2, <1>3

\* The references are kept when those that are new are right.
LEMMA ReferencesKept ==
  ASSUME References, Grows,
         \A c \in Clients : client'[c] = client[c] \/ LeaseOK(c)',
         \A t \in tasks' : t \in tasks \/ TaskOK(t)', draining' \subseteq Used
  PROVE  References'
<1>1. ASSUME NEW c \in Clients, client'[c] = client[c] PROVE LeaseOK(c)'
  BY <1>1 DEF References, LeaseOK, Grows
<1>2. ASSUME NEW t \in tasks PROVE TaskOK(t)'
  BY TaskKept DEF References
<1>3. draining' \subseteq Used'
  BY DEF Grows
<1> QED BY <1>1, <1>2, <1>3 DEF References

\* The steps, one by one.
Admits1(c, key, q, e) ==
  \/ OpenReplay(c, key, q, e) \/ OpenContinue(c, key, q, e) \/ OpenExpired(c, key, q, e)
  \/ OpenSettings(c, key, q, e) \/ OpenRewrite(c, key, q, e)

LEMMA StepIs ==
  ASSUME [Next]_vars
  PROVE  \/ \E c \in Clients : \E key, q : Asked(q, key) /\ OpenFresh(c, key, q)
         \/ \E c \in Clients, e \in Mapped : \E key, q : Asked(q, key) /\ Admits1(c, key, q, e)
         \/ \E c \in Clients : \/ InstallRebase(c) \/ InstallRemoved(c) \/ InstallConflict(c)
                               \/ RebaseFails(c) \/ RebaseProceeds(c) \/ RebaseCancelled(c)
                               \/ ReplayEnds(c) \/ TurnCommits(c) \/ TurnFails(c) \/ Abort(c)
                               \/ ToolLeaves(c)
         \/ \E e \in Entries : ToolFails(e) \/ \E calls \in {None, e} : ToolCommits(e, calls)
         \/ \E t \in tasks : \/ RunShutdown(t) \/ RunNotify(t) \/ RunDiscard(t)
                             \/ RunDispose(t) \/ RunCancel(t)
         \/ Close \/ Drained \/ UNCHANGED vars
<1>1. ASSUME NEW c \in Clients, Open(c)
      PROVE  \/ \E key, q : Asked(q, key) /\ OpenFresh(c, key, q)
             \/ \E e \in Mapped : \E key, q : Asked(q, key) /\ Admits1(c, key, q, e)
  <2>1. PICK key \in Sids \cup {entry[e].key : e \in Entries \ Unused} \cup {None},
             q \in Requests :
          \/ OpenFresh(c, key, q)
          \/ \E e \in Mapped : Admits1(c, key, q, e)
    BY <1>1 DEF Open, Admits1
  <2>2. Asked(q, key)
    BY RequestsAreRequests DEF Asked
  <2> QED BY <2>1, <2>2
<1>2. CASE \E c \in Clients : \/ Open(c) \/ Rebasing(c) \/ TurnCommits(c) \/ TurnFails(c)
                              \/ Abort(c) \/ ReplayEnds(c) \/ ToolLeaves(c)
  BY <1>1, <1>2 DEF Rebasing
<1>3. CASE RunTask
  BY <1>3 DEF RunTask
<1> QED BY <1>2, <1>3 DEF Next

LEMMA ReferencesStep ==
  ASSUME Sound, [Next]_vars
  PROVE  References' /\ Grows
<1> SUFFICES References' /\ Grows
  OBVIOUS
<1> USE DEF Sound
<1>1. ASSUME NEW c \in Clients, NEW key, NEW q, Asked(q, key), OpenFresh(c, key, q)
      PROVE  References' /\ Grows
  <2>1. PICK e \in Unused, k \in Sids \cup Uuids :
          /\ Creates(e, k, q, IF q.kind = "tool" THEN "GENERATING" ELSE "READY", q.history)
          /\ \A x \in Entries : x # e => entry'[x] = entry[x]
          /\ Turning(c, e, q)
    BY <1>1, OpenFreshEffect
  <2>2. Grows /\ e \in Used'
    BY <2>1, CreatesGrows DEF Creates
  <2>3. LeaseOK(c)'
    BY <1>1, <2>1, <2>2, TurnLeaseOK DEF Creates, Asked
  <2>4. /\ tasks' = tasks \cup Shutdowns(Evicted) /\ draining' = draining
        /\ Evicted \in SUBSET Used
    BY <1>1, OpenFreshEffect DEF Table
  <2>5. \A t \in tasks' : t \in tasks \/ TaskOK(t)'
    BY <2>2, <2>4, ShutdownsOK
  <2>6. \A d \in Clients : client'[d] = client[d] \/ LeaseOK(d)'
    BY <2>1, <2>3, TurningTurns
  <2>7. draining' \subseteq Used
    BY <2>4 DEF References
  <2> QED BY <2>2, <2>5, <2>6, <2>7, ReferencesKept
<1>2. ASSUME NEW c \in Clients, NEW e \in Mapped, NEW key, NEW q, Asked(q, key),
             Admits1(c, key, q, e)
      PROVE  References' /\ Grows
  <2>1. e \in Used /\ q \in Request
    BY <1>2 DEF Table, Asked
  <2>2. CASE OpenReplay(c, key, q, e)
    <3>1. Grows
      <4>1. Alters(e, q, entry[e].phase, entry[e].replay, entry[e].transcript)
        BY <1>2, <2>2, OpenReplayEffect
      <4> QED BY <2>1, <4>1, AltersGrows
    <3>2. e \in Used'
      BY <2>1, <3>1 DEF Grows
    <3>3. Leases(c, [Idle EXCEPT !.pc = "replay", !.entry = e, !.q = q])
      BY <1>2, <2>2, OpenReplayEffect
    <3>4. LeaseOK(c)'
      BY <2>1, <3>2, <3>3 DEF LeaseOK, Leases, Idle
    <3> QED BY <1>2, <2>2, <3>1, <3>3, <3>4, OpenReplayEffect, ReferencesKept DEF References, Leases
  <2>3. CASE OpenContinue(c, key, q, e)
    <3>1. Grows
      BY <1>2, <2>3, OpenContinueEffect, AltersGrows DEF OldClosed
    <3>2. e \in Used' /\ entry'[e].kind = q.kind
      BY <1>2, <2>1, <2>3, <3>1, OpenContinueEffect DEF Grows
    <3>3. Turning(c, e, q)
      BY <1>2, <2>3, OpenContinueEffect
    <3>4. LeaseOK(c)'
      BY <2>1, <3>1, <3>2, <3>3, TurnLeaseOK
    <3> QED BY <1>2, <2>3, <3>1, <3>3, <3>4, OpenContinueEffect, ReferencesKept, TurningTurns DEF References
  <2>4. CASE OpenExpired(c, key, q, e)
    <3>1. Grows
      BY <1>2, <2>4, OpenExpiredEffect, AltersGrows
    <3>2. e \in Used' /\ entry'[e].phase = "CLOSED" /\ entry'[e].kind = entry[e].kind
      BY <1>2, <2>1, <2>4, <3>1, OpenExpiredEffect DEF Grows, Alters
    <3>3. entry[e].kind = "tool"
      BY <1>2, <2>1, <2>4, OpenExpiredEffect, UsedEntry, KindsAssumption
         DEF Phases, PhaseOK, Conversation, Used
    <3>4. TaskOK(Task("notify", e))'
      BY <3>2, <3>3, NewTaskOK
    <3> QED BY <1>2, <2>4, <3>1, <3>4, OpenExpiredEffect, ReferencesKept DEF References
  <2>5. CASE OpenSettings(c, key, q, e) \/ OpenRewrite(c, key, q, e)
    <3>1. PICK n \in Unused, s \in Seq(Turn) : Rebases(c, e, n, q, s)
      BY <1>2, <2>5, OpenRebaseEffect
    <3>2. Grows
      BY <2>1, <3>1, RebaseGrows
    <3>3. e \in Used' /\ n \in Used' /\ entry'[n].kind = q.kind
      BY <2>1, <3>1, <3>2 DEF Grows, Rebases, Creates
    <3>4. LeaseOK(c)'
      <4>1. client'[c] = [pc |-> "rebasing", entry |-> n, old |-> e, q |-> q, durable |-> FALSE]
        BY <3>1 DEF Leases, Rebases
      <4>2. /\ client'[c].pc = "rebasing" /\ client'[c].entry = n /\ client'[c].old = e
            /\ client'[c].q = q /\ e # None
        BY <2>1, <4>1, NoneAssumption DEF Used
      <4> QED BY <2>1, <3>3, <4>2 DEF LeaseOK
    <3> QED BY <1>2, <2>5, <3>1, <3>2, <3>4, OpenRebaseEffect, ReferencesKept DEF References, Rebases, Leases
  <2> QED BY <1>2, <2>2, <2>3, <2>4, <2>5 DEF Admits1
<1>3. ASSUME NEW c \in Clients, InstallRebase(c) PROVE References' /\ Grows
  <2>0. PICK n \in Used, o \in Used : n = client[c].entry /\ o = client[c].old
    BY <1>3, InstallRebaseEffect DEF Table
  <2>1. Grows /\ o \in Used
    BY <1>3, <2>0, InstallRebaseEffect, AltersGrows DEF Table
  <2>2. TaskOK(Task("discard", o))'
    <3>1. o \in Used'
      BY <2>1 DEF Grows
    <3> QED BY <3>1, NewTaskOK
  <2>3. client[c] \in Lease /\ LeaseOK(c)
    BY DEF TypeOK, References
  <2>4. LeaseOK(c)'
    <3>1. client'[c] = [client[c] EXCEPT !.pc = "installed"]
      BY <1>3, <2>0, InstallRebaseEffect DEF Leases
    <3>2. /\ client'[c].pc = "installed" /\ client'[c].entry = n /\ client'[c].old = o
          /\ client'[c].q = client[c].q
      BY <2>0, <2>3, <3>1 DEF Lease
    <3>3. n \in Used' /\ o \in Used' /\ entry'[n].kind = entry[n].kind /\ client[c].pc = "rebasing"
      BY <1>3, <2>0, <2>1, InstallRebaseEffect DEF Grows
    <3> QED BY <2>0, <2>3, <3>2, <3>3 DEF LeaseOK
  <2> QED BY ZenonT(60), <1>3, <2>0, <2>1, <2>2, <2>4, InstallRebaseEffect, ReferencesKept DEF References, Leases
<1>4. ASSUME NEW c \in Clients, InstallRemoved(c) PROVE References' /\ Grows
  <2> DEFINE n == client[c].entry
  <2>1. Grows /\ n \in Used' /\ client[c].q \in Request /\ entry[n].kind = client[c].q.kind
    <3>1. entry[n].phase # "CLOSED" /\ client[c].q \in Request /\ entry[n].kind = client[c].q.kind
      BY <1>4, InstallRemovedEffect DEF Candidates, CandidateOfClient, Candidate, References, LeaseOK
    <3>2. n \in Used
      BY <1>4, InstallRemovedEffect
    <3>3. Grows
      BY <1>4, <3>1, <3>2, InstallRemovedEffect, AltersGrows
    <3> QED BY <3>1, <3>2, <3>3 DEF Grows
  <2>2. entry'[n].kind = client[c].q.kind
    BY <1>4, <2>1, InstallRemovedEffect DEF Grows
  <2>3. Turning(c, n, client[c].q)
    BY <1>4, InstallRemovedEffect
  <2>4. LeaseOK(c)'
    BY <2>1, <2>2, <2>3, TurnLeaseOK
  <2>5. /\ tasks' = tasks \cup Shutdowns(Evicted) /\ Evicted \in SUBSET Used
        /\ draining' = draining
    BY <1>4, InstallRemovedEffect DEF Table
  <2>6. \A t \in tasks' : t \in tasks \/ TaskOK(t)'
    BY <2>1, <2>5, ShutdownsOK
  <2> QED BY <2>1, <2>3, <2>4, <2>5, <2>6, ReferencesKept, TurningTurns DEF References
<1>5. ASSUME NEW c \in Clients, InstallConflict(c) PROVE References' /\ Grows
  <2>0. PICK n \in Used : n = client[c].entry
    BY <1>5, InstallConflictEffect
  <2>1. Grows /\ LeaseOK(c)' /\ TaskOK(Task("discard", n))'
    <3>1. Grows /\ LeaseOK(c)' /\ n \in Used'
      BY <1>5, InstallConflictEffect, SameGrows, IdleLeaseOK
    <3> QED BY <3>1, NewTaskOK
  <2> QED BY <1>5, <2>0, <2>1, InstallConflictEffect, ReferencesKept DEF References, Leases
<1>6. ASSUME NEW c \in Clients, RebaseFails(c) PROVE References' /\ Grows
  <2>1. Grows /\ LeaseOK(c)'
    BY <1>6, RebaseFailsEffect, SameGrows, IdleLeaseOK
  <2>0. PICK t : t = CancelTask(c)
    OBVIOUS
  <2>2. TaskOK(t)'
    <3>1. /\ Used' = Used /\ client[c].entry \in Used /\ client[c].q \in Request
          /\ client[c].old \in Used
      BY <1>6, RebaseFailsEffect, SameGrows DEF References, LeaseOK
    <3> QED BY <1>6, <2>0, <3>1, RebaseFailsEffect DEF TaskOK
  <2> QED BY <1>6, <2>0, <2>1, <2>2, RebaseFailsEffect, ReferencesKept DEF References, Leases
<1>7. ASSUME NEW c \in Clients, RebaseProceeds(c) PROVE References' /\ Grows
  <2> DEFINE n == client[c].entry
  <2>1. n \in Used /\ client[c].q \in Request /\ entry[n].kind = client[c].q.kind
    BY <1>7, RebaseProceedsEffect DEF References, LeaseOK
  <2>2. CASE Leases(c, Idle) /\ Alters(n, Released(n, client[c].q), entry[n].phase,
                                       entry[n].replay, entry[n].transcript)
    <3>1. Grows /\ LeaseOK(c)'
      BY <2>1, <2>2, AltersGrows, IdleLeaseOK
    <3> QED BY <1>7, <2>2, <3>1, RebaseProceedsEffect, ReferencesKept DEF References, Leases
  <2>3. CASE /\ ~OldClosed(n) /\ Turning(c, n, client[c].q)
             /\ Alters(n, entry[n].in_flight, IF IsTool(n) THEN "GENERATING" ELSE entry[n].phase,
                       entry[n].replay, entry[n].transcript)
    <3>1. Grows
      BY <2>1, <2>3, AltersGrows DEF OldClosed
    <3>2. n \in Used' /\ entry'[n].kind = client[c].q.kind
      BY <2>1, <3>1 DEF Grows
    <3>3. LeaseOK(c)'
      BY <2>1, <2>3, <3>1, <3>2, TurnLeaseOK
    <3> QED BY <1>7, <2>3, <3>1, <3>3, RebaseProceedsEffect, ReferencesKept, TurningTurns DEF References
  <2> QED BY <1>7, <2>2, <2>3, RebaseProceedsEffect
<1>8. ASSUME NEW c \in Clients, RebaseCancelled(c) \/ ReplayEnds(c) PROVE References' /\ Grows
  <2>1. Grows /\ LeaseOK(c)'
    BY <1>8, ReleaseEffect, AltersGrows, IdleLeaseOK
  <2> QED BY <1>8, <2>1, ReleaseEffect, ReferencesKept DEF References, Leases
<1>9. ASSUME NEW c \in Clients, TurnCommits(c) PROVE References' /\ Grows
  <2>1. Grows /\ LeaseOK(c)'
    BY <1>9, TurnCommitsEffect, AltersGrows, IdleLeaseOK
  <2> QED BY <1>9, <2>1, TurnCommitsEffect, ReferencesKept DEF References, Leases
<1>10. ASSUME NEW c \in Clients, TurnFails(c) PROVE References' /\ Grows
  <2>1. Grows /\ LeaseOK(c)'
    BY <1>10, TurnFailsEffect, InvalidatedGrows, IdleLeaseOK
  <2> QED BY <1>10, <2>1, TurnFailsEffect, ReferencesKept DEF References, Leases
<1>11. ASSUME NEW c \in Clients, Abort(c) PROVE References' /\ Grows
  <2>0. PICK e \in Used : e = client[c].entry
    BY <1>11, AbortEffect
  <2>1. Grows /\ TaskOK(Task("invalidate", e))'
    <3>1. Grows /\ e \in Used' /\ entry'[e].kind = "text"
      BY <1>11, <2>0, AbortEffect, SameGrows
    <3> QED BY <3>1, NewTaskOK
  <2>2. client[c] \in Lease /\ LeaseOK(c)
    BY DEF TypeOK, References
  <2>3. LeaseOK(c)'
    <3>1. client'[c] = [client[c] EXCEPT !.pc = "aborting"]
      BY <1>11, AbortEffect DEF Leases
    <3>2. /\ client'[c].pc = "aborting" /\ client'[c].entry = e /\ client'[c].old = client[c].old
          /\ client'[c].q = client[c].q
      BY <2>0, <2>2, <3>1 DEF Lease
    <3>3. e \in Used' /\ entry'[e].kind = "text" /\ client[c].pc = "turn" /\ Used' = Used
      BY <1>11, <2>0, AbortEffect, SameGrows
    <3>4. client[c].old \in Used' \cup {None} /\ client[c].q \in Request
      BY <2>2, <3>3 DEF LeaseOK
    <3> QED BY <3>2, <3>3, <3>4 DEF LeaseOK
  <2>4. tasks' = tasks \cup {Task("invalidate", e)} /\ draining' \subseteq Used
    BY <1>11, <2>0, AbortEffect DEF References
  <2>5. \A d \in Clients : d # c => client'[d] = client[d]
    BY <1>11, AbortEffect DEF Leases
  <2> QED BY <2>1, <2>3, <2>4, <2>5, ReferencesKept
<1>12. ASSUME NEW c \in Clients, ToolLeaves(c) PROVE References' /\ Grows
  <2>0. PICK e \in Used : e = client[c].entry
    BY <1>12, ToolLeavesEffect
  <2>1. LeaseOK(c)' /\ e \in Used /\ Leases(c, Idle) /\ draining' = draining
    BY <1>12, <2>0, ToolLeavesEffect, IdleLeaseOK
  <2>2. CASE ActorCloses(e) /\ tasks' = tasks \cup {Task("notify", e)}
    <3>1. Grows
      BY <2>1, <2>2, AltersGrows DEF ActorCloses
    <3>2. TaskOK(Task("notify", e))'
      <4>1. entry[e].kind = "tool"
        BY <1>12, <2>0 DEF ToolLeaves, References, LeaseOK
      <4>2. e \in Used' /\ entry'[e].kind = "tool" /\ entry'[e].phase = "CLOSED"
        BY <2>1, <2>2, <3>1, <4>1 DEF ActorCloses, Alters, Grows
      <4> QED BY <4>2, NewTaskOK
    <3> QED BY <2>1, <2>2, <3>1, <3>2, ReferencesKept DEF References, Leases
  <2>3. CASE UNCHANGED <<entry, tasks>>
    BY <2>1, <2>3, SameGrows, ReferencesKept DEF References, Leases
  <2> QED BY <1>12, <2>0, <2>2, <2>3, ToolLeavesEffect
<1>13. ASSUME NEW e \in Entries, ToolFails(e) PROVE References' /\ Grows
  <2>1. Grows /\ e \in Used
    BY <1>13, ToolFailsEffect, AltersGrows DEF ActorCloses
  <2>2. TaskOK(Task("notify", e))'
    BY <1>13, <2>1, ToolFailsEffect, NewTaskOK DEF ActorCloses, Alters, Grows, IsTool
  <2> QED BY <1>13, <2>1, <2>2, ToolFailsEffect, ReferencesKept DEF References
<1>14. ASSUME NEW e \in Entries, NEW calls \in {None, e}, ToolCommits(e, calls)
       PROVE  References' /\ Grows
  <2>1. Grows
    BY <1>14, ToolCommitsEffect, AltersGrows
  <2>2. ASSUME NEW c \in Clients PROVE LeaseOK(c)'
    BY <1>14, <2>1, ToolCommitsEffect DEF References, LeaseOK, Grows
  <2> QED BY <1>14, <2>1, <2>2, ToolCommitsEffect, ReferencesKept DEF References
<1>15. ASSUME NEW t \in tasks, RunShutdown(t) PROVE References' /\ Grows
  <2>1. Grows /\ t.entry \in Used
    BY <1>15, RunShutdownEffect, ShutsDownGrows
  <2>2. ASSUME entry'[t.entry].phase = "CLOSED" PROVE TaskOK(Task("notify", t.entry))'
    BY <1>15, <2>1, <2>2, RunShutdownEffect, NewTaskOK DEF Grows
  <2>3. \A u \in tasks' : u \in tasks \/ TaskOK(u)'
    BY <1>15, <2>2, RunShutdownEffect DEF ShutsDown, ActorCloses, Alters
  <2> QED BY <1>15, <2>1, <2>3, RunShutdownEffect, ReferencesKept DEF References
<1>16. ASSUME NEW t \in tasks, RunNotify(t) PROVE References' /\ Grows
  <2>1. Grows
    BY <1>16, RunNotifyEffect, InvalidatedGrows
  <2> QED BY <1>16, <2>1, RunNotifyEffect, ReferencesKept DEF References
<1>17. ASSUME NEW t \in tasks, RunDiscard(t) PROVE References' /\ Grows
  <2>1. t.entry \in Used /\ UNCHANGED <<client, draining>>
    BY <1>17, RunDiscardEffect
  <2>2. CASE IsTool(t.entry) /\ ShutsDown(t.entry, (tasks \ {t}) \cup {Task("dispose", t.entry)})
    <3>1. Grows
      BY <2>1, <2>2, ShutsDownGrows
    <3>2. entry'[t.entry].kind = "tool" /\ t.entry \in Used'
      BY <2>1, <2>2, <3>1 DEF Grows, IsTool
    <3>3. TaskOK(Task("dispose", t.entry))'
      BY <3>2, NewTaskOK
    <3>4. entry'[t.entry].phase = "CLOSED" => TaskOK(Task("notify", t.entry))'
      BY <3>2, NewTaskOK
    <3>5. \A u \in tasks' : u \in tasks \/ TaskOK(u)'
      BY <2>2, <3>3, <3>4 DEF ShutsDown, ActorCloses, Alters
    <3> QED BY <2>1, <3>1, <3>5, ReferencesKept DEF References
  <2>3. CASE UNCHANGED entry /\ tasks' = tasks \ {t}
    BY <2>1, <2>3, SameGrows, ReferencesKept DEF References
  <2> QED BY <1>17, <2>2, <2>3, RunDiscardEffect
<1>18. ASSUME NEW t \in tasks, RunDispose(t) PROVE References' /\ Grows
  BY <1>18, RunDisposeEffect, SameGrows, ReferencesKept DEF References
<1>19. ASSUME NEW t \in tasks, RunCancel(t) PROVE References' /\ Grows
  <2>1. Grows /\ t.entry \in Used
    BY <1>19, RunCancelEffect, AltersGrows
  <2>2. TaskOK(Task("discard", t.entry))'
    BY <2>1, NewTaskOK DEF Grows
  <2> QED BY <1>19, <2>1, <2>2, RunCancelEffect, ReferencesKept DEF References
<1>20. ASSUME Close PROVE References' /\ Grows
  <2>1. Grows /\ Mapped \in SUBSET Used
    BY <1>20, CloseEffect, SameGrows DEF Table
  <2>2. \A u \in tasks' : u \in tasks \/ TaskOK(u)'
    BY <1>20, <2>1, CloseEffect, ShutdownsOK
  <2> QED BY <1>20, <2>1, <2>2, CloseEffect, ReferencesKept DEF References
<1>21. ASSUME Drained PROVE References' /\ Grows
  BY <1>21, DrainedEffect, SameGrows, ReferencesKept DEF References
<1>22. ASSUME UNCHANGED vars PROVE References' /\ Grows
  BY <1>22, SameGrows, ReferencesKept DEF References, vars
<1> QED
  BY <1>1, <1>2, <1>3, <1>4, <1>5, <1>6, <1>7, <1>8, <1>9, <1>10, <1>11, <1>12, <1>13, <1>14,
     <1>15, <1>16, <1>17, <1>18, <1>19, <1>20, <1>21, <1>22, StepIs

\* The phases are kept when those that are new are right.
LEMMA PhaseKept ==
  ASSUME NEW e, entry'[e] = entry[e], PhaseOK(e)
  PROVE  PhaseOK(e)'
  BY DEF PhaseOK

LEMMA AltersPhases ==
  ASSUME Phases, NEW e \in Used, NEW v, NEW f, NEW p, NEW s, Alters(e, v, f, p, s), PhaseOK(e)'
  PROVE  Phases'
  BY PhaseKept DEF Phases, Alters, Used

LEMMA ClosedPhases ==
  ASSUME Phases, NEW e \in Used, ActorCloses(e), entry[e].kind # "text"
  PROVE  Phases'
<1>1. PhaseOK(e)'
  BY DEF PhaseOK, ActorCloses, Alters
<1> QED BY <1>1, AltersPhases DEF ActorCloses

LEMMA SamePhases ==
  ASSUME Phases, UNCHANGED entry
  PROVE  Phases'
  BY PhaseKept, SameGrows DEF Phases

LEMMA ReservedPhases ==
  ASSUME Phases, NEW e \in Used, NEW v, Alters(e, v, entry[e].phase, entry[e].replay, entry[e].transcript),
         v # None \/ entry[e].phase # "GENERATING"
  PROVE  Phases'
<1>1. PhaseOK(e)'
  BY DEF PhaseOK, Alters, Phases
<1> QED BY <1>1, AltersPhases

LEMMA StartedPhases ==
  ASSUME Phases, NEW e \in Used, NEW v,
         Alters(e, v, IF IsTool(e) THEN "GENERATING" ELSE entry[e].phase, entry[e].replay, entry[e].transcript),
         v # None
  PROVE  Phases'
<1>1. PhaseOK(e)'
  BY DEF PhaseOK, Alters, Phases, IsTool
<1> QED BY <1>1, AltersPhases

\* The table is kept when it only reorders, loses entries or changes for one.
LEMMA TableKept ==
  ASSUME Table, Grows, NEW M \in SUBSET Mapped, OrderIs(M), UNCHANGED <<closed, draining>>
  PROVE  Table'
<1>1. M \subseteq Used /\ M \subseteq Used'
  BY DEF Table, Grows
<1>2. \A d, e \in M : entry'[d].key = entry'[e].key => d = e
  BY <1>1 DEF Table, Grows
<1>3. closed => order' = <<>>
  <2>1. ASSUME closed PROVE order' = <<>>
    <3>1. Mapped = {}
      BY <2>1 DEF Table, Mapped
    <3>2. ~(1 \in 1..Len(order')) /\ order' \in Seq(Entries)
      BY <3>1 DEF OrderIs, Mapped
    <3>3. Len(order') = 0
      BY <3>2, LenProperties
    <3> QED BY <3>2, <3>3, EmptySeq
  <2> QED BY <2>1
<1> QED BY <1>1, <1>2, <1>3 DEF Table, OrderIs

LEMMA TableTakes ==
  ASSUME Table, Grows, ~closed, NEW M \in SUBSET Mapped, NEW n \in Used', OrderIs(M \cup {n}),
         \A x \in M : entry[x].key # entry'[n].key, UNCHANGED <<closed, draining>>
  PROVE  Table'
<1>1. M \subseteq Used /\ M \cup {n} \subseteq Used'
  BY DEF Table, Grows
<1>2. \A d, e \in M \cup {n} : entry'[d].key = entry'[e].key => d = e
  BY <1>1 DEF Table, Grows
<1> QED BY <1>1, <1>2 DEF Table, OrderIs

LEMMA TableStays ==
  ASSUME Table, Grows, UNCHANGED <<order, closed, draining>>
  PROVE  Table' /\ Mapped' = Mapped
<1>1. Mapped' = Mapped
  BY DEF Mapped
<1>2. Mapped \subseteq Used /\ Mapped \subseteq Used'
  BY DEF Table, Grows
<1>3. \A d, e \in Mapped : entry'[d].key = entry'[e].key => d = e
  BY <1>2 DEF Table, Grows
<1> QED BY <1>1, <1>2, <1>3 DEF Table, Once

----------------------------------------------------------------------------
(* Who has reserved an entry.                                              *)

Holds(c, e) ==
  \/ /\ client[c].entry = e
     /\ client[c].pc \in {"turn", "aborting", "replay", "rebasing", "installed"}
  \/ client[c].old = e /\ client[c].pc = "rebasing"
Cancels(t, e) == t.do = "cancel" /\ t.old = e

\* At most one request, cleanup task or generation has an entry.
OneHolder(e) ==
  /\ \A c, d \in Clients : Holds(c, e) /\ Holds(d, e) => c = d
  /\ \A c \in Clients, t \in tasks : ~(Holds(c, e) /\ Cancels(t, e))
  /\ \A t, u \in tasks : Cancels(t, e) /\ Cancels(u, e) => t = u
  /\ entry[e].phase = "GENERATING" =>
       (\A c \in Clients : ~Holds(c, e)) /\ (\A t \in tasks : ~Cancels(t, e))

\* In the table, the reservation is that holder's.
IsHeld(e) ==
  /\ \A c \in Clients : Holds(c, e) => entry[e].in_flight = client[c].q
  /\ \A t \in tasks : Cancels(t, e) => entry[e].in_flight = t.q
  /\ entry[e].in_flight # None =>
       \/ \E c \in Clients : Holds(c, e)
       \/ \E t \in tasks : Cancels(t, e)
       \/ entry[e].phase = "GENERATING"
\* A candidate just installed keeps its reservation, even when close() takes it.
IsInstalled(e) ==
  \A c \in Clients : client[c].pc = "installed" /\ client[c].entry = e
                       => entry[e].in_flight = client[c].q
ReservationOK(e) ==
  entry[e].phase # "CLOSED" =>
    OneHolder(e) /\ IsInstalled(e) /\ (e \in Mapped => IsHeld(e))
Reservations == \A e \in Used : ReservationOK(e)

\* An entry whose turn is being aborted stays in the table until that is done.
Invalidations ==
  \A t \in tasks : t.do = "invalidate" /\ t.entry \in Mapped =>
    \E c \in Clients : client[c].pc = "aborting" /\ client[c].entry = t.entry

IInv == Sound /\ Reservations /\ Invalidations

LEMMA PhasesStep ==
  ASSUME IInv, [Next]_vars
  PROVE  Phases'
<1> USE DEF IInv, Sound
<1>1. ASSUME NEW c \in Clients, NEW key, NEW q, Asked(q, key), OpenFresh(c, key, q)
      PROVE  Phases'
  <2>1. PICK e \in Unused, k \in Sids \cup Uuids :
          /\ Creates(e, k, q, IF q.kind = "tool" THEN "GENERATING" ELSE "READY", q.history)
          /\ \A x \in Entries : x # e => entry'[x] = entry[x]
    BY <1>1, OpenFreshEffect
  <2>2. PhaseOK(e)'
    <3>1. q # None
      BY <1>1, NoneAssumption DEF Asked
    <3> QED BY <2>1, <3>1 DEF PhaseOK, Creates
  <2> QED BY <2>1, <2>2, PhaseKept DEF Phases, Creates, Used, Unused
<1>2. ASSUME NEW c \in Clients, NEW e \in Mapped, NEW key, NEW q, Asked(q, key),
             Admits1(c, key, q, e)
      PROVE  Phases'
  <2>1. e \in Used /\ q \in Request /\ q # None
    BY <1>2, NoneAssumption DEF Table, Asked
  <2>2. CASE OpenReplay(c, key, q, e)
    <3>1. Alters(e, q, entry[e].phase, entry[e].replay, entry[e].transcript)
      BY <1>2, <2>2, OpenReplayEffect
    <3> QED BY <2>1, <3>1, ReservedPhases
  <2>3. CASE OpenContinue(c, key, q, e)
    <3>1. Alters(e, q, IF IsTool(e) THEN "GENERATING" ELSE entry[e].phase, entry[e].replay,
                 entry[e].transcript)
      BY <1>2, <2>3, OpenContinueEffect
    <3> QED BY <2>1, <3>1, StartedPhases
  <2>4. CASE OpenExpired(c, key, q, e)
    <3>1. ActorCloses(e) /\ entry[e].phase = "WAITING_FOR_TOOLS"
      BY <1>2, <2>4, OpenExpiredEffect DEF ActorCloses
    <3>2. entry[e].kind # "text"
      BY <2>1, <3>1 DEF Phases, PhaseOK
    <3> QED BY <2>1, <3>1, <3>2, ClosedPhases
  <2>5. CASE OpenSettings(c, key, q, e) \/ OpenRewrite(c, key, q, e)
    <3>1. PICK n \in Unused, s \in Seq(Turn) : Rebases(c, e, n, q, s)
      BY <1>2, <2>5, OpenRebaseEffect
    <3>2. PhaseOK(n)' /\ PhaseOK(e)'
      BY <2>1, <3>1 DEF PhaseOK, Rebases, Creates, Phases
    <3>3. ASSUME NEW x \in Used', x \notin {e, n} PROVE PhaseOK(x)'
      <4>1. x \in Used /\ entry'[x] = entry[x]
        BY <3>1, <3>3 DEF Rebases, Creates, Used
      <4> QED BY <4>1, PhaseKept DEF Phases
    <3> QED BY <3>2, <3>3 DEF Phases
  <2> QED BY <1>2, <2>2, <2>3, <2>4, <2>5 DEF Admits1
<1>3. ASSUME NEW c \in Clients, InstallRebase(c) PROVE Phases'
  <2>1. PICK o \in Used : o = client[c].old
    BY <1>3, InstallRebaseEffect DEF Table
  <2>2. /\ Alters(o, None, entry[o].phase, entry[o].replay, entry[o].transcript)
        /\ client[c].pc = "rebasing"
    BY <1>3, <2>1, InstallRebaseEffect
  <2>3. entry[o].phase # "GENERATING"
    BY <2>1, <2>2 DEF Reservations, ReservationOK, OneHolder, Holds
  <2> QED BY <2>2, <2>3, ReservedPhases
<1>4. ASSUME NEW c \in Clients, InstallRemoved(c) PROVE Phases'
  <2>1. PICK n \in Used : n = client[c].entry
    BY <1>4, InstallRemovedEffect
  <2>2. /\ Alters(n, entry[n].in_flight, IF IsTool(n) THEN "GENERATING" ELSE entry[n].phase,
                  entry[n].replay, entry[n].transcript)
        /\ client[c].pc = "rebasing"
    BY <1>4, <2>1, InstallRemovedEffect
  <2>3. entry[n].in_flight # None
    BY <2>1, <2>2, NoneAssumption DEF Candidates, CandidateOfClient, References, LeaseOK
  <2> QED BY <2>2, <2>3, StartedPhases
<1>5. ASSUME NEW c \in Clients, RebaseProceeds(c) PROVE Phases'
  <2>1. PICK n \in Used : n = client[c].entry
    BY <1>5, RebaseProceedsEffect
  <2>2. CASE /\ Alters(n, Released(n, client[c].q), entry[n].phase, entry[n].replay,
                       entry[n].transcript)
             /\ OldClosed(n)
    BY <2>2, ReservedPhases DEF OldClosed
  <2>3. CASE /\ Alters(n, entry[n].in_flight, IF IsTool(n) THEN "GENERATING" ELSE entry[n].phase,
                       entry[n].replay, entry[n].transcript)
             /\ ~OldClosed(n)
    <3>1. entry[n].in_flight # None \/ entry[n].phase = "CLOSED"
      BY <1>5, <2>1, RebaseProceedsEffect, NoneAssumption
         DEF Reservations, ReservationOK, IsInstalled, References, LeaseOK
    <3>2. CASE entry[n].phase # "CLOSED"
      BY <2>3, <3>1, <3>2, StartedPhases
    <3>3. CASE entry[n].phase = "CLOSED"
      <4>1. entry[n].kind # "text"
        BY <3>3 DEF Phases, PhaseOK
      <4>2. IsTool(n) /\ OldClosed(n)
        BY <3>3, <4>1, UsedEntry, KindsAssumption DEF IsTool, OldClosed, Conversation, Used
      <4> QED BY <2>3, <4>2
    <3> QED BY <3>2, <3>3
  <2> QED BY <1>5, <2>1, <2>2, <2>3, RebaseProceedsEffect
<1>6. ASSUME NEW c \in Clients, RebaseCancelled(c) \/ ReplayEnds(c) PROVE Phases'
  <2>1. PICK e \in Used : e = client[c].entry
    BY <1>6, ReleaseEffect
  <2>2. /\ Alters(e, Released(e, client[c].q), entry[e].phase, entry[e].replay, entry[e].transcript)
        /\ client[c].pc \in {"installed", "replay"}
    BY <1>6, <2>1, ReleaseEffect
  <2>3. entry[e].phase # "GENERATING"
    BY <2>1, <2>2 DEF Reservations, ReservationOK, OneHolder, Holds
  <2> QED BY <2>2, <2>3, ReservedPhases
<1>7. ASSUME NEW c \in Clients, TurnCommits(c) PROVE Phases'
  <2>1. PICK e \in Used : e = client[c].entry
    BY <1>7, TurnCommitsEffect
  <2>2. PICK s \in Seq(Turn), q \in Request : Alters(e, None, entry[e].phase, q, s) /\ s # <<>>
    BY <1>7, <2>1, TurnCommitsEffect
  <2>3. entry[e].kind = "text"
    BY <1>7, <2>1, TurnCommitsEffect DEF References, LeaseOK
  <2>4. PhaseOK(e)'
    BY <2>2, <2>3 DEF PhaseOK, Phases, Alters
  <2> QED BY <2>2, <2>4, AltersPhases
<1>8. ASSUME NEW e \in Used, Invalidated(e), entry[e].phase # "GENERATING" PROVE Phases'
  BY <1>8, ReservedPhases, SamePhases DEF Invalidated
<1>9. ASSUME NEW c \in Clients, TurnFails(c) PROVE Phases'
  <2>1. PICK e \in Used : e = client[c].entry
    BY <1>9, TurnFailsEffect
  <2>2. Invalidated(e) /\ entry[e].phase # "GENERATING"
    BY <1>9, <2>1, TurnFailsEffect DEF Phases, PhaseOK
  <2> QED BY <1>8, <2>2
<1>10. ASSUME NEW c \in Clients, ToolLeaves(c) PROVE Phases'
  <2>1. PICK e \in Used : e = client[c].entry
    BY <1>10, ToolLeavesEffect
  <2>2. entry[e].kind # "text"
    BY <1>10, <2>1 DEF ToolLeaves, References, LeaseOK
  <2> QED BY <1>10, <2>1, <2>2, ToolLeavesEffect, ClosedPhases, SamePhases
<1>11. ASSUME NEW e \in Entries, ToolFails(e) PROVE Phases'
  BY <1>11, ToolFailsEffect, ClosedPhases DEF IsTool
<1>12. ASSUME NEW e \in Entries, NEW calls \in {None, e}, ToolCommits(e, calls) PROVE Phases'
  <2>1. PICK s \in Seq(Turn), f \in {"READY", "WAITING_FOR_TOOLS"}, q \in Request \cup {None} :
          Alters(e, None, f, q, s) /\ s # <<>>
    BY <1>12, ToolCommitsEffect
  <2>2. e \in Used /\ entry[e].kind = "tool"
    BY <1>12, ToolCommitsEffect DEF IsTool
  <2>3. PhaseOK(e)'
    BY <2>1, <2>2 DEF PhaseOK, Alters
  <2> QED BY <2>1, <2>2, <2>3, AltersPhases
<1>13. ASSUME NEW e \in Used, NEW T, ShutsDown(e, T), entry[e].kind = "tool" PROVE Phases'
  BY <1>13, ClosedPhases, SamePhases DEF ShutsDown
<1>14. ASSUME NEW t \in tasks, RunShutdown(t) PROVE Phases'
  BY <1>13, <1>14, RunShutdownEffect
<1>15. ASSUME NEW t \in tasks, RunNotify(t) PROVE Phases'
  <2>1. Invalidated(t.entry) /\ t.entry \in Used
    BY <1>15, RunNotifyEffect
  <2>2. entry[t.entry].phase # "GENERATING"
    BY <1>15, RunNotifyEffect DEF References, TaskOK, Phases, PhaseOK
  <2> QED BY <1>8, <2>1, <2>2
<1>16. ASSUME NEW t \in tasks, RunDiscard(t) PROVE Phases'
  BY <1>13, <1>16, RunDiscardEffect, SamePhases DEF IsTool
<1>17. ASSUME NEW t \in tasks, RunCancel(t) PROVE Phases'
  <2>1. PICK o \in Used : o = t.old
    BY <1>17, RunCancelEffect
  <2>2. /\ Alters(o, Released(o, t.q), entry[o].phase, entry[o].replay, entry[o].transcript)
        /\ t.do = "cancel"
    BY <1>17, <2>1, RunCancelEffect
  <2>3. entry[o].phase # "GENERATING"
    BY <2>1, <2>2 DEF Reservations, ReservationOK, OneHolder, Cancels
  <2> QED BY <2>2, <2>3, ReservedPhases DEF Released
<1>18. ASSUME UNCHANGED entry PROVE Phases'
  BY <1>18, SamePhases
<1>19. ASSUME NEW c \in Clients, InstallConflict(c) \/ RebaseFails(c) \/ Abort(c) PROVE Phases'
  BY <1>18, <1>19 DEF InstallConflict, RebaseFails, Abort
<1>20. ASSUME \/ Close \/ Drained \/ UNCHANGED vars \/ \E t \in tasks : RunDispose(t) PROVE Phases'
  BY <1>18, <1>20 DEF Close, Drained, RunDispose, vars
<1> QED
  BY <1>1, <1>2, <1>3, <1>4, <1>5, <1>6, <1>7, <1>9, <1>10, <1>11, <1>12, <1>14,
     <1>15, <1>16, <1>17, <1>19, <1>20, StepIs

LEMMA TableStep ==
  ASSUME IInv, [Next]_vars
  PROVE  Table'
<1> USE DEF IInv, Sound
<1>0. Grows
  BY ReferencesStep
<1>1. ASSUME NEW c \in Clients, NEW key, NEW q, Asked(q, key), OpenFresh(c, key, q)
      PROVE  Table'
  <2>1. PICK e \in Unused, k \in Sids \cup Uuids :
          /\ Creates(e, k, q, IF q.kind = "tool" THEN "GENERATING" ELSE "READY", q.history)
          /\ OrderIs((Mapped \ Evicted) \cup {e})
          /\ \A x \in Mapped : entry[x].key # k
    BY <1>1, OpenFreshEffect
  <2>2. /\ Mapped \ Evicted \in SUBSET Mapped /\ e \in Used' /\ entry'[e].key = k
        /\ ~closed /\ UNCHANGED <<closed, draining>>
    BY <1>1, <2>1, OpenFreshEffect DEF Creates
  <2> QED BY <1>0, <2>1, <2>2, TableTakes
<1>2. ASSUME NEW c \in Clients, NEW e \in Mapped, NEW key, NEW q, Asked(q, key),
             Admits1(c, key, q, e)
      PROVE  Table'
  <2>1. OrderIs(Mapped) /\ UNCHANGED <<closed, draining>>
    BY <1>2, OpenReplayEffect, OpenContinueEffect, OpenExpiredEffect, OpenRebaseEffect DEF Admits1
  <2> QED BY <1>0, <2>1, TableKept
<1>3. ASSUME NEW c \in Clients, InstallRebase(c) PROVE Table'
  <2>1. PICK n \in Used, o \in Mapped : n = client[c].entry /\ o = client[c].old
    BY <1>3, InstallRebaseEffect
  <2>2. OrderIs((Mapped \ {o}) \cup {n}) /\ ~closed /\ UNCHANGED <<closed, draining>>
    BY <1>3, <2>1, InstallRebaseEffect
  <2>3. n \in Used' /\ entry'[n].key = entry[n].key /\ entry[n].key = entry[o].key
    BY <1>0, <1>3, <2>1 DEF InstallRebase, Candidates, CandidateOfClient, Grows
  <2>4. \A x \in Mapped \ {o} : entry[x].key # entry'[n].key
    BY <2>3 DEF Table
  <2> QED BY <1>0, <2>2, <2>3, <2>4, TableTakes
<1>4. ASSUME NEW c \in Clients, InstallRemoved(c) PROVE Table'
  <2>1. PICK n \in Used : n = client[c].entry
    BY <1>4, InstallRemovedEffect
  <2>2. /\ OrderIs((Mapped \ Evicted) \cup {n}) /\ ~closed /\ UNCHANGED <<closed, draining>>
        /\ Named(entry[n].key) = {} /\ Mapped \ Evicted \in SUBSET Mapped
    BY <1>4, <2>1, InstallRemovedEffect
  <2>3. n \in Used' /\ entry'[n].key = entry[n].key
    BY <1>0 DEF Grows
  <2>4. \A x \in Mapped : entry[x].key # entry'[n].key
    BY <2>2, <2>3 DEF Named
  <2> QED BY <1>0, <2>2, <2>3, <2>4, TableTakes
<1>5. ASSUME NEW e \in Used, Invalidated(e), UNCHANGED <<closed, draining>> PROVE Table'
  BY <1>0, <1>5, TableKept, TableStays DEF Invalidated
<1>6. ASSUME NEW c \in Clients, TurnFails(c) PROVE Table'
  BY <1>5, <1>6, TurnFailsEffect
<1>7. ASSUME NEW t \in tasks, RunNotify(t) PROVE Table'
  BY <1>5, <1>7, RunNotifyEffect
<1>8. ASSUME UNCHANGED <<order, closed, draining>> PROVE Table'
  BY <1>0, <1>8, TableStays
<1>9. ASSUME NEW c \in Clients,
             \/ InstallConflict(c) \/ RebaseFails(c) \/ RebaseProceeds(c) \/ RebaseCancelled(c)
             \/ ReplayEnds(c) \/ TurnCommits(c) \/ Abort(c) \/ ToolLeaves(c)
      PROVE  Table'
  BY Zenon, <1>8, <1>9 DEF InstallConflict, RebaseFails, RebaseProceeds, RebaseCancelled, ReplayEnds,
                   TurnCommits, Abort, ToolLeaves
<1>10. ASSUME NEW e \in Entries, ToolFails(e) \/ \E calls \in {None, e} : ToolCommits(e, calls)
       PROVE  Table'
  BY Zenon, <1>8, <1>10 DEF ToolFails, ToolCommits
<1>11. ASSUME NEW t \in tasks, RunShutdown(t) \/ RunDiscard(t) \/ RunDispose(t) \/ RunCancel(t)
       PROVE  Table'
  BY <1>8, <1>11 DEF RunShutdown, RunDiscard, RunDispose, RunCancel
<1>12. ASSUME Close PROVE Table'
  <2>1. Len(order') = 0 /\ 0 <= MaxSessions
    BY <1>12, CapacityAssumption, CloseEffect
  <2> QED BY <1>12, <2>1, CloseEffect DEF Table
<1>13. ASSUME Drained PROVE Table'
  <2>1. UNCHANGED <<order, closed>> /\ draining' = {} /\ Mapped' = Mapped
    BY <1>13, DrainedEffect DEF Mapped
  <2>2. Mapped \subseteq Used' /\ \A d, e \in Mapped : entry'[d].key = entry'[e].key => d = e
    BY <1>0 DEF Table, Grows
  <2> QED BY <2>1, <2>2 DEF Table, Once
<1>14. ASSUME UNCHANGED vars PROVE Table'
  BY <1>8, <1>14 DEF vars
<1> QED
  BY <1>1, <1>2, <1>3, <1>4, <1>6, <1>7, <1>9, <1>10, <1>11, <1>12, <1>13, <1>14, StepIs

----------------------------------------------------------------------------
(* Candidates stay alone.                                                  *)

\* A conversation that awaits results after the step did so before.
KeepsParked ==
  \A e \in Used : entry'[e].phase = "WAITING_FOR_TOOLS" =>
    entry[e].phase = "WAITING_FOR_TOOLS" /\ entry'[e].transcript = entry[e].transcript

\* No candidate that a client or a task keeps is among the entries X.
Outside(X) ==
  /\ \A c \in Clients : client[c].pc = "rebasing" /\ client'[c] = client[c]
                        => client[c].entry \notin X
  /\ \A t \in tasks : t.do = "cancel" /\ t \in tasks' => t.entry \notin X

\* The step changes and names no entries but those of X.
Within(X) ==
  /\ \A e \in Used : e \notin X => entry'[e] = entry[e]
  /\ \A c \in Clients, e \in Used : NamedBy(c, e)' => NamedBy(c, e) \/ e \in X
  /\ \A t \in tasks', e \in Used : Concerns(t, e) => t \in tasks \/ e \in X

LEMMA AltersParks ==
  ASSUME TypeOK, NEW e \in Used, NEW v, NEW f, NEW p, NEW s, Alters(e, v, f, p, s),
         \/ f = entry[e].phase /\ s = entry[e].transcript
         \/ f \in {"READY", "GENERATING", "CLOSED"}
  PROVE  KeepsParked
  BY DEF KeepsParked, Alters, Used

LEMMA StartParks ==
  ASSUME TypeOK, NEW e \in Used, NEW v, NEW p,
         Alters(e, v, IF IsTool(e) THEN "GENERATING" ELSE entry[e].phase, p, entry[e].transcript)
  PROVE  KeepsParked
  BY AltersParks

LEMMA SameParks ==
  ASSUME UNCHANGED entry
  PROVE  KeepsParked
  BY DEF KeepsParked

LEMMA NamedOutside ==
  ASSUME Candidates, NEW c \in Clients, NEW e, NamedBy(c, e),
         client[c].pc # "rebasing" \/ client'[c] # client[c]
  PROVE  Outside({e})
  BY DEF Candidates, CandidateOfClient, CandidateOfTask, Outside

LEMMA ConcernedOutside ==
  ASSUME Candidates, NEW t \in tasks, NEW e, Concerns(t, e), t.do # "cancel" \/ t \notin tasks'
  PROVE  Outside({e})
  BY DEF Candidates, CandidateOfClient, CandidateOfTask, Outside

LEMMA MappedOutside ==
  ASSUME Placed, References, NEW X, X \subseteq Mapped \cup Unused
  PROVE  Outside(X)
  BY DEF Placed, PlacedOnce, Starting, References, LeaseOK, TaskOK, Outside, Used

LEMMA NoCandidateOutside ==
  ASSUME Candidates, NEW e, ~Candidate(e)
  PROVE  Outside({e})
  BY DEF Candidates, CandidateOfClient, CandidateOfTask, Outside

LEMMA OutsideBoth ==
  ASSUME NEW X, NEW Y, Outside(X), Outside(Y)
  PROVE  Outside(X \cup Y)
  BY DEF Outside

\* Candidates outside of what a step touches are kept.
LEMMA CandidatesKept ==
  ASSUME Candidates, References, Grows, KeepsParked, NEW X, Outside(X), Within(X),
         \A c \in Clients : client'[c].pc = "rebasing" =>
           client'[c] = client[c] \/ CandidateOfClient(c)',
         \A t \in tasks' : t.do = "cancel" => t \in tasks \/ CandidateOfTask(t)'
  PROVE  Candidates'
<1>1. ASSUME NEW c \in Clients, client[c].pc = "rebasing", client'[c] = client[c]
      PROVE  CandidateOfClient(c)'
  <2>1. PICK n \in Used, o \in Used : n = client[c].entry /\ o = client[c].old
    BY <1>1 DEF References, LeaseOK
  <2>2. n \notin X /\ CandidateOfClient(c)
    BY <1>1, <2>1 DEF Outside, Candidates
  <2>3. /\ entry'[n] = entry[n] /\ entry'[o].key = entry[o].key
        /\ client'[c].entry = n /\ client'[c].old = o /\ client'[c].q = client[c].q
    BY <1>1, <2>1, <2>2 DEF Within, Grows
  <2>4. \A d \in Clients : d # c => ~NamedBy(d, n)'
    BY <2>1, <2>2 DEF CandidateOfClient, Within
  <2>5. \A t \in tasks' : ~Concerns(t, n)
    BY <2>1, <2>2 DEF CandidateOfClient, Within
  <2>6. entry'[o].phase = "WAITING_FOR_TOOLS" =>
          CallsAtEnd(entry'[n].transcript) = CallsAtEnd(entry'[o].transcript)
    BY <2>1, <2>2, <2>3 DEF CandidateOfClient, KeepsParked
  <2>7. o # n /\ Candidate(n)' /\ entry'[n].in_flight = client'[c].q /\ entry'[n].key = entry'[o].key
    BY <2>1, <2>2, <2>3 DEF CandidateOfClient, Candidate
  <2>8. \A d \in Clients : d # c => ~NamedBy(d, client[c].entry)'
    BY <1>1, <2>1, <2>3, <2>4 DEF NamedBy
  <2>9. Candidate(client[c].entry)'
    BY <2>3, <2>7 DEF Candidate
  <2> QED BY <2>3, <2>5, <2>6, <2>7, <2>8, <2>9 DEF CandidateOfClient
<1>2. ASSUME NEW t \in tasks, t \in tasks', t.do = "cancel"
      PROVE  CandidateOfTask(t)'
  <2>1. t.entry \in Used /\ t.entry \notin X /\ CandidateOfTask(t)
    BY <1>2 DEF References, TaskOK, Outside, Candidates
  <2>2. entry'[t.entry] = entry[t.entry]
    BY <2>1 DEF Within
  <2> QED BY <1>2, <2>1, <2>2 DEF CandidateOfTask, Within, Candidate
<1> QED BY <1>1, <1>2 DEF Candidates

\* What names or concerns a given entry.
LEMMA TurnNames ==
  ASSUME NEW c \in Clients, NEW e, NEW q, Turning(c, e, q)
  PROVE  \A d \in Clients, x \in Used : NamedBy(d, x)' => NamedBy(d, x) \/ x = e
<1> SUFFICES ASSUME NEW d \in Clients, NEW x \in Used, NamedBy(d, x)'
             PROVE  NamedBy(d, x) \/ x = e
  OBVIOUS
<1>1. x # None
  BY NoneAssumption DEF Used
<1>2. CASE d = c
  BY <1>1, <1>2, TurningTurns DEF NamedBy
<1>3. CASE d # c
  BY <1>3, TurningTurns DEF NamedBy
<1> QED BY <1>2, <1>3

LEMMA IdleNames ==
  ASSUME NEW c \in Clients, Leases(c, Idle)
  PROVE  \A d \in Clients, x \in Used : NamedBy(d, x)' => NamedBy(d, x)
<1> SUFFICES ASSUME NEW d \in Clients, NEW x \in Used, NamedBy(d, x)'
             PROVE  NamedBy(d, x)
  OBVIOUS
<1>1. x # None
  BY NoneAssumption DEF Used
<1>2. CASE d = c
  BY <1>1, <1>2 DEF NamedBy, Leases, Idle
<1>3. CASE d # c
  BY <1>3 DEF NamedBy, Leases
<1> QED BY <1>2, <1>3

LEMMA TaskConcerns ==
  ASSUME NEW do \in {"shutdown", "notify", "invalidate", "discard", "dispose"}, NEW e \in Entries
  PROVE  /\ \A x \in Used : Concerns(Task(do, e), x) => x = e
         /\ Task(do, e).do = do /\ Task(do, e).do # "cancel"
  BY NoneAssumption DEF Concerns, Task, Used

LEMMA ShutdownsConcern ==
  ASSUME NEW E \in SUBSET Entries, NEW t \in Shutdowns(E)
  PROVE  t.do # "cancel" /\ \A x \in Used : Concerns(t, x) => x \in E
  BY ShutdownsAreJobs, NoneAssumption DEF Concerns, Used

LEMMA AltersWithin ==
  ASSUME NEW e \in Used, NEW v, NEW f, NEW p, NEW s, Alters(e, v, f, p, s),
         \A d \in Clients, x \in Used : NamedBy(d, x)' => NamedBy(d, x) \/ x = e,
         \A t \in tasks', x \in Used : Concerns(t, x) => t \in tasks \/ x = e
  PROVE  Within({e})
  BY DEF Within, Alters, Used

LEMMA SameWithin ==
  ASSUME UNCHANGED entry, NEW X,
         \A d \in Clients, x \in Used : NamedBy(d, x)' => NamedBy(d, x) \/ x \in X,
         \A t \in tasks', x \in Used : Concerns(t, x) => t \in tasks \/ x \in X
  PROVE  Within(X)
  BY DEF Within

LEMMA CandidatesStep ==
  ASSUME IInv, [Next]_vars
  PROVE  Candidates'
<1> USE DEF IInv, Sound
<1>0. Grows
  BY ReferencesStep
<1>1. ASSUME NEW c \in Clients, NEW key, NEW q, Asked(q, key), OpenFresh(c, key, q)
      PROVE  Candidates'
  <2>1. PICK e \in Unused, k \in Sids \cup Uuids :
          /\ Creates(e, k, q, IF q.kind = "tool" THEN "GENERATING" ELSE "READY", q.history)
          /\ \A x \in Entries : x # e => entry'[x] = entry[x]
          /\ Turning(c, e, q)
    BY <1>1, OpenFreshEffect
  <2>2. /\ Evicted \subseteq Mapped /\ Evicted \in SUBSET Entries
        /\ tasks' = tasks \cup Shutdowns(Evicted)
    BY <1>1, OpenFreshEffect DEF Table, Used
  <2>3. KeepsParked
    BY <2>1 DEF KeepsParked, Used
  <2>4. Outside(Evicted \cup {e})
    BY <2>1, <2>2, MappedOutside
  <2>5. Within(Evicted \cup {e})
    <3>1. \A t \in tasks', x \in Used : Concerns(t, x) => t \in tasks \/ x \in Evicted
      BY <2>2, ShutdownsConcern
    <3> QED BY <2>1, <3>1, TurnNames DEF Within, Used
  <2>6. \A d \in Clients : client'[d].pc = "rebasing" => client'[d] = client[d]
    BY <2>1, TurningTurns
  <2>7. \A t \in tasks' : t.do = "cancel" => t \in tasks
    BY <2>2, ShutdownsConcern
  <2> QED BY <1>0, <2>3, <2>4, <2>5, <2>6, <2>7, CandidatesKept
<1>2. ASSUME NEW c \in Clients, NEW e \in Mapped, NEW key, NEW q, Asked(q, key),
             Admits1(c, key, q, e)
      PROVE  Candidates'
  <2>1. e \in Used /\ e \in Entries /\ e # None /\ Outside({e})
    BY MappedOutside, NoneAssumption DEF Table, Used
  <2>2. CASE OpenReplay(c, key, q, e)
    <3>1. /\ Alters(e, q, entry[e].phase, entry[e].replay, entry[e].transcript)
          /\ Leases(c, [Idle EXCEPT !.pc = "replay", !.entry = e, !.q = q])
          /\ tasks' = tasks
      BY <1>2, <2>2, OpenReplayEffect
    <3>2. /\ client'[c].pc = "replay" /\ client'[c].entry = e /\ client'[c].old = None
          /\ \A d \in Clients : d # c => client'[d] = client[d]
      BY <3>1 DEF Leases, Idle
    <3>3. \A d \in Clients, x \in Used : NamedBy(d, x)' => NamedBy(d, x) \/ x = e
      BY <3>2, NoneAssumption DEF NamedBy, Used
    <3>4. Within({e})
      BY <2>1, <3>1, <3>3, AltersWithin
    <3>5. KeepsParked
      BY <2>1, <3>1, AltersParks
    <3> QED BY <1>0, <2>1, <3>1, <3>2, <3>4, <3>5, CandidatesKept
  <2>3. CASE OpenContinue(c, key, q, e)
    <3>1. /\ Alters(e, q, IF IsTool(e) THEN "GENERATING" ELSE entry[e].phase, entry[e].replay,
                    entry[e].transcript)
          /\ Turning(c, e, q) /\ tasks' = tasks
      BY <1>2, <2>3, OpenContinueEffect
    <3>2. Within({e})
      BY <2>1, <3>1, AltersWithin, TurnNames
    <3>3. KeepsParked
      BY <2>1, <3>1, StartParks
    <3>4. \A d \in Clients : client'[d].pc = "rebasing" => client'[d] = client[d]
      BY <3>1, TurningTurns
    <3> QED BY <1>0, <2>1, <3>1, <3>2, <3>3, <3>4, CandidatesKept
  <2>4. CASE OpenExpired(c, key, q, e)
    <3>1. /\ Alters(e, None, "CLOSED", entry[e].replay, entry[e].transcript)
          /\ client' = client /\ tasks' = tasks \cup {Task("notify", e)}
      BY <1>2, <2>4, OpenExpiredEffect
    <3>2. \A t \in tasks', x \in Used : Concerns(t, x) => t \in tasks \/ x = e
      BY <2>1, <3>1, TaskConcerns
    <3>3. Within({e})
      BY <2>1, <3>1, <3>2, AltersWithin DEF NamedBy
    <3>4. KeepsParked
      BY <2>1, <3>1, AltersParks
    <3>5. \A t \in tasks' : t.do = "cancel" => t \in tasks
      BY <2>1, <3>1, TaskConcerns
    <3> QED BY <1>0, <2>1, <3>1, <3>3, <3>4, <3>5, CandidatesKept
  <2>5. CASE OpenSettings(c, key, q, e) \/ OpenRewrite(c, key, q, e)
    <3>1. PICK n \in Unused, s \in Seq(Turn) :
            /\ Rebases(c, e, n, q, s)
            /\ entry[e].phase = "WAITING_FOR_TOOLS" =>
                 CallsAtEnd(s) = CallsAtEnd(entry[e].transcript)
      BY <1>2, <2>5, OpenRebaseEffect
    <3>2. /\ tasks' = tasks /\ client[c].pc = "idle"
      BY <1>2, <2>5, OpenRebaseEffect
    <3>3. /\ client'[c].pc = "rebasing" /\ client'[c].entry = n /\ client'[c].old = e
          /\ client'[c].q = q /\ n # e /\ n # None
          /\ \A d \in Clients : d # c => client'[d] = client[d]
      BY <3>1, NoneAssumption DEF Rebases, Leases, Unused
    <3>4. Within({e})
      <4>1. \A d \in Clients, x \in Used : NamedBy(d, x)' => NamedBy(d, x) \/ x = e
        BY <3>1, <3>3 DEF NamedBy, Used
      <4> QED BY <3>1, <3>2, <4>1 DEF Within, Rebases, Used
    <3>5. KeepsParked
      BY <3>1 DEF KeepsParked, Rebases, Used
    <3>6. CandidateOfClient(c)'
      <4>1. ASSUME NEW d \in Clients, d # c PROVE ~NamedBy(d, n)'
        BY <3>1, <3>3, <4>1 DEF References, LeaseOK, Used, NamedBy
      <4>2. ASSUME NEW t \in tasks PROVE ~Concerns(t, n)
        <5>1. t.entry \in Used /\ (t.old \in Used \/ t.old = None)
          BY TaskIsJob DEF References, TaskOK, Task
        <5> QED BY <3>1, <3>3, <5>1 DEF Concerns, Used
      <4>3. /\ Candidate(n)' /\ entry'[n].in_flight = q /\ entry'[n].key = entry'[e].key
            /\ entry'[e].phase = "WAITING_FOR_TOOLS" =>
                 CallsAtEnd(entry'[n].transcript) = CallsAtEnd(entry'[e].transcript)
        BY <3>1 DEF Rebases, Creates, Candidate
      <4>4. Candidate(client[c].entry)'
        BY <3>3, <4>3 DEF Candidate
      <4>5. \A d \in Clients : d # c => ~NamedBy(d, client[c].entry)'
        BY <3>3, <4>1 DEF NamedBy
      <4> QED BY <3>2, <3>3, <4>2, <4>3, <4>4, <4>5 DEF CandidateOfClient
    <3>7. \A d \in Clients : client'[d] = client[d] \/ CandidateOfClient(d)'
      BY <3>3, <3>6
    <3> QED BY <1>0, <2>1, <3>2, <3>4, <3>5, <3>7, CandidatesKept
  <2> QED BY <1>2, <2>2, <2>3, <2>4, <2>5 DEF Admits1
<1>3. ASSUME NEW c \in Clients, InstallRebase(c) PROVE Candidates'
  <2>1. PICK n \in Used, o \in Mapped : n = client[c].entry /\ o = client[c].old
    BY <1>3, InstallRebaseEffect
  <2>2. /\ Alters(o, None, entry[o].phase, entry[o].replay, entry[o].transcript)
        /\ client[c].pc = "rebasing" /\ Leases(c, [client[c] EXCEPT !.pc = "installed"])
        /\ tasks' = tasks \cup {Task("discard", o)} /\ o \in Used /\ o \in Entries
        /\ client[c] \in Lease
    BY <1>3, <2>1, InstallRebaseEffect DEF Table, Used, TypeOK
  <2>3. /\ client'[c].pc = "installed" /\ client'[c].entry = n /\ client'[c].old = o
        /\ \A d \in Clients : d # c => client'[d] = client[d]
    BY <2>1, <2>2 DEF Leases, Lease
  <2>4. Within({o})
    <3>1. \A d \in Clients, x \in Used : NamedBy(d, x)' => NamedBy(d, x) \/ x = o
      BY <2>1, <2>3 DEF NamedBy
    <3>2. \A t \in tasks', x \in Used : Concerns(t, x) => t \in tasks \/ x = o
      BY <2>2, TaskConcerns
    <3> QED BY <2>2, <3>1, <3>2, AltersWithin
  <2>5. Outside({o}) /\ KeepsParked
    BY <2>2, MappedOutside, AltersParks
  <2>6. \A t \in tasks' : t.do = "cancel" => t \in tasks
    BY <2>2, TaskConcerns
  <2>7. \A d \in Clients : client'[d].pc = "rebasing" => client'[d] = client[d]
    BY <2>3
  <2> QED BY <1>0, <2>4, <2>5, <2>6, <2>7, CandidatesKept
<1>4. ASSUME NEW c \in Clients, InstallRemoved(c) PROVE Candidates'
  <2>1. PICK n \in Used : n = client[c].entry
    BY <1>4, InstallRemovedEffect
  <2>2. /\ Alters(n, entry[n].in_flight, IF IsTool(n) THEN "GENERATING" ELSE entry[n].phase,
                  entry[n].replay, entry[n].transcript)
        /\ Evicted \subseteq Mapped /\ Evicted \in SUBSET Entries
        /\ client[c].pc = "rebasing" /\ Turning(c, n, client[c].q)
        /\ tasks' = tasks \cup Shutdowns(Evicted)
    BY <1>4, <2>1, InstallRemovedEffect DEF Table, Used
  <2>3. client'[c] # client[c] /\ \A d \in Clients : client'[d].pc = "rebasing" => client'[d] = client[d]
    BY <2>2, TurningTurns
  <2>4. Outside(Evicted \cup {n})
    <3>1. Outside({n})
      BY <2>1, <2>3, NamedOutside DEF NamedBy
    <3>2. Outside(Evicted)
      BY <2>2, MappedOutside
    <3> QED BY <3>1, <3>2, OutsideBoth
  <2>5. Within(Evicted \cup {n})
    <3>1. \A t \in tasks', x \in Used : Concerns(t, x) => t \in tasks \/ x \in Evicted
      BY <2>2, ShutdownsConcern
    <3> QED BY <2>2, <3>1, TurnNames DEF Within, Used, Alters
  <2>6. KeepsParked
    BY <2>2, StartParks
  <2>7. \A t \in tasks' : t.do = "cancel" => t \in tasks
    BY <2>2, ShutdownsConcern
  <2> QED BY <1>0, <2>3, <2>4, <2>5, <2>6, <2>7, CandidatesKept
<1>5. ASSUME NEW c \in Clients, InstallConflict(c) PROVE Candidates'
  <2>1. PICK n \in Used : n = client[c].entry
    BY <1>5, InstallConflictEffect
  <2>2. /\ client[c].pc = "rebasing" /\ Leases(c, Idle) /\ n \in Entries
        /\ tasks' = tasks \cup {Task("discard", n)} /\ UNCHANGED entry
    BY <1>5, <2>1, InstallConflictEffect DEF Used
  <2>3. client'[c].pc = "idle" /\ \A d \in Clients : client'[d].pc = "rebasing" => client'[d] = client[d]
    BY <2>2 DEF Leases, Idle
  <2>4. Outside({n}) /\ KeepsParked
    BY <2>1, <2>2, <2>3, NamedOutside, SameParks DEF NamedBy
  <2>5. \A t \in tasks', x \in Used : Concerns(t, x) => t \in tasks \/ x \in {n}
    BY <2>2, TaskConcerns
  <2>6. Within({n})
    BY <2>2, <2>5, IdleNames, SameWithin
  <2>7. \A t \in tasks' : t.do = "cancel" => t \in tasks
    BY <2>2, TaskConcerns
  <2> QED BY <1>0, <2>3, <2>4, <2>6, <2>7, CandidatesKept
<1>6. ASSUME NEW c \in Clients, RebaseFails(c) PROVE Candidates'
  <2>1. PICK n \in Used, o \in Used : n = client[c].entry /\ o = client[c].old
    BY <1>6, RebaseFailsEffect DEF References, LeaseOK
  <2>2. PICK u : u = CancelTask(c)
    OBVIOUS
  <2>3. /\ client[c].pc = "rebasing" /\ Leases(c, Idle) /\ UNCHANGED entry
        /\ tasks' = tasks \cup {u} /\ u.entry = n /\ u.old = o
    BY <1>6, <2>1, <2>2, RebaseFailsEffect
  <2>4. /\ client'[c].pc = "idle" /\ client'[c].entry = None /\ client'[c].old = None
        /\ \A d \in Clients : d # c => client'[d] = client[d]
    BY <2>3 DEF Leases, Idle
  <2>5. CandidateOfClient(c)
    BY <2>3 DEF Candidates
  <2>6. Outside({n} \cup {o}) /\ KeepsParked
    BY <2>1, <2>3, <2>4, NamedOutside, OutsideBoth, SameParks DEF NamedBy
  <2>7. Within({n} \cup {o})
    <3>1. \A t \in tasks', x \in Used : Concerns(t, x) => t \in tasks \/ x \in {n} \cup {o}
      BY <2>3 DEF Concerns
    <3>2. \A d \in Clients, x \in Used : NamedBy(d, x)' => NamedBy(d, x) \/ x \in {n} \cup {o}
      BY <2>3, IdleNames
    <3> QED BY <2>3, <3>1, <3>2, SameWithin
  <2>8. CandidateOfTask(u)'
    <3>1. n # None /\ n # o
      BY <2>1, <2>5, NoneAssumption DEF CandidateOfClient, Used
    <3>2. \A d \in Clients : ~NamedBy(d, n)'
      BY <2>1, <2>4, <2>5, <3>1 DEF CandidateOfClient, NamedBy
    <3>3. \A t \in tasks' : t # u => ~Concerns(t, n)
      BY <2>1, <2>3, <2>5 DEF CandidateOfClient
    <3>4. Candidate(n)'
      BY <2>1, <2>3, <2>5 DEF CandidateOfClient, Candidate
    <3> QED BY <2>3, <3>1, <3>2, <3>3, <3>4 DEF CandidateOfTask
  <2>9. \A d \in Clients : client'[d].pc = "rebasing" => client'[d] = client[d]
    BY <2>4
  <2>10. \A t \in tasks' : t \in tasks \/ CandidateOfTask(t)'
    BY <2>3, <2>8
  <2> QED BY <1>0, <2>6, <2>7, <2>9, <2>10, CandidatesKept
\* A step of a client that is not rebasing, on the entry it names.
<1>7. ASSUME NEW c \in Clients, client[c].pc # "rebasing", NEW e \in Used, e = client[c].entry,
             NEW v, NEW f, NEW p, NEW s, Alters(e, v, f, p, s) \/ UNCHANGED entry,
             KeepsParked, Leases(c, Idle) \/ \E q : Turning(c, e, q),
             \A t \in tasks' : t \in tasks \/ \E do \in {"notify", "invalidate"} : t = Task(do, e)
      PROVE  Candidates'
  <2>1. Outside({e})
    BY <1>7, NamedOutside DEF NamedBy
  <2>2. /\ \A d \in Clients : client'[d].pc = "rebasing" => client'[d] = client[d]
        /\ \A d \in Clients, x \in Used : NamedBy(d, x)' => NamedBy(d, x) \/ x = e
    <3>1. CASE Leases(c, Idle)
      <4>1. client'[c].pc = "idle" /\ \A d \in Clients : d # c => client'[d] = client[d]
        BY <3>1 DEF Leases, Idle
      <4>2. \A d \in Clients, x \in Used : NamedBy(d, x)' => NamedBy(d, x)
        BY <3>1, IdleNames
      <4> QED BY <4>1, <4>2
    <3>2. CASE \E q : Turning(c, e, q)
      <4>1. PICK q : Turning(c, e, q)
        BY <3>2
      <4>2. \A d \in Clients : client'[d].pc = "rebasing" => client'[d] = client[d]
        BY <4>1, TurningTurns
      <4>3. \A d \in Clients, x \in Used : NamedBy(d, x)' => NamedBy(d, x) \/ x = e
        BY <4>1, TurnNames
      <4> QED BY <4>2, <4>3
    <3> QED BY <1>7, <3>1, <3>2
  <2>3. e \in Entries
    BY DEF Used
  <2>4. \A t \in tasks' : /\ t.do = "cancel" => t \in tasks
                          /\ \A x \in Used : Concerns(t, x) => t \in tasks \/ x = e
    BY <1>7, <2>3, TaskConcerns
  <2>5. Within({e})
    BY <1>7, <2>2, <2>4, AltersWithin, SameWithin
  <2> QED BY <1>0, <1>7, <2>1, <2>2, <2>4, <2>5, CandidatesKept
<1>8. ASSUME NEW c \in Clients, RebaseProceeds(c) PROVE Candidates'
  <2>1. PICK n \in Used : n = client[c].entry
    BY <1>8, RebaseProceedsEffect
  <2>2. client[c].pc # "rebasing" /\ tasks' = tasks
    BY <1>8, RebaseProceedsEffect
  <2>3. CASE /\ Leases(c, Idle)
             /\ Alters(n, Released(n, client[c].q), entry[n].phase, entry[n].replay,
                       entry[n].transcript)
    <3>1. KeepsParked
      BY <2>3, AltersParks
    <3> QED BY <1>7, <2>1, <2>2, <2>3, <3>1
  <2>4. CASE /\ Turning(c, n, client[c].q)
             /\ Alters(n, entry[n].in_flight, IF IsTool(n) THEN "GENERATING" ELSE entry[n].phase,
                       entry[n].replay, entry[n].transcript)
    <3>1. KeepsParked
      BY <2>4, StartParks
    <3> QED BY <1>7, <2>1, <2>2, <2>4, <3>1
  <2> QED BY <1>8, <2>1, <2>3, <2>4, RebaseProceedsEffect
<1>9. ASSUME NEW c \in Clients, RebaseCancelled(c) \/ ReplayEnds(c) PROVE Candidates'
  <2>1. PICK e \in Used : e = client[c].entry
    BY <1>9, ReleaseEffect
  <2>2. /\ Alters(e, Released(e, client[c].q), entry[e].phase, entry[e].replay, entry[e].transcript)
        /\ client[c].pc # "rebasing" /\ tasks' = tasks /\ Leases(c, Idle)
    BY <1>9, <2>1, ReleaseEffect
  <2>3. KeepsParked
    BY <2>2, AltersParks
  <2> QED BY <1>7, <2>1, <2>2, <2>3
<1>10. ASSUME NEW c \in Clients, TurnCommits(c) PROVE Candidates'
  <2>1. PICK e \in Used : e = client[c].entry
    BY <1>10, TurnCommitsEffect
  <2>2. PICK s \in Seq(Turn), q \in Request : Alters(e, None, entry[e].phase, q, s) /\ s # <<>>
    BY <1>10, <2>1, TurnCommitsEffect
  <2>3. client[c].pc # "rebasing" /\ tasks' = tasks /\ Leases(c, Idle) /\ entry[e].kind = "text"
    BY <1>10, <2>1, TurnCommitsEffect DEF References, LeaseOK
  <2>4. KeepsParked
    BY <2>2, <2>3, AltersParks DEF Phases, PhaseOK
  <2> QED BY <1>7, <2>1, <2>2, <2>3, <2>4
<1>11. ASSUME NEW c \in Clients, TurnFails(c) PROVE Candidates'
  <2>1. PICK e \in Used : e = client[c].entry
    BY <1>11, TurnFailsEffect
  <2>2. /\ \/ Alters(e, None, entry[e].phase, entry[e].replay, entry[e].transcript)
           \/ UNCHANGED entry
        /\ client[c].pc # "rebasing" /\ tasks' = tasks /\ Leases(c, Idle)
    BY <1>11, <2>1, TurnFailsEffect DEF Invalidated
  <2>3. KeepsParked
    BY <2>2, AltersParks, SameParks
  <2> QED BY <1>7, <2>1, <2>2, <2>3
<1>12. ASSUME NEW c \in Clients, Abort(c) PROVE Candidates'
  <2>1. PICK e \in Used : e = client[c].entry
    BY <1>12, AbortEffect
  <2>2. /\ client[c].pc = "turn" /\ Leases(c, [client[c] EXCEPT !.pc = "aborting"])
        /\ tasks' = tasks \cup {Task("invalidate", e)} /\ UNCHANGED entry /\ client[c] \in Lease
        /\ e \in Entries
    BY <1>12, <2>1, AbortEffect DEF TypeOK, Used
  <2>3. /\ client'[c].pc = "aborting" /\ client'[c].entry = client[c].entry
        /\ client'[c].old = client[c].old
        /\ \A d \in Clients : d # c => client'[d] = client[d]
    BY <2>2 DEF Leases, Lease
  <2>4. Outside({e}) /\ KeepsParked
    BY <2>1, <2>2, NamedOutside, SameParks DEF NamedBy
  <2>5. \A t \in tasks' : /\ t.do = "cancel" => t \in tasks
                          /\ \A x \in Used : Concerns(t, x) => t \in tasks \/ x \in {e}
    BY <2>2, TaskConcerns
  <2>6. \A d \in Clients, x \in Used : NamedBy(d, x)' => NamedBy(d, x) \/ x \in {e}
    BY <2>3 DEF NamedBy
  <2>7. Within({e})
    BY <2>2, <2>5, <2>6, SameWithin
  <2>8. \A d \in Clients : client'[d].pc = "rebasing" => client'[d] = client[d]
    BY <2>3
  <2> QED BY <1>0, <2>4, <2>5, <2>7, <2>8, CandidatesKept
<1>13. ASSUME NEW c \in Clients, ToolLeaves(c) PROVE Candidates'
  <2>1. PICK e \in Used : e = client[c].entry
    BY <1>13, ToolLeavesEffect
  <2>2. /\ client[c].pc # "rebasing" /\ Leases(c, Idle)
        /\ \/ ActorCloses(e) /\ tasks' = tasks \cup {Task("notify", e)}
           \/ UNCHANGED <<entry, tasks>>
    BY <1>13, <2>1, ToolLeavesEffect
  <2>3. KeepsParked
    BY <2>2, AltersParks, SameParks DEF ActorCloses
  <2>4. \A t \in tasks' : t \in tasks \/ \E do \in {"notify", "invalidate"} : t = Task(do, e)
    BY <2>2
  <2>5. \/ Alters(e, None, "CLOSED", entry[e].replay, entry[e].transcript)
        \/ UNCHANGED entry
    BY <2>2 DEF ActorCloses
  <2> QED BY <1>7, <2>1, <2>2, <2>3, <2>4, <2>5
<1>14. ASSUME NEW e \in Entries, ToolFails(e) PROVE Candidates'
  <2>1. /\ ActorCloses(e) /\ client' = client /\ e \in Used /\ ~Candidate(e)
        /\ tasks' = tasks \cup {Task("notify", e)}
    BY <1>14, ToolFailsEffect
  <2>2. Outside({e}) /\ KeepsParked
    BY <2>1, NoCandidateOutside, AltersParks DEF ActorCloses
  <2>3. \A t \in tasks' : /\ t.do = "cancel" => t \in tasks
                          /\ \A x \in Used : Concerns(t, x) => t \in tasks \/ x = e
    BY <2>1, TaskConcerns
  <2>4. Within({e})
    BY <2>1, <2>3, AltersWithin DEF NamedBy, ActorCloses
  <2> QED BY <1>0, <2>1, <2>2, <2>3, <2>4, CandidatesKept
<1>15. ASSUME NEW e \in Entries, NEW calls \in {None, e}, ToolCommits(e, calls) PROVE Candidates'
  <2>1. PICK s \in Seq(Turn), f \in {"READY", "WAITING_FOR_TOOLS"}, q \in Request \cup {None} :
          Alters(e, None, f, q, s) /\ s # <<>>
    BY <1>15, ToolCommitsEffect
  <2>2. /\ e \in Used /\ entry[e].phase = "GENERATING" /\ tasks' = tasks
        /\ \A c \in Clients : /\ client'[c].pc = client[c].pc /\ client'[c].entry = client[c].entry
                              /\ client'[c].old = client[c].old /\ client'[c].q = client[c].q
    BY <1>15, ToolCommitsEffect
  <2>3. ASSUME NEW c \in Clients, client'[c].pc = "rebasing"
        PROVE  CandidateOfClient(c)'
    <3>1. PICK n \in Used, o \in Used : n = client[c].entry /\ o = client[c].old
      BY <2>2, <2>3 DEF References, LeaseOK
    <3>2. CandidateOfClient(c) /\ client[c].pc = "rebasing"
      BY <2>2, <2>3 DEF Candidates
    <3>3. n # e
      BY <2>2, <3>1, <3>2 DEF CandidateOfClient, Candidate
    <3>4. o # e
      BY <2>2, <3>1, <3>2 DEF Reservations, ReservationOK, OneHolder, Holds
    <3>5. entry'[n] = entry[n] /\ entry'[o] = entry[o]
      BY <2>1, <3>3, <3>4 DEF Alters, Used
    <3>6. Candidate(client[c].entry)'
      BY <2>2, <3>1, <3>2, <3>5 DEF Candidate, CandidateOfClient
    <3>7. \A d \in Clients : d # c => ~NamedBy(d, client[c].entry)'
      BY <2>2, <3>2 DEF NamedBy, CandidateOfClient
    <3> QED BY <2>2, <3>1, <3>2, <3>5, <3>6, <3>7 DEF CandidateOfClient
  <2>4. ASSUME NEW t \in tasks', t.do = "cancel" PROVE CandidateOfTask(t)'
    <3>1. CandidateOfTask(t) /\ t.entry \in Used
      BY <2>2, <2>4 DEF Candidates, References, TaskOK
    <3>2. t.entry # e
      BY <2>2, <3>1 DEF CandidateOfTask, Candidate
    <3>3. entry'[t.entry] = entry[t.entry]
      BY <2>1, <3>1, <3>2 DEF Alters, Used
    <3> QED BY <2>2, <3>1, <3>3 DEF CandidateOfTask, Candidate, NamedBy
  <2> QED BY <2>3, <2>4 DEF Candidates
\* A step of a task that is no cancellation, on the entry it is for.
<1>16. ASSUME NEW t \in tasks, t.do # "cancel", NEW e \in Used, e = t.entry, client' = client,
              NEW f, Alters(e, None, f, entry[e].replay, entry[e].transcript) \/ UNCHANGED entry,
              f = entry[e].phase \/ f = "CLOSED",
              \A u \in tasks' : u \in tasks \/ \E do \in {"notify", "dispose"} : u = Task(do, e)
       PROVE  Candidates'
  <2>1. Outside({e})
    BY <1>16, ConcernedOutside DEF Concerns
  <2>2. e \in Entries
    BY DEF Used
  <2>3. \A u \in tasks' : /\ u.do = "cancel" => u \in tasks
                          /\ \A x \in Used : Concerns(u, x) => u \in tasks \/ x = e
    BY <1>16, <2>2, TaskConcerns
  <2>4. Within({e})
    BY <1>16, <2>3, AltersWithin, SameWithin DEF NamedBy
  <2>5. KeepsParked
    BY <1>16, AltersParks, SameParks
  <2> QED BY <1>0, <1>16, <2>1, <2>3, <2>4, <2>5, CandidatesKept
<1>17. ASSUME NEW t \in tasks, RunShutdown(t) PROVE Candidates'
  <2>1. PICK e \in Used : e = t.entry
    BY <1>17, RunShutdownEffect
  <2>2. t.do # "cancel" /\ ShutsDown(e, tasks \ {t}) /\ client' = client
    BY <1>17, <2>1, RunShutdownEffect
  <2>3. \A u \in tasks' : u \in tasks \/ \E do \in {"notify", "dispose"} : u = Task(do, e)
    BY <2>2 DEF ShutsDown
  <2>4. Alters(e, None, "CLOSED", entry[e].replay, entry[e].transcript) \/ UNCHANGED entry
    BY <2>2 DEF ShutsDown, ActorCloses
  <2> QED BY <1>16, <2>1, <2>2, <2>3, <2>4
<1>18. ASSUME NEW t \in tasks, RunNotify(t) PROVE Candidates'
  <2>1. PICK e \in Used : e = t.entry
    BY <1>18, RunNotifyEffect
  <2>2. t.do # "cancel" /\ Invalidated(e) /\ client' = client /\ tasks' = tasks \ {t}
    BY <1>18, <2>1, RunNotifyEffect
  <2>3. \/ Alters(e, None, entry[e].phase, entry[e].replay, entry[e].transcript)
        \/ UNCHANGED entry
    BY <2>2 DEF Invalidated
  <2> QED BY <1>16, <2>1, <2>2, <2>3
<1>19. ASSUME NEW t \in tasks, RunDiscard(t) PROVE Candidates'
  <2>1. PICK e \in Used : e = t.entry
    BY <1>19, RunDiscardEffect
  <2>2. t.do # "cancel" /\ client' = client
    BY <1>19, <2>1, RunDiscardEffect
  <2>3. /\ Alters(e, None, "CLOSED", entry[e].replay, entry[e].transcript) \/ UNCHANGED entry
        /\ \A u \in tasks' : u \in tasks \/ \E do \in {"notify", "dispose"} : u = Task(do, e)
    BY <1>19, <2>1, RunDiscardEffect DEF ShutsDown, ActorCloses
  <2> QED BY <1>16, <2>1, <2>2, <2>3
<1>20. ASSUME NEW t \in tasks, RunDispose(t) PROVE Candidates'
  <2>1. PICK e \in Used : e = t.entry
    BY <1>20, RunDisposeEffect
  <2>2. t.do # "cancel" /\ client' = client /\ UNCHANGED entry /\ tasks' = tasks \ {t}
    BY <1>20, <2>1, RunDisposeEffect
  <2> QED BY <1>16, <2>1, <2>2
<1>21. ASSUME NEW t \in tasks, RunCancel(t) PROVE Candidates'
  <2>1. PICK n \in Used, o \in Used : n = t.entry /\ o = t.old
    BY <1>21, RunCancelEffect
  <2>2. /\ Alters(o, Released(o, t.q), entry[o].phase, entry[o].replay, entry[o].transcript)
        /\ tasks' = (tasks \ {t}) \cup {Task("discard", n)} /\ client' = client
        /\ t.do = "cancel" /\ n \in Entries
    BY <1>21, <2>1, RunCancelEffect DEF Used
  <2>3. t \notin tasks' /\ \A u \in tasks' : u.do = "cancel" => u \in tasks
    BY <2>2, TaskConcerns
  <2>4. Outside({n} \cup {o}) /\ KeepsParked
    BY <2>1, <2>2, <2>3, ConcernedOutside, OutsideBoth, AltersParks DEF Concerns
  <2>5. Within({n} \cup {o})
    <3>1. \A u \in tasks', x \in Used : Concerns(u, x) => u \in tasks \/ x = n
      BY <2>2, TaskConcerns
    <3> QED BY <2>2, <3>1 DEF Within, Alters, Used, NamedBy
  <2> QED BY <1>0, <2>2, <2>3, <2>4, <2>5, CandidatesKept
<1>22. ASSUME Close PROVE Candidates'
  <2>0. PICK X : X = Mapped
    OBVIOUS
  <2>1. /\ X \in SUBSET Entries /\ tasks' = tasks \cup Shutdowns(X)
        /\ UNCHANGED <<entry, client>>
    BY <1>22, <2>0, CloseEffect DEF Table, Used
  <2>2. Outside(X) /\ KeepsParked
    BY <2>0, <2>1, MappedOutside, SameParks
  <2>3. \A u \in tasks' : /\ u.do = "cancel" => u \in tasks
                          /\ \A x \in Used : Concerns(u, x) => u \in tasks \/ x \in X
    BY <2>1, ShutdownsConcern
  <2>4. Within(X)
    BY <2>1, <2>3 DEF Within, NamedBy
  <2> QED BY <1>0, <2>1, <2>2, <2>3, <2>4, CandidatesKept
<1>23. ASSUME UNCHANGED <<entry, client, tasks>> PROVE Candidates'
  <2>1. Outside({}) /\ Within({}) /\ KeepsParked
    BY <1>23, SameParks DEF Outside, Within, NamedBy
  <2> QED BY <1>0, <1>23, <2>1, CandidatesKept
<1>24. ASSUME Drained \/ UNCHANGED vars PROVE Candidates'
  BY <1>23, <1>24 DEF Drained, vars
<1> QED
  BY <1>1, <1>2, <1>3, <1>4, <1>5, <1>6, <1>8, <1>9, <1>10, <1>11, <1>12, <1>13, <1>14, <1>15,
     <1>17, <1>18, <1>19, <1>20, <1>21, <1>22, <1>24, StepIs

----------------------------------------------------------------------------
(* Every backend stays in one place.                                       *)

\* The step leaves entry e where it was.
StaysPut(e) ==
  /\ e \in Mapped' <=> e \in Mapped
  /\ Starting(e)' <=> Starting(e)
  /\ Discarding(e)' <=> Discarding(e)
  /\ e \in draining' <=> e \in draining
  /\ closes'[e] = closes[e]
  /\ e \in Used' <=> e \in Used
  /\ Task("discard", e) \in tasks' <=> Task("discard", e) \in tasks
  /\ Task("dispose", e) \in tasks' <=> Task("dispose", e) \in tasks

LEMMA PlacedStays ==
  ASSUME NEW e, PlacedOnce(e), StaysPut(e)
  PROVE  PlacedOnce(e)'
  BY DEF PlacedOnce, StaysPut

\* The cleanup tasks for the backend of e, and the rebases it is the candidate
\* of, are the same.
Handles(t, e) == t.do \in {"cancel", "discard", "dispose"} /\ t.entry = e
Imports(c, e) == client[c].pc = "rebasing" /\ client[c].entry = e
SameHands(e) ==
  /\ \A t : Handles(t, e) => (t \in tasks' <=> t \in tasks)
  /\ \A c \in Clients : Imports(c, e)' <=> Imports(c, e)

LEMMA HandsStay ==
  ASSUME NEW e \in Entries, SameHands(e)
  PROVE  /\ Starting(e)' <=> Starting(e)
         /\ Discarding(e)' <=> Discarding(e)
         /\ Task("discard", e) \in tasks' <=> Task("discard", e) \in tasks
         /\ Task("dispose", e) \in tasks' <=> Task("dispose", e) \in tasks
<1>1. Starting(e)' <=> Starting(e)
  BY DEF SameHands, Handles, Imports, Starting
<1>2. Discarding(e)' <=> Discarding(e)
  BY DEF SameHands, Handles, Discarding
<1>3. Handles(Task("discard", e), e) /\ Handles(Task("dispose", e), e)
  BY TaskIsJob DEF Handles
<1> QED BY <1>1, <1>2, <1>3 DEF SameHands

LEMMA PlaceStays ==
  ASSUME NEW e \in Entries, PlacedOnce(e), SameHands(e),
         e \in Mapped' <=> e \in Mapped, e \in draining' <=> e \in draining,
         closes'[e] = closes[e], e \in Used' <=> e \in Used
  PROVE  PlacedOnce(e)'
  BY HandsStay, PlacedStays DEF StaysPut

\* The backend of an entry of the table, or of one that close() has taken, is
\* closed.
LEMMA PlaceEnds ==
  ASSUME TypeOK, NEW e \in Used, PlacedOnce(e), SameHands(e), e \in Mapped \/ e \in draining,
         e \notin Mapped', e \notin draining', closes'[e] = closes[e] + 1, e \in Used'
  PROVE  PlacedOnce(e)'
<1>1. e \in Entries /\ closes[e] = 0 /\ ~Starting(e) /\ ~Discarding(e)
  BY DEF PlacedOnce, Used
<1>2. Starting(e)' = FALSE /\ Discarding(e)' = FALSE /\ closes'[e] = 1
      /\ ~(Task("discard", e) \in tasks' /\ Task("dispose", e) \in tasks')
  BY <1>1, HandsStay DEF PlacedOnce
<1> QED BY <1>1, <1>2 DEF PlacedOnce

\* An entry that does not exist is nowhere.
LEMMA UnusedNowhere ==
  ASSUME References, Table, Placed, NEW e \in Unused
  PROVE  /\ e \in Entries /\ e \notin Used /\ e \notin Mapped /\ e \notin draining /\ closes[e] = 0
         /\ ~Starting(e) /\ ~Discarding(e)
         /\ \A t \in tasks : t.entry # e
         /\ \A c \in Clients : client[c].entry # e
<1>1. e \in Entries /\ e \notin Used /\ e # None
  BY NoneAssumption DEF Unused, Used
<1>2. \A t \in tasks : t.entry # e
  BY <1>1 DEF References, TaskOK
<1>3. \A c \in Clients : client[c].entry # e
  BY <1>1 DEF References, LeaseOK
<1> QED BY <1>1, <1>2, <1>3 DEF References, Table, Placed, PlacedOnce, Starting, Discarding

LEMMA NewTaskHandles ==
  ASSUME NEW do \in {"shutdown", "notify", "invalidate", "discard", "dispose"},
         NEW e \in Entries, NEW x
  PROVE  Handles(Task(do, e), x) <=> do \in {"discard", "dispose"} /\ x = e
<1>1. Task(do, e).do = do /\ Task(do, e).entry = e
  BY TaskIsJob
<1> QED BY <1>1 DEF Handles

LEMMA ShutdownsHandle ==
  ASSUME NEW E \in SUBSET Entries, NEW t \in Shutdowns(E), NEW x
  PROVE  ~Handles(t, x)
  BY ShutdownsAreJobs DEF Handles

\* Leases that begin or end on other things than a candidate.
LEMMA SameImports ==
  ASSUME NEW c \in Clients, client[c].pc # "rebasing", client'[c].pc # "rebasing",
         \A d \in Clients : d # c => client'[d] = client[d], NEW x
  PROVE  \A d \in Clients : Imports(d, x)' <=> Imports(d, x)
  BY DEF Imports

LEMMA TurnPc ==
  ASSUME NEW c \in Clients, NEW e, NEW q, Turning(c, e, q)
  PROVE  client'[c].pc # "rebasing" /\ \A d \in Clients : d # c => client'[d] = client[d]
  BY TurningTurns

LEMMA IdlePc ==
  ASSUME NEW c \in Clients, Leases(c, Idle)
  PROVE  client'[c].pc # "rebasing" /\ \A d \in Clients : d # c => client'[d] = client[d]
  BY DEF Leases, Idle

LEMMA PlacedStep ==
  ASSUME IInv, [Next]_vars
  PROVE  Placed'
<1> USE DEF IInv, Sound
<1>0. Grows
  BY ReferencesStep
<1>1. ASSUME NEW c \in Clients, NEW key, NEW q, Asked(q, key), OpenFresh(c, key, q)
      PROVE  Placed'
  <2>1. PICK e \in Unused, k \in Sids \cup Uuids :
          /\ Creates(e, k, q, IF q.kind = "tool" THEN "GENERATING" ELSE "READY", q.history)
          /\ OrderIs((Mapped \ Evicted) \cup {e})
          /\ Turning(c, e, q)
    BY <1>1, OpenFreshEffect
  <2>2. PICK E : E = Evicted
    OBVIOUS
  <2>3. /\ E \subseteq Mapped /\ E \in SUBSET Entries /\ Mapped \subseteq Used
        /\ tasks' = tasks \cup Shutdowns(E) /\ client[c].pc = "idle" /\ draining' = draining
        /\ \A x \in Entries : closes'[x] = IF x \in E THEN closes[x] + 1 ELSE closes[x]
        /\ Used' = Used \cup {e} /\ Mapped' = (Mapped \ E) \cup {e}
    BY <1>1, <2>1, <2>2, OpenFreshEffect, ScheduledCloses DEF Table, Used, Creates, OrderIs
  <2>4. /\ e \in Entries /\ e \notin Used /\ e \notin Mapped /\ e \notin draining /\ closes[e] = 0
        /\ ~Starting(e) /\ ~Discarding(e)
    BY UnusedNowhere
  <2>5. ASSUME NEW x \in Entries PROVE SameHands(x)
    <3>1. \A d \in Clients : Imports(d, x)' <=> Imports(d, x)
      BY <2>1, <2>3, TurnPc, SameImports
    <3> QED BY <2>3, <3>1, ShutdownsHandle DEF SameHands
  <2>6. ASSUME NEW x \in Entries PROVE PlacedOnce(x)'
    <3>1. CASE x = e
      <4>1. ~Starting(x)' /\ ~Discarding(x)'
            /\ ~(Task("discard", x) \in tasks' /\ Task("dispose", x) \in tasks')
        BY <2>4, <2>5, <3>1, HandsStay DEF Placed, PlacedOnce
      <4>2. x \in Mapped' /\ x \notin draining' /\ closes'[x] = 0 /\ x \in Used'
        BY <2>3, <2>4, <3>1
      <4> QED BY <4>1, <4>2 DEF PlacedOnce
    <3>2. CASE x \in E
      <4>1. x \in Mapped /\ x \in Used /\ x # e
        BY <2>3, <2>4, <3>2
      <4>2. x \notin draining
        BY <4>1 DEF Placed, PlacedOnce
      <4> QED BY <2>3, <2>5, <3>2, <4>1, <4>2, PlaceEnds DEF Placed
    <3>3. CASE x # e /\ x \notin E
      <4>1. /\ x \in Mapped' <=> x \in Mapped
            /\ x \in draining' <=> x \in draining
            /\ closes'[x] = closes[x]
            /\ x \in Used' <=> x \in Used
        BY <2>3, <3>3
      <4> QED BY <2>5, <4>1, PlaceStays DEF Placed
    <3> QED BY <3>1, <3>2, <3>3
  <2> QED BY <2>6 DEF Placed
\* A step that changes neither the table nor what the tasks and rebases handle.
<1>2. ASSUME Mapped' = Mapped, Used' = Used, UNCHANGED <<draining, closes>>,
             \A x \in Entries : SameHands(x)
      PROVE  Placed'
  BY <1>2, PlaceStays DEF Placed
<1>3. ASSUME NEW c \in Clients, NEW e \in Mapped, NEW key, NEW q, Asked(q, key),
             Admits1(c, key, q, e)
      PROVE  Placed'
  <2>1. e \in Used /\ e \in Entries
    BY DEF Table, Used
  <2>2. CASE OpenReplay(c, key, q, e)
    <3>1. /\ Alters(e, q, entry[e].phase, entry[e].replay, entry[e].transcript) /\ OrderIs(Mapped)
          /\ Leases(c, [Idle EXCEPT !.pc = "replay", !.entry = e, !.q = q])
          /\ UNCHANGED <<draining, closes, tasks>> /\ client[c].pc = "idle"
      BY <1>3, <2>2, OpenReplayEffect
    <3>2. client'[c].pc # "rebasing" /\ \A d \in Clients : d # c => client'[d] = client[d]
      BY <3>1 DEF Leases, Idle
    <3>3. \A x \in Entries : SameHands(x)
      BY <3>1, <3>2, SameImports DEF SameHands
    <3> QED BY <1>2, <3>1, <3>3 DEF Alters, OrderIs
  <2>3. CASE OpenContinue(c, key, q, e)
    <3>1. /\ Alters(e, q, IF IsTool(e) THEN "GENERATING" ELSE entry[e].phase, entry[e].replay,
                    entry[e].transcript)
          /\ OrderIs(Mapped) /\ Turning(c, e, q)
          /\ UNCHANGED <<draining, closes, tasks>> /\ client[c].pc = "idle"
      BY <1>3, <2>3, OpenContinueEffect
    <3>2. \A x \in Entries : SameHands(x)
      BY <3>1, TurnPc, SameImports DEF SameHands
    <3> QED BY <1>2, <3>1, <3>2 DEF Alters, OrderIs
  <2>4. CASE OpenExpired(c, key, q, e)
    <3>1. /\ Alters(e, None, "CLOSED", entry[e].replay, entry[e].transcript) /\ OrderIs(Mapped)
          /\ UNCHANGED <<draining, closes, client>> /\ tasks' = tasks \cup {Task("notify", e)}
      BY <1>3, <2>4, OpenExpiredEffect
    <3>2. \A x \in Entries : SameHands(x)
      BY <2>1, <3>1, NewTaskHandles DEF SameHands, Imports
    <3> QED BY <1>2, <3>1, <3>2 DEF Alters, OrderIs
  <2>5. CASE OpenSettings(c, key, q, e) \/ OpenRewrite(c, key, q, e)
    <3>1. PICK n \in Unused, s \in Seq(Turn) : Rebases(c, e, n, q, s)
      BY <1>3, <2>5, OpenRebaseEffect
    <3>2. /\ UNCHANGED <<draining, closes, tasks>> /\ client[c].pc = "idle"
          /\ Mapped' = Mapped /\ Used' = Used \cup {n}
      BY <1>3, <2>5, <3>1, OpenRebaseEffect DEF OrderIs, Rebases, Creates
    <3>3. /\ client'[c].pc = "rebasing" /\ client'[c].entry = n
          /\ \A d \in Clients : d # c => client'[d] = client[d]
      BY <3>1 DEF Rebases, Leases
    <3>4. /\ n \in Entries /\ n \notin Used /\ n \notin Mapped /\ n \notin draining /\ closes[n] = 0
          /\ ~Starting(n) /\ ~Discarding(n)
      BY UnusedNowhere
    <3>5. PlacedOnce(n)'
      <4>1. Starting(n)'
        BY <3>3 DEF Starting
      <4>2. /\ ~Discarding(n)' /\ n \notin Mapped' /\ n \notin draining' /\ closes'[n] = 0
            /\ ~(Task("discard", n) \in tasks' /\ Task("dispose", n) \in tasks')
        BY <3>2, <3>4 DEF Discarding, Placed, PlacedOnce
      <4> QED BY <3>2, <4>1, <4>2 DEF PlacedOnce
    <3>6. ASSUME NEW x \in Entries, x # n PROVE PlacedOnce(x)'
      <4>1. SameHands(x)
        BY <3>2, <3>3, <3>6 DEF SameHands, Imports
      <4> QED BY <3>2, <3>6, <4>1, PlaceStays DEF Placed
    <3> QED BY <3>5, <3>6 DEF Placed
  <2> QED BY <1>3, <2>2, <2>3, <2>4, <2>5 DEF Admits1
<1>4. ASSUME NEW c \in Clients, InstallRebase(c) PROVE Placed'
  <2>1. PICK n \in Used, o \in Mapped : n = client[c].entry /\ o = client[c].old
    BY <1>4, InstallRebaseEffect
  <2>2. /\ Alters(o, None, entry[o].phase, entry[o].replay, entry[o].transcript)
        /\ client[c].pc = "rebasing" /\ Leases(c, [client[c] EXCEPT !.pc = "installed"])
        /\ tasks' = tasks \cup {Task("discard", o)} /\ n \notin Mapped
        /\ Mapped' = (Mapped \ {o}) \cup {n} /\ UNCHANGED <<draining, closes>>
    BY <1>4, <2>1, InstallRebaseEffect DEF OrderIs
  <2>3. /\ n \in Entries /\ o \in Entries /\ o \in Used /\ Used' = Used /\ client[c] \in Lease
    BY <2>2 DEF Table, Used, Alters, TypeOK
  <2>4. /\ client'[c].pc = "installed" /\ \A d \in Clients : d # c => client'[d] = client[d]
    BY <2>2, <2>3 DEF Leases, Lease
  <2>5. CandidateOfClient(c) /\ Starting(n)
    BY <2>1, <2>2 DEF Candidates, Starting
  <2>6. PlacedOnce(n)'
    <3>1. \A t \in tasks' : t \in tasks \/ t.entry = o
      BY <2>2, <2>3, TaskIsJob
    <3>2. n # o /\ \A t \in tasks' : t.entry # n
      BY <2>1, <2>2, <2>5, <3>1 DEF CandidateOfClient, Concerns
    <3>3. \A d \in Clients : ~(client'[d].pc = "rebasing" /\ client'[d].entry = n)
      BY <2>1, <2>4, <2>5 DEF CandidateOfClient, NamedBy
    <3>4. ~Starting(n)' /\ ~Discarding(n)'
      BY <3>2, <3>3 DEF Starting, Discarding
    <3>5. Task("discard", n) \notin tasks'
      BY <2>3, <3>2, TaskIsJob
    <3>6. n \in Mapped' /\ n \notin draining' /\ closes'[n] = 0 /\ n \in Used'
      BY <2>2, <2>3, <2>5 DEF Placed, PlacedOnce
    <3> QED BY <3>4, <3>5, <3>6 DEF PlacedOnce
  <2>7. ASSUME NEW x \in Entries, x # n PROVE SameHands(x) \/ x = o
    BY <2>1, <2>2, <2>3, <2>4, <2>7, NewTaskHandles DEF SameHands, Imports
  <2>8. PlacedOnce(o)'
    <3>1. n # o
      BY <2>1, <2>5 DEF CandidateOfClient
    <3>2. o \notin Mapped' /\ o \notin draining' /\ closes'[o] = 0 /\ o \in Used'
          /\ ~Starting(o) /\ ~Discarding(o)
      BY <2>2, <2>3, <3>1 DEF Placed, PlacedOnce
    <3>3. Task("discard", o) \in tasks' /\ Task("discard", o).do = "discard" /\ Task("discard", o).entry = o
      BY <2>2, <2>3, TaskIsJob
    <3>4. Discarding(o)'
      BY <3>3 DEF Discarding
    <3>5. ~Starting(o)'
      BY <2>2, <2>4, <3>2, <3>3 DEF Starting
    <3>6. Task("dispose", o) \notin tasks'
      <4>1. /\ Task("dispose", o).do = "dispose" /\ Task("dispose", o).entry = o
        BY <2>3, TaskIsJob
      <4> QED BY <2>2, <3>2, <3>3, <4>1 DEF Discarding
    <3> QED BY <3>2, <3>4, <3>5, <3>6 DEF PlacedOnce
  <2>9. ASSUME NEW x \in Entries, x # n, x # o PROVE PlacedOnce(x)'
    BY <2>2, <2>3, <2>7, <2>9, PlaceStays DEF Placed
  <2> QED BY <2>6, <2>8, <2>9 DEF Placed
<1>5. ASSUME NEW c \in Clients, InstallRemoved(c) PROVE Placed'
  <2>1. PICK n \in Used, E \in {Evicted} : n = client[c].entry /\ E = Evicted
    BY <1>5, InstallRemovedEffect
  <2>2. /\ Alters(n, entry[n].in_flight, IF IsTool(n) THEN "GENERATING" ELSE entry[n].phase,
                  entry[n].replay, entry[n].transcript)
        /\ E \subseteq Mapped /\ E \in SUBSET Entries /\ n \notin Mapped
        /\ client[c].pc = "rebasing" /\ Turning(c, n, client[c].q)
        /\ tasks' = tasks \cup Shutdowns(E) /\ draining' = draining
        /\ \A x \in Entries : closes'[x] = IF x \in E THEN closes[x] + 1 ELSE closes[x]
        /\ Used' = Used /\ Mapped' = (Mapped \ E) \cup {n}
    BY <1>5, <2>1, InstallRemovedEffect, ScheduledCloses DEF Table, Used, OrderIs, Alters
  <2>3. client'[c].pc # "rebasing" /\ \A d \in Clients : d # c => client'[d] = client[d]
    BY <2>2, TurnPc
  <2>4. CandidateOfClient(c) /\ Starting(n)
    BY <2>1, <2>2 DEF Candidates, Starting
  <2>5. PlacedOnce(n)'
    <3>1. \A t \in tasks' : ~Handles(t, n)
      BY <2>1, <2>2, <2>4, ShutdownsHandle DEF CandidateOfClient, Concerns, Handles
    <3>2. \A d \in Clients : ~(client'[d].pc = "rebasing" /\ client'[d].entry = n)
      BY <2>1, <2>3, <2>4 DEF CandidateOfClient, NamedBy
    <3>3. ~Starting(n)' /\ ~Discarding(n)'
      BY <3>1, <3>2 DEF Starting, Discarding, Handles
    <3>4. Task("discard", n) \notin tasks'
      BY <3>1, NewTaskHandles DEF Used
    <3>5. n \in Mapped' /\ n \notin draining' /\ closes'[n] = 0 /\ n \in Used'
      BY <2>2, <2>4 DEF Placed, PlacedOnce, Used
    <3> QED BY <3>3, <3>4, <3>5 DEF PlacedOnce
  <2>6. ASSUME NEW x \in Entries, x # n PROVE SameHands(x)
    <3>1. \A d \in Clients : Imports(d, x)' <=> Imports(d, x)
      BY <2>1, <2>3, <2>6 DEF Imports
    <3> QED BY <2>2, <3>1, ShutdownsHandle DEF SameHands
  <2>7. ASSUME NEW x \in E PROVE PlacedOnce(x)'
    <3>1. x \in Used /\ x \in Entries /\ x \in Mapped /\ x # n
      BY <2>2 DEF Table, Used
    <3>2. x \notin draining /\ PlacedOnce(x)
      BY <3>1 DEF Placed, PlacedOnce
    <3> QED BY <2>2, <2>6, <3>1, <3>2, PlaceEnds
  <2>8. ASSUME NEW x \in Entries, x # n, x \notin E PROVE PlacedOnce(x)'
    BY <2>2, <2>6, <2>8, PlaceStays DEF Placed
  <2> QED BY <2>5, <2>7, <2>8 DEF Placed
<1>6. ASSUME NEW c \in Clients, InstallConflict(c) PROVE Placed'
  <2>1. PICK n \in Used : n = client[c].entry
    BY <1>6, InstallConflictEffect
  <2>2. /\ client[c].pc = "rebasing" /\ Leases(c, Idle) /\ n \in Entries
        /\ tasks' = tasks \cup {Task("discard", n)}
        /\ UNCHANGED <<entry, order, draining, closes>> /\ Used' = Used /\ Mapped' = Mapped
    BY <1>6, <2>1, InstallConflictEffect DEF Used, Unused, Mapped
  <2>3. client'[c].pc # "rebasing" /\ \A d \in Clients : d # c => client'[d] = client[d]
    BY <2>2, IdlePc
  <2>4. CandidateOfClient(c) /\ Starting(n)
    BY <2>1, <2>2 DEF Candidates, Starting
  <2>5. PlacedOnce(n)'
    <3>1. /\ Task("discard", n) \in tasks' /\ Task("discard", n).do = "discard"
          /\ Task("discard", n).entry = n
      BY <2>2, TaskIsJob
    <3>2. Discarding(n)'
      BY <3>1 DEF Discarding
    <3>3. \A t \in tasks' : t.entry = n => t = Task("discard", n)
      BY <2>1, <2>2, <2>4 DEF CandidateOfClient, Concerns
    <3>4. ~Starting(n)'
      <4>1. \A d \in Clients : ~(client'[d].pc = "rebasing" /\ client'[d].entry = n)
        BY <2>1, <2>3, <2>4 DEF CandidateOfClient, NamedBy
      <4> QED BY <3>1, <3>3, <4>1 DEF Starting
    <3>5. Task("dispose", n) \notin tasks'
      <4>1. Task("dispose", n).do = "dispose" /\ Task("dispose", n).entry = n
        BY <2>2, TaskIsJob
      <4> QED BY <3>1, <3>3, <4>1
    <3>6. n \notin Mapped' /\ n \notin draining' /\ closes'[n] = 0 /\ n \in Used'
      BY <2>2, <2>4 DEF Placed, PlacedOnce
    <3> QED BY <3>2, <3>4, <3>5, <3>6 DEF PlacedOnce
  <2>6. ASSUME NEW x \in Entries, x # n PROVE SameHands(x)
    BY <2>1, <2>2, <2>3, <2>6, NewTaskHandles DEF SameHands, Imports
  <2>7. ASSUME NEW x \in Entries, x # n PROVE PlacedOnce(x)'
    BY <2>2, <2>6, <2>7, PlaceStays DEF Placed
  <2> QED BY <2>5, <2>7 DEF Placed
<1>7. ASSUME NEW c \in Clients, RebaseFails(c) PROVE Placed'
  <2>1. PICK n \in Used, u \in {CancelTask(c)} : n = client[c].entry /\ u = CancelTask(c)
    BY <1>7, RebaseFailsEffect DEF References, LeaseOK
  <2>2. /\ client[c].pc = "rebasing" /\ Leases(c, Idle) /\ n \in Entries
        /\ tasks' = tasks \cup {u} /\ u.do = "cancel" /\ u.entry = n
        /\ UNCHANGED <<entry, order, draining, closes>> /\ Used' = Used /\ Mapped' = Mapped
    BY <1>7, <2>1, RebaseFailsEffect DEF Used, Unused, Mapped
  <2>3. client'[c].pc # "rebasing" /\ \A d \in Clients : d # c => client'[d] = client[d]
    BY <2>2, IdlePc
  <2>4. Starting(n)' /\ Starting(n)
    BY <2>1, <2>2 DEF Starting
  <2>5. PlacedOnce(n)'
    <3>1. ~Discarding(n)'
      BY <2>2, <2>4 DEF Placed, PlacedOnce, Discarding
    <3>2. Task("discard", n) \notin tasks'
      <4>1. Task("discard", n).do = "discard" /\ Task("discard", n).entry = n
        BY <2>2, TaskIsJob
      <4> QED BY <3>1, <4>1 DEF Discarding
    <3> QED BY <2>2, <2>4, <3>1, <3>2 DEF Placed, PlacedOnce
  <2>6. ASSUME NEW x \in Entries, x # n PROVE SameHands(x)
    BY <2>1, <2>2, <2>3, <2>6 DEF SameHands, Imports, Handles
  <2>7. ASSUME NEW x \in Entries, x # n PROVE PlacedOnce(x)'
    BY <2>2, <2>6, <2>7, PlaceStays DEF Placed
  <2> QED BY <2>5, <2>7 DEF Placed
\* A client that is not rebasing ends or goes on, and no backend moves.
<1>8. ASSUME NEW c \in Clients, client[c].pc # "rebasing", client'[c].pc # "rebasing",
             \A d \in Clients : d # c => client'[d] = client[d],
             \A t, x : Handles(t, x) => (t \in tasks' <=> t \in tasks),
             UNCHANGED <<order, draining, closes>>, Used' = Used
      PROVE  Placed'
  <2>1. Mapped' = Mapped
    BY <1>8 DEF Mapped
  <2>2. \A x \in Entries : SameHands(x)
    BY <1>8, SameImports DEF SameHands
  <2> QED BY <1>2, <1>8, <2>1, <2>2
<1>9. ASSUME NEW c \in Clients, RebaseProceeds(c) PROVE Placed'
  <2>1. /\ client[c].pc # "rebasing" /\ Used' = Used
        /\ UNCHANGED <<order, draining, closes, tasks>>
        /\ Leases(c, Idle) \/ \E e, q : Turning(c, e, q)
    BY <1>9, RebaseProceedsEffect DEF Alters
  <2>2. client'[c].pc # "rebasing" /\ \A d \in Clients : d # c => client'[d] = client[d]
    BY <2>1, TurnPc, IdlePc
  <2> QED BY <1>8, <2>1, <2>2
<1>10. ASSUME NEW c \in Clients, RebaseCancelled(c) \/ ReplayEnds(c) PROVE Placed'
  <2>1. /\ client[c].pc # "rebasing" /\ Used' = Used
        /\ UNCHANGED <<order, draining, closes, tasks>> /\ Leases(c, Idle)
    BY <1>10, ReleaseEffect DEF Alters
  <2> QED BY <1>8, <2>1, IdlePc
<1>11. ASSUME NEW c \in Clients, TurnCommits(c) PROVE Placed'
  <2>1. /\ client[c].pc # "rebasing" /\ Used' = Used
        /\ UNCHANGED <<order, draining, closes, tasks>> /\ Leases(c, Idle)
    BY <1>11, TurnCommitsEffect DEF Alters
  <2> QED BY <1>8, <2>1, IdlePc
<1>12. ASSUME NEW c \in Clients, Abort(c) PROVE Placed'
  <2>1. PICK e \in Used : e = client[c].entry
    BY <1>12, AbortEffect
  <2>2. /\ client[c].pc = "turn" /\ Leases(c, [client[c] EXCEPT !.pc = "aborting"])
        /\ tasks' = tasks \cup {Task("invalidate", e)} /\ client[c] \in Lease /\ e \in Entries
        /\ UNCHANGED <<entry, order, draining, closes>>
    BY <1>12, <2>1, AbortEffect DEF TypeOK, Used
  <2>3. client'[c].pc = "aborting" /\ \A d \in Clients : d # c => client'[d] = client[d]
    BY <2>2 DEF Leases, Lease
  <2>4. \A t, x : Handles(t, x) => (t \in tasks' <=> t \in tasks)
    BY <2>2, NewTaskHandles
  <2> QED BY <1>8, <2>2, <2>3, <2>4 DEF Used, Unused
<1>13. ASSUME NEW c \in Clients, ToolLeaves(c) PROVE Placed'
  <2>1. PICK e \in Used : e = client[c].entry
    BY <1>13, ToolLeavesEffect
  <2>2. /\ client[c].pc # "rebasing" /\ Leases(c, Idle)
        /\ \/ ActorCloses(e) /\ tasks' = tasks \cup {Task("notify", e)}
           \/ UNCHANGED <<entry, tasks>>
        /\ UNCHANGED <<order, draining, closes>> /\ e \in Entries
    BY <1>13, <2>1, ToolLeavesEffect DEF Used
  <2>3. \A t, x : Handles(t, x) => (t \in tasks' <=> t \in tasks)
    BY <2>2, NewTaskHandles
  <2>4. Used' = Used
    BY <2>2 DEF ActorCloses, Alters, Used, Unused
  <2> QED BY <1>8, <2>2, <2>3, <2>4, IdlePc
<1>14. ASSUME NEW e \in Entries, ToolFails(e) PROVE Placed'
  <2>1. /\ Used' = Used /\ tasks' = tasks \cup {Task("notify", e)} /\ Mapped' = Mapped
        /\ UNCHANGED <<draining, closes, client>>
    BY <1>14, ToolFailsEffect DEF ActorCloses, Alters, Mapped
  <2>2. \A x \in Entries : SameHands(x)
    BY <2>1, NewTaskHandles DEF SameHands, Imports
  <2> QED BY <1>2, <2>1, <2>2
<1>15. ASSUME NEW e \in Entries, NEW calls \in {None, e}, ToolCommits(e, calls) PROVE Placed'
  <2>1. /\ Used' = Used /\ tasks' = tasks /\ Mapped' = Mapped /\ UNCHANGED <<draining, closes>>
        /\ \A c \in Clients : client'[c].pc = client[c].pc /\ client'[c].entry = client[c].entry
    BY <1>15, ToolCommitsEffect DEF Alters, Mapped
  <2>2. \A x \in Entries : SameHands(x)
    BY <2>1 DEF SameHands, Imports
  <2> QED BY <1>2, <2>1, <2>2
\* An entry leaves the table by itself.
<1>16. ASSUME NEW e \in Used, Invalidated(e), draining' = draining, \A x \in Entries : SameHands(x)
       PROVE  Placed'
  <2>1. CASE e \in Mapped /\ Mapped' = Mapped \ {e} /\ Used' = Used /\ closes'[e] = closes[e] + 1
             /\ \A x \in Entries : x # e => closes'[x] = closes[x]
    <3>1. PlacedOnce(e)'
      <4>1. PlacedOnce(e) /\ e \notin draining /\ e \in Entries
        BY <2>1 DEF Placed, PlacedOnce, Used
      <4> QED BY <1>16, <2>1, <4>1, PlaceEnds
    <3>2. ASSUME NEW x \in Entries, x # e PROVE PlacedOnce(x)'
      BY <1>16, <2>1, <3>2, PlaceStays DEF Placed
    <3> QED BY <3>1, <3>2 DEF Placed
  <2>2. CASE UNCHANGED <<entry, order, closes>>
    <3>1. Mapped' = Mapped /\ Used' = Used
      BY <2>2 DEF Mapped, Used, Unused
    <3> QED BY <1>2, <1>16, <2>2, <3>1
  <2> QED BY <1>16, <2>1, <2>2 DEF Invalidated, OrderIs, Alters
<1>17. ASSUME NEW c \in Clients, TurnFails(c) PROVE Placed'
  <2>1. PICK e \in Used : e = client[c].entry
    BY <1>17, TurnFailsEffect
  <2>2. /\ client[c].pc # "rebasing" /\ Leases(c, Idle) /\ Invalidated(e)
        /\ UNCHANGED <<draining, tasks>>
    BY <1>17, <2>1, TurnFailsEffect
  <2>3. \A x \in Entries : SameHands(x)
    BY <2>2, IdlePc, SameImports DEF SameHands
  <2> QED BY <1>16, <2>2, <2>3
<1>18. ASSUME NEW t \in tasks, RunNotify(t) PROVE Placed'
  <2>1. PICK e \in Used : e = t.entry
    BY <1>18, RunNotifyEffect
  <2>2. /\ t.do \in {"notify", "invalidate"} /\ Invalidated(e) /\ tasks' = tasks \ {t}
        /\ UNCHANGED <<draining, client>>
    BY <1>18, <2>1, RunNotifyEffect
  <2>3. \A x \in Entries : SameHands(x)
    BY <2>2 DEF SameHands, Imports, Handles
  <2> QED BY <1>16, <2>2, <2>3
<1>19. ASSUME NEW t \in tasks, RunShutdown(t) PROVE Placed'
  <2>1. PICK e \in Used : e = t.entry
    BY <1>19, RunShutdownEffect
  <2>2. /\ t.do = "shutdown" /\ ShutsDown(e, tasks \ {t}) /\ e \in Entries
        /\ UNCHANGED <<order, draining, closes, client>>
    BY <1>19, <2>1, RunShutdownEffect DEF Used
  <2>3. \A x \in Entries : SameHands(x)
    BY <2>2, NewTaskHandles DEF SameHands, Imports, Handles, ShutsDown
  <2>4. Used' = Used /\ Mapped' = Mapped
    BY <2>2 DEF ShutsDown, ActorCloses, Alters, Used, Unused, Mapped
  <2> QED BY <1>2, <2>2, <2>3, <2>4
\* The cleanup task t of e closes its backend.
<1>20. ASSUME NEW t \in tasks, NEW e \in Used, NEW do \in {"discard", "dispose"}, t = Task(do, e),
              ClosesOne(e), tasks' = tasks \ {t}, UNCHANGED <<entry, order, draining, client>>
       PROVE  Placed'
  <2>1. t.do = do /\ t.entry = e /\ e \in Entries /\ Used' = Used /\ Mapped' = Mapped
    BY <1>20, TaskIsJob DEF Used, Unused, Mapped
  <2>2. Discarding(e) /\ PlacedOnce(e)
    BY <2>1 DEF Discarding, Placed
  <2>3. ~Discarding(e)'
    <3>1. ASSUME NEW u \in tasks', u.do \in {"discard", "dispose"}, u.entry = e PROVE FALSE
      <4>1. u \in tasks /\ u # t /\ u = Task(u.do, e)
        BY <1>20, <3>1 DEF References, TaskOK
      <4>2. u = Task("discard", e) \/ u = Task("dispose", e)
        BY <3>1, <4>1
      <4> QED BY <1>20, <2>2, <4>1, <4>2 DEF PlacedOnce
    <3> QED BY <3>1 DEF Discarding
  <2>4. ~Starting(e)'
    BY <1>20, <2>2 DEF Starting, PlacedOnce
  <2>5. ~(Task("discard", e) \in tasks' /\ Task("dispose", e) \in tasks')
    BY <1>20, <2>2 DEF PlacedOnce
  <2>6. e \notin Mapped' /\ e \notin draining' /\ closes'[e] = 1 /\ e \in Used'
    BY <1>20, <2>1, <2>2 DEF PlacedOnce, ClosesOne
  <2>7. PlacedOnce(e)'
    BY <2>3, <2>4, <2>5, <2>6 DEF PlacedOnce
  <2>8. ASSUME NEW x \in Entries, x # e PROVE PlacedOnce(x)'
    <3>1. SameHands(x)
      BY <1>20, <2>1, <2>8 DEF SameHands, Imports, Handles
    <3> QED BY <1>20, <2>1, <2>8, <3>1, PlaceStays DEF Placed, ClosesOne
  <2> QED BY <2>7, <2>8 DEF Placed
<1>21. ASSUME NEW t \in tasks, RunDispose(t) PROVE Placed'
  <2>1. PICK e \in Used : e = t.entry
    BY <1>21, RunDisposeEffect
  <2> QED BY <1>20, <1>21, <2>1, RunDisposeEffect
<1>22. ASSUME NEW t \in tasks, RunDiscard(t) PROVE Placed'
  <2>1. PICK e \in Used : e = t.entry
    BY <1>22, RunDiscardEffect
  <2>2. t = Task("discard", e) /\ UNCHANGED <<order, draining, client>>
        /\ e \in Entries /\ t.do = "discard"
    BY <1>22, <2>1, RunDiscardEffect DEF Used
  <2>3. CASE ~IsTool(e) /\ ClosesOne(e) /\ UNCHANGED entry /\ tasks' = tasks \ {t}
    BY <1>20, <2>2, <2>3
  <2>4. CASE UNCHANGED closes /\ ShutsDown(e, (tasks \ {t}) \cup {Task("dispose", e)})
    <3>1. PICK u, w : u = Task("dispose", e) /\ w = Task("notify", e)
      OBVIOUS
    <3>2. /\ u.do = "dispose" /\ u.entry = e /\ w.do = "notify"
      BY <2>2, <3>1, TaskIsJob
    <3>3. /\ u \in tasks' /\ t \notin tasks'
          /\ \A v \in tasks' : v \in tasks \/ v = u \/ v = w
          /\ \A v \in tasks : v # t => v \in tasks'
      BY <2>2, <2>4, <3>1, <3>2 DEF ShutsDown
    <3>4. Used' = Used /\ Mapped' = Mapped
      BY <2>2, <2>4 DEF ShutsDown, ActorCloses, Alters, Used, Unused, Mapped
    <3>5. PlacedOnce(e)'
      <4>1. Discarding(e) /\ Discarding(e)' /\ PlacedOnce(e)
        BY <2>1, <2>2, <3>2, <3>3 DEF Discarding, Placed
      <4>2. ~Starting(e)'
        BY <2>2, <3>2, <3>3, <4>1 DEF PlacedOnce, Starting
      <4> QED BY <2>2, <2>4, <3>3, <3>4, <4>1, <4>2 DEF PlacedOnce
    <3>6. ASSUME NEW x \in Entries, x # e PROVE PlacedOnce(x)'
      <4>1. SameHands(x)
        BY <2>1, <2>2, <3>2, <3>3, <3>6 DEF SameHands, Imports, Handles
      <4> QED BY <2>2, <2>4, <3>4, <3>6, <4>1, PlaceStays DEF Placed
    <3> QED BY <3>5, <3>6 DEF Placed
  <2> QED BY <1>22, <2>1, <2>3, <2>4, RunDiscardEffect
<1>23. ASSUME NEW t \in tasks, RunCancel(t) PROVE Placed'
  <2>1. PICK n \in Used, o \in Used : n = t.entry /\ o = t.old
    BY <1>23, RunCancelEffect
  <2>2. /\ tasks' = (tasks \ {t}) \cup {Task("discard", n)} /\ t.do = "cancel" /\ n \in Entries
        /\ UNCHANGED <<order, draining, closes, client>> /\ Used' = Used /\ Mapped' = Mapped
    BY <1>23, <2>1, RunCancelEffect DEF Used, Alters, Mapped
  <2>3. Starting(n) /\ CandidateOfTask(t) /\ PlacedOnce(n)
    BY <2>1, <2>2 DEF Starting, Candidates, Placed
  <2>4. PICK u : u = Task("discard", n)
    OBVIOUS
  <2>5. u.do = "discard" /\ u.entry = n /\ u \in tasks' /\ \A v \in tasks' : v.entry = n => v = u
    BY <2>1, <2>2, <2>3, <2>4, TaskIsJob DEF CandidateOfTask, Concerns
  <2>6. PlacedOnce(n)'
    <3>1. Discarding(n)' /\ ~Starting(n)'
      BY <2>1, <2>2, <2>3, <2>5 DEF Discarding, Starting, CandidateOfTask, NamedBy
    <3>2. Task("dispose", n) \notin tasks'
      <4>1. Task("dispose", n).do = "dispose" /\ Task("dispose", n).entry = n
        BY <2>2, TaskIsJob
      <4> QED BY <2>5, <4>1
    <3> QED BY <2>2, <2>3, <3>1, <3>2 DEF PlacedOnce
  <2>7. ASSUME NEW x \in Entries, x # n PROVE PlacedOnce(x)'
    <3>1. SameHands(x)
      BY <2>1, <2>2, <2>4, <2>5, <2>7 DEF SameHands, Imports, Handles
    <3> QED BY <2>2, <2>7, <3>1, PlaceStays DEF Placed
  <2> QED BY <2>6, <2>7 DEF Placed
<1>24. ASSUME Close PROVE Placed'
  <2>1. PICK X : X = Mapped
    OBVIOUS
  <2>2. /\ X \in SUBSET Entries /\ tasks' = tasks \cup Shutdowns(X) /\ draining' = X
        /\ draining = {} /\ Mapped' = {} /\ UNCHANGED <<entry, closes, client>> /\ Used' = Used
    BY <1>24, <2>1, CloseEffect DEF Table, Used, Unused
  <2>3. ASSUME NEW x \in Entries PROVE PlacedOnce(x)'
    <3>1. SameHands(x)
      BY <2>2, ShutdownsHandle DEF SameHands, Imports
    <3>2. PlacedOnce(x)
      BY DEF Placed
    <3> QED BY <2>1, <2>2, <3>1, <3>2, HandsStay DEF PlacedOnce
  <2> QED BY <2>3 DEF Placed
<1>25. ASSUME Drained PROVE Placed'
  <2>1. /\ draining' = {} /\ Mapped' = Mapped /\ Used' = Used /\ UNCHANGED <<tasks, client>>
        /\ \A x \in Entries : closes'[x] = IF x \in draining THEN closes[x] + 1 ELSE closes[x]
    BY <1>25, DrainedEffect DEF Mapped, Used, Unused
  <2>2. ASSUME NEW x \in Entries PROVE PlacedOnce(x)'
    <3>1. SameHands(x) /\ PlacedOnce(x)
      BY <2>1 DEF SameHands, Imports, Placed
    <3>2. CASE x \in draining
      <4>1. x \in Used /\ x \notin Mapped
        BY <3>1, <3>2 DEF References, PlacedOnce
      <4> QED BY <2>1, <3>1, <3>2, <4>1, PlaceEnds
    <3>3. CASE x \notin draining
      BY <2>1, <3>1, <3>3, PlaceStays
    <3> QED BY <3>2, <3>3
  <2> QED BY <2>2 DEF Placed
<1>26. ASSUME UNCHANGED vars PROVE Placed'
  BY <1>2, <1>26 DEF vars, Mapped, Used, Unused, SameHands, Imports
<1> QED
  BY <1>1, <1>3, <1>4, <1>5, <1>6, <1>7, <1>9, <1>10, <1>11, <1>12, <1>13, <1>14, <1>15,
     <1>17, <1>18, <1>19, <1>21, <1>22, <1>23, <1>24, <1>25, <1>26, StepIs

----------------------------------------------------------------------------
(* A reservation keeps its holder.                                         *)

SameCancels(e) == \A t : Cancels(t, e) => (t \in tasks' <=> t \in tasks)
SameHolders(e) ==
  /\ SameCancels(e)
  /\ \A c \in Clients :
       /\ Holds(c, e)' <=> Holds(c, e)
       /\ Holds(c, e) => client'[c].q = client[c].q
       /\ client'[c].pc = "installed" /\ client'[c].entry = e
            => client[c].pc = "installed" /\ client[c].entry = e

LEMMA ReservationStays ==
  ASSUME NEW e, ReservationOK(e), SameHolders(e), e \in Mapped' => e \in Mapped,
         entry'[e].in_flight = entry[e].in_flight, entry'[e].phase = entry[e].phase
  PROVE  ReservationOK(e)'
<1> SUFFICES ASSUME entry[e].phase # "CLOSED" PROVE OneHolder(e)' /\ IsInstalled(e)' /\ (e \in Mapped' => IsHeld(e)')
  BY DEF ReservationOK
<1>1. OneHolder(e) /\ IsInstalled(e) /\ (e \in Mapped => IsHeld(e))
  BY DEF ReservationOK
<1>2. \A t : Cancels(t, e) => (t \in tasks' <=> t \in tasks)
  BY DEF SameHolders, SameCancels
<1>3. OneHolder(e)'
  BY <1>1, <1>2 DEF OneHolder, SameHolders
<1>4. IsInstalled(e)'
  <2> SUFFICES ASSUME NEW c \in Clients, client'[c].pc = "installed", client'[c].entry = e
               PROVE  entry'[e].in_flight = client'[c].q
    BY DEF IsInstalled
  <2>1. client[c].pc = "installed" /\ client[c].entry = e
    BY DEF SameHolders
  <2>2. Holds(c, e)
    BY <2>1 DEF Holds
  <2> QED BY <1>1, <2>1, <2>2 DEF IsInstalled, SameHolders
<1>5. ASSUME e \in Mapped' PROVE IsHeld(e)'
  <2>1. IsHeld(e)
    BY <1>1, <1>5
  <2>2. \A c \in Clients : Holds(c, e)' => entry'[e].in_flight = client'[c].q
    BY <2>1 DEF IsHeld, SameHolders
  <2>3. \A t \in tasks' : Cancels(t, e) => entry'[e].in_flight = t.q
    BY <1>2, <2>1 DEF IsHeld
  <2>4. entry'[e].in_flight # None =>
          \/ \E c \in Clients : Holds(c, e)'
          \/ \E t \in tasks' : Cancels(t, e)
          \/ entry'[e].phase = "GENERATING"
    BY <1>2, <2>1 DEF IsHeld, SameHolders
  <2> QED BY <2>2, <2>3, <2>4 DEF IsHeld
<1> QED BY <1>3, <1>4, <1>5

LEMMA OnlyHolder ==
  ASSUME NEW e, NEW c \in Clients, \A d \in Clients : d # c => ~Holds(d, e)',
         Holds(c, e)', \A t \in tasks' : ~Cancels(t, e), entry'[e].phase # "GENERATING",
         entry'[e].in_flight = client'[c].q
  PROVE  ReservationOK(e)'
<1>1. OneHolder(e)'
  BY DEF OneHolder
<1>2. IsInstalled(e)'
  <2> SUFFICES ASSUME NEW d \in Clients, client'[d].pc = "installed", client'[d].entry = e
               PROVE  entry'[e].in_flight = client'[d].q
    BY DEF IsInstalled
  <2>1. Holds(d, e)'
    BY DEF Holds
  <2> QED BY <2>1
<1>3. IsHeld(e)'
  BY DEF IsHeld
<1> QED BY <1>1, <1>2, <1>3 DEF ReservationOK

LEMMA NoHolder ==
  ASSUME NEW e, \A d \in Clients : ~Holds(d, e)', \A t \in tasks' : ~Cancels(t, e),
         \/ entry'[e].in_flight = None
         \/ entry'[e].phase = "GENERATING"
         \/ e \notin Mapped'
  PROVE  ReservationOK(e)'
<1>1. OneHolder(e)'
  BY DEF OneHolder
<1>2. IsInstalled(e)'
  <2> SUFFICES ASSUME NEW d \in Clients, client'[d].pc = "installed", client'[d].entry = e
               PROVE  FALSE
    BY DEF IsInstalled
  <2>1. Holds(d, e)'
    BY DEF Holds
  <2> QED BY <2>1
<1>3. e \in Mapped' => IsHeld(e)'
  BY DEF IsHeld
<1> QED BY <1>1, <1>2, <1>3 DEF ReservationOK

LEMMA OnlyCanceller ==
  ASSUME NEW e, NEW t \in tasks', Cancels(t, e), \A d \in Clients : ~Holds(d, e)',
         \A u \in tasks' : Cancels(u, e) => u = t, entry'[e].phase # "GENERATING",
         e \in Mapped' => entry'[e].in_flight = t.q
  PROVE  ReservationOK(e)'
<1>1. OneHolder(e)'
  BY DEF OneHolder
<1>2. IsInstalled(e)'
  <2> SUFFICES ASSUME NEW d \in Clients, client'[d].pc = "installed", client'[d].entry = e
               PROVE  FALSE
    BY DEF IsInstalled
  <2>1. Holds(d, e)'
    BY DEF Holds
  <2> QED BY <2>1
<1>3. e \in Mapped' => IsHeld(e)'
  BY DEF IsHeld
<1> QED BY <1>1, <1>2, <1>3 DEF ReservationOK

LEMMA ClosedReserved ==
  ASSUME NEW e, entry'[e].phase = "CLOSED"
  PROVE  ReservationOK(e)'
  BY DEF ReservationOK

\* A free conversation of the table has no holder.
LEMMA FreeHasNoHolder ==
  ASSUME References, Phases, Table, Reservations, NEW e \in Mapped, Free(e),
         entry[e].phase # "CLOSED"
  PROVE  /\ \A d \in Clients : ~Holds(d, e)
         /\ \A t \in tasks : ~Cancels(t, e)
         /\ entry[e].phase # "GENERATING"
<1>1. e \in Used /\ IsHeld(e) /\ PhaseOK(e)
  BY DEF Table, Reservations, ReservationOK, Phases
<1>2. \A d \in Clients : Holds(d, e) => client[d].q \in Request
  BY DEF References, LeaseOK, Holds
<1>3. \A t \in tasks : Cancels(t, e) => t.q \in Request
  BY DEF References, TaskOK, Cancels
<1> QED BY <1>1, <1>2, <1>3, NoneAssumption DEF IsHeld, PhaseOK, Free

\* Only client c's lease changes, and not on entry x.
LEMMA OtherHolders ==
  ASSUME NEW c \in Clients, \A d \in Clients : d # c => client'[d] = client[d],
         NEW x, ~Holds(c, x), ~Holds(c, x)', SameCancels(x)
  PROVE  SameHolders(x)
<1>1. \A d \in Clients : d # c => (Holds(d, x)' <=> Holds(d, x))
  BY DEF Holds
<1>2. client'[c].pc = "installed" => client'[c].entry # x
  BY DEF Holds
<1> QED BY <1>1, <1>2 DEF SameHolders

LEMMA SameLeases ==
  ASSUME NEW x, SameCancels(x), UNCHANGED client
  PROVE  SameHolders(x)
  BY DEF SameHolders, Holds

LEMMA NewTaskCancels ==
  ASSUME NEW do \in {"shutdown", "notify", "invalidate", "discard", "dispose"},
         NEW e \in Entries, NEW x
  PROVE  ~Cancels(Task(do, e), x)
  BY TaskIsJob DEF Cancels

LEMMA ShutdownsCancel ==
  ASSUME NEW E \in SUBSET Entries, NEW t \in Shutdowns(E), NEW x
  PROVE  ~Cancels(t, x)
  BY ShutdownsAreJobs DEF Cancels

\* Who does not hold an entry.
LEMMA IdleHolds ==
  ASSUME NEW c \in Clients, Leases(c, Idle), NEW x
  PROVE  ~Holds(c, x)'
  BY DEF Leases, Idle, Holds

LEMMA TurnHolds ==
  ASSUME NEW c \in Clients, NEW e, NEW q, Turning(c, e, q), NEW x
  PROVE  Holds(c, x)' <=> q.kind = "text" /\ x = e
  BY TurningTurns DEF Holds

\* An entry that does not exist has no holder.
LEMMA UnusedUnheld ==
  ASSUME References, NEW e \in Unused
  PROVE  /\ \A d \in Clients : ~Holds(d, e)
         /\ \A t \in tasks : ~Cancels(t, e)
<1>1. e \notin Used /\ e # None
  BY NoneAssumption DEF Unused, Used
<1> QED BY <1>1 DEF References, LeaseOK, TaskOK, Holds, Cancels

LEMMA ReservationsStep ==
  ASSUME IInv, [Next]_vars
  PROVE  Reservations'
<1> USE DEF IInv, Sound
<1>0. Grows
  BY ReferencesStep
<1>1. ASSUME NEW c \in Clients, NEW key, NEW q, Asked(q, key), OpenFresh(c, key, q)
      PROVE  Reservations'
  <2>1. PICK e \in Unused, k \in Sids \cup Uuids :
          /\ Creates(e, k, q, IF q.kind = "tool" THEN "GENERATING" ELSE "READY", q.history)
          /\ \A x \in Entries : x # e => entry'[x] = entry[x]
          /\ OrderIs((Mapped \ Evicted) \cup {e})
          /\ Turning(c, e, q)
    BY <1>1, OpenFreshEffect
  <2>2. /\ client[c].pc = "idle" /\ tasks' = tasks \cup Shutdowns(Evicted)
        /\ Evicted \in SUBSET Entries
    BY <1>1, OpenFreshEffect DEF Table, Used
  <2>3. \A x : SameCancels(x)
    BY <2>2, ShutdownsCancel DEF SameCancels
  <2>4. \A d \in Clients : d # c => client'[d] = client[d]
    BY <2>1, TurnPc
  <2>5. ReservationOK(e)'
    <3>1. \A t \in tasks' : ~Cancels(t, e)
      BY <2>3, UnusedUnheld DEF SameCancels
    <3>2. \A d \in Clients : d # c => ~Holds(d, e)'
      BY <2>4, UnusedUnheld DEF Holds
    <3>3. CASE q.kind = "text"
      <4>1. Holds(c, e)' /\ client'[c].q = q
        BY <2>1, <3>3, TurnHolds, TurningTurns
      <4> QED BY <2>1, <3>1, <3>2, <3>3, <4>1, OnlyHolder DEF Creates
    <3>4. CASE q.kind # "text"
      <4>1. q.kind = "tool"
        BY <1>1, <3>4, KindsAssumption DEF Asked, Request
      <4>2. ~Holds(c, e)'
        BY <2>1, <3>4, TurnHolds
      <4> QED BY <2>1, <3>1, <3>2, <4>1, <4>2, NoHolder DEF Creates
    <3> QED BY <3>3, <3>4
  <2>6. ASSUME NEW x \in Used PROVE ReservationOK(x)'
    <3>1. x # e /\ entry'[x] = entry[x] /\ (x \in Mapped' => x \in Mapped)
      BY <2>1 DEF Used, OrderIs
    <3>2. SameHolders(x)
      <4>1. ~Holds(c, x) /\ ~Holds(c, x)'
        BY <2>1, <2>2, <3>1, TurnHolds DEF Holds
      <4> QED BY <2>3, <2>4, <4>1, OtherHolders
    <3> QED BY <3>1, <3>2, ReservationStays DEF Reservations
  <2> QED BY <2>1, <2>5, <2>6 DEF Reservations, Creates
\* A step that changes entry e alone, and nobody's hold on any other.
<1>2. ASSUME NEW e \in Used, NEW v, NEW f, NEW p, NEW s, Alters(e, v, f, p, s), ReservationOK(e)',
             Mapped' \subseteq Mapped, \A x \in Used : x # e => SameHolders(x)
      PROVE  Reservations'
  <2>1. ASSUME NEW x \in Used, x # e PROVE ReservationOK(x)'
    BY <1>2, <2>1, ReservationStays DEF Alters, Reservations, Used
  <2> QED BY <1>2, <2>1 DEF Reservations, Alters
\* A step that changes no entry's reservation.
<1>3. ASSUME UNCHANGED entry, Mapped' \subseteq Mapped, \A x \in Used : SameHolders(x)
      PROVE  Reservations'
  BY <1>3, SameGrows, ReservationStays DEF Reservations
<1>4. ASSUME NEW c \in Clients, NEW e \in Mapped, NEW key, NEW q, Asked(q, key),
             Admits1(c, key, q, e)
      PROVE  Reservations'
  <2>1. e \in Used /\ e \in Entries
    BY DEF Table, Used
  <2>2. CASE OpenReplay(c, key, q, e)
    <3>1. /\ Alters(e, q, entry[e].phase, entry[e].replay, entry[e].transcript) /\ Mapped' = Mapped
          /\ Leases(c, [Idle EXCEPT !.pc = "replay", !.entry = e, !.q = q])
          /\ tasks' = tasks /\ client[c].pc = "idle" /\ Free(e)
      BY <1>4, <2>2, OpenReplayEffect DEF OrderIs
    <3>2. /\ client'[c].pc = "replay" /\ client'[c].entry = e /\ client'[c].q = q
          /\ \A d \in Clients : d # c => client'[d] = client[d]
      BY <3>1 DEF Leases, Idle
    <3>3. ASSUME NEW x \in Used, x # e PROVE SameHolders(x)
      <4>1. ~Holds(c, x) /\ ~Holds(c, x)'
        BY <3>1, <3>2, <3>3 DEF Holds
      <4> QED BY <3>1, <3>2, <4>1, OtherHolders DEF SameCancels
    <3>4. ReservationOK(e)'
      <4>1. CASE entry[e].phase = "CLOSED"
        BY <3>1, <4>1, ClosedReserved DEF Alters
      <4>2. CASE entry[e].phase # "CLOSED"
        <5>1. /\ \A d \in Clients : ~Holds(d, e)
              /\ \A t \in tasks : ~Cancels(t, e)
              /\ entry[e].phase # "GENERATING"
          BY <3>1, <4>2, FreeHasNoHolder
        <5>2. Holds(c, e)' /\ \A d \in Clients : d # c => ~Holds(d, e)'
          BY <3>2, <5>1 DEF Holds
        <5> QED BY <3>1, <3>2, <5>1, <5>2, OnlyHolder DEF Alters
      <4> QED BY <4>1, <4>2
    <3> QED BY <1>2, <2>1, <3>1, <3>3, <3>4
  <2>3. CASE OpenContinue(c, key, q, e)
    <3>1. /\ Alters(e, q, IF IsTool(e) THEN "GENERATING" ELSE entry[e].phase, entry[e].replay,
                    entry[e].transcript)
          /\ Mapped' = Mapped /\ Turning(c, e, q) /\ ~OldClosed(e) /\ Free(e)
          /\ tasks' = tasks /\ client[c].pc = "idle" /\ entry[e].kind = q.kind
      BY <1>4, <2>3, OpenContinueEffect DEF OrderIs
    <3>2. \A d \in Clients : d # c => client'[d] = client[d]
      BY <3>1, TurnPc
    <3>3. ASSUME NEW x \in Used, x # e PROVE SameHolders(x)
      <4>1. ~Holds(c, x) /\ ~Holds(c, x)'
        BY <3>1, <3>3, TurnHolds DEF Holds
      <4> QED BY <3>1, <3>2, <4>1, OtherHolders DEF SameCancels
    <3>4. ReservationOK(e)'
      <4>1. entry[e].phase # "CLOSED"
        BY <2>1, <3>1, UsedEntry, KindsAssumption DEF OldClosed, IsTool, Phases, PhaseOK, Conversation
      <4>2. /\ \A d \in Clients : ~Holds(d, e)
            /\ \A t \in tasks : ~Cancels(t, e)
            /\ entry[e].phase # "GENERATING"
        BY <3>1, <4>1, FreeHasNoHolder
      <4>3. \A d \in Clients : d # c => ~Holds(d, e)'
        BY <3>2, <4>2 DEF Holds
      <4>4. CASE q.kind = "text"
        <5>1. Holds(c, e)' /\ client'[c].q = q /\ ~IsTool(e)
          BY <3>1, <4>4, TurnHolds, TurningTurns DEF IsTool
        <5> QED BY <3>1, <4>2, <4>3, <5>1, OnlyHolder DEF Alters
      <4>5. CASE q.kind # "text"
        <5>1. IsTool(e) /\ ~Holds(c, e)'
          BY <1>4, <3>1, <4>5, TurnHolds, KindsAssumption DEF IsTool, Asked, Request
        <5> QED BY <3>1, <4>2, <4>3, <5>1, NoHolder DEF Alters
      <4> QED BY <4>4, <4>5
    <3> QED BY <1>2, <2>1, <3>1, <3>3, <3>4
  <2>4. CASE OpenExpired(c, key, q, e)
    <3>1. /\ Alters(e, None, "CLOSED", entry[e].replay, entry[e].transcript) /\ Mapped' = Mapped
          /\ UNCHANGED client /\ tasks' = tasks \cup {Task("notify", e)}
      BY <1>4, <2>4, OpenExpiredEffect DEF OrderIs
    <3>2. \A x : SameCancels(x)
      BY <2>1, <3>1, NewTaskCancels DEF SameCancels
    <3>3. ReservationOK(e)'
      BY <3>1, ClosedReserved DEF Alters
    <3> QED BY <1>2, <2>1, <3>1, <3>2, <3>3, SameLeases
  <2>5. CASE OpenSettings(c, key, q, e) \/ OpenRewrite(c, key, q, e)
    <3>1. PICK n \in Unused, s \in Seq(Turn) : Rebases(c, e, n, q, s)
      BY <1>4, <2>5, OpenRebaseEffect
    <3>2. /\ tasks' = tasks /\ client[c].pc = "idle" /\ Free(e)
          /\ Mapped' = Mapped /\ Used' = Used \cup {n}
      BY <1>4, <2>5, <3>1, OpenRebaseEffect DEF OrderIs, Rebases, Creates
    <3>3. /\ client'[c].pc = "rebasing" /\ client'[c].entry = n /\ client'[c].old = e
          /\ client'[c].q = q /\ n # e /\ n \notin Used
          /\ \A d \in Clients : d # c => client'[d] = client[d]
      BY <3>1 DEF Rebases, Leases, Used
    <3>4. ReservationOK(n)'
      <4>1. /\ \A d \in Clients : ~Holds(d, n)
            /\ \A t \in tasks : ~Cancels(t, n)
        BY UnusedUnheld
      <4>2. Holds(c, n)' /\ \A d \in Clients : d # c => ~Holds(d, n)'
        BY <3>3, <4>1 DEF Holds
      <4> QED BY <3>1, <3>2, <3>3, <4>1, <4>2, OnlyHolder DEF Rebases, Creates
    <3>5. ReservationOK(e)'
      <4>1. CASE entry[e].phase = "CLOSED"
        BY <3>1, <4>1, ClosedReserved DEF Rebases
      <4>2. CASE entry[e].phase # "CLOSED"
        <5>1. /\ \A d \in Clients : ~Holds(d, e)
              /\ \A t \in tasks : ~Cancels(t, e)
              /\ entry[e].phase # "GENERATING"
          BY <3>2, <4>2, FreeHasNoHolder
        <5>2. Holds(c, e)' /\ \A d \in Clients : d # c => ~Holds(d, e)'
          BY <3>3, <5>1 DEF Holds
        <5> QED BY <3>1, <3>2, <3>3, <5>1, <5>2, OnlyHolder DEF Rebases
      <4> QED BY <4>1, <4>2
    <3>6. ASSUME NEW x \in Used, x # e PROVE ReservationOK(x)'
      <4>1. ~Holds(c, x) /\ ~Holds(c, x)'
        BY <3>2, <3>3, <3>6 DEF Holds
      <4>2. SameHolders(x)
        BY <3>2, <3>3, <4>1, OtherHolders DEF SameCancels
      <4>3. entry'[x] = entry[x]
        BY <3>1, <3>3, <3>6 DEF Rebases, Used
      <4> QED BY <3>2, <4>2, <4>3, ReservationStays DEF Reservations
    <3> QED BY <3>2, <3>4, <3>5, <3>6 DEF Reservations
  <2> QED BY <1>4, <2>2, <2>3, <2>4, <2>5 DEF Admits1
<1>5. ASSUME NEW c \in Clients, InstallRebase(c) PROVE Reservations'
  <2>1. PICK n \in Used, o \in Mapped : n = client[c].entry /\ o = client[c].old
    BY <1>5, InstallRebaseEffect
  <2>2. /\ Alters(o, None, entry[o].phase, entry[o].replay, entry[o].transcript)
        /\ client[c].pc = "rebasing" /\ Leases(c, [client[c] EXCEPT !.pc = "installed"])
        /\ tasks' = tasks \cup {Task("discard", o)}
        /\ Mapped' = (Mapped \ {o}) \cup {n}
    BY <1>5, <2>1, InstallRebaseEffect DEF OrderIs
  <2>3. /\ o \in Used /\ o \in Entries /\ n \in Entries /\ client[c] \in Lease
        /\ CandidateOfClient(c)
    BY <2>2 DEF Table, Used, TypeOK, Candidates
  <2>4. /\ client'[c].pc = "installed" /\ client'[c].entry = n /\ client'[c].old = o
        /\ client'[c].q = client[c].q /\ \A d \in Clients : d # c => client'[d] = client[d]
    BY <2>1, <2>2, <2>3 DEF Leases, Lease
  <2>5. \A x : SameCancels(x)
    BY <2>2, <2>3, NewTaskCancels DEF SameCancels
  <2>6. n # o
    BY <2>1, <2>3 DEF CandidateOfClient
  <2>7. ReservationOK(o)'
    <3>1. CASE entry[o].phase = "CLOSED"
      BY <2>2, <3>1, ClosedReserved DEF Alters
    <3>2. CASE entry[o].phase # "CLOSED"
      <4>1. OneHolder(o) /\ Holds(c, o)
        BY <2>1, <2>2, <2>3, <3>2 DEF Reservations, ReservationOK, Holds
      <4>2. ~Holds(c, o)'
        BY <2>4, <2>6 DEF Holds
      <4>3. \A d \in Clients : ~Holds(d, o)'
        BY <2>4, <4>1, <4>2 DEF OneHolder, Holds
      <4>4. \A t \in tasks' : ~Cancels(t, o)
        BY <2>5, <4>1 DEF OneHolder, SameCancels
      <4> QED BY <2>2, <4>3, <4>4, NoHolder DEF Alters
    <3> QED BY <3>1, <3>2
  <2>8. ReservationOK(n)'
    <3>1. /\ \A d \in Clients : d # c => ~NamedBy(d, n)
          /\ \A t \in tasks : ~Cancels(t, n)
          /\ Candidate(n) /\ entry[n].in_flight = client[c].q
      BY <2>1, <2>3 DEF CandidateOfClient, Cancels, Concerns
    <3>2. Holds(c, n)' /\ \A d \in Clients : d # c => ~Holds(d, n)'
      BY <2>4, <3>1 DEF Holds, NamedBy
    <3>3. \A t \in tasks' : ~Cancels(t, n)
      BY <2>5, <3>1 DEF SameCancels
    <3>4. entry'[n] = entry[n]
      BY <2>2, <2>3, <2>6 DEF Alters
    <3> QED BY <2>4, <3>1, <3>2, <3>3, <3>4, OnlyHolder DEF Candidate
  <2>9. ASSUME NEW x \in Used, x # o, x # n PROVE ReservationOK(x)'
    <3>1. ~Holds(c, x) /\ ~Holds(c, x)'
      BY <2>1, <2>4, <2>9 DEF Holds
    <3>2. SameHolders(x)
      BY <2>4, <2>5, <3>1, OtherHolders
    <3>3. entry'[x] = entry[x] /\ (x \in Mapped' => x \in Mapped)
      BY <2>2, <2>9 DEF Alters, Used
    <3> QED BY <3>2, <3>3, ReservationStays DEF Reservations
  <2> QED BY <2>2, <2>7, <2>8, <2>9 DEF Reservations, Alters
<1>6. ASSUME NEW c \in Clients, InstallRemoved(c) PROVE Reservations'
  <2>1. PICK n \in Used, o \in Used, q \in {client[c].q} : n = client[c].entry /\ o = client[c].old /\ q = client[c].q
    BY <1>6, InstallRemovedEffect DEF References, LeaseOK
  <2>2. /\ Alters(n, entry[n].in_flight, IF IsTool(n) THEN "GENERATING" ELSE entry[n].phase,
                  entry[n].replay, entry[n].transcript)
        /\ client[c].pc = "rebasing" /\ Turning(c, n, q)
        /\ tasks' = tasks \cup Shutdowns(Evicted) /\ Evicted \in SUBSET Entries
        /\ Mapped' = (Mapped \ Evicted) \cup {n}
    BY <1>6, <2>1, InstallRemovedEffect DEF OrderIs, Table, Used
  <2>3. entry[o].phase = "CLOSED" /\ CandidateOfClient(c) /\ entry[n].kind = q.kind /\ q \in Request
    BY <1>6, <2>1, <2>2 DEF InstallRemoved, Removed, OldClosed, Candidates, References, LeaseOK
  <2>4. \A x : SameCancels(x)
    BY <2>2, ShutdownsCancel DEF SameCancels
  <2>5. \A d \in Clients : d # c => client'[d] = client[d]
    BY <2>2, TurnPc
  <2>6. ReservationOK(n)'
    <3>1. /\ \A d \in Clients : d # c => ~NamedBy(d, n)
          /\ \A t \in tasks : ~Cancels(t, n)
          /\ Candidate(n) /\ entry[n].in_flight = q
      BY <2>1, <2>3 DEF CandidateOfClient, Cancels, Concerns
    <3>2. \A d \in Clients : d # c => ~Holds(d, n)'
      BY <2>5, <3>1 DEF Holds, NamedBy
    <3>3. \A t \in tasks' : ~Cancels(t, n)
      BY <2>4, <3>1 DEF SameCancels
    <3>4. CASE q.kind = "text"
      <4>1. Holds(c, n)' /\ client'[c].q = q /\ ~IsTool(n)
        BY <2>2, <2>3, <3>4, TurnHolds, TurningTurns DEF IsTool
      <4> QED BY <2>2, <3>1, <3>2, <3>3, <4>1, OnlyHolder DEF Alters, Candidate
    <3>5. CASE q.kind # "text"
      <4>1. IsTool(n) /\ ~Holds(c, n)'
        BY <2>2, <2>3, <3>5, TurnHolds, KindsAssumption DEF IsTool, Request
      <4> QED BY <2>2, <3>2, <3>3, <4>1, NoHolder DEF Alters
    <3> QED BY <3>4, <3>5
  <2>7. ASSUME NEW x \in Used, x # n PROVE ReservationOK(x)'
    <3>1. CASE x = o
      BY <1>0, <2>3, <3>1, ClosedReserved DEF Grows
    <3>2. CASE x # o
      <4>1. ~Holds(c, x) /\ ~Holds(c, x)'
        BY <2>1, <2>2, <2>7, <3>2, TurnHolds DEF Holds
      <4>2. SameHolders(x)
        BY <2>4, <2>5, <4>1, OtherHolders
      <4>3. entry'[x] = entry[x] /\ (x \in Mapped' => x \in Mapped)
        BY <2>2, <2>7 DEF Alters, Used
      <4> QED BY <4>2, <4>3, ReservationStays DEF Reservations
    <3> QED BY <3>1, <3>2
  <2> QED BY <2>2, <2>6, <2>7 DEF Reservations, Alters
<1>7. ASSUME NEW c \in Clients, InstallConflict(c) PROVE Reservations'
  <2>1. PICK n \in Used, o \in Used, q \in {client[c].q} : n = client[c].entry /\ o = client[c].old /\ q = client[c].q
    BY <1>7, InstallConflictEffect DEF References, LeaseOK
  <2>2. /\ client[c].pc = "rebasing" /\ Leases(c, Idle) /\ n \in Entries
        /\ tasks' = tasks \cup {Task("discard", n)} /\ UNCHANGED entry
        /\ Mapped' = Mapped /\ Used' = Used
    BY <1>7, <2>1, InstallConflictEffect DEF Used, Unused, Mapped
  <2>3. CandidateOfClient(c) /\ n \notin Mapped
    BY <2>1, <2>2 DEF Candidates, Placed, PlacedOnce, Starting, Used
  <2>4. \A x : SameCancels(x)
    BY <2>2, NewTaskCancels DEF SameCancels
  <2>5. /\ \A d \in Clients : d # c => client'[d] = client[d]
        /\ \A x : ~Holds(c, x)'
    BY <2>2, IdlePc, IdleHolds
  <2>6. ReservationOK(n)'
    <3>1. /\ \A d \in Clients : d # c => ~NamedBy(d, n)
          /\ \A t \in tasks : ~Cancels(t, n)
      BY <2>1, <2>3 DEF CandidateOfClient, Cancels, Concerns
    <3>2. \A d \in Clients : ~Holds(d, n)'
      BY <2>5, <3>1 DEF Holds, NamedBy
    <3>3. \A t \in tasks' : ~Cancels(t, n)
      BY <2>4, <3>1 DEF SameCancels
    <3> QED BY <2>2, <2>3, <3>2, <3>3, NoHolder
  <2>7. ReservationOK(o)'
    <3>1. CASE entry[o].phase = "CLOSED"
      BY <2>2, <3>1, ClosedReserved
    <3>2. CASE entry[o].phase # "CLOSED"
      <4>1. OneHolder(o) /\ Holds(c, o) /\ (o \in Mapped => IsHeld(o))
        BY <2>1, <2>2, <3>2 DEF Reservations, ReservationOK, Holds
      <4>2. o \notin Mapped
        <5> SUFFICES ASSUME o \in Mapped PROVE FALSE
          OBVIOUS
        <5>1. ~closed
          <6>1. order # <<>>
            BY DEF Mapped
          <6> QED BY <6>1 DEF Table
        <5>2. entry[o].in_flight = q
          BY <2>1, <4>1 DEF IsHeld
        <5>3. Named(entry[n].key) = {o}
          <6>1. entry[n].key = entry[o].key
            BY <2>1, <2>3 DEF CandidateOfClient
          <6> QED BY <6>1 DEF Named, Table
        <5>4. Installable(c)
          BY <2>1, <5>1, <5>2, <5>3 DEF Installable
        <5> QED BY <1>7, <5>4 DEF InstallConflict
      <4>3. \A d \in Clients : ~Holds(d, o)'
        BY <2>5, <4>1 DEF OneHolder, Holds
      <4>4. \A t \in tasks' : ~Cancels(t, o)
        BY <2>4, <4>1 DEF OneHolder, SameCancels
      <4> QED BY <2>2, <4>2, <4>3, <4>4, NoHolder
    <3> QED BY <3>1, <3>2
  <2>8. ASSUME NEW x \in Used, x # n, x # o PROVE ReservationOK(x)'
    <3>1. ~Holds(c, x)
      BY <2>1, <2>2, <2>8 DEF Holds
    <3>2. SameHolders(x)
      BY <2>4, <2>5, <3>1, OtherHolders
    <3> QED BY <2>2, <3>2, ReservationStays DEF Reservations
  <2> QED BY <2>2, <2>6, <2>7, <2>8 DEF Reservations
<1>8. ASSUME NEW c \in Clients, RebaseFails(c) PROVE Reservations'
  <2>1. PICK n \in Used, o \in Used, q \in {client[c].q}, u \in {CancelTask(c)} :
          n = client[c].entry /\ o = client[c].old /\ q = client[c].q /\ u = CancelTask(c)
    BY <1>8, RebaseFailsEffect DEF References, LeaseOK
  <2>2. /\ client[c].pc = "rebasing" /\ Leases(c, Idle) /\ n \in Entries
        /\ tasks' = tasks \cup {u} /\ u.do = "cancel" /\ u.old = o /\ u.q = q
        /\ UNCHANGED entry /\ Mapped' = Mapped /\ Used' = Used
    BY <1>8, <2>1, RebaseFailsEffect DEF Used, Unused, Mapped
  <2>3. CandidateOfClient(c) /\ n \notin Mapped /\ n # o
    BY <2>1, <2>2 DEF Candidates, CandidateOfClient, Placed, PlacedOnce, Starting, Used
  <2>4. \A x : x # o => SameCancels(x)
    BY <2>2 DEF SameCancels, Cancels
  <2>5. /\ \A d \in Clients : d # c => client'[d] = client[d]
        /\ \A x : ~Holds(c, x)'
    BY <2>2, IdlePc, IdleHolds
  <2>6. ReservationOK(n)'
    <3>1. /\ \A d \in Clients : d # c => ~NamedBy(d, n)
          /\ \A t \in tasks : ~Cancels(t, n)
      BY <2>1, <2>3 DEF CandidateOfClient, Cancels, Concerns
    <3>2. \A d \in Clients : ~Holds(d, n)'
      BY <2>5, <3>1 DEF Holds, NamedBy
    <3>3. \A t \in tasks' : ~Cancels(t, n)
      BY <2>3, <2>4, <3>1 DEF SameCancels
    <3> QED BY <2>2, <2>3, <3>2, <3>3, NoHolder
  <2>7. ReservationOK(o)'
    <3>1. CASE entry[o].phase = "CLOSED"
      BY <2>2, <3>1, ClosedReserved
    <3>2. CASE entry[o].phase # "CLOSED"
      <4>1. OneHolder(o) /\ Holds(c, o) /\ (o \in Mapped => IsHeld(o))
        BY <2>1, <2>2, <3>2 DEF Reservations, ReservationOK, Holds
      <4>2. \A d \in Clients : ~Holds(d, o)'
        BY <2>5, <4>1 DEF OneHolder, Holds
      <4>3. \A t \in tasks' : Cancels(t, o) => t = u
        BY <2>2, <4>1 DEF OneHolder
      <4>4. u \in tasks' /\ Cancels(u, o)
        BY <2>2 DEF Cancels
      <4>5. o \in Mapped' => entry'[o].in_flight = u.q
        BY <2>1, <2>2, <4>1 DEF IsHeld
      <4>6. entry'[o].phase # "GENERATING"
        BY <2>2, <4>1 DEF OneHolder
      <4> QED BY <4>2, <4>3, <4>4, <4>5, <4>6, OnlyCanceller
    <3> QED BY <3>1, <3>2
  <2>8. ASSUME NEW x \in Used, x # n, x # o PROVE ReservationOK(x)'
    <3>1. ~Holds(c, x)
      BY <2>1, <2>2, <2>8 DEF Holds
    <3>2. SameHolders(x)
      BY <2>4, <2>5, <2>8, <3>1, OtherHolders
    <3> QED BY <2>2, <3>2, ReservationStays DEF Reservations
  <2> QED BY <2>2, <2>6, <2>7, <2>8 DEF Reservations
\* The holder c of e gives it back.
<1>9. ASSUME NEW c \in Clients, NEW e \in Used, e = client[c].entry,
             client[c].pc \in {"turn", "aborting", "replay", "installed"}, Leases(c, Idle),
             tasks' = tasks, NEW v, NEW f, NEW p, NEW s, Alters(e, v, f, p, s),
             Mapped' \subseteq Mapped,
             entry[e].phase # "CLOSED" /\ IsHeld(e) => v = None \/ e \notin Mapped'
      PROVE  Reservations'
  <2>1. /\ \A d \in Clients : d # c => client'[d] = client[d]
        /\ \A x : ~Holds(c, x)' /\ SameCancels(x)
    BY <1>9, IdlePc, IdleHolds DEF SameCancels
  <2>2. ReservationOK(e)'
    <3>1. CASE entry[e].phase = "CLOSED"
      BY <1>0, <3>1, ClosedReserved DEF Grows
    <3>2. CASE entry[e].phase # "CLOSED"
      <4>1. OneHolder(e) /\ Holds(c, e) /\ (e \in Mapped => IsHeld(e))
        BY <1>9, <3>2 DEF Reservations, ReservationOK, Holds
      <4>2. \A d \in Clients : ~Holds(d, e)'
        BY <2>1, <4>1 DEF OneHolder, Holds
      <4>3. \A t \in tasks' : ~Cancels(t, e)
        BY <1>9, <4>1 DEF OneHolder
      <4>4. entry'[e].in_flight = None \/ e \notin Mapped'
        BY <1>9, <3>2, <4>1 DEF Alters
      <4> QED BY <4>2, <4>3, <4>4, NoHolder
    <3> QED BY <3>1, <3>2
  <2>3. ASSUME NEW x \in Used, x # e PROVE SameHolders(x)
    <3>1. ~Holds(c, x)
      BY <1>9, <2>3 DEF Holds
    <3> QED BY <2>1, <3>1, OtherHolders
  <2> QED BY <1>2, <1>9, <2>2, <2>3
<1>10. ASSUME NEW c \in Clients, RebaseProceeds(c) PROVE Reservations'
  <2>1. PICK n \in Used, q \in {client[c].q} : n = client[c].entry /\ q = client[c].q
    BY <1>10, RebaseProceedsEffect
  <2>2. /\ client[c].pc = "installed" /\ tasks' = tasks /\ Mapped' = Mapped
    BY <1>10, RebaseProceedsEffect DEF Mapped
  <2>3. CASE /\ OldClosed(n) /\ Leases(c, Idle)
             /\ Alters(n, Released(n, q), entry[n].phase, entry[n].replay, entry[n].transcript)
    <3>1. entry[n].phase = "CLOSED"
      BY <2>3 DEF OldClosed
    <3> QED BY <1>9, <2>1, <2>2, <2>3, <3>1
  <2>4. CASE /\ ~OldClosed(n) /\ Turning(c, n, q)
             /\ Alters(n, entry[n].in_flight, IF IsTool(n) THEN "GENERATING" ELSE entry[n].phase,
                       entry[n].replay, entry[n].transcript)
    <3>1. \A d \in Clients : d # c => client'[d] = client[d]
      BY <2>4, TurnPc
    <3>2. ASSUME NEW x \in Used, x # n PROVE SameHolders(x)
      <4>1. ~Holds(c, x) /\ ~Holds(c, x)'
        BY <2>1, <2>2, <2>4, <3>2, TurnHolds DEF Holds
      <4> QED BY <2>2, <3>1, <4>1, OtherHolders DEF SameCancels
    <3>3. ReservationOK(n)'
      <4>1. entry[n].kind = q.kind /\ entry[n].phase # "CLOSED" /\ (q.kind = "text" \/ q.kind = "tool")
        BY <2>1, <2>2, <2>4, UsedEntry, KindsAssumption
           DEF OldClosed, IsTool, Phases, PhaseOK, Conversation, Used, References, LeaseOK
      <4>2. OneHolder(n) /\ IsInstalled(n) /\ Holds(c, n)
        BY <2>1, <2>2, <4>1 DEF Reservations, ReservationOK, Holds
      <4>3. \A d \in Clients : d # c => ~Holds(d, n)'
        BY <3>1, <4>2 DEF OneHolder, Holds
      <4>4. \A t \in tasks' : ~Cancels(t, n)
        BY <2>2, <4>2 DEF OneHolder
      <4>5. CASE q.kind = "text"
        <5>1. Holds(c, n)' /\ client'[c].q = q /\ ~IsTool(n)
          BY <2>4, <4>1, <4>5, TurnHolds, TurningTurns DEF IsTool
        <5>2. entry[n].in_flight = q /\ entry[n].phase # "GENERATING"
          BY <2>1, <2>2, <4>2 DEF IsInstalled, OneHolder
        <5> QED BY <2>4, <4>3, <4>4, <5>1, <5>2, OnlyHolder DEF Alters
      <4>6. CASE q.kind = "tool"
        <5>1. IsTool(n) /\ ~Holds(c, n)'
          BY <2>4, <4>1, <4>6, TurnHolds DEF IsTool
        <5> QED BY <2>4, <4>3, <4>4, <5>1, NoHolder DEF Alters
      <4> QED BY <4>1, <4>5, <4>6
    <3> QED BY <1>2, <2>2, <2>4, <3>2, <3>3
  <2> QED BY <1>10, <2>1, <2>3, <2>4, RebaseProceedsEffect
<1>11. ASSUME NEW c \in Clients, RebaseCancelled(c) \/ ReplayEnds(c) PROVE Reservations'
  <2>1. PICK e \in Used, q \in {client[c].q} : e = client[c].entry /\ q = client[c].q
    BY <1>11, ReleaseEffect
  <2>2. /\ Alters(e, Released(e, q), entry[e].phase, entry[e].replay, entry[e].transcript)
        /\ client[c].pc \in {"installed", "replay"} /\ tasks' = tasks /\ Leases(c, Idle)
        /\ Mapped' = Mapped
    BY <1>11, <2>1, ReleaseEffect DEF Mapped
  <2>3. IsHeld(e) => Released(e, q) = None
    BY <2>1, <2>2 DEF IsHeld, Holds, Released
  <2> QED BY <1>9, <2>1, <2>2, <2>3
<1>12. ASSUME NEW c \in Clients, TurnCommits(c) PROVE Reservations'
  <2>1. PICK e \in Used : e = client[c].entry
    BY <1>12, TurnCommitsEffect
  <2>2. PICK s \in Seq(Turn), q \in Request : Alters(e, None, entry[e].phase, q, s)
    BY <1>12, <2>1, TurnCommitsEffect
  <2>3. client[c].pc = "turn" /\ tasks' = tasks /\ Leases(c, Idle) /\ Mapped' = Mapped
    BY <1>12, TurnCommitsEffect DEF Mapped
  <2> QED BY <1>9, <2>1, <2>2, <2>3
\* Reservations are kept for the entries that stay out of the table.
<1>13. ASSUME NEW c \in Clients, TurnFails(c) PROVE Reservations'
  <2>1. PICK e \in Used : e = client[c].entry
    BY <1>13, TurnFailsEffect
  <2>2. /\ client[c].pc \in {"turn", "aborting"} /\ Leases(c, Idle) /\ Invalidated(e)
        /\ tasks' = tasks
    BY <1>13, <2>1, TurnFailsEffect
  <2>3. CASE /\ Alters(e, None, entry[e].phase, entry[e].replay, entry[e].transcript)
             /\ OrderIs(Mapped \ {e})
    <3>1. Mapped' \subseteq Mapped
      BY <2>3 DEF OrderIs
    <3> QED BY <1>9, <2>1, <2>2, <2>3, <3>1
  <2>4. CASE e \notin Mapped /\ UNCHANGED <<entry, order>>
    <3>1. /\ Mapped' = Mapped
          /\ \A d \in Clients : d # c => client'[d] = client[d]
          /\ \A x : ~Holds(c, x)' /\ SameCancels(x)
      BY <2>2, <2>4, IdlePc, IdleHolds DEF SameCancels, Mapped
    <3>2. ReservationOK(e)'
      <4>1. CASE entry[e].phase = "CLOSED"
        BY <2>4, <4>1, ClosedReserved
      <4>2. CASE entry[e].phase # "CLOSED"
        <5>1. OneHolder(e) /\ Holds(c, e)
          BY <2>1, <2>2, <4>2 DEF Reservations, ReservationOK, Holds
        <5>2. \A d \in Clients : ~Holds(d, e)'
          BY <3>1, <5>1 DEF OneHolder, Holds
        <5>3. \A t \in tasks' : ~Cancels(t, e)
          BY <2>2, <5>1 DEF OneHolder
        <5> QED BY <2>4, <3>1, <5>2, <5>3, NoHolder
      <4> QED BY <4>1, <4>2
    <3>3. ASSUME NEW x \in Used, x # e PROVE ReservationOK(x)'
      <4>1. ~Holds(c, x)
        BY <2>1, <2>2, <3>3 DEF Holds
      <4>2. SameHolders(x)
        BY <3>1, <4>1, OtherHolders
      <4> QED BY <2>4, <3>1, <4>2, ReservationStays DEF Reservations
    <3> QED BY <2>4, <3>2, <3>3, SameGrows DEF Reservations
  <2> QED BY <2>2, <2>3, <2>4 DEF Invalidated
<1>14. ASSUME NEW c \in Clients, Abort(c) PROVE Reservations'
  <2>1. PICK e \in Used : e = client[c].entry
    BY <1>14, AbortEffect
  <2>2. /\ client[c].pc = "turn" /\ Leases(c, [client[c] EXCEPT !.pc = "aborting"])
        /\ tasks' = tasks \cup {Task("invalidate", e)} /\ client[c] \in Lease /\ e \in Entries
        /\ UNCHANGED <<entry, order>>
    BY <1>14, <2>1, AbortEffect DEF TypeOK, Used
  <2>3. /\ client'[c].pc = "aborting" /\ client'[c].entry = client[c].entry
        /\ client'[c].q = client[c].q
        /\ \A d \in Clients : d # c => client'[d] = client[d]
    BY <2>2 DEF Leases, Lease
  <2>4. \A x : SameCancels(x)
    BY <2>2, NewTaskCancels DEF SameCancels
  <2>5. ASSUME NEW x PROVE SameHolders(x)
    BY <2>2, <2>3, <2>4 DEF SameHolders, Holds
  <2> QED BY <1>3, <2>2, <2>5 DEF Mapped
<1>15. ASSUME NEW c \in Clients, ToolLeaves(c) PROVE Reservations'
  <2>1. PICK e \in Used : e = client[c].entry
    BY <1>15, ToolLeavesEffect
  <2>2. /\ client[c].pc = "tool" /\ Leases(c, Idle) /\ e \in Entries /\ Mapped' = Mapped
        /\ \/ ActorCloses(e) /\ tasks' = tasks \cup {Task("notify", e)}
           \/ UNCHANGED <<entry, tasks>>
    BY <1>15, <2>1, ToolLeavesEffect DEF Used, Mapped
  <2>3. \A x : SameCancels(x)
    BY <2>2, NewTaskCancels DEF SameCancels
  <2>4. ASSUME NEW x PROVE SameHolders(x)
    <3>1. ~Holds(c, x)
      BY <2>2 DEF Holds
    <3> QED BY <2>2, <2>3, <3>1, IdlePc, IdleHolds, OtherHolders
  <2>5. CASE ActorCloses(e)
    <3>1. ReservationOK(e)'
      BY <2>5, ClosedReserved DEF ActorCloses, Alters
    <3> QED BY <1>2, <2>2, <2>4, <2>5, <3>1 DEF ActorCloses
  <2>6. CASE UNCHANGED entry
    BY <1>3, <2>2, <2>4, <2>6
  <2> QED BY <2>2, <2>5, <2>6
<1>16. ASSUME NEW e \in Entries, ToolFails(e) PROVE Reservations'
  <2>1. /\ ActorCloses(e) /\ e \in Used /\ tasks' = tasks \cup {Task("notify", e)}
        /\ Mapped' = Mapped /\ UNCHANGED client
    BY <1>16, ToolFailsEffect DEF Mapped
  <2>2. \A x : SameHolders(x)
    BY <2>1, NewTaskCancels, SameLeases DEF SameCancels
  <2>3. ReservationOK(e)'
    BY <2>1, ClosedReserved DEF ActorCloses, Alters
  <2> QED BY <1>2, <2>1, <2>2, <2>3 DEF ActorCloses
<1>17. ASSUME NEW e \in Entries, NEW calls \in {None, e}, ToolCommits(e, calls) PROVE Reservations'
  <2>1. PICK s \in Seq(Turn), f \in {"READY", "WAITING_FOR_TOOLS"}, q \in Request \cup {None} :
          Alters(e, None, f, q, s)
    BY <1>17, ToolCommitsEffect
  <2>2. /\ e \in Used /\ entry[e].phase = "GENERATING" /\ tasks' = tasks /\ Mapped' = Mapped
        /\ \A c \in Clients : /\ client'[c].pc = client[c].pc /\ client'[c].entry = client[c].entry
                              /\ client'[c].old = client[c].old /\ client'[c].q = client[c].q
    BY <1>17, ToolCommitsEffect DEF Mapped
  <2>3. \A x : SameHolders(x)
    BY <2>2 DEF SameHolders, SameCancels, Holds
  <2>4. ReservationOK(e)'
    <3>1. OneHolder(e)
      BY <2>2 DEF Reservations, ReservationOK
    <3>2. \A d \in Clients : ~Holds(d, e)'
      BY <2>2, <2>3, <3>1 DEF OneHolder, SameHolders
    <3>3. \A t \in tasks' : ~Cancels(t, e)
      BY <2>2, <3>1 DEF OneHolder
    <3> QED BY <2>1, <3>2, <3>3, NoHolder DEF Alters
  <2> QED BY <1>2, <2>1, <2>2, <2>3, <2>4
\* A task that is no cancellation shuts an actor down, or does nothing to it.
<1>18. ASSUME NEW t \in tasks, t.do # "cancel", NEW e \in Used,
              ActorCloses(e) \/ UNCHANGED entry, UNCHANGED <<order, client>>,
              \A u \in tasks : u # t => u \in tasks',
              \A u \in tasks' : u \in tasks \/ \E do \in {"notify", "dispose"} : u = Task(do, e)
       PROVE  Reservations'
  <2>1. e \in Entries /\ Mapped' = Mapped
    BY <1>18 DEF Used, Mapped
  <2>2. \A x : SameCancels(x)
    <3> SUFFICES ASSUME NEW x, NEW u, Cancels(u, x) PROVE u \in tasks' <=> u \in tasks
      BY DEF SameCancels
    <3> QED BY <1>18, <2>1, NewTaskCancels DEF Cancels
  <2>3. \A x : SameHolders(x)
    BY <1>18, <2>2, SameLeases
  <2>4. CASE ActorCloses(e)
    <3>1. ReservationOK(e)'
      BY <2>4, ClosedReserved DEF ActorCloses, Alters
    <3> QED BY <1>2, <2>1, <2>3, <2>4, <3>1 DEF ActorCloses
  <2>5. CASE UNCHANGED entry
    BY <1>3, <2>1, <2>3, <2>5
  <2> QED BY <1>18, <2>4, <2>5
<1>19. ASSUME NEW t \in tasks, RunShutdown(t) PROVE Reservations'
  <2>1. PICK e \in Used : e = t.entry
    BY <1>19, RunShutdownEffect
  <2>2. t.do # "cancel" /\ ShutsDown(e, tasks \ {t}) /\ UNCHANGED <<order, client>>
    BY <1>19, <2>1, RunShutdownEffect
  <2> QED BY <1>18, <2>2 DEF ShutsDown
<1>20. ASSUME NEW t \in tasks, RunDiscard(t) PROVE Reservations'
  <2>1. PICK e \in Used : e = t.entry
    BY <1>20, RunDiscardEffect
  <2>2. t.do # "cancel" /\ UNCHANGED <<order, client>>
    BY <1>20, <2>1, RunDiscardEffect
  <2>3. CASE ShutsDown(e, (tasks \ {t}) \cup {Task("dispose", e)})
    <3>1. ActorCloses(e) \/ UNCHANGED entry
      BY <2>3 DEF ShutsDown
    <3>2. /\ \A u \in tasks : u # t => u \in tasks'
          /\ \A u \in tasks' : u \in tasks \/ \E do \in {"notify", "dispose"} : u = Task(do, e)
      BY <2>3 DEF ShutsDown
    <3> QED BY <1>18, <2>2, <3>1, <3>2
  <2>4. CASE UNCHANGED entry /\ tasks' = tasks \ {t}
    BY <1>18, <2>2, <2>4
  <2> QED BY <1>20, <2>1, <2>3, <2>4, RunDiscardEffect
<1>21. ASSUME NEW t \in tasks, RunDispose(t) PROVE Reservations'
  <2>1. t.do # "cancel" /\ t.entry \in Used /\ UNCHANGED <<entry, order, client>> /\ tasks' = tasks \ {t}
    BY <1>21, RunDisposeEffect
  <2> QED BY <1>18, <2>1
<1>22. ASSUME NEW t \in tasks, RunNotify(t) PROVE Reservations'
  <2>1. PICK e \in Used : e = t.entry
    BY <1>22, RunNotifyEffect
  <2>2. /\ t.do \in {"notify", "invalidate"} /\ Invalidated(e) /\ tasks' = tasks \ {t}
        /\ UNCHANGED client
    BY <1>22, <2>1, RunNotifyEffect
  <2>3. \A x : SameHolders(x)
    BY <2>2, SameLeases DEF SameCancels, Cancels
  <2>4. CASE /\ Alters(e, None, entry[e].phase, entry[e].replay, entry[e].transcript)
             /\ OrderIs(Mapped \ {e}) /\ e \in Mapped
    <3>1. ReservationOK(e)'
      <4>1. CASE t.do = "notify"
        <5>1. entry[e].phase = "CLOSED"
          BY <2>1, <4>1 DEF References, TaskOK
        <5> QED BY <2>4, <5>1, ClosedReserved DEF Alters
      <4>2. CASE t.do = "invalidate" /\ entry[e].phase # "CLOSED"
        <5>1. PICK c \in Clients : client[c].pc = "aborting" /\ client[c].entry = e
          BY <2>1, <2>4, <4>2 DEF Invalidations
        <5>2. OneHolder(e) /\ Holds(c, e)
          BY <4>2, <5>1 DEF Reservations, ReservationOK, Holds
        <5>3. IsInstalled(e)'
          <6> SUFFICES ASSUME NEW d \in Clients, client'[d].pc = "installed", client'[d].entry = e
                       PROVE  FALSE
            BY DEF IsInstalled
          <6>1. Holds(d, e)
            BY <2>2 DEF Holds
          <6>2. d = c
            BY <5>2, <6>1 DEF OneHolder
          <6> QED BY <2>2, <5>1, <6>2
        <5>4. OneHolder(e)'
          <6>1. entry'[e].phase = entry[e].phase
            BY <2>4 DEF Alters
          <6> QED BY <2>2, <2>3, <5>2, <6>1 DEF OneHolder, SameHolders
        <5> QED BY <2>4, <5>3, <5>4 DEF ReservationOK, OrderIs
      <4>3. CASE entry[e].phase = "CLOSED"
        BY <2>4, <4>3, ClosedReserved DEF Alters
      <4> QED BY <2>2, <4>1, <4>2, <4>3
    <3> QED BY <1>2, <2>3, <2>4, <3>1 DEF OrderIs
  <2>5. CASE UNCHANGED <<entry, order>>
    BY <1>3, <2>3, <2>5 DEF Mapped
  <2> QED BY <2>2, <2>4, <2>5 DEF Invalidated
<1>23. ASSUME NEW t \in tasks, RunCancel(t) PROVE Reservations'
  <2>1. PICK n \in Used, o \in Used : n = t.entry /\ o = t.old
    BY <1>23, RunCancelEffect
  <2>2. /\ Alters(o, Released(o, t.q), entry[o].phase, entry[o].replay, entry[o].transcript)
        /\ tasks' = (tasks \ {t}) \cup {Task("discard", n)} /\ t.do = "cancel" /\ n \in Entries
        /\ UNCHANGED client /\ Mapped' = Mapped
    BY <1>23, <2>1, RunCancelEffect DEF Used, Mapped
  <2>3. ReservationOK(o)'
    <3>1. CASE entry[o].phase = "CLOSED"
      BY <2>2, <3>1, ClosedReserved DEF Alters
    <3>2. CASE entry[o].phase # "CLOSED"
      <4>1. OneHolder(o) /\ Cancels(t, o) /\ (o \in Mapped => IsHeld(o))
        BY <2>1, <2>2, <3>2 DEF Reservations, ReservationOK, Cancels
      <4>2. \A d \in Clients : ~Holds(d, o)'
        BY <2>2, <4>1 DEF OneHolder, Holds
      <4>3. \A u \in tasks' : ~Cancels(u, o)
        BY <2>2, <4>1, NewTaskCancels DEF OneHolder
      <4>4. o \in Mapped => Released(o, t.q) = None
        BY <4>1 DEF IsHeld, Released
      <4> QED BY <2>2, <4>2, <4>3, <4>4, NoHolder DEF Alters
    <3> QED BY <3>1, <3>2
  <2>4. ASSUME NEW x \in Used, x # o PROVE SameHolders(x)
    <3>1. SameCancels(x)
      BY <2>1, <2>2, <2>4, NewTaskCancels DEF SameCancels, Cancels
    <3> QED BY <2>2, <3>1, SameLeases
  <2> QED BY <1>2, <2>2, <2>3, <2>4
<1>24. ASSUME Close PROVE Reservations'
  <2>1. PICK X : X = Mapped
    OBVIOUS
  <2>2. /\ X \in SUBSET Entries /\ tasks' = tasks \cup Shutdowns(X)
        /\ Mapped' = {} /\ UNCHANGED <<entry, client>>
    BY <1>24, <2>1, CloseEffect DEF Table, Used
  <2>3. \A x : SameHolders(x)
    BY <2>2, ShutdownsCancel, SameLeases DEF SameCancels
  <2> QED BY <1>3, <2>2, <2>3
<1>25. ASSUME Drained \/ UNCHANGED vars PROVE Reservations'
  <2>1. UNCHANGED <<entry, order, tasks, client>>
    BY <1>25 DEF Drained, vars
  <2>2. \A x : SameHolders(x)
    BY <2>1, SameLeases DEF SameCancels
  <2> QED BY <1>3, <2>1, <2>2 DEF Mapped
<1> QED
  BY <1>1, <1>4, <1>5, <1>6, <1>7, <1>8, <1>10, <1>11, <1>12, <1>13, <1>14, <1>15, <1>16,
     <1>17, <1>19, <1>20, <1>21, <1>22, <1>23, <1>24, <1>25, StepIs

----------------------------------------------------------------------------
(* A conversation being aborted stays with its turn.                       *)

\* The table takes no entry in that a task is to invalidate; the turns that
\* abort go on.
LEMMA InvalidationsKept ==
  ASSUME Invalidations,
         \A t \in tasks' : t.do = "invalidate" => t \in tasks /\ (t.entry \in Mapped' => t.entry \in Mapped),
         \A c \in Clients : client[c].pc = "aborting" =>
           client'[c].pc = "aborting" /\ client'[c].entry = client[c].entry
  PROVE  Invalidations'
  BY DEF Invalidations

LEMMA OtherTasks ==
  ASSUME NEW do \in {"shutdown", "notify", "discard", "dispose", "cancel"}, NEW e \in Entries
  PROVE  Task(do, e).do # "invalidate"
  BY TaskIsJob

LEMMA OtherShutdowns ==
  ASSUME NEW E \in SUBSET Entries, NEW t \in Shutdowns(E)
  PROVE  t.do # "invalidate"
  BY ShutdownsAreJobs

LEMMA InvalidationsStep ==
  ASSUME IInv, [Next]_vars
  PROVE  Invalidations'
<1> USE DEF IInv, Sound
<1>1. ASSUME NEW c \in Clients, NEW key, NEW q, Asked(q, key), OpenFresh(c, key, q)
      PROVE  Invalidations'
  <2>1. PICK e \in Unused, k \in Sids \cup Uuids :
          OrderIs((Mapped \ Evicted) \cup {e}) /\ Turning(c, e, q)
    BY <1>1, OpenFreshEffect
  <2>2. /\ client[c].pc = "idle" /\ tasks' = tasks \cup Shutdowns(Evicted)
        /\ Evicted \in SUBSET Entries
    BY <1>1, OpenFreshEffect DEF Table, Used
  <2>3. \A t \in tasks : t.entry # e
    BY UnusedNowhere
  <2>4. \A t \in tasks' : t.do = "invalidate" => t \in tasks
    BY <2>2, OtherShutdowns
  <2>5. \A d \in Clients : d # c => client'[d] = client[d]
    BY <2>1, TurnPc
  <2> QED BY <2>1, <2>2, <2>3, <2>4, <2>5, InvalidationsKept DEF OrderIs
\* A step by which the table takes no entry in and no turn aborts.
<1>2. ASSUME Mapped' \subseteq Mapped, \A t \in tasks' : t.do = "invalidate" => t \in tasks,
             \A c \in Clients : client[c].pc = "aborting" => client'[c] = client[c]
      PROVE  Invalidations'
  BY <1>2, InvalidationsKept
<1>3. ASSUME NEW c \in Clients, NEW e \in Mapped, NEW key, NEW q, Asked(q, key),
             Admits1(c, key, q, e)
      PROVE  Invalidations'
  <2>1. e \in Entries
    BY DEF Table, Used
  <2>2. Mapped' = Mapped
    BY <1>3, OpenReplayEffect, OpenContinueEffect, OpenExpiredEffect, OpenRebaseEffect
       DEF Admits1, OrderIs
  <2>3. CASE OpenReplay(c, key, q, e)
    BY <1>2, <1>3, <2>2, <2>3, OpenReplayEffect DEF Leases
  <2>4. CASE OpenContinue(c, key, q, e)
    BY <1>2, <1>3, <2>2, <2>4, OpenContinueEffect, TurnPc
  <2>5. CASE OpenExpired(c, key, q, e)
    BY <1>2, <1>3, <2>1, <2>2, <2>5, OpenExpiredEffect, OtherTasks
  <2>6. CASE OpenSettings(c, key, q, e) \/ OpenRewrite(c, key, q, e)
    <3>1. PICK n \in Unused, s \in Seq(Turn) : Rebases(c, e, n, q, s)
      BY <1>3, <2>6, OpenRebaseEffect
    <3>2. tasks' = tasks /\ client[c].pc = "idle"
      BY <1>3, <2>6, OpenRebaseEffect
    <3> QED BY <1>2, <2>2, <3>1, <3>2 DEF Rebases, Leases
  <2> QED BY <1>3, <2>3, <2>4, <2>5, <2>6 DEF Admits1
<1>4. ASSUME NEW c \in Clients, InstallRebase(c) PROVE Invalidations'
  <2>1. PICK n \in Used, o \in Mapped : n = client[c].entry /\ o = client[c].old
    BY <1>4, InstallRebaseEffect
  <2>2. /\ client[c].pc = "rebasing" /\ Leases(c, [client[c] EXCEPT !.pc = "installed"])
        /\ tasks' = tasks \cup {Task("discard", o)} /\ o \in Entries
        /\ Mapped' = (Mapped \ {o}) \cup {n}
    BY <1>4, <2>1, InstallRebaseEffect DEF OrderIs, Table, Used
  <2>3. \A t \in tasks : t.entry # n
    BY <2>1, <2>2 DEF Candidates, CandidateOfClient, Concerns
  <2>4. \A t \in tasks' : t.do = "invalidate" => t \in tasks
    BY <2>2, OtherTasks
  <2> QED BY <2>2, <2>3, <2>4, InvalidationsKept DEF Leases
<1>5. ASSUME NEW c \in Clients, InstallRemoved(c) PROVE Invalidations'
  <2>1. PICK n \in Used : n = client[c].entry
    BY <1>5, InstallRemovedEffect
  <2>2. /\ client[c].pc = "rebasing" /\ Turning(c, n, client[c].q)
        /\ tasks' = tasks \cup Shutdowns(Evicted) /\ Evicted \in SUBSET Entries
        /\ Mapped' = (Mapped \ Evicted) \cup {n}
    BY <1>5, <2>1, InstallRemovedEffect DEF OrderIs, Table, Used
  <2>3. \A t \in tasks : t.entry # n
    BY <2>1, <2>2 DEF Candidates, CandidateOfClient, Concerns
  <2>4. \A t \in tasks' : t.do = "invalidate" => t \in tasks
    BY <2>2, OtherShutdowns
  <2>5. \A d \in Clients : d # c => client'[d] = client[d]
    BY <2>2, TurnPc
  <2> QED BY <2>2, <2>3, <2>4, <2>5, InvalidationsKept
<1>6. ASSUME NEW c \in Clients, InstallConflict(c) PROVE Invalidations'
  <2>1. /\ client[c].pc = "rebasing" /\ Leases(c, Idle) /\ order' = order
        /\ tasks' = tasks \cup {Task("discard", client[c].entry)} /\ client[c].entry \in Entries
    BY <1>6, InstallConflictEffect DEF Used
  <2> QED BY <1>2, <2>1, OtherTasks DEF Mapped, Leases
<1>7. ASSUME NEW c \in Clients, RebaseFails(c) PROVE Invalidations'
  <2>1. /\ client[c].pc = "rebasing" /\ Leases(c, Idle) /\ order' = order
        /\ tasks' = tasks \cup {CancelTask(c)} /\ CancelTask(c).do = "cancel"
    BY <1>7, RebaseFailsEffect
  <2> QED BY <1>2, <2>1 DEF Mapped, Leases
<1>8. ASSUME NEW c \in Clients, RebaseProceeds(c) PROVE Invalidations'
  <2>1. /\ client[c].pc = "installed" /\ order' = order /\ tasks' = tasks
        /\ Leases(c, Idle) \/ \E e, q : Turning(c, e, q)
    BY <1>8, RebaseProceedsEffect
  <2>2. \A d \in Clients : d # c => client'[d] = client[d]
    BY <2>1, IdlePc, TurnPc
  <2> QED BY <1>2, <2>1, <2>2 DEF Mapped
<1>9. ASSUME NEW c \in Clients, RebaseCancelled(c) \/ ReplayEnds(c) PROVE Invalidations'
  <2>1. /\ client[c].pc \in {"installed", "replay"} /\ order' = order /\ tasks' = tasks
        /\ Leases(c, Idle)
    BY <1>9, ReleaseEffect
  <2> QED BY <1>2, <2>1 DEF Mapped, Leases
<1>10. ASSUME NEW c \in Clients, TurnCommits(c) PROVE Invalidations'
  <2>1. client[c].pc = "turn" /\ order' = order /\ tasks' = tasks /\ Leases(c, Idle)
    BY <1>10, TurnCommitsEffect
  <2> QED BY <1>2, <2>1 DEF Mapped, Leases
\* The turn that aborts takes its conversation out of the table.
<1>11. ASSUME NEW c \in Clients, TurnFails(c) PROVE Invalidations'
  <2>1. PICK e \in Used : e = client[c].entry
    BY <1>11, TurnFailsEffect
  <2>2. /\ client[c].pc \in {"turn", "aborting"} /\ Leases(c, Idle) /\ Invalidated(e)
        /\ tasks' = tasks
    BY <1>11, <2>1, TurnFailsEffect
  <2>3. e \notin Mapped' /\ Mapped' \subseteq Mapped
    BY <2>2 DEF Invalidated, OrderIs, Mapped
  <2> SUFFICES ASSUME NEW t \in tasks, t.do = "invalidate", t.entry \in Mapped'
               PROVE  \E d \in Clients : client'[d].pc = "aborting" /\ client'[d].entry = t.entry
    BY <2>2 DEF Invalidations
  <2>4. PICK d \in Clients : client[d].pc = "aborting" /\ client[d].entry = t.entry
    BY <2>3 DEF Invalidations
  <2>5. d # c
    BY <2>1, <2>3, <2>4
  <2> QED BY <2>2, <2>4, <2>5 DEF Leases
<1>12. ASSUME NEW c \in Clients, Abort(c) PROVE Invalidations'
  <2>1. PICK e \in Used : e = client[c].entry
    BY <1>12, AbortEffect
  <2>2. /\ client[c].pc = "turn" /\ Leases(c, [client[c] EXCEPT !.pc = "aborting"])
        /\ tasks' = tasks \cup {Task("invalidate", e)} /\ client[c] \in Lease /\ e \in Entries
        /\ Mapped' = Mapped
    BY <1>12, <2>1, AbortEffect DEF TypeOK, Used, Mapped
  <2>3. /\ client'[c].pc = "aborting" /\ client'[c].entry = e
        /\ \A d \in Clients : d # c => client'[d] = client[d]
    BY <2>1, <2>2 DEF Leases, Lease
  <2>4. Task("invalidate", e).entry = e
    BY <2>2, TaskIsJob
  <2> QED BY <2>2, <2>3, <2>4 DEF Invalidations
<1>13. ASSUME NEW c \in Clients, ToolLeaves(c) PROVE Invalidations'
  <2>1. /\ client[c].pc = "tool" /\ Leases(c, Idle) /\ client[c].entry \in Entries /\ order' = order
        /\ tasks' = tasks \cup {Task("notify", client[c].entry)} \/ tasks' = tasks
    BY <1>13, ToolLeavesEffect DEF Used
  <2> QED BY <1>2, <2>1, OtherTasks DEF Mapped, Leases
<1>14. ASSUME NEW e \in Entries, ToolFails(e) PROVE Invalidations'
  <2>1. tasks' = tasks \cup {Task("notify", e)} /\ UNCHANGED <<order, client>>
    BY <1>14, ToolFailsEffect
  <2> QED BY <1>2, <2>1, OtherTasks DEF Mapped
<1>15. ASSUME NEW e \in Entries, NEW calls \in {None, e}, ToolCommits(e, calls) PROVE Invalidations'
  <2>1. /\ tasks' = tasks /\ Mapped' = Mapped
        /\ \A c \in Clients : client'[c].pc = client[c].pc /\ client'[c].entry = client[c].entry
    BY <1>15, ToolCommitsEffect DEF Mapped
  <2> QED BY <2>1, InvalidationsKept
<1>16. ASSUME NEW t \in tasks, RunShutdown(t) PROVE Invalidations'
  <2>1. /\ UNCHANGED <<order, client>> /\ t.entry \in Entries
        /\ \A u \in tasks' : u \in tasks \/ u = Task("notify", t.entry)
    BY <1>16, RunShutdownEffect DEF ShutsDown, Used
  <2> QED BY <1>2, <2>1, OtherTasks DEF Mapped
<1>17. ASSUME NEW t \in tasks, RunNotify(t) PROVE Invalidations'
  <2>1. /\ client' = client /\ tasks' = tasks \ {t} /\ Mapped' \subseteq Mapped
    BY <1>17, RunNotifyEffect DEF Invalidated, OrderIs, Mapped
  <2> QED BY <1>2, <2>1
<1>18. ASSUME NEW t \in tasks, RunDiscard(t) PROVE Invalidations'
  <2>1. /\ UNCHANGED <<order, client>> /\ t.entry \in Entries
        /\ \A u \in tasks' : u \in tasks \/ u = Task("notify", t.entry) \/ u = Task("dispose", t.entry)
    BY <1>18, RunDiscardEffect DEF ShutsDown, Used
  <2> QED BY <1>2, <2>1, OtherTasks DEF Mapped
<1>19. ASSUME NEW t \in tasks, RunDispose(t) PROVE Invalidations'
  BY <1>2, <1>19, RunDisposeEffect DEF Mapped
<1>20. ASSUME NEW t \in tasks, RunCancel(t) PROVE Invalidations'
  <2>1. /\ UNCHANGED <<order, client>> /\ t.entry \in Entries
        /\ tasks' = (tasks \ {t}) \cup {Task("discard", t.entry)}
    BY <1>20, RunCancelEffect DEF Used
  <2> QED BY <1>2, <2>1, OtherTasks DEF Mapped
<1>21. ASSUME Close PROVE Invalidations'
  <2>1. /\ client' = client /\ Mapped' = {} /\ tasks' = tasks \cup Shutdowns(Mapped)
        /\ Mapped \in SUBSET Entries
    BY <1>21, CloseEffect DEF Table, Used
  <2> QED BY <1>2, <2>1, OtherShutdowns
<1>22. ASSUME Drained \/ UNCHANGED vars PROVE Invalidations'
  BY <1>2, <1>22 DEF Drained, vars, Mapped
<1> QED
  BY <1>1, <1>3, <1>4, <1>5, <1>6, <1>7, <1>8, <1>9, <1>10, <1>11, <1>12, <1>13, <1>14, <1>15,
     <1>16, <1>17, <1>18, <1>19, <1>20, <1>21, <1>22, StepIs

LEMMA TypesStep ==
  ASSUME IInv, [Next]_vars
  PROVE  TypeOK'
<1> USE DEF IInv, Sound
<1>1. ASSUME NEW c \in Clients, NEW key, NEW q, Asked(q, key), OpenFresh(c, key, q)
      PROVE  TypeOK'
  BY <1>1, OpenFreshEffect
<1>2. ASSUME NEW c \in Clients, NEW e \in Mapped, NEW key, NEW q, Asked(q, key),
             Admits1(c, key, q, e)
      PROVE  TypeOK'
  BY <1>2, OpenReplayEffect, OpenContinueEffect, OpenExpiredEffect, OpenRebaseEffect DEF Admits1
<1>3. ASSUME NEW c \in Clients,
             \/ InstallRebase(c) \/ InstallRemoved(c) \/ InstallConflict(c)
             \/ RebaseFails(c) \/ RebaseProceeds(c) \/ RebaseCancelled(c) \/ ReplayEnds(c)
      PROVE  TypeOK'
  BY <1>3, InstallRebaseEffect, InstallRemovedEffect, InstallConflictEffect, RebaseFailsEffect,
     RebaseProceedsEffect, ReleaseEffect
<1>4. ASSUME NEW c \in Clients, TurnCommits(c) \/ TurnFails(c) \/ Abort(c) \/ ToolLeaves(c)
      PROVE  TypeOK'
  BY <1>4, TurnCommitsEffect, TurnFailsEffect, AbortEffect, ToolLeavesEffect
<1>5. ASSUME NEW e \in Entries, ToolFails(e) \/ \E calls \in {None, e} : ToolCommits(e, calls)
      PROVE  TypeOK'
  BY <1>5, ToolFailsEffect, ToolCommitsEffect
<1>6. ASSUME NEW t \in tasks, \/ RunShutdown(t) \/ RunNotify(t) \/ RunDiscard(t)
                              \/ RunDispose(t) \/ RunCancel(t)
      PROVE  TypeOK'
  BY <1>6, RunShutdownEffect, RunNotifyEffect, RunDiscardEffect, RunDisposeEffect, RunCancelEffect
<1>7. ASSUME Close \/ Drained \/ UNCHANGED vars PROVE TypeOK'
  BY <1>7, CloseEffect, DrainedEffect, TypeKept
<1> QED BY <1>1, <1>2, <1>3, <1>4, <1>5, <1>6, <1>7, StepIs

LEMMA Initially ==
  ASSUME Init
  PROVE  IInv
<1>1. /\ Used = {} /\ Mapped = {} /\ Once(order) /\ Len(order) = 0 /\ order \in Seq(Entries)
      /\ \A c \in Clients : client[c] = Idle
  <2>1. order = <<>> /\ 1..0 = {}
    BY DEF Init
  <2>2. Used = {}
    BY DEF Used, Unused, Init
  <2> QED BY <2>1, <2>2 DEF Init, Mapped, Once
<1>2. TypeOK
  <2>1. Idle \in Lease
    BY DEF Idle, Lease
  <2> QED BY <1>1, <2>1 DEF Init, TypeOK
<1>3. References
  BY <1>1 DEF References, LeaseOK, Init, Idle
<1>4. Phases /\ Reservations
  BY <1>1 DEF Phases, Reservations
<1>5. Table
  BY <1>1, CapacityAssumption DEF Table, Init
<1>6. Candidates /\ Invalidations
  BY <1>1 DEF Candidates, Invalidations, Init, Idle
<1>7. Placed
  <2> SUFFICES ASSUME NEW e \in Entries PROVE PlacedOnce(e)
    BY DEF Placed
  <2>1. ~Starting(e) /\ ~Discarding(e) /\ closes[e] = 0 /\ e \notin draining /\ tasks = {}
    BY <1>1 DEF Starting, Discarding, Init, Idle
  <2> QED BY <1>1, <2>1 DEF PlacedOnce
<1> QED BY <1>2, <1>3, <1>4, <1>5, <1>6, <1>7 DEF IInv, Sound

----------------------------------------------------------------------------
(* The theorems.                                                           *)

\* What the table, the reservations and the cleanup tasks are in every
\* reachable state.
THEOREM RegistryInvariant == Spec => []IInv
<1>1. Init => IInv
  BY Initially
<1>2. IInv /\ [Next]_vars => IInv'
  <2> SUFFICES ASSUME IInv, [Next]_vars PROVE IInv'
    OBVIOUS
  <2>1. References'
    BY ReferencesStep DEF IInv
  <2> QED BY <2>1, TypesStep, PhasesStep, TableStep, CandidatesStep, PlacedStep, ReservationsStep,
             InvalidationsStep DEF IInv, Sound
<1> QED BY <1>1, <1>2, PTL DEF Spec

\* Whatever opens, rebases and removals overlap, the table holds at most
\* --max-sessions conversations, and one for an id.
THEOREM CapacityKept == Spec => []CapacityIsKept
<1>1. IInv => CapacityIsKept
  <2> SUFFICES ASSUME IInv PROVE CapacityIsKept
    OBVIOUS
  <2>1. Table
    BY DEF IInv, Sound
  <2> QED BY <2>1 DEF CapacityIsKept, Table, Once, Mapped
<1> QED BY <1>1, RegistryInvariant, PTL

\* No backend is lost, closed twice, or closed while a request uses it.
THEOREM BackendsAccountedFor == Spec => []EveryBackendIsAccountedFor
<1>1. IInv => EveryBackendIsAccountedFor
  <2> SUFFICES ASSUME IInv, NEW e \in Entries
               PROVE  /\ closes[e] <= 1
                      /\ IF e \in Unused THEN Places(e) = {}
                                         ELSE \E p \in Places(e) : Places(e) = {p}
    BY DEF EveryBackendIsAccountedFor
  <2>1. PlacedOnce(e) /\ closes[e] \in Nat
    BY DEF IInv, Sound, Placed, TypeOK
  <2>2. CASE e \in Unused
    <3>1. /\ e \notin Mapped /\ e \notin draining /\ closes[e] = 0 /\ ~Starting(e) /\ ~Discarding(e)
      BY <2>2, UnusedNowhere DEF IInv, Sound
    <3> QED BY <2>2, <3>1 DEF Places
  <2>3. CASE e \notin Unused
    <3>1. e \in Mapped \/ Starting(e) \/ Discarding(e) \/ e \in draining \/ closes[e] > 0
      BY <2>1, <2>3 DEF PlacedOnce, Used
    <3>2. CASE e \in Mapped
      <4>1. Places(e) = {"mapped"}
        BY <2>1, <3>2 DEF Places, PlacedOnce
      <4> QED BY <2>1, <2>3, <4>1 DEF PlacedOnce
    <3>3. CASE Starting(e)
      <4>1. Places(e) = {"starting"}
        BY <2>1, <3>3 DEF Places, PlacedOnce
      <4> QED BY <2>1, <2>3, <4>1 DEF PlacedOnce
    <3>4. CASE Discarding(e)
      <4>1. Places(e) = {"discarding"}
        BY <2>1, <3>4 DEF Places, PlacedOnce
      <4> QED BY <2>1, <2>3, <4>1 DEF PlacedOnce
    <3>5. CASE e \in draining
      <4>1. Places(e) = {"draining"}
        BY <2>1, <3>5 DEF Places, PlacedOnce
      <4> QED BY <2>1, <2>3, <4>1 DEF PlacedOnce
    <3>6. CASE closes[e] > 0
      <4>1. closes[e] # 0
        BY <2>1, <3>6
      <4>2. Places(e) = {"closed"}
        BY <2>1, <3>6, <4>1 DEF Places, PlacedOnce
      <4> QED BY <2>1, <2>3, <4>2 DEF PlacedOnce
    <3> QED BY <3>1, <3>2, <3>3, <3>4, <3>5, <3>6
  <2> QED BY <2>2, <2>3
<1> QED BY <1>1, RegistryInvariant, PTL

\* A reservation in the table has exactly one holder, whose request it is.
THEOREM OneReservationHolder == Spec => []ReservationHasOneHolder
<1>1. IInv => ReservationHasOneHolder
  <2> SUFFICES ASSUME IInv, NEW e \in Mapped, entry[e].phase # "CLOSED"
               PROVE  /\ \A g, h \in Holders(e) : g = h
                      /\ \A h \in Holders(e) : entry[e].in_flight = HolderRequest(e, h)
                      /\ entry[e].in_flight # None => Holders(e) # {}
    BY DEF ReservationHasOneHolder
  <2>1. e \in Used /\ e \in Entries /\ tasks \subseteq Job
    BY DEF IInv, Sound, Table, Used, TypeOK
  <2>2. OneHolder(e) /\ IsHeld(e)
    BY <2>1 DEF IInv, Reservations, ReservationOK
  <2>3. ASSUME NEW h
        PROVE  h \in Holders(e) <=> \/ h \in Clients /\ Holds(h, e)
                                    \/ h \in tasks /\ Cancels(h, e)
                                    \/ h = e /\ entry[e].phase = "GENERATING"
    BY DEF Holders, Holds, Cancels
  <2>4. \A g, h \in Holders(e) : g = h
    BY <2>2, <2>3 DEF OneHolder
  <2>5. ASSUME NEW h \in Holders(e) PROVE entry[e].in_flight = HolderRequest(e, h)
    <3>1. CASE h \in Clients /\ Holds(h, e)
      BY <2>2, <3>1 DEF IsHeld, HolderRequest
    <3>2. CASE h \in tasks /\ Cancels(h, e)
      <4>1. h \notin Clients /\ h # e
        BY <2>1, <3>2, NamesAssumption
      <4> QED BY <2>2, <3>2, <4>1 DEF IsHeld, HolderRequest
    <3>3. CASE h = e
      <4>1. h \notin Clients
        BY <2>1, <3>3, NamesAssumption
      <4> QED BY <3>3, <4>1 DEF HolderRequest
    <3> QED BY <2>3, <3>1, <3>2, <3>3
  <2>6. ASSUME entry[e].in_flight # None PROVE Holders(e) # {}
    <3>1. \E h : h \in Holders(e)
      BY <2>2, <2>3, <2>6 DEF IsHeld
    <3> QED BY <3>1
  <2> QED BY <2>4, <2>5, <2>6
<1> QED BY <1>1, RegistryInvariant, PTL

\* A step that leaves the transcripts of text conversations alone.
LEMMA SameTranscripts ==
  ASSUME NEW e \in Used, NEW v, NEW f, NEW p, Alters(e, v, f, p, entry[e].transcript)
  PROVE  \A x \in Used : entry'[x].transcript = entry[x].transcript
  BY DEF Alters, Used

LEMMA CommitsStep ==
  ASSUME IInv, [Next]_vars
  PROVE  \A x \in Used : ~IsTool(x) /\ entry'[x].transcript # entry[x].transcript => x \in Mapped
<1> DEFINE Goal == \A x \in Used : ~IsTool(x) /\ entry'[x].transcript # entry[x].transcript => x \in Mapped
<1> SUFFICES Goal
  OBVIOUS
<1> USE DEF IInv, Sound
<1>1. ASSUME NEW c \in Clients, NEW key, NEW q, Asked(q, key), OpenFresh(c, key, q)
      PROVE  Goal
  <2>1. PICK e \in Unused : \A x \in Entries : x # e => entry'[x] = entry[x]
    BY <1>1, OpenFreshEffect
  <2> QED BY <2>1 DEF Used
<1>2. ASSUME NEW c \in Clients, NEW e \in Mapped, NEW key, NEW q, Asked(q, key),
             Admits1(c, key, q, e)
      PROVE  Goal
  <2>1. e \in Used
    BY DEF Table
  <2>2. CASE OpenReplay(c, key, q, e)
    BY ZenonT(60), <1>2, <2>1, <2>2, OpenReplayEffect, SameTranscripts
  <2>4. CASE OpenContinue(c, key, q, e)
    <3>1. \E f : Alters(e, q, f, entry[e].replay, entry[e].transcript)
      BY <1>2, <2>4, OpenContinueEffect
    <3> QED BY <2>1, <3>1, SameTranscripts
  <2>5. CASE OpenExpired(c, key, q, e)
    BY <1>2, <2>1, <2>5, OpenExpiredEffect, SameTranscripts
  <2>3. CASE OpenSettings(c, key, q, e) \/ OpenRewrite(c, key, q, e)
    <3>1. PICK n \in Unused, s \in Seq(Turn) : Rebases(c, e, n, q, s)
      BY <1>2, <2>3, OpenRebaseEffect
    <3> QED BY <3>1 DEF Rebases, Used
  <2> QED BY <1>2, <2>2, <2>3, <2>4, <2>5 DEF Admits1
<1>3. ASSUME NEW c \in Clients, InstallRebase(c) PROVE Goal
  <2>1. PICK o \in Used : o = client[c].old
    BY <1>3, InstallRebaseEffect DEF Table
  <2> QED BY <1>3, <2>1, InstallRebaseEffect, SameTranscripts
<1>4. ASSUME NEW c \in Clients, InstallRemoved(c) \/ RebaseProceeds(c) PROVE Goal
  <2>1. PICK n \in Used : n = client[c].entry
    BY <1>4, InstallRemovedEffect, RebaseProceedsEffect
  <2>2. \E v, f, p : Alters(n, v, f, p, entry[n].transcript)
    BY <1>4, <2>1, InstallRemovedEffect, RebaseProceedsEffect
  <2> QED BY <2>2, SameTranscripts
<1>5. ASSUME NEW c \in Clients, RebaseCancelled(c) \/ ReplayEnds(c) PROVE Goal
  <2>1. PICK e \in Used : e = client[c].entry
    BY <1>5, ReleaseEffect
  <2> QED BY <1>5, <2>1, ReleaseEffect, SameTranscripts
<1>6. ASSUME NEW c \in Clients, TurnCommits(c) PROVE Goal
  <2>1. PICK e \in Used : e = client[c].entry
    BY <1>6, TurnCommitsEffect
  <2>2. e \in Mapped /\ \E v, f, p, s : Alters(e, v, f, p, s)
    BY <1>6, <2>1, TurnCommitsEffect
  <2> QED BY <2>2 DEF Alters, Used
<1>7. ASSUME NEW e \in Used, Invalidated(e) PROVE Goal
  BY <1>7, SameTranscripts DEF Invalidated
<1>8. ASSUME NEW c \in Clients, TurnFails(c) PROVE Goal
  BY <1>7, <1>8, TurnFailsEffect
<1>9. ASSUME NEW t \in tasks, RunNotify(t) PROVE Goal
  BY <1>7, <1>9, RunNotifyEffect
<1>10. ASSUME NEW e \in Used, ActorCloses(e) PROVE Goal
  BY <1>10, SameTranscripts DEF ActorCloses
<1>11. ASSUME UNCHANGED entry PROVE Goal
  BY <1>11
<1>12. ASSUME NEW c \in Clients, ToolLeaves(c) PROVE Goal
  BY <1>10, <1>11, <1>12, ToolLeavesEffect
<1>13. ASSUME NEW e \in Entries, ToolFails(e) PROVE Goal
  BY <1>10, <1>13, ToolFailsEffect
<1>14. ASSUME NEW e \in Entries, NEW calls \in {None, e}, ToolCommits(e, calls) PROVE Goal
  <2>1. IsTool(e) /\ \E v, f, p, s : Alters(e, v, f, p, s)
    BY <1>14, ToolCommitsEffect
  <2> QED BY <2>1 DEF Alters, Used
<1>15. ASSUME NEW t \in tasks, RunShutdown(t) PROVE Goal
  BY <1>10, <1>11, <1>15, RunShutdownEffect DEF ShutsDown
<1>16. ASSUME NEW t \in tasks, RunDiscard(t) PROVE Goal
  BY <1>10, <1>11, <1>16, RunDiscardEffect DEF ShutsDown
<1>17. ASSUME NEW t \in tasks, RunCancel(t) PROVE Goal
  <2>1. PICK o \in Used : o = t.old
    BY <1>17, RunCancelEffect
  <2> QED BY <1>17, <2>1, RunCancelEffect, SameTranscripts
<1>18. ASSUME \/ \E c \in Clients : InstallConflict(c) \/ RebaseFails(c) \/ Abort(c)
              \/ \E t \in tasks : RunDispose(t)
              \/ Close \/ Drained \/ UNCHANGED vars
       PROVE  Goal
  BY <1>11, <1>18 DEF InstallConflict, RebaseFails, Abort, RunDispose, Close, Drained, vars
<1> HIDE DEF Goal
<1> QED
  BY <1>1, <1>2, <1>3, <1>4, <1>5, <1>6, <1>8, <1>9, <1>12, <1>13, <1>14, <1>15, <1>16, <1>17,
     <1>18, StepIs

\* A text turn is committed to a conversation of the table, never to one that
\* close(), a failure or a rebase has taken out of it.
THEOREM CommitsInTable == Spec => NoCommitOutsideTable
<1>1. IInv /\ [Next]_vars =>
        [\A e \in Entries \ Unused :
           ~IsTool(e) /\ entry'[e].transcript # entry[e].transcript => e \in Mapped]_vars
  BY CommitsStep DEF Used
<1> QED BY <1>1, RegistryInvariant, PTL DEF Spec, NoCommitOutsideTable

\* How an entry leaves the table.
Leaves(e) ==
  \/ Evictable(e)
  \/ \E c \in Clients : client[c].pc = "rebasing" /\ client[c].old = e /\ InstallRebase(c)
  \/ \E c \in Clients : client[c].entry = e /\ TurnFails(c)
  \/ \E t \in tasks : t.do \in {"notify", "invalidate"} /\ t.entry = e
  \/ closed'

LEMMA LeavesTable ==
  ASSUME IInv, [Next]_vars, NEW e \in Mapped, e \notin Mapped'
  PROVE  Leaves(e)
<1> USE DEF IInv, Sound
<1>1. ASSUME NEW c \in Clients, NEW key, NEW q, Asked(q, key), OpenFresh(c, key, q)
      PROVE  Leaves(e)
  <2>1. Mapped \ Evicted \subseteq Mapped' /\ \A x \in Evicted : Evictable(x)
    BY <1>1, OpenFreshEffect DEF OrderIs
  <2> QED BY <2>1 DEF Leaves
<1>2. ASSUME NEW c \in Clients, NEW x \in Mapped, NEW key, NEW q, Asked(q, key),
             Admits1(c, key, q, x)
      PROVE  Leaves(e)
  <2>1. Mapped' = Mapped
    BY <1>2, OpenReplayEffect, OpenContinueEffect, OpenExpiredEffect, OpenRebaseEffect
       DEF Admits1, OrderIs
  <2> QED BY <2>1
<1>3. ASSUME NEW c \in Clients, InstallRebase(c) PROVE Leaves(e)
  BY <1>3, InstallRebaseEffect DEF OrderIs, Leaves
<1>4. ASSUME NEW c \in Clients, InstallRemoved(c) PROVE Leaves(e)
  <2>1. Mapped \ Evicted \subseteq Mapped' /\ \A x \in Evicted : Evictable(x)
    BY <1>4, InstallRemovedEffect DEF OrderIs
  <2> QED BY <2>1 DEF Leaves
<1>5. ASSUME NEW c \in Clients, TurnFails(c) PROVE Leaves(e)
  BY <1>5, TurnFailsEffect DEF Invalidated, OrderIs, Leaves, Mapped
<1>6. ASSUME NEW t \in tasks, RunNotify(t) PROVE Leaves(e)
  BY ZenonT(60), <1>6, RunNotifyEffect DEF Invalidated, OrderIs, Leaves, Mapped
<1>7. ASSUME UNCHANGED order PROVE Leaves(e)
  BY <1>7 DEF Mapped
<1>8. ASSUME NEW c \in Clients,
             \/ InstallConflict(c) \/ RebaseFails(c) \/ RebaseProceeds(c) \/ RebaseCancelled(c)
             \/ ReplayEnds(c) \/ TurnCommits(c) \/ Abort(c) \/ ToolLeaves(c)
      PROVE  Leaves(e)
  BY Zenon, <1>7, <1>8 DEF InstallConflict, RebaseFails, RebaseProceeds, RebaseCancelled, ReplayEnds,
                   TurnCommits, Abort, ToolLeaves
<1>9. ASSUME NEW x \in Entries, ToolFails(x) \/ \E calls \in {None, x} : ToolCommits(x, calls)
      PROVE  Leaves(e)
  BY Zenon, <1>7, <1>9 DEF ToolFails, ToolCommits
<1>10. ASSUME NEW t \in tasks, RunShutdown(t) \/ RunDiscard(t) \/ RunDispose(t) \/ RunCancel(t)
       PROVE  Leaves(e)
  BY <1>7, <1>10 DEF RunShutdown, RunDiscard, RunDispose, RunCancel
<1>11. ASSUME Close PROVE Leaves(e)
  BY <1>11, CloseEffect DEF Leaves
<1>12. ASSUME Drained \/ UNCHANGED vars PROVE Leaves(e)
  BY <1>7, <1>12 DEF Drained, vars
<1> QED
  BY <1>1, <1>2, <1>3, <1>4, <1>5, <1>6, <1>8, <1>9, <1>10, <1>11, <1>12, StepIs

LEMMA LiveTurnsStep ==
  ASSUME IInv, [Next]_vars
  PROVE  LiveTurnsAreKept
<1> SUFFICES ASSUME NEW c \in Clients, NEW e, e = client[c].entry, client[c].pc = "turn",
                    e \in Mapped, e \notin Mapped', ~closed'
             PROVE  client'[c].pc = "idle"
  BY DEF LiveTurnsAreKept
<1> USE DEF IInv, Sound
<1>1. e \in Used /\ entry[e].kind = "text" /\ entry[e].phase # "CLOSED" /\ client[c].q # None
  BY NoneAssumption DEF References, LeaseOK, Phases, PhaseOK
<1>2. OneHolder(e) /\ IsHeld(e) /\ Holds(c, e)
  BY <1>1 DEF Reservations, ReservationOK, Holds
<1>3. ~Evictable(e)
  BY <1>1, <1>2 DEF IsHeld, Evictable, Free
<1>4. ASSUME NEW d \in Clients, client[d].pc = "rebasing", client[d].old = e PROVE FALSE
  <2>1. Holds(d, e)
    BY <1>4 DEF Holds
  <2>2. d = c
    BY <1>2, <2>1 DEF OneHolder
  <2> QED BY <1>4, <2>2
<1>5. ASSUME NEW d \in Clients, client[d].entry = e, TurnFails(d) PROVE client'[c].pc = "idle"
  <2>1. client[d].pc \in {"turn", "aborting"} /\ Leases(d, Idle)
    BY <1>5, TurnFailsEffect
  <2>2. Holds(d, e)
    BY <1>5, <2>1 DEF Holds
  <2>3. d = c
    BY <1>2, <2>2 DEF OneHolder
  <2> QED BY <2>1, <2>3 DEF Leases, Idle
<1>6. ASSUME NEW t \in tasks, t.do \in {"notify", "invalidate"}, t.entry = e PROVE FALSE
  <2>1. t.do = "invalidate"
    BY <1>1, <1>6 DEF References, TaskOK
  <2>2. PICK d \in Clients : client[d].pc = "aborting" /\ client[d].entry = e
    BY <1>6, <2>1 DEF Invalidations
  <2>3. Holds(d, e)
    BY <2>2 DEF Holds
  <2>4. d = c
    BY <1>2, <2>3 DEF OneHolder
  <2> QED BY <2>2, <2>4
<1>7. Leaves(e)
  BY LeavesTable
<1> QED BY <1>3, <1>4, <1>5, <1>6, <1>7 DEF Leaves

LEMMA PendingCallsStep ==
  ASSUME IInv, [Next]_vars
  PROVE  PendingCallsSurvive
<1> SUFFICES ASSUME NEW e \in Mapped, entry[e].phase = "WAITING_FOR_TOOLS", e \notin Mapped', ~closed'
             PROVE  \E n \in Mapped' :
                      /\ entry'[n].key = entry[e].key
                      /\ CallsAtEnd(entry'[n].transcript) = CallsAtEnd(entry[e].transcript)
  BY DEF PendingCallsSurvive
<1> USE DEF IInv, Sound
<1>1. e \in Used /\ entry[e].kind # "text" /\ IsTool(e)
  BY UsedEntry, KindsAssumption DEF Table, Phases, PhaseOK, IsTool, Conversation, Used
<1>2. ~Evictable(e)
  BY <1>1 DEF Evictable
<1>3. ASSUME NEW c \in Clients, client[c].old = e, InstallRebase(c)
      PROVE  \E n \in Mapped' :
               /\ entry'[n].key = entry[e].key
               /\ CallsAtEnd(entry'[n].transcript) = CallsAtEnd(entry[e].transcript)
  <2>1. PICK n \in Used : n = client[c].entry
    BY <1>3, InstallRebaseEffect
  <2>2. /\ Alters(e, None, entry[e].phase, entry[e].replay, entry[e].transcript)
        /\ client[c].pc = "rebasing" /\ n \in Mapped'
    BY <1>3, <2>1, InstallRebaseEffect DEF OrderIs
  <2>3. CandidateOfClient(c)
    BY <2>2 DEF Candidates
  <2>4. n # e /\ entry[n].key = entry[e].key
        /\ CallsAtEnd(entry[n].transcript) = CallsAtEnd(entry[e].transcript)
    BY <1>3, <2>1, <2>3 DEF CandidateOfClient
  <2>5. entry'[n] = entry[n]
    BY <2>2, <2>4 DEF Alters, Used
  <2> QED BY <2>2, <2>4, <2>5
<1>4. ASSUME NEW c \in Clients, client[c].entry = e, TurnFails(c) PROVE FALSE
  BY <1>1, <1>4, TurnFailsEffect
<1>5. ASSUME NEW t \in tasks, t.do \in {"notify", "invalidate"}, t.entry = e PROVE FALSE
  BY <1>1, <1>5 DEF References, TaskOK
<1>6. Leaves(e)
  BY LeavesTable
<1> QED BY <1>2, <1>3, <1>4, <1>5, <1>6 DEF Leaves

\* Neither making room nor closing takes a conversation from a turn under way
\* or from a harness that runs its tool calls.
THEOREM NothingInUseDropped == Spec => NothingInUseIsDropped
<1>1. IInv /\ [Next]_vars => [LiveTurnsAreKept /\ PendingCallsSurvive]_vars
  BY LiveTurnsStep, PendingCallsStep
<1> QED BY <1>1, RegistryInvariant, PTL DEF Spec, NothingInUseIsDropped
============================================================================
