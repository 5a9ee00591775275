------------------------ MODULE LifecycleJournal_proofs ------------------------
(***************************************************************************)
(* Machine-checked proofs about LifecycleJournal, for every set of         *)
(* processes, every record length and every limit of the file.             *)
(***************************************************************************)
EXTENDS LifecycleJournal, TLAPS

Actors == Executors \cup {None}
LooseStates ==
  [kind : Kinds, gen : Nat, epoch : 0..2, actor : Actors, ident : Actors,
   steps : 0..AllSteps, upto : 0..AllSteps, batch : Nat,
   bound : BOOLEAN, nodep : BOOLEAN]
RecordKinds ==
  {"WORKDIR_BOUND", "NO_DEPENDENT_ARTIFACT", "PREPARED", "ACTIVE_READY",
   "BATCH_ACTIVE", "BATCH_DONE", "RETIRING_IDLE", "RETIRING_BATCH",
   "REPLACE_AUTHORITY", "DONE", "UNCONFIRMED"}
\* Records that are not appended to recover, while nobody has retired.
NormalKinds == {"WORKDIR_BOUND", "PREPARED", "ACTIVE_READY", "BATCH_ACTIVE",
                "BATCH_DONE"}

\* What an epoch says of the kind, and what nodep does.
Consistent(s) ==
  /\ s.kind \in Retiring => s.epoch > 0
  /\ s.kind = "NO_GENERATION" => s.epoch = 0
  /\ s.nodep => s.kind \in {"NO_GENERATION", "UNCONFIRMED"}

\* What a call has read is no later than the canonical state.
CallOK(c) ==
  /\ Consistent(c.seen)
  /\ c.seen.epoch > 0 => state.epoch > 0
  /\ c.op = "succeed" => c.seen.kind = "RETIRING_IDLE"
CallRecords == [op : Operations, head : Nat, seen : LooseStates]
CallsOK == call \in [Procs -> CallRecords] /\ \A p \in Procs : CallOK(call[p])

ChainOK ==
  /\ eof \in Nat /\ head \in Nat /\ torn \in Nat
  /\ state \in LooseStates /\ Consistent(state)
  /\ head = 0 => /\ state.kind = "NO_GENERATION" /\ ~state.nodep
                 /\ torn = 0 => eof = 0
  /\ RecoveryReserve

ReserveInv == ChainOK /\ CallsOK

----------------------------------------------------------------------------
(* The transition function.                                                *)

\* What may still be needed, by the kind of the state.
RemainingRule(s) ==
  /\ s.kind \in Terminal => Remaining(s) = 0
  /\ s.kind \notin Terminal /\ s.nodep => Remaining(s) = 1
  /\ s.kind \notin Terminal /\ ~s.nodep =>
       /\ s.epoch = 0 => Remaining(s) = 14
       /\ s.epoch > 0 =>
            /\ s.kind = "RETIRING_BATCH" => Remaining(s) = 14 - s.epoch
            /\ s.kind = "RETIRING_IDLE" => Remaining(s) = 13 - s.epoch
            /\ s.kind = "PREPARED" => Remaining(s) = 10
            /\ s.kind = "ACTIVE_READY" => Remaining(s) = 2 * (4 - s.steps) + 1
            /\ s.kind = "BATCH_ACTIVE" => Remaining(s) = 2 * (4 - s.upto) + 2

LEMMA RemainingByKind ==
  ASSUME NEW s \in LooseStates
  PROVE  RemainingRule(s)
<1> USE DEF RemainingRule, Remaining, Terminal, AllSteps, RecoveryRecords
<1>1. CASE s.kind \in Terminal BY <1>1
<1>2. CASE s.kind \notin Terminal /\ s.nodep BY <1>2
<1>3. CASE s.kind \notin Terminal /\ ~s.nodep /\ s.epoch = 0 BY <1>3
<1>4. CASE s.kind \notin Terminal /\ ~s.nodep /\ s.epoch > 0 BY <1>4
<1> QED BY Zenon, <1>1, <1>2, <1>3, <1>4 DEF LooseStates

\* It is a number of records, and none only in the end.
LEMMA RemainingType ==
  ASSUME NEW s \in LooseStates, Consistent(s)
  PROVE  /\ Remaining(s) \in 0..RecoveryRecords
         /\ s.kind \notin Terminal => Remaining(s) > 0
BY RemainingByKind
   DEF RemainingRule, LooseStates, Consistent, Kinds, Retiring, Terminal, AllSteps,
       RecoveryRecords

\* What lifecycle_apply returns is consistent, an epoch that has begun does not
\* end, and every record uses up one of those that may still be needed, but
\* those of the normal part.
Advances(s, kind, t) ==
  /\ t \in LooseStates /\ Consistent(t)
  /\ s.epoch > 0 => t.epoch > 0
  /\ \/ Remaining(t) + 1 <= Remaining(s)
     \/ s.epoch = 0 /\ kind \in NormalKinds

LEMMA RecordAdvances ==
  ASSUME NEW s \in LooseStates, Consistent(s),
         NEW r, r.kind \in RecordKinds, r.gen \in Nat, r.epoch \in 0..2,
         r.actor \in Actors, r.batch \in Nat, Legal(s, r),
         r.kind \in {"PREPARED", "ACTIVE_READY"} => (r.epoch = 0 <=> s.epoch = 0)
  PROVE  Advances(s, r.kind, Applied(s, r))
<1>a. SUFFICES ASSUME NEW t, t = Applied(s, r),
                      NEW gen \in Nat, gen = r.gen, NEW epoch \in 0..2, epoch = r.epoch,
                      NEW actor \in Actors, actor = r.actor,
                      NEW batch \in Nat, batch = r.batch,
                      NEW steps, steps = r.steps, NEW upto, upto = r.upto
               PROVE  Advances(s, r.kind, t)
  OBVIOUS
<1>1. CASE r.kind = "WORKDIR_BOUND"
  <2>1. t = [s EXCEPT !.bound = TRUE]
    BY <1>a, <1>1 DEF Applied
  <2>2. s.kind = "NO_GENERATION"
    BY <1>a, <1>1 DEF Legal
  <2>3. t \in LooseStates
    BY <2>1, <2>2 DEF LooseStates, Kinds, AllSteps, Actors
  <2>4. /\ t.kind = s.kind /\ t.epoch = s.epoch /\ t.nodep = s.nodep
        /\ t.steps = s.steps /\ t.upto = s.upto
    BY <2>1, <2>2 DEF LooseStates
  <2>5. RemainingRule(s) /\ RemainingRule(t)
    BY <2>3, RemainingByKind
  <2>6. s.epoch \in 0..2 /\ s.steps \in 0..4 /\ s.upto \in 0..4 /\ s.nodep \in BOOLEAN
    BY DEF LooseStates, AllSteps
  <2> QED BY <1>1, <2>2, <2>3, <2>4, <2>5, <2>6
          DEF Advances, RemainingRule, Consistent, Retiring, Terminal, AllSteps,
              NormalKinds
<1>2. CASE r.kind = "NO_DEPENDENT_ARTIFACT"
  <2>1. t = [s EXCEPT !.nodep = TRUE]
    BY <1>a, <1>2 DEF Applied
  <2>2. s.kind = "NO_GENERATION" /\ ~s.nodep
    BY <1>a, <1>2 DEF Legal
  <2>3. t \in LooseStates
    BY <2>1, <2>2 DEF LooseStates, Kinds, AllSteps, Actors
  <2>4. /\ t.kind = s.kind /\ t.epoch = s.epoch /\ t.nodep = TRUE
        /\ t.steps = s.steps /\ t.upto = s.upto
    BY <2>1, <2>2 DEF LooseStates
  <2>5. RemainingRule(s) /\ RemainingRule(t)
    BY <2>3, RemainingByKind
  <2>6. s.epoch \in 0..2 /\ s.steps \in 0..4 /\ s.upto \in 0..4 /\ s.nodep \in BOOLEAN
    BY DEF LooseStates, AllSteps
  <2> QED BY <1>2, <2>2, <2>3, <2>4, <2>5, <2>6
          DEF Advances, RemainingRule, Consistent, Retiring, Terminal, AllSteps,
              NormalKinds
<1>3. CASE r.kind = "PREPARED"
  <2>1. t = [s EXCEPT !.kind = "PREPARED", !.gen = gen, !.epoch = epoch,
                    !.actor = actor, !.ident = None, !.steps = 0,
                    !.upto = 0, !.batch = 0]
    BY <1>a, <1>3 DEF Applied
  <2>2. s.kind \in {"NO_GENERATION", "RETIRING_IDLE"} /\ ~s.nodep
    BY <1>a, <1>3 DEF Legal
  <2>a. /\ "PREPARED" \in Kinds /\ None \in Actors
        /\ 0 \in 0..AllSteps
    BY SMT DEF Kinds, AllSteps, Actors, LooseStates
  <2>3. t \in LooseStates
    BY <2>1, <2>a, Zenon DEF LooseStates
  <2>4. /\ t.kind = "PREPARED" /\ t.epoch = epoch /\ t.nodep = s.nodep
        /\ t.steps = 0 /\ t.upto = 0
    BY <2>1, <2>2 DEF LooseStates
  <2>5. RemainingRule(s) /\ RemainingRule(t)
    BY <2>3, RemainingByKind
  <2>6. s.epoch \in 0..2 /\ s.steps \in 0..4 /\ s.upto \in 0..4 /\ s.nodep \in BOOLEAN
    BY DEF LooseStates, AllSteps
  <2>7. epoch = 0 <=> s.epoch = 0
    BY <1>a, <1>3
  <2> QED BY <1>3, <2>7, <2>2, <2>3, <2>4, <2>5, <2>6
          DEF Advances, RemainingRule, Consistent, Retiring, Terminal, AllSteps,
              NormalKinds
<1>4. CASE r.kind = "ACTIVE_READY"
  <2>1. t = [s EXCEPT !.kind = "ACTIVE_READY", !.epoch = epoch,
                    !.ident = actor, !.steps = 0]
    BY <1>a, <1>4 DEF Applied
  <2>2. s.kind = "PREPARED"
    BY <1>a, <1>4 DEF Legal
  <2>a. /\ "ACTIVE_READY" \in Kinds
        /\ 0 \in 0..AllSteps
    BY SMT DEF Kinds, AllSteps, Actors, LooseStates
  <2>3. t \in LooseStates
    BY <2>1, <2>a, Zenon DEF LooseStates
  <2>4. /\ t.kind = "ACTIVE_READY" /\ t.epoch = epoch /\ t.nodep = s.nodep
        /\ t.steps = 0 /\ t.upto = s.upto
    BY <2>1, <2>2 DEF LooseStates
  <2>5. RemainingRule(s) /\ RemainingRule(t)
    BY <2>3, RemainingByKind
  <2>6. s.epoch \in 0..2 /\ s.steps \in 0..4 /\ s.upto \in 0..4 /\ s.nodep \in BOOLEAN
    BY DEF LooseStates, AllSteps
  <2>7. epoch = 0 <=> s.epoch = 0
    BY <1>a, <1>4
  <2> QED BY <1>4, <2>7, <2>2, <2>3, <2>4, <2>5, <2>6
          DEF Advances, RemainingRule, Consistent, Retiring, Terminal, AllSteps,
              NormalKinds
<1>5. CASE r.kind = "BATCH_ACTIVE"
  <2>1. t = [s EXCEPT !.kind = "BATCH_ACTIVE", !.upto = upto, !.batch = batch]
    BY <1>a, <1>5 DEF Applied
  <2>2. s.kind = "ACTIVE_READY" /\ upto \in (s.steps + 1)..AllSteps
    BY <1>a, <1>5 DEF Legal
  <2>a. /\ "BATCH_ACTIVE" \in Kinds /\ upto \in 0..AllSteps
        /\ 0 \in 0..AllSteps
    BY <2>2, SMT DEF Kinds, AllSteps, Actors, LooseStates
  <2>3. t \in LooseStates
    BY <2>1, <2>a, Zenon DEF LooseStates
  <2>4. /\ t.kind = "BATCH_ACTIVE" /\ t.epoch = s.epoch /\ t.nodep = s.nodep
        /\ t.steps = s.steps /\ t.upto = upto
    BY <2>1, <2>2 DEF LooseStates
  <2>5. RemainingRule(s) /\ RemainingRule(t)
    BY <2>3, RemainingByKind
  <2>6. s.epoch \in 0..2 /\ s.steps \in 0..4 /\ s.upto \in 0..4 /\ s.nodep \in BOOLEAN
    BY DEF LooseStates, AllSteps
  <2> QED BY <1>5, <2>2, <2>3, <2>4, <2>5, <2>6
          DEF Advances, RemainingRule, Consistent, Retiring, Terminal, AllSteps,
              NormalKinds
<1>6. CASE r.kind = "BATCH_DONE"
  <2>1. t = [s EXCEPT !.kind = IF s.kind = "BATCH_ACTIVE" THEN "ACTIVE_READY"
                                                 ELSE "RETIRING_IDLE",
                    !.steps = steps, !.upto = 0, !.batch = 0]
    BY <1>a, <1>6 DEF Applied
  <2>2. \/ s.kind = "BATCH_ACTIVE" /\ steps = s.upto
        \/ s.kind = "RETIRING_BATCH" /\ steps \in {s.upto, s.steps}
    BY <1>a, <1>6 DEF Legal
  <2>a. /\ "ACTIVE_READY" \in Kinds /\ "RETIRING_IDLE" \in Kinds /\ steps \in 0..AllSteps
        /\ 0 \in 0..AllSteps
    BY <2>2, SMT DEF Kinds, AllSteps, Actors, LooseStates
  <2>3. t \in LooseStates
    BY <2>1, <2>a, Zenon DEF LooseStates
  <2>4. /\ t.kind = (IF s.kind = "BATCH_ACTIVE" THEN "ACTIVE_READY"
                                               ELSE "RETIRING_IDLE")
        /\ t.epoch = s.epoch /\ t.nodep = s.nodep
        /\ t.steps = steps /\ t.upto = 0
    BY <2>1, <2>2 DEF LooseStates
  <2>5. RemainingRule(s) /\ RemainingRule(t)
    BY <2>3, RemainingByKind
  <2>6. s.epoch \in 0..2 /\ s.steps \in 0..4 /\ s.upto \in 0..4 /\ s.nodep \in BOOLEAN
    BY DEF LooseStates, AllSteps
  <2> QED BY <1>6, <2>2, <2>3, <2>4, <2>5, <2>6
          DEF Advances, RemainingRule, Consistent, Retiring, Terminal, AllSteps,
              NormalKinds
<1>7. CASE r.kind = "RETIRING_IDLE"
  <2>1. t = [s EXCEPT !.kind = "RETIRING_IDLE", !.epoch = epoch]
    BY <1>a, <1>7 DEF Applied
  <2>2. s.kind \in {"PREPARED", "ACTIVE_READY"} /\ s.epoch = 0 /\ epoch = 1
    BY <1>a, <1>7 DEF Legal
  <2>3. t \in LooseStates
    BY <2>1, <2>2 DEF LooseStates, Kinds, AllSteps, Actors
  <2>4. /\ t.kind = "RETIRING_IDLE" /\ t.epoch = 1 /\ t.nodep = s.nodep
        /\ t.steps = s.steps /\ t.upto = s.upto
    BY <2>1, <2>2 DEF LooseStates
  <2>5. RemainingRule(s) /\ RemainingRule(t)
    BY <2>3, RemainingByKind
  <2>6. s.epoch \in 0..2 /\ s.steps \in 0..4 /\ s.upto \in 0..4 /\ s.nodep \in BOOLEAN
    BY DEF LooseStates, AllSteps
  <2> QED BY <1>7, <2>2, <2>3, <2>4, <2>5, <2>6
          DEF Advances, RemainingRule, Consistent, Retiring, Terminal, AllSteps,
              NormalKinds
<1>8. CASE r.kind = "RETIRING_BATCH"
  <2>1. t = [s EXCEPT !.kind = "RETIRING_BATCH", !.epoch = epoch]
    BY <1>a, <1>8 DEF Applied
  <2>2. s.kind = "BATCH_ACTIVE" /\ s.epoch = 0 /\ epoch = 1
    BY <1>a, <1>8 DEF Legal
  <2>3. t \in LooseStates
    BY <2>1, <2>2 DEF LooseStates, Kinds, AllSteps, Actors
  <2>4. /\ t.kind = "RETIRING_BATCH" /\ t.epoch = 1 /\ t.nodep = s.nodep
        /\ t.steps = s.steps /\ t.upto = s.upto
    BY <2>1, <2>2 DEF LooseStates
  <2>5. RemainingRule(s) /\ RemainingRule(t)
    BY <2>3, RemainingByKind
  <2>6. s.epoch \in 0..2 /\ s.steps \in 0..4 /\ s.upto \in 0..4 /\ s.nodep \in BOOLEAN
    BY DEF LooseStates, AllSteps
  <2> QED BY <1>8, <2>2, <2>3, <2>4, <2>5, <2>6
          DEF Advances, RemainingRule, Consistent, Retiring, Terminal, AllSteps,
              NormalKinds
<1>9. CASE r.kind = "REPLACE_AUTHORITY"
  <2>1. t = [s EXCEPT !.epoch = epoch]
    BY <1>a, <1>9 DEF Applied
  <2>2. s.kind \in Retiring /\ s.epoch = 1 /\ epoch = 2
    BY <1>a, <1>9 DEF Legal
  <2>3. t \in LooseStates
    BY <2>1, <2>2 DEF LooseStates, Kinds, AllSteps, Actors
  <2>4. /\ t.kind = s.kind /\ t.epoch = 2 /\ t.nodep = s.nodep
        /\ t.steps = s.steps /\ t.upto = s.upto
    BY <2>1, <2>2 DEF LooseStates
  <2>5. RemainingRule(s) /\ RemainingRule(t)
    BY <2>3, RemainingByKind
  <2>6. s.epoch \in 0..2 /\ s.steps \in 0..4 /\ s.upto \in 0..4 /\ s.nodep \in BOOLEAN
    BY DEF LooseStates, AllSteps
  <2> QED BY <1>9, <2>2, <2>3, <2>4, <2>5, <2>6
          DEF Advances, RemainingRule, Consistent, Retiring, Terminal, AllSteps,
              NormalKinds
<1>10. CASE r.kind = "DONE"
  <2>1. t = [s EXCEPT !.kind = "DONE"]
    BY <1>a, <1>10 DEF Applied
  <2>2. s.kind = "ACTIVE_READY"
    BY <1>a, <1>10 DEF Legal
  <2>3. t \in LooseStates
    BY <2>1, <2>2 DEF LooseStates, Kinds, AllSteps, Actors
  <2>4. /\ t.kind = "DONE" /\ t.epoch = s.epoch /\ t.nodep = s.nodep
        /\ t.steps = s.steps /\ t.upto = s.upto
    BY <2>1, <2>2 DEF LooseStates
  <2>5. RemainingRule(s) /\ RemainingRule(t)
    BY <2>3, RemainingByKind
  <2>6. s.epoch \in 0..2 /\ s.steps \in 0..4 /\ s.upto \in 0..4 /\ s.nodep \in BOOLEAN
    BY DEF LooseStates, AllSteps
  <2> QED BY <1>10, <2>2, <2>3, <2>4, <2>5, <2>6
          DEF Advances, RemainingRule, Consistent, Retiring, Terminal, AllSteps,
              NormalKinds
<1>11. CASE r.kind = "UNCONFIRMED"
  <2>1. t = [s EXCEPT !.kind = "UNCONFIRMED"]
    BY <1>a, <1>11 DEF Applied
  <2>2. s.kind \notin Terminal
    BY <1>a, <1>11 DEF Legal
  <2>3. t \in LooseStates
    BY <2>1, <2>2 DEF LooseStates, Kinds, AllSteps, Actors
  <2>4. /\ t.kind = "UNCONFIRMED" /\ t.epoch = s.epoch /\ t.nodep = s.nodep
        /\ t.steps = s.steps /\ t.upto = s.upto
    BY <2>1, <2>2 DEF LooseStates
  <2>5. RemainingRule(s) /\ RemainingRule(t)
    BY <2>3, RemainingByKind
  <2>6. s.epoch \in 0..2 /\ s.steps \in 0..4 /\ s.upto \in 0..4 /\ s.nodep \in BOOLEAN
    BY DEF LooseStates, AllSteps
  <2> QED BY <1>11, RemainingType, <2>2, <2>3, <2>4, <2>5, <2>6
          DEF Advances, RemainingRule, Consistent, Retiring, Terminal, AllSteps,
              NormalKinds
<1> QED BY <1>1, <1>2, <1>3, <1>4, <1>5, <1>6, <1>7, <1>8, <1>9, <1>10, <1>11
        DEF RecordKinds

----------------------------------------------------------------------------
(* What a step does to the chain.                                          *)

LEMMA Multiples ==
  ASSUME NEW a \in Nat, NEW b \in Nat, NEW c \in Nat, a <= b
  PROVE  a * c <= b * c /\ (a + 1) * c = a * c + c /\ a * c \in Nat
OBVIOUS

\* A record that may be appended leaves the reserve intact.
LEMMA AppendKeepsChain ==
  ASSUME ChainOK, NEW p, NEW r, NEW class, Append(p, r, class),
         r.kind \in RecordKinds, r.gen \in Nat, r.epoch \in 0..2,
         r.actor \in Actors, r.batch \in Nat,
         r.kind \in {"PREPARED", "ACTIVE_READY"} => (r.epoch = 0 <=> state.epoch = 0),
         state.epoch = 0 /\ r.kind \in NormalKinds => class = "NORMAL"
  PROVE  ChainOK' /\ (state.epoch > 0 => state'.epoch > 0)
<1>1. /\ Legal(state, r) /\ state' = Applied(state, r) /\ torn' = torn
      /\ head > 0 /\ head' = head + 1 /\ eof' = eof + RecordBytes /\ Fits(class)
  BY DEF Append
<1>2. /\ eof \in Nat /\ head \in Nat /\ torn \in Nat /\ state \in LooseStates
      /\ Consistent(state) /\ RecoveryReserve
  BY DEF ChainOK
<1>3. Advances(state, r.kind, state')
  BY <1>1, <1>2, RecordAdvances
<1>4. state' \in LooseStates /\ Consistent(state') /\ (state.epoch > 0 => state'.epoch > 0)
  BY <1>3 DEF Advances
<1>5. Remaining(state) \in 0..14 /\ Remaining(state') \in 0..14
  BY <1>2, <1>4, RemainingType DEF RecoveryRecords, AllSteps
<1>6. /\ RecordBytes \in Nat /\ NormalLimit \in Nat
      /\ HardLimit = NormalLimit + 14 * RecordBytes
  BY SizesAssumption DEF HardLimit, RecoveryRecords, AllSteps
<1>7. ASSUME torn = 0
      PROVE  eof' + Remaining(state') * RecordBytes <= HardLimit
  <2>1. CASE Remaining(state') + 1 <= Remaining(state)
    <3>1. eof + Remaining(state) * RecordBytes <= HardLimit
      BY <1>2, <1>7 DEF RecoveryReserve
    <3> DEFINE m == Remaining(state)
               n == Remaining(state')
    <3>2. m \in Nat /\ n \in Nat /\ n + 1 \in Nat /\ n + 1 <= m
      BY <1>5, <2>1
    <3> HIDE DEF m, n
    <3>3. (n + 1) * RecordBytes <= m * RecordBytes /\ (n + 1) * RecordBytes \in Nat
      BY <3>2, <1>6, Multiples
    <3>4. (n + 1) * RecordBytes = n * RecordBytes + RecordBytes /\ n * RecordBytes \in Nat
      BY <3>2, <1>6, Multiples
    <3>5. m * RecordBytes \in Nat
      BY <3>2, <1>6, Multiples
    <3>6. eof + m * RecordBytes <= HardLimit
      BY <3>1 DEF m
    <3>7. 14 * RecordBytes \in Nat
      BY <1>6, Multiples
    <3>8. eof' + n * RecordBytes <= HardLimit
      BY <3>3, <3>4, <3>5, <3>6, <3>7, <1>1, <1>2, <1>6
    <3> QED BY <3>8 DEF n
  <2>2. CASE state.epoch = 0 /\ r.kind \in NormalKinds
    <3>1. eof' <= NormalLimit
      BY <1>1, <2>2 DEF Fits
    <3> DEFINE n == Remaining(state')
    <3>2. n \in Nat /\ n <= 14
      BY <1>5
    <3> HIDE DEF n
    <3>3. n * RecordBytes <= 14 * RecordBytes /\ n * RecordBytes \in Nat
      BY <3>2, <1>6, Multiples
    <3>4. 14 * RecordBytes \in Nat
      BY <1>6, Multiples
    <3>5. eof' + n * RecordBytes <= HardLimit
      BY <3>1, <3>3, <3>4, <1>1, <1>2, <1>6
    <3> QED BY <3>5 DEF n
  <2> QED BY <2>1, <2>2, <1>3 DEF Advances
<1>8. eof' \in Nat /\ head' \in Nat /\ head' # 0 /\ torn' \in Nat
  BY <1>1, <1>2, <1>6
<1> QED BY <1>1, <1>4, <1>7, <1>8 DEF ChainOK, RecoveryReserve

LEMMA NothingKeepsChain ==
  ASSUME ChainOK, UNCHANGED <<eof, head, state, torn>>
  PROVE  ChainOK' /\ (state.epoch > 0 => state'.epoch > 0)
BY DEF ChainOK, RecoveryReserve

----------------------------------------------------------------------------
(* What a step does to the calls.                                          *)

LEMMA IdleType ==
  Idle \in CallRecords /\ Consistent(Idle.seen) /\ Idle.seen.epoch = 0
    /\ Idle.op # "succeed"
<1>1. NoGeneration \in LooseStates
  BY DEF NoGeneration, LooseStates, Kinds, Actors, AllSteps
<1> QED BY <1>1
        DEF Idle, CallRecords, Operations, Consistent, NoGeneration, Retiring

LEMMA ReturnKeepsCalls ==
  ASSUME CallsOK, NEW p \in Procs, Returns(p), state.epoch > 0 => state'.epoch > 0
  PROVE  CallsOK'
<1>1. call' = [call EXCEPT ![p] = Idle]
  BY DEF Returns
<1>2. call' \in [Procs -> CallRecords]
  BY <1>1, IdleType DEF CallsOK
<1>3. ASSUME NEW q \in Procs
      PROVE  CallOK(call[q])'
  <2>1. CASE q = p BY <1>1, <2>1, IdleType DEF CallsOK, CallOK
  <2>2. CASE q # p BY <1>1, <2>2 DEF CallsOK, CallOK
  <2> QED BY <2>1, <2>2
<1> QED BY <1>2, <1>3 DEF CallsOK

LEMMA ReadKeepsCalls ==
  ASSUME ChainOK, CallsOK, NEW p \in Procs, NEW op \in Operations, NEW h \in Nat,
         op = "succeed" => state.kind = "RETIRING_IDLE",
         call' = [call EXCEPT ![p] = [op |-> op, head |-> h, seen |-> state]],
         state.epoch > 0 => state'.epoch > 0
  PROVE  CallsOK'
<1>1. state \in LooseStates /\ Consistent(state)
  BY DEF ChainOK
<1>2. call' \in [Procs -> CallRecords]
  BY <1>1 DEF CallsOK, CallRecords
<1>3. ASSUME NEW q \in Procs
      PROVE  CallOK(call[q])'
  <2>1. CASE q = p BY <1>1, <2>1 DEF CallsOK, CallOK
  <2>2. CASE q # p BY <2>2 DEF CallsOK, CallOK
  <2> QED BY <2>1, <2>2
<1> QED BY <1>2, <1>3 DEF CallsOK

LEMMA NothingKeepsCalls ==
  ASSUME CallsOK, UNCHANGED call, state.epoch > 0 => state'.epoch > 0
  PROVE  CallsOK'
BY DEF CallsOK, CallOK

----------------------------------------------------------------------------
(* Steps that write nothing, and steps that write one record.              *)

Reads(p, op) == /\ op = "succeed" => state.kind = "RETIRING_IDLE"
                /\ Enters(p, op)
Quiet(p) ==
  /\ UNCHANGED <<eof, head, state, torn>>
  /\ \/ UNCHANGED call
     \/ Returns(p)
     \/ \E op \in Operations : Reads(p, op)

LEMMA QuietKeepsReserve ==
  ASSUME ReserveInv, NEW p \in Procs, Quiet(p)
  PROVE  ReserveInv'
<1>1. ChainOK' /\ (state.epoch > 0 => state'.epoch > 0)
  BY NothingKeepsChain DEF ReserveInv, Quiet
<1>2. CASE UNCHANGED call
  BY <1>1, <1>2, NothingKeepsCalls DEF ReserveInv
<1>3. CASE Returns(p)
  BY <1>1, <1>3, ReturnKeepsCalls DEF ReserveInv
<1>4. ASSUME NEW op \in Operations, Reads(p, op)
      PROVE  CallsOK'
  <2>1. head \in Nat /\ ChainOK /\ CallsOK
    BY DEF ReserveInv, ChainOK
  <2> QED BY <1>1, <1>4, <2>1, ReadKeepsCalls DEF Reads, Enters
<1> QED BY <1>1, <1>2, <1>3, <1>4 DEF ReserveInv, Quiet

\* What a record has to be for AppendKeepsChain.
Appendable(r, class) ==
  /\ r.kind \in RecordKinds /\ r.gen \in Nat /\ r.epoch \in 0..2
  /\ r.actor \in Actors /\ r.batch \in Nat
  /\ r.kind \in {"PREPARED", "ACTIVE_READY"} => (r.epoch = 0 <=> state.epoch = 0)
  /\ state.epoch = 0 /\ r.kind \in NormalKinds => class = "NORMAL"

LEMMA AppendKeepsReserve ==
  ASSUME ReserveInv, NEW p \in Procs, NEW r, NEW class,
         Append(p, r, class), Appendable(r, class),
         \/ UNCHANGED call
         \/ Returns(p)
         \/ \E op \in Operations \ {"succeed"} : Appends(p, op)
  PROVE  ReserveInv'
<1>1. ChainOK' /\ (state.epoch > 0 => state'.epoch > 0)
  BY AppendKeepsChain DEF ReserveInv, Appendable
<1>2. CASE UNCHANGED call
  BY <1>1, <1>2, NothingKeepsCalls DEF ReserveInv
<1>3. CASE Returns(p)
  BY <1>1, <1>3, ReturnKeepsCalls DEF ReserveInv
<1>4. ASSUME NEW op \in Operations \ {"succeed"}, Appends(p, op)
      PROVE  CallsOK'
  <2>1. head + 1 \in Nat /\ ChainOK /\ CallsOK
    BY DEF ReserveInv, ChainOK
  <2> QED BY <1>1, <1>4, <2>1, ReadKeepsCalls DEF Appends
<1> QED BY <1>1, <1>2, <1>3, <1>4 DEF ReserveInv

\* A record starts from the canonical state.
LEMMA RecordFields ==
  ASSUME ReserveInv, NEW kind
  PROVE  /\ Record(kind) = [kind |-> kind, gen |-> state.gen, epoch |-> state.epoch,
                            actor |-> state.actor, steps |-> state.steps, upto |-> 0,
                            batch |-> state.batch, outcome |-> "NONE"]
         /\ state.gen \in Nat /\ state.epoch \in 0..2 /\ state.actor \in Actors
         /\ state.batch \in Nat /\ head \in Nat
         /\ state.epoch = 0 => ClassOf(state.epoch) = "NORMAL"
BY DEF Record, ReserveInv, ChainOK, LooseStates, ClassOf

\* ... and what a call adds to it comes from a state it has read.
LEMMA SeenFields ==
  ASSUME ReserveInv, NEW p \in Procs
  PROVE  /\ call[p].seen.gen \in Nat /\ call[p].seen.epoch \in 0..2
         /\ call[p].seen.actor \in Actors /\ call[p].seen.batch \in Nat
         /\ call[p].seen.epoch > 0 => state.epoch > 0
         /\ call[p].op = "succeed" => call[p].seen.epoch > 0
BY DEF ReserveInv, CallsOK, CallOK, CallRecords, LooseStates, Consistent, Retiring

LEMMA CreateKeepsReserve ==
  ASSUME ReserveInv, NEW p \in Procs, Create(p)
  PROVE  ReserveInv'
<1> USE DEF chain, world
<1>1. CASE OpenNew(p)
  BY <1>1, QuietKeepsReserve DEF OpenNew, Quiet, Reads, Operations
<1>2. CASE WriteIntent(p)
  <2>1. head = 0 /\ head' = 1 /\ eof' = eof + RecordBytes /\ UNCHANGED <<state, torn>>
    BY <1>2 DEF WriteIntent
  <2>2. /\ eof \in Nat /\ torn \in Nat /\ state \in LooseStates /\ Consistent(state)
        /\ state.kind = "NO_GENERATION" /\ ~state.nodep /\ (torn = 0 => eof = 0)
    BY <2>1 DEF ReserveInv, ChainOK
  <2>3. Remaining(state) = 14
    BY <2>2, RemainingByKind DEF RemainingRule, Consistent, Terminal
  <2>4. /\ RecordBytes \in Nat /\ NormalLimit \in Nat /\ RecordBytes <= NormalLimit
        /\ HardLimit = NormalLimit + 14 * RecordBytes
    BY SizesAssumption DEF HardLimit, RecoveryRecords, AllSteps
  <2>5. torn' = 0 => eof' + Remaining(state') * RecordBytes <= HardLimit
    BY <2>1, <2>2, <2>3, <2>4
  <2>6. ChainOK'
    BY <2>1, <2>2, <2>4, <2>5 DEF ChainOK, RecoveryReserve
  <2>7. call' = [call EXCEPT ![p].head = 1]
    BY <1>2 DEF WriteIntent
  <2>8. call' \in [Procs -> CallRecords]
    BY <2>7 DEF ReserveInv, CallsOK, CallRecords
  <2>9. ASSUME NEW q \in Procs
        PROVE  CallOK(call[q])'
    <3>1. call[q] \in CallRecords /\ CallOK(call[q])
      BY DEF ReserveInv, CallsOK
    <3>2. call'[q].op = call[q].op /\ call'[q].seen = call[q].seen
      BY <2>7, <3>1 DEF ReserveInv, CallsOK, CallRecords
    <3> QED BY <2>1, <3>1, <3>2 DEF CallOK
  <2> QED BY <2>6, <2>8, <2>9 DEF ReserveInv, CallsOK
<1>3. CASE SyncIntent(p)
  BY <1>3, QuietKeepsReserve DEF SyncIntent, Quiet
<1>4. CASE Open(p) \/ Close(p)
  BY <1>4, QuietKeepsReserve DEF Open, Close, Quiet
<1>5. CASE Mkdir(p)
  BY <1>5, QuietKeepsReserve DEF Mkdir, Quiet, Reads, Operations
<1>6. CASE BindWorkdir(p)
  <2> DEFINE r == Record("WORKDIR_BOUND")
  <2>1. Append(p, r, "NORMAL") /\ Appends(p, "certify")
    BY <1>6 DEF BindWorkdir
  <2>2. Appendable(r, "NORMAL")
    BY RecordFields DEF Appendable, RecordKinds
  <2> HIDE DEF r
  <2> QED BY <2>1, <2>2, AppendKeepsReserve DEF Operations
<1>7. CASE CertifyExact(p) \/ Fail(p)
  BY <1>7, QuietKeepsReserve DEF CertifyExact, Fail, Quiet
<1>8. ASSUME NEW x \in Executors, Prepare(p, x)
      PROVE  ReserveInv'
  <2> DEFINE r == [Record("PREPARED") EXCEPT !.gen = 1, !.actor = x]
  <2>1. Append(p, r, "NORMAL") /\ UNCHANGED call
    BY <1>8 DEF Prepare
  <2>2. Appendable(r, "NORMAL")
    BY RecordFields DEF Appendable, RecordKinds, Actors
  <2> HIDE DEF r
  <2> QED BY <2>1, <2>2, AppendKeepsReserve
<1> QED BY <1>1, <1>2, <1>3, <1>4, <1>5, <1>6, <1>7, <1>8 DEF Create

LEMMA ExecuteKeepsReserve ==
  ASSUME ReserveInv, NEW p \in Procs, Execute(p)
  PROVE  ReserveInv'
<1> USE DEF chain, world, StepDone, StepFails
<1>1. CASE BeginStep(p)
  BY <1>1, QuietKeepsReserve DEF BeginStep, Quiet, Reads, Operations
<1>2. CASE ProcessAbsent(p) \/ ReapTarget(p) \/ RemoveWorkdir(p) \/ TerminalChecks(p)
  BY <1>2, QuietKeepsReserve
     DEF ProcessAbsent, ReapTarget, RemoveWorkdir, TerminalChecks, Quiet
<1> QED BY <1>1, <1>2 DEF Execute

LEMMA BatchKeepsReserve ==
  ASSUME ReserveInv, NEW p \in Procs, Batch(p)
  PROVE  ReserveInv'
<1> USE DEF chain, world
<1>1. ASSUME NEW upto \in 1..AllSteps, AdmitBatch(p, upto)
      PROVE  ReserveInv'
  <2> DEFINE r == [Record("BATCH_ACTIVE") EXCEPT !.upto = upto, !.batch = head + 1]
             class == ClassOf(state.epoch)
  <2>1. Append(p, r, class) /\ Appends(p, "admit")
    BY <1>1 DEF AdmitBatch
  <2>2. Appendable(r, class)
    BY RecordFields DEF Appendable, RecordKinds
  <2> HIDE DEF r, class
  <2> QED BY <2>1, <2>2, AppendKeepsReserve DEF Operations
<1>2. CASE GrantToken(p) \/ FinishCompletion(p) \/ AbandonBatch(p)
  BY <1>2, QuietKeepsReserve DEF GrantToken, FinishCompletion, AbandonBatch, Quiet
<1>3. CASE BeginCompletion(p)
  BY <1>3, QuietKeepsReserve DEF BeginCompletion, Quiet, Reads, Operations
<1>4. CASE AppendCompletion(p)
  <2> DEFINE seen == call[p].seen
             retired == seen.kind = "RETIRING_BATCH"
             r == [Record("BATCH_DONE") EXCEPT
                     !.gen = seen.gen, !.epoch = seen.epoch, !.actor = seen.actor,
                     !.batch = handle[p].token.batch, !.steps = handle[p].token.done,
                     !.outcome = IF retired THEN "COMPLETED" ELSE "NONE"]
             class == IF retired THEN "RECOVERY" ELSE ClassOf(seen.epoch)
  <2>1. Append(p, r, class) /\ Appends(p, "completed")
    BY <1>4 DEF AppendCompletion
  <2>2. /\ r.kind = "BATCH_DONE" /\ r.gen = seen.gen /\ r.epoch = seen.epoch
        /\ r.actor = seen.actor /\ r.outcome = IF retired THEN "COMPLETED" ELSE "NONE"
        /\ r.batch = handle[p].token.batch
    BY RecordFields
  <2>3. seen.gen \in Nat /\ seen.epoch \in 0..2 /\ seen.actor \in Actors
        /\ (seen.epoch > 0 => state.epoch > 0)
    BY SeenFields
  <2>4. state.batch \in Nat
    BY DEF ReserveInv, ChainOK, LooseStates
  <2>5. /\ r.batch = state.batch
        /\ state.epoch = 0 => r.outcome = "NONE"
    <3> HIDE DEF r
    <3>1. /\ r.batch = state.batch
          /\ \/ state.kind = "BATCH_ACTIVE" /\ r.outcome = "NONE"
             \/ state.kind = "RETIRING_BATCH"
      BY <2>1, <2>2 DEF Legal, Append
    <3> QED BY <3>1, <2>1 DEF Append, ReserveInv, ChainOK, Consistent, Retiring
  <2>6. state.epoch = 0 => class = "NORMAL"
    <3> SUFFICES ASSUME state.epoch = 0 PROVE class = "NORMAL"
      OBVIOUS
    <3>1. ~retired
      BY <2>2, <2>5
    <3>2. seen.epoch = 0
      BY <2>3
    <3> QED BY <3>1, <3>2 DEF ClassOf
  <2>7. Appendable(r, class)
    <3> HIDE DEF r, class, seen
    <3> QED BY <2>2, <2>3, <2>4, <2>5, <2>6 DEF Appendable, RecordKinds
  <2> HIDE DEF r, class, seen, retired
  <2> QED BY <2>1, <2>7, AppendKeepsReserve DEF Operations
<1>5. CASE FinishDone(p)
  <2> DEFINE r == Record("DONE")
             class == ClassOf(state.epoch)
  <2>1. Append(p, r, class) /\ Appends(p, "certify")
    BY <1>5 DEF FinishDone
  <2>2. Appendable(r, class)
    BY RecordFields DEF Appendable, RecordKinds
  <2> HIDE DEF r, class
  <2> QED BY <2>1, <2>2, AppendKeepsReserve DEF Operations
<1> QED BY <1>1, <1>2, <1>3, <1>4, <1>5 DEF Batch

LEMMA RetireKeepsReserve ==
  ASSUME ReserveInv, NEW p \in Procs, Retire(p)
  PROVE  ReserveInv'
<1> USE DEF chain, world
<1>1. CASE BeginRetirement(p) \/ RecheckRetirement(p)
  BY <1>1, QuietKeepsReserve
     DEF BeginRetirement, RecheckRetirement, Quiet, Reads, Operations
<1>2. CASE AppendRetirement(p)
  <2> DEFINE seen == call[p].seen
             kind == IF seen.kind = "BATCH_ACTIVE" THEN "RETIRING_BATCH"
                                                   ELSE "RETIRING_IDLE"
             r == [Record(kind) EXCEPT !.gen = seen.gen, !.epoch = 1,
                                       !.actor = seen.actor, !.batch = seen.batch]
  <2>1. Append(p, r, "RECOVERY") /\ Returns(p)
    BY <1>2 DEF AppendRetirement
  <2>2. r.kind \in {"RETIRING_BATCH", "RETIRING_IDLE"} /\ r.gen = seen.gen
        /\ r.epoch = 1 /\ r.actor = seen.actor /\ r.batch = seen.batch
    BY RecordFields
  <2>3. Appendable(r, "RECOVERY")
    <3>1. seen.gen \in Nat /\ seen.actor \in Actors /\ seen.batch \in Nat
      BY SeenFields
    <3> HIDE DEF r, seen
    <3> QED BY <2>2, <3>1 DEF Appendable, RecordKinds, NormalKinds
  <2> HIDE DEF r
  <2> QED BY <2>1, <2>3, AppendKeepsReserve
<1>3. CASE ReplaceAuthority(p)
  <2> DEFINE r == [Record("REPLACE_AUTHORITY") EXCEPT !.epoch = 2]
  <2>1. Append(p, r, "RECOVERY") /\ UNCHANGED call
    BY <1>3 DEF ReplaceAuthority
  <2>2. Appendable(r, "RECOVERY")
    BY RecordFields DEF Appendable, RecordKinds, NormalKinds
  <2> HIDE DEF r
  <2> QED BY <2>1, <2>2, AppendKeepsReserve
<1>4. CASE ConfirmReaped(p)
  BY <1>4, QuietKeepsReserve DEF ConfirmReaped, Quiet
<1>5. CASE MarkUnconfirmed(p)
  <2> DEFINE r == Record("UNCONFIRMED")
  <2>1. Append(p, r, "RECOVERY") /\ UNCHANGED call
    BY <1>5 DEF MarkUnconfirmed
  <2>2. Appendable(r, "RECOVERY")
    BY RecordFields DEF Appendable, RecordKinds, NormalKinds
  <2> HIDE DEF r
  <2> QED BY <2>1, <2>2, AppendKeepsReserve
<1> QED BY <1>1, <1>2, <1>3, <1>4, <1>5 DEF Retire

LEMMA HandOverKeepsReserve ==
  ASSUME ReserveInv, NEW p \in Procs, HandOver(p)
  PROVE  ReserveInv'
<1> USE DEF chain, world
<1>1. CASE BeginReconcile(p) \/ BeginSuccession(p)
  BY <1>1, QuietKeepsReserve
     DEF BeginReconcile, BeginSuccession, Quiet, Reads, Operations
<1>2. CASE ReconcileInterrupted(p)
  <2> DEFINE seen == call[p].seen
             r == [Record("BATCH_DONE") EXCEPT
                     !.gen = seen.gen, !.epoch = seen.epoch, !.actor = seen.actor,
                     !.batch = seen.batch, !.steps = seen.steps,
                     !.outcome = "INTERRUPTED"]
  <2>1. Append(p, r, "RECOVERY") /\ Returns(p)
    BY <1>2 DEF ReconcileInterrupted
  <2>2. /\ r.kind = "BATCH_DONE" /\ r.gen = seen.gen /\ r.epoch = seen.epoch
        /\ r.actor = seen.actor /\ r.batch = seen.batch /\ r.outcome = "INTERRUPTED"
    BY RecordFields
  <2>3. /\ seen.gen \in Nat /\ seen.epoch \in 0..2 /\ seen.actor \in Actors
        /\ seen.batch \in Nat
    BY SeenFields
  <2>4. state.epoch # 0
    <3> HIDE DEF r
    <3>1. state.kind = "RETIRING_BATCH"
      BY <2>1, <2>2 DEF Legal, Append
    <3> QED BY <3>1 DEF ReserveInv, ChainOK, Consistent, Retiring
  <2>5. Appendable(r, "RECOVERY")
    <3> HIDE DEF r, seen
    <3> QED BY <2>2, <2>3, <2>4 DEF Appendable, RecordKinds
  <2> HIDE DEF r
  <2> QED BY <2>1, <2>5, AppendKeepsReserve
<1>3. ASSUME NEW x \in Executors, PrepareSuccessor(p, x)
      PROVE  ReserveInv'
  <2> DEFINE seen == call[p].seen
             r == [Record("PREPARED") EXCEPT !.gen = seen.gen + 1,
                                             !.epoch = seen.epoch, !.actor = x]
  <2>1. Append(p, r, "RECOVERY") /\ Returns(p) /\ call[p].op = "succeed"
    BY <1>3 DEF PrepareSuccessor
  <2>2. /\ r.kind = "PREPARED" /\ r.gen = seen.gen + 1 /\ r.epoch = seen.epoch
        /\ r.actor = x /\ r.batch = state.batch /\ state.batch \in Nat
        /\ state.epoch \in 0..2
    BY RecordFields
  <2>3. /\ seen.gen \in Nat /\ seen.epoch \in 0..2 /\ seen.epoch > 0 /\ state.epoch > 0
    BY <2>1, SeenFields
  <2>4. Appendable(r, "RECOVERY")
    <3> HIDE DEF r, seen
    <3> QED BY <2>2, <2>3 DEF Appendable, RecordKinds, Actors
  <2> HIDE DEF r
  <2> QED BY <2>1, <2>4, AppendKeepsReserve
<1> QED BY <1>1, <1>2, <1>3 DEF HandOver

LEMMA DeleteKeepsReserve ==
  ASSUME ReserveInv, NEW p \in Procs, Delete(p)
  PROVE  ReserveInv'
<1> USE DEF chain, world
<1>1. CASE NoIntent(p) \/ MakeDeleteAuthority(p) \/ ReconcileAbsent(p)
  BY <1>1, QuietKeepsReserve DEF NoIntent, MakeDeleteAuthority, ReconcileAbsent, Quiet
<1>2. CASE CertifyNoDependent(p) \/ FinishDelete(p)
  BY <1>2, QuietKeepsReserve DEF CertifyNoDependent, FinishDelete, Quiet
<1>3. CASE Unlink(p)
  BY <1>3, QuietKeepsReserve DEF Unlink, Quiet, Reads, Operations
<1>4. CASE NoDependentArtifact(p)
  <2> DEFINE r == Record("NO_DEPENDENT_ARTIFACT")
  <2>1. Append(p, r, "RECOVERY") /\ Appends(p, "nodep")
    BY <1>4 DEF NoDependentArtifact
  <2>2. Appendable(r, "RECOVERY")
    BY RecordFields DEF Appendable, RecordKinds, NormalKinds
  <2> HIDE DEF r
  <2> QED BY <2>1, <2>2, AppendKeepsReserve DEF Operations
<1> QED BY <1>1, <1>2, <1>3, <1>4 DEF Delete

\* The reserve is only promised of files without torn writes.
LEMMA ShortWriteKeepsReserve ==
  ASSUME ReserveInv, NEW p \in Procs, ShortWrite(p)
  PROVE  ReserveInv'
<1>1. /\ torn' = torn + 1 /\ eof' = eof + TornBytes /\ UNCHANGED <<head, state>>
      /\ Returns(p)
  BY DEF ShortWrite
<1>2. CallsOK'
  BY <1>1, ReturnKeepsCalls DEF ReserveInv
<1>3. /\ eof \in Nat /\ torn \in Nat /\ TornBytes \in Nat
      /\ eof' \in Nat /\ torn' \in Nat /\ torn' # 0
  BY <1>1, SizesAssumption DEF ReserveInv, ChainOK
<1> QED BY <1>1, <1>2, <1>3 DEF ReserveInv, ChainOK, RecoveryReserve

----------------------------------------------------------------------------
LEMMA InitialReserve == Init => ReserveInv
<1> SUFFICES ASSUME Init PROVE ReserveInv
  OBVIOUS
<1>1. /\ eof = 0 /\ head = 0 /\ torn = 0 /\ state = NoGeneration
      /\ call = [p \in Procs |-> Idle]
  BY DEF Init
<1>2. /\ state \in LooseStates /\ Consistent(state)
      /\ state.kind = "NO_GENERATION" /\ ~state.nodep
  BY <1>1 DEF NoGeneration, LooseStates, Kinds, Actors, AllSteps, Consistent, Retiring
<1>3. Remaining(state) = 14
  BY <1>2, RemainingByKind DEF RemainingRule, Consistent, Terminal
<1>4. /\ RecordBytes \in Nat /\ NormalLimit \in Nat
      /\ HardLimit = NormalLimit + 14 * RecordBytes
  BY SizesAssumption DEF HardLimit, RecoveryRecords, AllSteps
<1>5. ChainOK
  BY <1>1, <1>2, <1>3, <1>4 DEF ChainOK, RecoveryReserve
<1>6. CallsOK
  BY <1>1, IdleType DEF CallsOK, CallOK
<1> QED BY <1>5, <1>6 DEF ReserveInv

LEMMA NextKeepsReserve == ReserveInv /\ [Next]_vars => ReserveInv'
<1> SUFFICES ASSUME ReserveInv, [Next]_vars PROVE ReserveInv'
  OBVIOUS
<1> USE DEF chain, world
<1>1. CASE UNCHANGED vars
  BY <1>1, NothingKeepsChain, NothingKeepsCalls DEF vars, ReserveInv
<1>2. CASE Expire
  BY <1>2, NothingKeepsChain, NothingKeepsCalls DEF Expire, ReserveInv
<1>3. ASSUME NEW p \in Procs,
             Create(p) \/ Retire(p) \/ HandOver(p) \/ Delete(p) \/ ShortWrite(p)
      PROVE  ReserveInv'
  BY <1>3, CreateKeepsReserve, RetireKeepsReserve, HandOverKeepsReserve,
     DeleteKeepsReserve, ShortWriteKeepsReserve
<1>4. ASSUME NEW p \in Procs, Exit(p)
      PROVE  ReserveInv'
  BY <1>4, QuietKeepsReserve DEF Exit, Quiet
<1>5. ASSUME NEW p \in Procs, ObserveExecutor(p)
      PROVE  ReserveInv'
  BY <1>5, QuietKeepsReserve DEF ObserveExecutor, Quiet, Reads, Operations
<1>6. ASSUME NEW p \in Procs, Activate(p)
      PROVE  ReserveInv'
  <2> DEFINE r == Record("ACTIVE_READY")
             class == ClassOf(state.epoch)
  <2>1. Append(p, r, class) /\ Appends(p, "certify")
    BY <1>6 DEF Activate
  <2>2. Appendable(r, class)
    BY RecordFields DEF Appendable, RecordKinds
  <2> HIDE DEF r, class
  <2> QED BY <2>1, <2>2, AppendKeepsReserve DEF Operations
<1>7. ASSUME NEW x \in Executors, Execute(x) \/ Batch(x)
      PROVE  ReserveInv'
  BY <1>7, ExecuteKeepsReserve, BatchKeepsReserve DEF Procs
<1>8. ASSUME NEW x \in Executors, Spawn(x) \/ TargetExits(x)
      PROVE  ReserveInv'
  BY <1>8, NothingKeepsChain, NothingKeepsCalls DEF Spawn, TargetExits, ReserveInv
<1> QED BY <1>1, <1>2, <1>3, <1>4, <1>5, <1>6, <1>7, <1>8 DEF Next

\* The chain and what its callers have read of it agree at all times; this is
\* the inductive invariant behind the reserve.
THEOREM ReserveInvariant == Spec => []ReserveInv
BY InitialReserve, NextKeepsReserve, PTL DEF Spec

\* The recovery tail of the file is long enough for any lineage: five records
\* of handoff, two per clean-up step and a terminal one (native/lifecycle.h).
THEOREM ReserveIsKept == Spec => []RecoveryReserve
<1>1. ReserveInv => RecoveryReserve
  BY DEF ReserveInv, ChainOK
<1> QED BY <1>1, ReserveInvariant, PTL

\* So a record that recovery may append is never refused for want of room, and
\* no healthy handle finds the file full before the chain is terminal.
RecoveryHasRoom ==
  torn = 0 /\ state.kind \notin Terminal => Fits("RECOVERY")

THEOREM RoomToRecover == Spec => []RecoveryHasRoom
<1>1. ReserveInv => RecoveryHasRoom
  <2> SUFFICES ASSUME ReserveInv, torn = 0, state.kind \notin Terminal
               PROVE  Fits("RECOVERY")
    BY DEF RecoveryHasRoom
  <2> DEFINE n == Remaining(state)
  <2>1. n \in Nat /\ 1 <= n
    BY RemainingType DEF ReserveInv, ChainOK
  <2>2. eof + n * RecordBytes <= HardLimit /\ eof \in Nat
    BY DEF ReserveInv, ChainOK, RecoveryReserve
  <2>3. RecordBytes \in Nat /\ HardLimit \in Nat
    <3>1. RecordBytes \in Nat /\ NormalLimit \in Nat /\ RecoveryRecords = 14
      BY SizesAssumption DEF RecoveryRecords, AllSteps
    <3>2. 14 * RecordBytes \in Nat
      BY <3>1, Multiples
    <3> QED BY <3>1, <3>2 DEF HardLimit
  <2> HIDE DEF n
  <2>4. 1 * RecordBytes <= n * RecordBytes /\ n * RecordBytes \in Nat
    BY <2>1, <2>3, Multiples
  <2>5. eof + RecordBytes <= HardLimit
    BY <2>2, <2>3, <2>4
  <2> QED BY <2>5 DEF Fits
<1> QED BY <1>1, ReserveInvariant, PTL

----------------------------------------------------------------------------
(* The allocation journal is safe, whatever crashes, expires or is cut     *)
(* short: what processes hold agrees with the chain on disk, and no effect *)
(* and no hand-over happens but on its authority.                          *)
(*                                                                         *)
(* The invariant is in three layers: the shape of the canonical state and  *)
(* what it says of the world; who has the lock and the token; and what the *)
(* proofs of reaping and the calls in progress remember.  A step is first  *)
(* reduced to three facts, whatever its action: what becomes of the chain  *)
(* (Moves), of the handle, the lock and the call of its process (Turn),    *)
(* and of the processes and the file system (World).  Each part of the     *)
(* invariant is then kept by any step of that form.                        *)

(* The inductive invariant of the authority on disk.                       *)

Life == {"none", "running", "zombie", "reaped"}
Tokens == [batch : Nat, first : Nat, done : Nat, executed : BOOLEAN,
           started : BOOLEAN, pending : Nat]
Proofs == [gen : Nat, epoch : 0..2, ident : Actors, head : Nat]
Auths == [kind : {None, "PARTIAL", "DONE"}, head : Nat]
Handles == [open : BOOLEAN, healthy : BOOLEAN, receipt : BOOLEAN,
            token : Tokens, proof : Proofs, auth : Auths]

Typed ==
  /\ file \in {"absent", "present", "unlinked"} /\ workdir \in {"absent", "present"}
  /\ synced \in Nat /\ synced <= head
  /\ lock \in Procs \cup {None}
  /\ proc \in [Procs -> Life] /\ target \in [Executors -> Life]
  /\ handle \in [Procs -> Handles]

\* What the kind of the canonical state says of its other fields.
ShapeOf(s) ==
  /\ s.kind = "NO_GENERATION" => s.gen = 0 /\ s.ident = None
  /\ s.kind = "PREPARED" => s.ident = None /\ s.actor \in Executors
  /\ s.kind \in {"ACTIVE_READY", "DONE"} \cup Batching => s.ident \in Executors
  /\ s.ident = None => s.steps = 0
  /\ s.kind \in Batching => s.steps < s.upto
  /\ s.kind = "DONE" => s.steps = AllSteps
Shape == ShapeOf(state) /\ (state.nodep => head > 1)

\* What the chain says is done has been done.
StepsAreTrue ==
  /\ state.steps >= 2 => target[state.ident] = "reaped"
  /\ state.steps >= 3 => workdir = "absent"
  /\ \A x \in Executors : target[x] # "none" => proc[x] # "none"

\* The calls that have the lock, but for a token.
Locking(c) ==
  \/ c.op \in {"mkdir", "certify", "admit", "nodep", "delete"}
  \/ c.op = "retiring" /\ c.seen.kind # "BATCH_ACTIVE"

\* One process has the action lock, by its call or by its token, and the calls
\* of a batch have its token.
LockOK(p) ==
  /\ Locking(call[p]) => lock = p /\ ~HoldsToken(p)
  /\ HoldsToken(p) => lock = p /\ p \in Executors
  /\ call[p].op \in {"effect", "complete"} => HoldsToken(p) /\ handle[p].token.pending = 0
  /\ call[p].op = "completed" => HoldsToken(p) /\ handle[p].token.pending # 0
  /\ handle[p].token.pending # 0 \/ call[p].op = "complete" => handle[p].token.executed
  /\ call[p].op # "idle" => proc[p] = "running"
  /\ ~handle[p].open => ~HoldsToken(p)

\* A token without a completion is for the batch of the canonical state, whose
\* executor holds it, and says what has been done of it.
BatchOK(p) ==
  LET t == handle[p].token IN
  /\ state.kind \in Batching /\ state.batch = t.batch /\ state.ident = p
  /\ t.batch <= synced
  /\ state.steps <= t.done /\ t.done <= state.upto
  /\ call[p].op = "effect" => t.done < state.upto
  /\ t.done >= 2 => target[p] = "reaped"
  /\ t.done >= 3 => workdir = "absent"
TokenOK(p) ==
  /\ HoldsToken(p) =>
       IF handle[p].token.pending = 0 THEN BatchOK(p)
       ELSE head = handle[p].token.pending /\ state.kind \in {"ACTIVE_READY", "RETIRING_IDLE"}
  /\ call[p].op = "admit" /\ state.kind \in Batching /\ state.batch = call[p].head
       => state.ident = p

\* A proof is of an executor that has been reaped, and who is on record for its
\* generation does not change.
ProofOK(p) ==
  LET f == handle[p].proof IN
  f # NoProof =>
    /\ f.ident \in Executors /\ proc[f.ident] = "reaped"
    /\ f.gen <= state.gen /\ (f.gen = state.gen => f.ident = state.ident)
    /\ f.head <= head /\ (f.head = head => f.gen = state.gen)
SuccessionOK(p) ==
  LET s == call[p].seen IN
  call[p].op = "succeed" =>
    /\ s.ident \in Executors /\ proc[s.ident] = "reaped"
    /\ s.gen <= state.gen /\ (s.gen = state.gen => s.ident = state.ident)

\* A retirement that finds the head it has read finds the state it has read.
SeenOK(p) ==
  /\ call[p].op \in {"retire", "admit"} => call[p].head <= head
  /\ call[p].op = "retire" /\ call[p].head = head => call[p].seen = state

\* Nobody has the journal open before its intent is on disk, and what is deleted
\* has ended or never begun.
FileOK ==
  /\ workdir = "present" => file = "present"
  /\ file = "absent" => head = 0 /\ \A p \in Procs : ~handle[p].open
  /\ file = "unlinked" => head = 0 \/ state.nodep \/ state.kind = "DONE"
  /\ \A p \in Procs : call[p].op = "create" =>
       /\ p = Owner /\ file = "present" /\ state.kind = "NO_GENERATION"
       /\ \A q \in Procs : ~handle[q].open

SafetyInv ==
  /\ Typed /\ Shape /\ StepsAreTrue /\ FileOK
  /\ \A p \in Procs : LockOK(p)
  /\ \A p \in Procs : TokenOK(p)
  /\ \A p \in Procs : ProofOK(p) /\ SuccessionOK(p) /\ SeenOK(p)

JInv == ReserveInv /\ SafetyInv

----------------------------------------------------------------------------
(* What a step makes of the handle and the call of its process.            *)

HandleBecomes(p, open, token, proof) ==
  /\ handle' \in [Procs -> Handles]
  /\ \A q \in Procs : q # p => handle'[q] = handle[q]
  /\ handle'[p].open = open /\ handle'[p].token = token /\ handle'[p].proof = proof
HandleStays(p) == HandleBecomes(p, handle[p].open, handle[p].token, handle[p].proof)
CallBecomes(p, op, h, seen) ==
  /\ \A q \in Procs : q # p => call'[q] = call[q]
  /\ call'[p].op = op /\ call'[p].head = h /\ call'[p].seen = seen

LEMMA NoHandle ==
  /\ NoToken \in Tokens /\ NoProof \in Proofs /\ NoAuth \in Auths
  /\ Closed \in Handles /\ Opened \in Handles
  /\ Closed.open = FALSE /\ Closed.token = NoToken /\ Closed.proof = NoProof
  /\ Opened.open = TRUE /\ Opened.token = NoToken /\ Opened.proof = NoProof
<1>1. NoToken \in Tokens /\ NoProof \in Proofs /\ NoAuth \in Auths
  BY DEF NoToken, Tokens, NoProof, Proofs, Actors, NoAuth, Auths
<1>2. Closed \in Handles
  BY <1>1 DEF Closed, Handles
<1> QED BY <1>1, <1>2 DEF Closed, Opened, Handles

LEMMA HandleSet ==
  ASSUME Typed, NEW p \in Procs, NEW h \in Handles, handle' = [handle EXCEPT ![p] = h]
  PROVE  HandleBecomes(p, h.open, h.token, h.proof)
  BY DEF Typed, HandleBecomes

LEMMA HandleKept ==
  ASSUME Typed, NEW p \in Procs, UNCHANGED handle
  PROVE  HandleStays(p)
  BY DEF Typed, HandleStays, HandleBecomes

LEMMA HandleFields ==
  ASSUME Typed, NEW p \in Procs
  PROVE  /\ handle[p] \in Handles /\ handle[p].token \in Tokens /\ handle[p].proof \in Proofs
         /\ handle[p].open \in BOOLEAN /\ handle[p].auth \in Auths
  BY DEF Typed, Handles

LEMMA TokenSet ==
  ASSUME Typed, NEW p \in Procs, NEW t \in Tokens,
         handle' = [handle EXCEPT ![p].token = t]
  PROVE  HandleBecomes(p, handle[p].open, t, handle[p].proof)
<1>1. handle[p] \in Handles
  BY HandleFields
<1> DEFINE h == [handle[p] EXCEPT !.token = t]
<1>2. h \in Handles /\ h.open = handle[p].open /\ h.token = t /\ h.proof = handle[p].proof
  BY <1>1 DEF Handles
<1>3. handle' = [handle EXCEPT ![p] = h]
  BY DEF Typed
<1> HIDE DEF h
<1> QED BY <1>2, <1>3, HandleSet

LEMMA ProofSet ==
  ASSUME Typed, NEW p \in Procs, NEW f \in Proofs,
         handle' = [handle EXCEPT ![p].proof = f]
  PROVE  HandleBecomes(p, handle[p].open, handle[p].token, f)
<1>1. handle[p] \in Handles
  BY HandleFields
<1> DEFINE h == [handle[p] EXCEPT !.proof = f]
<1>2. h \in Handles /\ h.open = handle[p].open /\ h.token = handle[p].token /\ h.proof = f
  BY <1>1 DEF Handles
<1>3. handle' = [handle EXCEPT ![p] = h]
  BY DEF Typed
<1> HIDE DEF h
<1> QED BY <1>2, <1>3, HandleSet

LEMMA AuthSet ==
  ASSUME Typed, NEW p \in Procs, NEW a \in Auths,
         handle' = [handle EXCEPT ![p].auth = a]
  PROVE  HandleStays(p)
<1>1. handle[p] \in Handles
  BY HandleFields
<1> DEFINE h == [handle[p] EXCEPT !.auth = a]
<1>2. h \in Handles /\ h.open = handle[p].open /\ h.token = handle[p].token
      /\ h.proof = handle[p].proof
  BY <1>1 DEF Handles
<1>3. handle' = [handle EXCEPT ![p] = h]
  BY DEF Typed
<1> HIDE DEF h
<1> QED BY <1>2, <1>3, HandleSet DEF HandleStays

LEMMA HealthSet ==
  ASSUME Typed, NEW p \in Procs, NEW b \in BOOLEAN,
         handle' = [handle EXCEPT ![p].healthy = b]
  PROVE  HandleStays(p)
<1>1. handle[p] \in Handles
  BY HandleFields
<1> DEFINE h == [handle[p] EXCEPT !.healthy = b]
<1>2. h \in Handles /\ h.open = handle[p].open /\ h.token = handle[p].token
      /\ h.proof = handle[p].proof
  BY <1>1 DEF Handles
<1>3. handle' = [handle EXCEPT ![p] = h]
  BY DEF Typed
<1> HIDE DEF h
<1> QED BY <1>2, <1>3, HandleSet DEF HandleStays

LEMMA CallSet ==
  ASSUME CallsOK, NEW p \in Procs, NEW op, NEW h, NEW seen,
         call' = [call EXCEPT ![p] = [op |-> op, head |-> h, seen |-> seen]]
  PROVE  CallBecomes(p, op, h, seen)
  BY DEF CallsOK, CallBecomes

LEMMA CallReturns ==
  ASSUME CallsOK, NEW p \in Procs, Returns(p)
  PROVE  CallBecomes(p, "idle", 0, NoGeneration)
  BY DEF Returns, Idle, CallsOK, CallBecomes
LEMMA CallEnters ==
  ASSUME CallsOK, NEW p \in Procs, NEW op, Enters(p, op)
  PROVE  CallBecomes(p, op, head, state)
  BY DEF Enters, CallsOK, CallBecomes
LEMMA CallAppends ==
  ASSUME CallsOK, NEW p \in Procs, NEW op, Appends(p, op)
  PROVE  CallBecomes(p, op, head + 1, state)
  BY DEF Appends, CallsOK, CallBecomes
LEMMA CallKept ==
  ASSUME UNCHANGED call, NEW p \in Procs
  PROVE  CallBecomes(p, call[p].op, call[p].head, call[p].seen)
  BY DEF CallBecomes

\* The process of a step is one of those that run.
LEMMA RunningIsIdle ==
  ASSUME NEW p \in Procs, Running(p)
  PROVE  call[p].op = "idle" /\ proc[p] = "running"
  BY DEF Running, Idle

LEMMA NobodyHasLock ==
  ASSUME SafetyInv, lock = None
  PROVE  \A q \in Procs : ~HoldsToken(q) /\ ~Locking(call[q])
  BY ProcsAssumption DEF SafetyInv, LockOK

----------------------------------------------------------------------------
(* What a record makes of the canonical state.                             *)

NobodyHolds == \A q \in Procs : ~HoldsToken(q)
SameGen == state'.gen = state.gen /\ state'.nodep = state.nodep
SameSteps == SameGen /\ state'.ident = state.ident /\ state'.steps = state.steps

Notes ==
  /\ state.kind = "NO_GENERATION" /\ state'.kind = "NO_GENERATION"
  /\ state'.gen = state.gen /\ state'.ident = state.ident /\ state'.steps = state.steps
  /\ state.nodep => state'.nodep
Prepares ==
  /\ state.kind \in {"NO_GENERATION", "RETIRING_IDLE"} /\ NobodyHolds
  /\ state.kind = "RETIRING_IDLE" =>
       state.ident \in Executors /\ proc[state.ident] = "reaped"
  /\ state'.kind = "PREPARED" /\ state'.gen = state.gen + 1 /\ state'.ident = None
  /\ state'.steps = 0 /\ state'.actor \in Executors /\ state'.nodep = state.nodep
Activates ==
  /\ state.kind = "PREPARED" /\ NobodyHolds
  /\ state'.kind = "ACTIVE_READY" /\ SameGen
  /\ state'.ident = state.actor /\ state'.steps = 0
Admits ==
  /\ state.kind = "ACTIVE_READY" /\ lock = None
  /\ state'.kind = "BATCH_ACTIVE" /\ SameSteps /\ state'.steps < state'.upto
Goes ==
  /\ state.kind \in Batching /\ state'.kind \in Batching /\ SameSteps
  /\ state'.upto = state.upto /\ state'.batch = state.batch
Completes(p) ==
  /\ call[p].op = "complete" /\ call'[p].op = "completed" /\ state.kind \in Batching
  /\ state'.kind \in {"ACTIVE_READY", "RETIRING_IDLE"} /\ SameGen
  /\ state'.ident = state.ident /\ state'.steps = handle[p].token.done
Rests ==
  /\ NobodyHolds /\ SameSteps
  /\ state'.kind \in {"RETIRING_IDLE", "UNCONFIRMED"}
  /\ state.kind \in {"PREPARED", "ACTIVE_READY", "RETIRING_BATCH", "RETIRING_IDLE",
                     "NO_GENERATION", "BATCH_ACTIVE"}
Finishes ==
  /\ NobodyHolds /\ SameSteps
  /\ state.kind = "ACTIVE_READY" /\ state'.kind = "DONE" /\ state.steps = AllSteps

Extends(p) ==
  /\ head > 0 /\ head' = head + 1 /\ handle[p].open
  /\ Notes \/ Prepares \/ Activates \/ Admits \/ Goes \/ Completes(p) \/ Rests \/ Finishes
Same == UNCHANGED <<state, head>>
Begins(p) == UNCHANGED state /\ head = 0 /\ head' = 1 /\ call[p].op = "create"
Moves(p) == Same \/ Begins(p) \/ Extends(p)

\* The fields of the state are there to be changed.
LEMMA StateFields ==
  ASSUME ReserveInv
  PROVE  /\ state = [kind |-> state.kind, gen |-> state.gen, epoch |-> state.epoch,
                     actor |-> state.actor, ident |-> state.ident, steps |-> state.steps,
                     upto |-> state.upto, batch |-> state.batch, bound |-> state.bound,
                     nodep |-> state.nodep]
         /\ state \in LooseStates /\ head \in Nat /\ Consistent(state)
         /\ (head = 0 => state.kind = "NO_GENERATION")
  BY DEF ReserveInv, ChainOK, LooseStates

LEMMA AppendIs ==
  ASSUME NEW p, NEW r, NEW class, Append(p, r, class)
  PROVE  /\ head > 0 /\ head' = head + 1 /\ Legal(state, r) /\ state' = Applied(state, r)
         /\ handle[p].open
  BY DEF Append, Healthy

LEMMA NoteMoves ==
  ASSUME JInv, NEW p \in Procs, NEW r, NEW class, Append(p, r, class),
         r.kind \in {"WORKDIR_BOUND", "NO_DEPENDENT_ARTIFACT"}
  PROVE  Moves(p)
<1>1. /\ head > 0 /\ head' = head + 1 /\ Legal(state, r) /\ state' = Applied(state, r)
      /\ handle[p].open
  BY AppendIs
<1>2. state \in LooseStates
  BY StateFields DEF JInv
<1>3. state.kind = "NO_GENERATION"
  BY <1>1 DEF Legal
<1>4. state' = [state EXCEPT !.bound = TRUE] \/ state' = [state EXCEPT !.nodep = TRUE]
  BY <1>1 DEF Applied
<1> QED BY <1>1, <1>2, <1>3, <1>4 DEF Moves, Extends, Notes, LooseStates

LEMMA PrepareMoves ==
  ASSUME JInv, NEW p \in Procs, NEW r, NEW class, Append(p, r, class),
         r.kind = "PREPARED", r.actor \in Executors, r.gen = state.gen + 1,
         state.kind = "RETIRING_IDLE" =>
           NobodyHolds /\ state.ident \in Executors /\ proc[state.ident] = "reaped"
  PROVE  Moves(p)
<1>1. /\ head > 0 /\ head' = head + 1 /\ Legal(state, r) /\ state' = Applied(state, r)
      /\ handle[p].open
  BY AppendIs
<1>2. state \in LooseStates
  BY StateFields DEF JInv
<1>3. state.kind \in {"NO_GENERATION", "RETIRING_IDLE"}
  BY <1>1 DEF Legal
<1>4. state' = [state EXCEPT !.kind = "PREPARED", !.gen = r.gen, !.epoch = r.epoch,
                   !.actor = r.actor, !.ident = None, !.steps = 0,
                   !.upto = 0, !.batch = 0]
  BY <1>1 DEF Applied
<1>5. /\ state'.kind = "PREPARED" /\ state'.gen = r.gen /\ state'.actor = r.actor
      /\ state'.ident = None /\ state'.steps = 0 /\ state'.nodep = state.nodep
  BY <1>2, <1>4 DEF LooseStates
<1>6. state.kind = "NO_GENERATION" => NobodyHolds
  BY DEF JInv, SafetyInv, TokenOK, BatchOK, Batching, NobodyHolds
<1> QED BY <1>1, <1>3, <1>5, <1>6 DEF Moves, Extends, Prepares

LEMMA ActivateMoves ==
  ASSUME JInv, NEW p \in Procs, NEW r, NEW class, Append(p, r, class),
         r.kind = "ACTIVE_READY", r.actor = state.actor
  PROVE  Moves(p)
<1>1. /\ head > 0 /\ head' = head + 1 /\ Legal(state, r) /\ state' = Applied(state, r)
      /\ handle[p].open
  BY AppendIs
<1>2. state \in LooseStates
  BY StateFields DEF JInv
<1>3. state.kind = "PREPARED"
  BY <1>1 DEF Legal
<1>4. state' = [state EXCEPT !.kind = "ACTIVE_READY", !.epoch = r.epoch,
                             !.ident = r.actor, !.steps = 0]
  BY <1>1 DEF Applied
<1>5. /\ state'.kind = "ACTIVE_READY" /\ SameGen /\ state'.ident = state.actor
      /\ state'.steps = 0
  BY <1>2, <1>4 DEF LooseStates, SameGen
<1>6. NobodyHolds
  BY <1>3 DEF JInv, SafetyInv, TokenOK, BatchOK, Batching, NobodyHolds
<1> QED BY <1>1, <1>3, <1>5, <1>6 DEF Moves, Extends, Activates

LEMMA AdmitMoves ==
  ASSUME JInv, NEW p \in Procs, NEW r, NEW class, Append(p, r, class), lock = None,
         r.kind = "BATCH_ACTIVE"
  PROVE  Moves(p) /\ state'.ident = state.ident
<1>1. /\ head > 0 /\ head' = head + 1 /\ Legal(state, r) /\ state' = Applied(state, r)
      /\ handle[p].open
  BY AppendIs
<1>2. state \in LooseStates
  BY StateFields DEF JInv
<1>3. /\ state.kind = "ACTIVE_READY" /\ r.upto \in (state.steps + 1)..AllSteps
  BY <1>1 DEF Legal
<1>4. state' = [state EXCEPT !.kind = "BATCH_ACTIVE", !.upto = r.upto, !.batch = r.batch]
  BY <1>1 DEF Applied
<1>5. /\ state'.kind = "BATCH_ACTIVE" /\ SameSteps /\ state'.upto = r.upto
  BY <1>2, <1>4 DEF LooseStates, SameSteps, SameGen
<1>6. state'.steps < state'.upto
  BY <1>2, <1>3, <1>5 DEF SameSteps, LooseStates, AllSteps
<1> QED BY <1>1, <1>3, <1>5, <1>6 DEF Moves, Extends, Admits, SameSteps

LEMMA CompletionMoves ==
  ASSUME JInv, NEW p \in Procs, NEW r, NEW class, Append(p, r, class),
         r.kind = "BATCH_DONE", r.steps = handle[p].token.done,
         call[p].op = "complete", call'[p].op = "completed"
  PROVE  Moves(p) /\ state'.kind \in {"ACTIVE_READY", "RETIRING_IDLE"}
<1>1. /\ head > 0 /\ head' = head + 1 /\ Legal(state, r) /\ state' = Applied(state, r)
      /\ handle[p].open
  BY AppendIs
<1>2. state \in LooseStates
  BY StateFields DEF JInv
<1>3. state.kind \in Batching
  BY <1>1 DEF Legal, Batching
<1>4. state' = [state EXCEPT !.kind = IF state.kind = "BATCH_ACTIVE" THEN "ACTIVE_READY"
                                                                 ELSE "RETIRING_IDLE",
                             !.steps = r.steps, !.upto = 0, !.batch = 0]
  BY <1>1 DEF Applied
<1>5. /\ state'.kind \in {"ACTIVE_READY", "RETIRING_IDLE"} /\ SameGen
      /\ state'.ident = state.ident /\ state'.steps = r.steps
  BY <1>2, <1>4 DEF LooseStates, SameGen
<1> QED BY <1>1, <1>3, <1>5 DEF Moves, Extends, Completes

LEMMA InterruptionMoves ==
  ASSUME JInv, NEW p \in Procs, NEW r, NEW class, Append(p, r, class), lock = None,
         r.kind = "BATCH_DONE", r.outcome = "INTERRUPTED"
  PROVE  Moves(p)
<1>1. /\ head > 0 /\ head' = head + 1 /\ Legal(state, r) /\ state' = Applied(state, r)
      /\ handle[p].open
  BY AppendIs
<1>2. state \in LooseStates
  BY StateFields DEF JInv
<1>3. state.kind = "RETIRING_BATCH" /\ r.steps = state.steps
  BY <1>1 DEF Legal
<1>4. state' = [state EXCEPT !.kind = "RETIRING_IDLE", !.steps = r.steps, !.upto = 0,
                             !.batch = 0]
  BY <1>1, <1>3 DEF Applied
<1>5. state'.kind = "RETIRING_IDLE" /\ SameSteps
  BY <1>2, <1>3, <1>4 DEF LooseStates, SameSteps, SameGen
<1>6. NobodyHolds
  BY NobodyHasLock DEF JInv, NobodyHolds
<1> QED BY <1>1, <1>3, <1>5, <1>6 DEF Moves, Extends, Rests

LEMMA RetirementMoves ==
  ASSUME JInv, NEW p \in Procs, NEW r, NEW class, Append(p, r, class),
         \/ r.kind = "RETIRING_BATCH"
         \/ r.kind = "RETIRING_IDLE" /\ NobodyHolds
  PROVE  Moves(p)
<1>1. /\ head > 0 /\ head' = head + 1 /\ Legal(state, r) /\ state' = Applied(state, r)
      /\ handle[p].open
  BY AppendIs
<1>2. state \in LooseStates
  BY StateFields DEF JInv
<1>3. CASE r.kind = "RETIRING_BATCH"
  <2>1. state.kind = "BATCH_ACTIVE"
    BY <1>1, <1>3 DEF Legal
  <2>2. state' = [state EXCEPT !.kind = "RETIRING_BATCH", !.epoch = r.epoch]
    BY <1>1, <1>3 DEF Applied
  <2>3. /\ state'.kind = "RETIRING_BATCH" /\ SameSteps /\ state'.upto = state.upto
        /\ state'.batch = state.batch
    BY <1>2, <2>2 DEF LooseStates, SameSteps, SameGen
  <2> QED BY <1>1, <2>1, <2>3 DEF Moves, Extends, Goes, Batching
<1>4. CASE r.kind = "RETIRING_IDLE" /\ NobodyHolds
  <2>1. state.kind \in {"PREPARED", "ACTIVE_READY"}
    BY <1>1, <1>4 DEF Legal
  <2>2. state' = [state EXCEPT !.kind = "RETIRING_IDLE", !.epoch = r.epoch]
    BY <1>1, <1>4 DEF Applied
  <2>3. state'.kind = "RETIRING_IDLE" /\ SameSteps
    BY <1>2, <2>2 DEF LooseStates, SameSteps, SameGen
  <2> QED BY <1>1, <1>4, <2>1, <2>3 DEF Moves, Extends, Rests
<1> QED BY <1>3, <1>4

LEMMA ReplacementMoves ==
  ASSUME JInv, NEW p \in Procs, NEW r, NEW class, Append(p, r, class), lock = None,
         r.kind = "REPLACE_AUTHORITY"
  PROVE  Moves(p)
<1>1. /\ head > 0 /\ head' = head + 1 /\ Legal(state, r) /\ state' = Applied(state, r)
      /\ handle[p].open
  BY AppendIs
<1>2. state \in LooseStates
  BY StateFields DEF JInv
<1>3. state.kind \in Retiring
  BY <1>1 DEF Legal
<1>4. state' = [state EXCEPT !.epoch = r.epoch]
  BY <1>1 DEF Applied
<1>5. /\ state'.kind = state.kind /\ SameSteps /\ state'.upto = state.upto
      /\ state'.batch = state.batch
  BY <1>2, <1>4 DEF LooseStates, SameSteps, SameGen
<1>6. NobodyHolds
  BY NobodyHasLock DEF JInv, NobodyHolds
<1> QED BY <1>1, <1>3, <1>5, <1>6 DEF Moves, Extends, Goes, Rests, Batching, Retiring

LEMMA DoneMoves ==
  ASSUME JInv, NEW p \in Procs, NEW r, NEW class, Append(p, r, class), lock = None,
         r.kind = "DONE"
  PROVE  Moves(p)
<1>1. /\ head > 0 /\ head' = head + 1 /\ Legal(state, r) /\ state' = Applied(state, r)
      /\ handle[p].open
  BY AppendIs
<1>2. state \in LooseStates
  BY StateFields DEF JInv
<1>3. state.kind = "ACTIVE_READY" /\ state.steps = AllSteps
  BY <1>1 DEF Legal
<1>4. state' = [state EXCEPT !.kind = "DONE"]
  BY <1>1 DEF Applied
<1>5. state'.kind = "DONE" /\ SameSteps
  BY <1>2, <1>4 DEF LooseStates, SameSteps, SameGen
<1>6. NobodyHolds
  BY NobodyHasLock DEF JInv, NobodyHolds
<1> QED BY <1>1, <1>3, <1>5, <1>6 DEF Moves, Extends, Finishes

LEMMA UnconfirmedMoves ==
  ASSUME JInv, NEW p \in Procs, NEW r, NEW class, Append(p, r, class), lock = None,
         r.kind = "UNCONFIRMED"
  PROVE  Moves(p)
<1>1. /\ head > 0 /\ head' = head + 1 /\ Legal(state, r) /\ state' = Applied(state, r)
      /\ handle[p].open
  BY AppendIs
<1>2. state \in LooseStates
  BY StateFields DEF JInv
<1>3. state.kind \notin Terminal
  BY <1>1 DEF Legal
<1>4. state' = [state EXCEPT !.kind = "UNCONFIRMED"]
  BY <1>1 DEF Applied
<1>5. state'.kind = "UNCONFIRMED" /\ SameSteps
  BY <1>2, <1>4 DEF LooseStates, SameSteps, SameGen
<1>6. NobodyHolds
  BY NobodyHasLock DEF JInv, NobodyHolds
<1> QED BY <1>1, <1>2, <1>3, <1>5, <1>6 DEF Moves, Extends, Rests, LooseStates, Kinds, Terminal

----------------------------------------------------------------------------
(* What a step does with the lock, the handle and the call of its process. *)

\* It reads for a call that has no lock.
Watches(p) ==
  /\ lock' = lock /\ HandleStays(p) /\ Same /\ proc[p] = "running"
  /\ \E op \in {"create", "activate", "retire", "retiring", "reconcile", "succeed"} :
       /\ CallBecomes(p, op, head, state)
       /\ op = "retiring" => state.kind = "BATCH_ACTIVE"
       /\ op = "succeed" => ValidReapProof(handle[p].proof, state)
       /\ op = "create" => p = Owner /\ file = "absent" /\ file' = "present"
\* It takes the lock.
Takes(p) ==
  /\ lock = None /\ lock' = p /\ HandleStays(p) /\ proc[p] = "running"
  /\ \E op \in {"mkdir", "certify", "admit", "nodep", "delete", "retiring"}, h \in Nat :
       /\ CallBecomes(p, op, h, state)
       /\ op = "retiring" => state.kind # "BATCH_ACTIVE"
       /\ op = "admit" => state'.ident = p /\ h <= head'
\* It goes on with it.
Keeps(p) ==
  /\ Locking(call[p]) /\ lock' = lock /\ HandleStays(p)
  /\ \E h \in Nat : CallBecomes(p, "certify", h, state)
\* Its call ends, or it makes none; a token stays.
Opens(p) ==
  /\ file = "present"
  /\ \/ call[p].op = "create" /\ call'[p].op = "idle"
     \/ call[p].op = "idle" /\ MayOpen(p)
Lasts(p) ==
  \E open \in BOOLEAN, proof \in {handle[p].proof, NoProof} :
    /\ HandleBecomes(p, open, handle[p].token, proof)
    /\ open \/ ~HoldsToken(p)
    /\ open => handle[p].open \/ Opens(p)
Ends(p) ==
  /\ CallBecomes(p, "idle", 0, NoGeneration) /\ Lasts(p)
  /\ lock' = lock \/ (lock = p /\ lock' = None /\ ~HoldsToken(p))
Proves(p) ==
  LET f == [gen |-> state.gen, epoch |-> state.epoch, ident |-> state.ident, head |-> head]
  IN /\ HandleBecomes(p, handle[p].open, handle[p].token, f) /\ handle[p].open /\ Same
     /\ state.ident \in Executors /\ proc'[state.ident] = "reaped"
Stays(p) ==
  /\ lock' = lock /\ call[p].op \in {"idle", "create"}
  /\ \E h \in Nat : CallBecomes(p, call[p].op, h, call[p].seen)
  /\ Lasts(p) \/ Proves(p)
\* It gives its token back, or dies.
Drops(p) ==
  /\ CallBecomes(p, "idle", 0, NoGeneration)
  /\ \E open \in BOOLEAN, proof \in {handle[p].proof, NoProof} :
       HandleBecomes(p, open, NoToken, proof) /\ (open => handle[p].open)
  /\ lock' = lock \/ (lock = p /\ lock' = None)
\* It is granted a token, works with it, and has completed its batch.
Grants(p) ==
  /\ call[p].op = "admit" /\ state.kind \in Batching /\ state.batch = call[p].head
  /\ synced' = head /\ lock' = lock /\ Same /\ p \in Executors /\ handle[p].open
  /\ CallBecomes(p, "idle", 0, NoGeneration)
  /\ \E t \in Tokens :
       /\ HandleBecomes(p, handle[p].open, t, handle[p].proof)
       /\ t.batch = state.batch /\ t.done = state.steps /\ t.pending = 0
Works(p) ==
  LET old == handle[p].token IN
  /\ HoldsToken(p) /\ old.pending = 0 /\ lock' = lock /\ Same /\ proc[p] = "running"
  /\ \E t \in Tokens, op \in {"idle", "effect", "complete"}, h \in Nat, seen \in LooseStates :
       /\ HandleBecomes(p, handle[p].open, t, handle[p].proof)
       /\ CallBecomes(p, op, h, seen)
       /\ t.batch = old.batch /\ t.pending = 0 /\ t # NoToken
       /\ op = "effect" => t.done = old.done /\ t.done # state.upto
       /\ op = "complete" => t.executed
       /\ \/ t.done = old.done
          \/ /\ t.done = old.done + 1 /\ call[p].op = "effect"
             /\ t.done = 2 => target'[p] = "reaped"
             /\ t.done >= 3 => workdir' = "absent"
Records(p) ==
  LET old == handle[p].token IN
  /\ HoldsToken(p) /\ old.pending = 0 /\ lock' = lock /\ proc[p] = "running"
  /\ old.executed /\ head' = head + 1 /\ state'.kind \in {"ACTIVE_READY", "RETIRING_IDLE"}
  /\ CallBecomes(p, "completed", head + 1, state)
  /\ \E t \in Tokens :
       /\ HandleBecomes(p, handle[p].open, t, handle[p].proof)
       /\ t.pending = head + 1 /\ t.executed

Waits == Same /\ UNCHANGED <<lock, handle, call>>

Turn(p) ==
  Waits \/ Watches(p) \/ Takes(p) \/ Keeps(p) \/ Ends(p) \/ Stays(p) \/ Drops(p) \/ Grants(p)
  \/ Works(p) \/ Records(p)

\* A handle that stays as it is, or loses what it has no token for.
LEMMA StaysLasts ==
  ASSUME JInv, NEW p \in Procs, HandleStays(p)
  PROVE  Lasts(p)
<1>1. handle[p].open \in BOOLEAN /\ (handle[p].open \/ ~HoldsToken(p))
  BY HandleFields DEF JInv, SafetyInv, LockOK
<1> QED BY <1>1 DEF Lasts, HandleStays
LEMMA ClosedLasts ==
  ASSUME JInv, NEW p \in Procs, ~HoldsToken(p),
         NEW h \in Handles, h.token = NoToken, h.proof = NoProof,
         h.open => Opens(p),
         handle' = [handle EXCEPT ![p] = h]
  PROVE  Lasts(p)
<1>1. HandleBecomes(p, h.open, handle[p].token, NoProof)
  BY HandleSet DEF JInv, SafetyInv, HoldsToken
<1>2. h.open \in BOOLEAN
  BY DEF Handles
<1> QED BY <1>1, <1>2 DEF Lasts

\* Who has the lock for a call has no token.
LEMMA LockingHasNoToken ==
  ASSUME JInv, NEW p \in Procs, Locking(call[p])
  PROVE  lock = p /\ ~HoldsToken(p)
  BY DEF JInv, SafetyInv, LockOK

LEMMA CreateTurns ==
  ASSUME JInv, NEW p \in Procs, Create(p)
  PROVE  Turn(p) /\ Moves(p)
<1> USE DEF chain, world
<1>0. CallsOK /\ Typed /\ head \in Nat /\ CallRecords = CallRecords
  BY StateFields DEF JInv, SafetyInv, ReserveInv
<1>1. CASE OpenNew(p)
  <2>1. HandleStays(p) /\ CallBecomes(p, "create", head, state) /\ proc[p] = "running"
    BY <1>0, <1>1, HandleKept, CallEnters, RunningIsIdle DEF OpenNew
  <2>2. Watches(p)
    BY <1>1, <2>1 DEF OpenNew, Watches, Same
  <2> QED BY <1>1, <2>2 DEF OpenNew, Turn, Moves, Same
<1>2. CASE WriteIntent(p)
  <2>1. HandleStays(p)
    BY <1>0, <1>2, HandleKept DEF WriteIntent
  <2>2. CallBecomes(p, call[p].op, 1, call[p].seen) /\ call[p].op = "create"
    BY <1>0, <1>2 DEF WriteIntent, CallsOK, CallRecords, CallBecomes
  <2>3. Stays(p)
    BY <1>2, <2>1, <2>2, StaysLasts DEF WriteIntent, Stays
  <2> QED BY <1>2, <2>3 DEF WriteIntent, Turn, Moves, Begins
<1>3. CASE SyncIntent(p)
  <2>1. ~HoldsToken(p)
    BY <1>3 DEF SyncIntent, JInv, SafetyInv, FileOK, LockOK
  <2> DEFINE h == [Opened EXCEPT !.receipt = TRUE]
  <2>2. h \in Handles /\ h.token = NoToken /\ h.proof = NoProof
    BY NoHandle DEF Opened, Closed, Handles
  <2>3. handle' = [handle EXCEPT ![p] = h]
    BY <1>3 DEF SyncIntent
  <2> HIDE DEF h
  <2>a. CallBecomes(p, "idle", 0, NoGeneration)
    BY <1>0, <1>3, CallReturns DEF SyncIntent
  <2>b. Opens(p)
    BY <1>3, <2>a DEF SyncIntent, Opens, CallBecomes, JInv, SafetyInv, FileOK
  <2>4. Lasts(p)
    BY <2>1, <2>2, <2>3, <2>b, ClosedLasts
  <2>5. Ends(p)
    BY <1>0, <1>3, <2>4, <2>a DEF SyncIntent, Ends
  <2> QED BY <1>3, <2>5 DEF SyncIntent, Turn, Moves, Same
<1>4. CASE Open(p) \/ Close(p)
  <2>1. ~HoldsToken(p) /\ call[p].op = "idle"
    BY <1>4, RunningIsIdle DEF Open, Close, Ready, JInv, SafetyInv, LockOK
  <2>2. Lasts(p)
    <3>1. CASE Open(p)
      BY <2>1, <3>1, NoHandle, ClosedLasts DEF Open, Opens
    <3>2. CASE Close(p)
      BY <2>1, <3>2, NoHandle, ClosedLasts DEF Close
    <3> QED BY <1>4, <3>1, <3>2
  <2>3. \E h \in Nat : CallBecomes(p, call[p].op, h, call[p].seen)
    BY <1>0, <1>4, CallKept DEF Open, Close, CallsOK, CallRecords
  <2>4. Stays(p)
    BY <1>4, <2>1, <2>2, <2>3 DEF Open, Close, Stays
  <2> QED BY <1>4, <2>4 DEF Open, Close, Turn, Moves, Same
<1>5. CASE Mkdir(p)
  <2>1. HandleStays(p) /\ CallBecomes(p, "mkdir", head, state) /\ proc[p] = "running"
    BY <1>0, <1>5, HandleKept, CallEnters, RunningIsIdle DEF Mkdir, Ready
  <2>2. Takes(p)
    BY <1>0, <1>5, <2>1 DEF Mkdir, Locks, LockFree, Takes
  <2> QED BY <1>5, <2>2 DEF Mkdir, Turn, Moves, Same
<1>6. CASE BindWorkdir(p)
  <2>1. HandleStays(p) /\ CallBecomes(p, "certify", head + 1, state)
    BY <1>0, <1>6, HandleKept, CallAppends DEF BindWorkdir
  <2>2. Keeps(p)
    BY <1>0, <1>6, <2>1 DEF BindWorkdir, Keeps, Locking
  <2>3. Moves(p)
    BY <1>6, NoteMoves DEF BindWorkdir, Record
  <2> QED BY <2>2, <2>3 DEF Turn
<1>7. CASE CertifyExact(p) \/ Fail(p)
  <2>1. HandleStays(p) /\ CallBecomes(p, "idle", 0, NoGeneration)
    BY <1>0, <1>7, HandleKept, CallReturns DEF CertifyExact, Fail
  <2>2. lock' = lock \/ (lock = p /\ lock' = None /\ ~HoldsToken(p))
    BY <1>7, LockingHasNoToken DEF CertifyExact, Fail, Unlocks, Locking
  <2>3. Ends(p)
    BY <2>1, <2>2, StaysLasts DEF Ends
  <2> QED BY <1>7, <2>3 DEF CertifyExact, Fail, Turn, Moves, Same
<1>8. ASSUME NEW x \in Executors, Prepare(p, x) PROVE Turn(p) /\ Moves(p)
  <2>1. HandleStays(p) /\ call[p].op = "idle"
    BY <1>0, <1>8, HandleKept, RunningIsIdle DEF Prepare, Ready
  <2>2. \E h \in Nat : CallBecomes(p, call[p].op, h, call[p].seen)
    BY <1>0, <1>8, CallKept DEF Prepare, CallsOK, CallRecords
  <2>3. Stays(p)
    BY <1>8, <2>1, <2>2, StaysLasts DEF Prepare, Stays
  <2> DEFINE r == [Record("PREPARED") EXCEPT !.gen = 1, !.actor = x]
  <2>4. r.kind = "PREPARED" /\ r.actor = x /\ r.gen = 1
    BY DEF Record
  <2>5. Append(p, r, "NORMAL") /\ state.kind = "NO_GENERATION"
    BY <1>8 DEF Prepare
  <2>6. state.gen = 0
    BY <2>5 DEF JInv, SafetyInv, Shape, ShapeOf
  <2> HIDE DEF r
  <2>7. Moves(p)
    BY <2>4, <2>5, <2>6, PrepareMoves
  <2> QED BY <2>3, <2>7 DEF Turn
<1> QED BY <1>1, <1>2, <1>3, <1>4, <1>5, <1>6, <1>7, <1>8 DEF Create

LEMMA ExecuteTurns ==
  ASSUME JInv, NEW p \in Executors, Execute(p)
  PROVE  Turn(p) /\ Moves(p)
<1> USE DEF chain, world
<1>0. CallsOK /\ Typed /\ head \in Nat /\ p \in Procs /\ handle[p].token \in Tokens
      /\ state \in LooseStates /\ handle \in [Procs -> Handles]
  BY StateFields, HandleFields DEF JInv, SafetyInv, ReserveInv, Procs, Typed
<1> DEFINE old == handle[p].token
<1>i. 0 \in Nat /\ NoGeneration \in LooseStates
  BY IdleType DEF Idle, CallRecords
<1>1. CASE BeginStep(p)
  <2>a. Running(p) /\ HoldsToken(p) /\ Same /\ lock' = lock
    BY <1>1 DEF BeginStep, Ready, Same
  <2>0. HoldsToken(p) /\ Same /\ lock' = lock /\ call[p].op = "idle" /\ proc[p] = "running"
    BY <1>0, <2>a, RunningIsIdle
  <2>1. old.pending = 0
    BY <1>0, <1>1 DEF BeginStep, JInv, SafetyInv, LockOK
  <2>2. CASE old.done = state.upto
    <3> DEFINE t == [old EXCEPT !.executed = TRUE]
    <3>1. /\ t \in Tokens /\ t.batch = old.batch /\ t.done = old.done /\ t.pending = old.pending
          /\ t.executed
      BY <1>0 DEF Tokens
    <3>2. handle' = [handle EXCEPT ![p].token = t] /\ UNCHANGED call
      BY <1>0, <1>1, <2>2 DEF BeginStep
    <3>3. CallBecomes(p, "idle", call[p].head, call[p].seen) /\ call[p].head \in Nat
          /\ call[p].seen \in LooseStates
      BY <1>0, <2>0, <3>2, CallKept DEF CallsOK, CallRecords
    <3> HIDE DEF t
    <3>4. HandleBecomes(p, handle[p].open, t, handle[p].proof)
      BY <1>0, <3>1, <3>2, TokenSet
    <3>5. t # NoToken
      BY <3>1 DEF NoToken
    <3>6. Works(p)
      BY <2>0, <2>1, <3>1, <3>3, <3>4, <3>5 DEF Works
    <3> QED BY <2>0, <3>6 DEF Turn, Moves, Same
  <2>3. CASE old.done # state.upto
    <3>1. HandleStays(p) /\ CallBecomes(p, "effect", head, state)
      BY <1>0, <1>1, <2>3, HandleKept, CallEnters DEF BeginStep
    <3>2. Works(p)
      BY <1>0, <2>0, <2>1, <2>3, <3>1 DEF Works, HandleStays, HoldsToken
    <3> QED BY <2>0, <3>2 DEF Turn, Moves, Same
  <2> QED BY <2>2, <2>3
<1>2. ASSUME call[p].op = "effect"
      PROVE  HoldsToken(p) /\ old.pending = 0 /\ proc[p] = "running"
  BY <1>0, <1>2 DEF JInv, SafetyInv, LockOK
<1>3. ASSUME NEW started \in BOOLEAN, StepDone(p, started), call[p].op = "effect",
             Same, lock' = lock,
             NextStep(p) = 2 => target'[p] = "reaped", NextStep(p) >= 3 => workdir' = "absent"
      PROVE  Turn(p) /\ Moves(p)
  <2>a. old.done + 1 \in Nat /\ (old.started \/ started) \in BOOLEAN
    BY <1>0 DEF Tokens
  <2>b. PICK begun \in BOOLEAN : begun = (old.started \/ started)
    BY <2>a
  <2> DEFINE t == [old EXCEPT !.done = old.done + 1, !.started = begun]
  <2>1. /\ t \in Tokens /\ t.batch = old.batch /\ t.done = old.done + 1
        /\ t.pending = old.pending
    BY <1>0, <2>a DEF Tokens
  <2>2. handle' = [handle EXCEPT ![p].token = t] /\ Returns(p)
    BY ZenonT(60), <1>0, <1>3, <2>b DEF StepDone, NextStep, Handles, Tokens
  <2>3. CallBecomes(p, "idle", 0, NoGeneration)
    BY <1>0, <2>2, CallReturns
  <2> HIDE DEF t
  <2>4. HandleBecomes(p, handle[p].open, t, handle[p].proof)
    BY <1>0, <2>1, <2>2, TokenSet
  <2>5. t # NoToken
    BY <1>0, <2>1 DEF NoToken, Tokens
  <2>6. Works(p)
    BY <1>2, <1>3, <1>i, <2>1, <2>3, <2>4, <2>5 DEF Works, NextStep
  <2> QED BY <1>3, <2>6 DEF Turn, Moves, Same
<1>4. ASSUME StepFails(p), call[p].op = "effect", Same, lock' = lock
      PROVE  Turn(p) /\ Moves(p)
  <2> DEFINE t == [old EXCEPT !.started = TRUE]
  <2>1. /\ t \in Tokens /\ t.batch = old.batch /\ t.done = old.done /\ t.pending = old.pending
        /\ t.started
    BY <1>0 DEF Tokens
  <2>2. handle' = [handle EXCEPT ![p].token = t] /\ Returns(p)
    BY <1>0, <1>4 DEF StepFails
  <2>3. CallBecomes(p, "idle", 0, NoGeneration)
    BY <1>0, <2>2, CallReturns
  <2> HIDE DEF t
  <2>4. HandleBecomes(p, handle[p].open, t, handle[p].proof)
    BY <1>0, <2>1, <2>2, TokenSet
  <2>5. t # NoToken
    BY <2>1 DEF NoToken
  <2>6. Works(p)
    BY <1>2, <1>4, <1>i, <2>1, <2>3, <2>4, <2>5 DEF Works
  <2> QED BY <1>4, <2>6 DEF Turn, Moves, Same
<1>5. CASE ProcessAbsent(p)
  <2>1. Same /\ lock' = lock /\ call[p].op = "effect" /\ NextStep(p) = 1
    BY <1>5 DEF ProcessAbsent, Same
  <2>2. StepDone(p, FALSE)
    BY <1>5 DEF ProcessAbsent
  <2>3. /\ NextStep(p) = 2 => target'[p] = "reaped"
        /\ NextStep(p) >= 3 => workdir' = "absent"
    BY <2>1
  <2> QED BY <1>3, <2>1, <2>2, <2>3
<1>6. CASE ReapTarget(p)
  <2>1. Same /\ lock' = lock /\ call[p].op = "effect" /\ NextStep(p) = 2
    BY <1>6 DEF ReapTarget, Same
  <2>2. CASE target[p] = "zombie"
    <3>1. target'[p] = "reaped" /\ StepDone(p, TRUE)
      BY <1>0, <1>6, <2>2 DEF ReapTarget, Typed
    <3>2. /\ NextStep(p) = 2 => target'[p] = "reaped"
          /\ NextStep(p) >= 3 => workdir' = "absent"
      BY <2>1, <3>1
    <3> QED BY <1>3, <2>1, <3>1, <3>2
  <2>3. CASE target[p] # "zombie"
    <3>1. StepFails(p)
      BY <1>6, <2>3 DEF ReapTarget
    <3> QED BY <1>4, <2>1, <3>1
  <2> QED BY <2>2, <2>3
<1>7. CASE RemoveWorkdir(p)
  <2>1. Same /\ lock' = lock /\ call[p].op = "effect" /\ NextStep(p) = 3
    BY <1>7 DEF RemoveWorkdir, Same
  <2>2. (workdir' = "absent" /\ StepDone(p, TRUE)) \/ StepFails(p)
    BY <1>7 DEF RemoveWorkdir
  <2>3. CASE workdir' = "absent" /\ StepDone(p, TRUE)
    <3>1. /\ NextStep(p) = 2 => target'[p] = "reaped"
          /\ NextStep(p) >= 3 => workdir' = "absent"
      BY <2>1, <2>3
    <3> QED BY <1>3, <2>1, <2>3, <3>1
  <2>4. CASE StepFails(p)
    BY <1>4, <2>1, <2>4
  <2> QED BY <2>2, <2>3, <2>4
<1>8. CASE TerminalChecks(p)
  <2>1. /\ Same /\ lock' = lock /\ call[p].op = "effect" /\ NextStep(p) = 4
        /\ workdir' = "absent"
    BY <1>8 DEF TerminalChecks, WorkdirAbsent, Same
  <2>2. StepDone(p, FALSE)
    BY <1>8 DEF TerminalChecks
  <2>3. /\ NextStep(p) = 2 => target'[p] = "reaped"
        /\ NextStep(p) >= 3 => workdir' = "absent"
    BY <2>1
  <2> QED BY <1>3, <2>1, <2>2, <2>3
<1> QED BY <1>1, <1>5, <1>6, <1>7, <1>8 DEF Execute

LEMMA BatchTurns ==
  ASSUME JInv, NEW p \in Executors, Batch(p)
  PROVE  Turn(p) /\ Moves(p)
<1> USE DEF chain, world
<1>0. CallsOK /\ Typed /\ head \in Nat /\ p \in Procs /\ handle[p].token \in Tokens
      /\ state \in LooseStates
  BY StateFields, HandleFields DEF JInv, SafetyInv, ReserveInv, Procs
<1> DEFINE old == handle[p].token
<1>1. ASSUME NEW upto \in 1..AllSteps, AdmitBatch(p, upto) PROVE Turn(p) /\ Moves(p)
  <2> DEFINE r == [Record("BATCH_ACTIVE") EXCEPT !.upto = upto, !.batch = head + 1]
  <2>1. r.kind = "BATCH_ACTIVE"
    BY DEF Record
  <2>2. Append(p, r, ClassOf(state.epoch))
    BY <1>1 DEF AdmitBatch
  <2> HIDE DEF r
  <2>a. /\ lock = None /\ lock' = p /\ state.ident = p /\ Running(p)
        /\ UNCHANGED handle /\ Appends(p, "admit")
    BY <1>1 DEF AdmitBatch, Locks, LockFree, Ready
  <2>b. proc[p] = "running"
    BY <1>0, <2>a, RunningIsIdle
  <2>3. Moves(p) /\ state'.ident = p
    BY <1>0, <2>1, <2>2, <2>a, AdmitMoves
  <2>4. HandleStays(p) /\ CallBecomes(p, "admit", head + 1, state) /\ head + 1 \in Nat
    BY <1>0, <2>a, HandleKept, CallAppends
  <2>c. head' = head + 1
    BY <2>2, AppendIs
  <2>5. Takes(p)
    BY <1>0, <2>a, <2>b, <2>c, <2>3, <2>4 DEF Takes
  <2> QED BY <2>3, <2>5 DEF Turn
<1>2. CASE GrantToken(p)
  <2> DEFINE t == [NoToken EXCEPT !.batch = state.batch, !.first = state.steps,
                                  !.done = state.steps]
  <2>a. state.batch \in Nat /\ state.steps \in Nat
    BY <1>0 DEF LooseStates, AllSteps
  <2>1. t \in Tokens /\ t.batch = state.batch /\ t.done = state.steps /\ t.pending = 0
    BY <2>a DEF NoToken, Tokens
  <2>2. handle' = [handle EXCEPT ![p].token = t]
    BY <1>2 DEF GrantToken
  <2> HIDE DEF t
  <2>3. HandleBecomes(p, handle[p].open, t, handle[p].proof)
    BY <1>0, <2>1, <2>2, TokenSet
  <2>4. CallBecomes(p, "idle", 0, NoGeneration)
    BY <1>0, <1>2, CallReturns DEF GrantToken
  <2>5. Grants(p)
    BY <1>2, <2>1, <2>3, <2>4 DEF GrantToken, Grants, Certify, Healthy, Same
  <2> QED BY <1>2, <2>5 DEF GrantToken, Turn, Moves, Same
<1>3. CASE BeginCompletion(p)
  <2>1. HandleStays(p) /\ CallBecomes(p, "complete", head, state) /\ proc[p] = "running"
    BY <1>0, <1>3, HandleKept, CallEnters, RunningIsIdle DEF BeginCompletion, Ready
  <2>2. HoldsToken(p) /\ old.pending = 0
    BY <1>3 DEF BeginCompletion, HoldsToken, NoToken
  <2>a. old.executed /\ old # NoToken
    BY <1>3, <2>2 DEF BeginCompletion, HoldsToken
  <2>b. Same /\ lock' = lock
    BY <1>3 DEF BeginCompletion, Same
  <2>3. Works(p)
    BY <1>0, <2>a, <2>b, <2>1, <2>2 DEF Works, HandleStays
  <2> QED BY <1>3, <2>3 DEF BeginCompletion, Turn, Moves, Same
<1>4. CASE AppendCompletion(p)
  <2> DEFINE seen == call[p].seen
             retired == seen.kind = "RETIRING_BATCH"
             r == [Record("BATCH_DONE") EXCEPT
                     !.gen = seen.gen, !.epoch = seen.epoch, !.actor = seen.actor,
                     !.batch = handle[p].token.batch, !.steps = handle[p].token.done,
                     !.outcome = IF retired THEN "COMPLETED" ELSE "NONE"]
             class == IF retired THEN "RECOVERY" ELSE ClassOf(seen.epoch)
             t == [old EXCEPT !.pending = head + 1]
  <2>1. r.kind = "BATCH_DONE" /\ r.steps = old.done
    BY DEF Record
  <2>2. /\ Append(p, r, class) /\ call[p].op = "complete" /\ Appends(p, "completed")
        /\ handle' = [handle EXCEPT ![p].token = t] /\ lock' = lock
    BY <1>0, <1>4 DEF AppendCompletion, Typed
  <2>3. t \in Tokens /\ t.pending = head + 1 /\ t.executed = old.executed
    BY <1>0 DEF Tokens
  <2> HIDE DEF r, class, t
  <2>4. HandleBecomes(p, handle[p].open, t, handle[p].proof)
    BY <1>0, <2>2, <2>3, TokenSet
  <2>5. CallBecomes(p, "completed", head + 1, state)
    BY <1>0, <2>2, CallAppends
  <2>6. Moves(p) /\ state'.kind \in {"ACTIVE_READY", "RETIRING_IDLE"}
    BY <1>0, <2>1, <2>2, <2>5, CompletionMoves DEF CallBecomes
  <2>7. HoldsToken(p) /\ old.pending = 0 /\ proc[p] = "running" /\ old.executed
    BY <1>0, <2>2 DEF JInv, SafetyInv, LockOK
  <2>8. head' = head + 1
    BY <2>2, AppendIs
  <2>9. Records(p)
    BY <2>2, <2>3, <2>4, <2>5, <2>6, <2>7, <2>8 DEF Records
  <2> QED BY <2>6, <2>9 DEF Turn
<1>5. CASE FinishCompletion(p) \/ AbandonBatch(p)
  <2>1. handle' = [handle EXCEPT ![p].token = NoToken]
    BY <1>5 DEF FinishCompletion, AbandonBatch
  <2>2. HandleBecomes(p, handle[p].open, NoToken, handle[p].proof)
    BY <1>0, <2>1, NoHandle, TokenSet
  <2>3. lock' = lock \/ (lock = p /\ lock' = None)
    BY <1>5 DEF FinishCompletion, AbandonBatch, Unlocks
  <2>4. handle[p].open \in BOOLEAN
    BY <1>0, HandleFields
  <2>5. CASE FinishCompletion(p)
    <3>1. CallBecomes(p, "idle", 0, NoGeneration)
      BY <1>0, <2>5, CallReturns DEF FinishCompletion
    <3>2. Drops(p)
      BY <2>2, <2>3, <2>4, <3>1 DEF Drops
    <3> QED BY <2>5, <3>2 DEF FinishCompletion, Turn, Moves, Same
  <2>6. CASE AbandonBatch(p)
    <3>1. CallBecomes(p, "idle", 0, NoGeneration)
      BY <1>0, <2>6, CallKept DEF AbandonBatch, Ready, Running, Idle
    <3>2. Drops(p)
      BY <2>2, <2>3, <2>4, <3>1 DEF Drops
    <3> QED BY <2>6, <3>2 DEF AbandonBatch, Turn, Moves, Same
  <2> QED BY <1>5, <2>5, <2>6
<1>6. CASE FinishDone(p)
  <2> DEFINE r == Record("DONE")
  <2>1. r.kind = "DONE"
    BY DEF Record
  <2>2. Append(p, r, ClassOf(state.epoch))
    BY <1>6 DEF FinishDone
  <2> HIDE DEF r
  <2>a. lock = None /\ lock' = p /\ Running(p) /\ UNCHANGED handle /\ Appends(p, "certify")
    BY <1>6 DEF FinishDone, Locks, LockFree, Ready
  <2>b. proc[p] = "running"
    BY <1>0, <2>a, RunningIsIdle
  <2>3. Moves(p)
    BY <1>0, <2>1, <2>2, <2>a, DoneMoves
  <2>4. HandleStays(p) /\ CallBecomes(p, "certify", head + 1, state) /\ head + 1 \in Nat
    BY <1>0, <2>a, HandleKept, CallAppends
  <2>5. Takes(p)
    BY <2>a, <2>b, <2>4 DEF Takes
  <2> QED BY <2>3, <2>5 DEF Turn
<1> QED BY <1>1, <1>2, <1>3, <1>4, <1>5, <1>6 DEF Batch

LEMMA RetireTurns ==
  ASSUME JInv, NEW p \in Procs, Retire(p)
  PROVE  Turn(p) /\ Moves(p)
<1> USE DEF chain, world
<1>0. CallsOK /\ Typed /\ head \in Nat /\ state \in LooseStates
  BY StateFields DEF JInv, SafetyInv, ReserveInv
<1>1. CASE BeginRetirement(p)
  <2>1. /\ HandleStays(p) /\ CallBecomes(p, "retire", head, state) /\ proc[p] = "running"
        /\ Same /\ lock' = lock
    BY <1>0, <1>1, HandleKept, CallEnters, RunningIsIdle DEF BeginRetirement, Ready, Same
  <2>2. Watches(p)
    BY <2>1 DEF Watches
  <2> QED BY <2>1, <2>2 DEF Turn, Moves
<1>2. CASE RecheckRetirement(p)
  <2>1. call[p].seen = state /\ proc[p] = "running"
    BY <1>2 DEF RecheckRetirement, JInv, SafetyInv, SeenOK, LockOK
  <2>2. HandleStays(p) /\ CallBecomes(p, "retiring", head, state) /\ Same
    BY <1>0, <1>2, HandleKept, CallEnters DEF RecheckRetirement, Same
  <2>3. CASE state.kind = "BATCH_ACTIVE"
    <3>1. lock' = lock
      BY <1>2, <2>1, <2>3 DEF RecheckRetirement, RetiresUnlocked
    <3>2. Watches(p)
      BY <2>1, <2>2, <2>3, <3>1 DEF Watches
    <3> QED BY <2>2, <3>2 DEF Turn, Moves
  <2>4. CASE state.kind # "BATCH_ACTIVE"
    <3>1. lock = None /\ lock' = p
      BY <1>2, <2>1, <2>4 DEF RecheckRetirement, RetiresUnlocked, Locks, LockFree
    <3>2. Takes(p)
      BY <1>0, <2>1, <2>2, <2>4, <3>1 DEF Takes
    <3> QED BY <2>2, <3>2 DEF Turn, Moves
  <2> QED BY <2>3, <2>4
<1>3. CASE AppendRetirement(p)
  <2> DEFINE seen == call[p].seen
             kind == IF seen.kind = "BATCH_ACTIVE" THEN "RETIRING_BATCH" ELSE "RETIRING_IDLE"
             r == [Record(kind) EXCEPT !.gen = seen.gen, !.epoch = 1,
                                       !.actor = seen.actor, !.batch = seen.batch]
  <2>1. r.kind = kind
    BY DEF Record
  <2>2. Append(p, r, "RECOVERY")
    BY <1>3 DEF AppendRetirement
  <2> HIDE DEF r
  <2>3. HandleStays(p) /\ CallBecomes(p, "idle", 0, NoGeneration) /\ call[p].op = "retiring"
    BY <1>0, <1>3, HandleKept, CallReturns DEF AppendRetirement
  <2>4. Lasts(p)
    BY <2>3, StaysLasts
  <2>5. CASE seen.kind = "BATCH_ACTIVE"
    <3>1. lock' = lock
      BY <1>3, <2>5 DEF AppendRetirement, RetiresUnlocked
    <3>2. Moves(p)
      BY <2>1, <2>2, <2>5, RetirementMoves
    <3>3. Ends(p)
      BY <2>3, <2>4, <3>1 DEF Ends
    <3> QED BY <3>2, <3>3 DEF Turn
  <2>6. CASE seen.kind # "BATCH_ACTIVE"
    <3>1. lock = p /\ ~HoldsToken(p)
      BY <2>3, <2>6, LockingHasNoToken DEF Locking
    <3>2. lock' = None
      BY <1>3, <2>6, <3>1 DEF AppendRetirement, RetiresUnlocked, Unlocks
    <3>3. NobodyHolds
      BY <3>1 DEF NobodyHolds, JInv, SafetyInv, LockOK
    <3>4. Moves(p)
      BY <2>1, <2>2, <2>6, <3>3, RetirementMoves
    <3>5. Ends(p)
      BY <2>3, <2>4, <3>1, <3>2 DEF Ends
    <3> QED BY <3>4, <3>5 DEF Turn
  <2> QED BY <2>5, <2>6
<1>4. CASE ReplaceAuthority(p)
  <2> DEFINE r == [Record("REPLACE_AUTHORITY") EXCEPT !.epoch = 2]
  <2>1. r.kind = "REPLACE_AUTHORITY"
    BY DEF Record
  <2>2. Append(p, r, "RECOVERY")
    BY <1>4 DEF ReplaceAuthority
  <2> HIDE DEF r
  <2>3. lock = None /\ lock' = lock /\ Running(p) /\ HandleStays(p)
    BY <1>0, <1>4, HandleKept DEF ReplaceAuthority, LockFree, Ready
  <2>4. CallBecomes(p, call[p].op, call[p].head, call[p].seen) /\ call[p].head \in Nat
    BY <1>0, <1>4, CallKept DEF ReplaceAuthority, CallsOK, CallRecords
  <2>5. Stays(p)
    BY <2>3, <2>4, RunningIsIdle, StaysLasts DEF Stays
  <2>6. Moves(p)
    BY <2>1, <2>2, <2>3, ReplacementMoves
  <2> QED BY <2>5, <2>6 DEF Turn
<1>5. CASE ConfirmReaped(p)
  <2> DEFINE f == [gen |-> state.gen, epoch |-> state.epoch, ident |-> state.ident,
                   head |-> head]
  <2>1. /\ Running(p) /\ handle[p].open /\ lock' = lock /\ Same /\ UNCHANGED call
        /\ state.ident # None
    BY <1>5 DEF ConfirmReaped, Ready, Same
  <2>2. state.ident \in Executors /\ state.gen \in Nat /\ state.epoch \in 0..2
        /\ state.ident \in Actors
    BY <1>0, <2>1 DEF LooseStates, Actors
  <2>3. f \in Proofs
    BY <1>0, <2>2 DEF Proofs
  <2>4. handle' = [handle EXCEPT ![p].proof = f]
        /\ proc' = [proc EXCEPT ![state.ident] = "reaped"]
    BY <1>5 DEF ConfirmReaped
  <2>5. HandleBecomes(p, handle[p].open, handle[p].token, f)
    BY <1>0, <2>3, <2>4, ProofSet
  <2>6. proc'[state.ident] = "reaped"
    BY <1>0, <2>2, <2>4 DEF Typed, Procs
  <2>7. Proves(p)
    BY <2>1, <2>2, <2>5, <2>6 DEF Proves
  <2>8. CallBecomes(p, call[p].op, call[p].head, call[p].seen) /\ call[p].head \in Nat
    BY <1>0, <2>1, CallKept DEF CallsOK, CallRecords
  <2>9. Stays(p)
    BY <2>1, <2>7, <2>8, RunningIsIdle DEF Stays
  <2> QED BY <2>1, <2>9 DEF Turn, Moves
<1>6. CASE MarkUnconfirmed(p)
  <2> DEFINE r == Record("UNCONFIRMED")
  <2>1. r.kind = "UNCONFIRMED"
    BY DEF Record
  <2>2. Append(p, r, "RECOVERY")
    BY <1>6 DEF MarkUnconfirmed
  <2> HIDE DEF r
  <2>3. lock = None /\ lock' = lock /\ Running(p) /\ HandleStays(p)
    BY <1>0, <1>6, HandleKept DEF MarkUnconfirmed, LockFree, Ready
  <2>4. CallBecomes(p, call[p].op, call[p].head, call[p].seen) /\ call[p].head \in Nat
    BY <1>0, <1>6, CallKept DEF MarkUnconfirmed, CallsOK, CallRecords
  <2>5. Stays(p)
    BY <2>3, <2>4, RunningIsIdle, StaysLasts DEF Stays
  <2>6. Moves(p)
    BY <2>1, <2>2, <2>3, UnconfirmedMoves
  <2> QED BY <2>5, <2>6 DEF Turn
<1> QED BY <1>1, <1>2, <1>3, <1>4, <1>5, <1>6 DEF Retire

LEMMA HandOverTurns ==
  ASSUME JInv, NEW p \in Procs, HandOver(p)
  PROVE  Turn(p) /\ Moves(p)
<1> USE DEF chain, world
<1>0. CallsOK /\ Typed /\ head \in Nat /\ state \in LooseStates /\ state.gen \in Nat
  BY StateFields DEF JInv, SafetyInv, ReserveInv, LooseStates
<1>1. CASE BeginReconcile(p)
  <2>1. /\ HandleStays(p) /\ CallBecomes(p, "reconcile", head, state) /\ proc[p] = "running"
        /\ Same /\ lock' = lock
    BY <1>0, <1>1, HandleKept, CallEnters, RunningIsIdle DEF BeginReconcile, Ready, Same
  <2>2. Watches(p)
    BY <2>1 DEF Watches
  <2> QED BY <2>1, <2>2 DEF Turn, Moves
<1>2. CASE BeginSuccession(p)
  <2>1. /\ HandleStays(p) /\ CallBecomes(p, "succeed", head, state) /\ proc[p] = "running"
        /\ Same /\ lock' = lock
    BY <1>0, <1>2, HandleKept, CallEnters, RunningIsIdle DEF BeginSuccession, Ready, Same
  <2>2. ValidReapProof(handle[p].proof, state)
    BY <1>2 DEF BeginSuccession
  <2>3. Watches(p)
    BY <2>1, <2>2 DEF Watches
  <2> QED BY <2>1, <2>3 DEF Turn, Moves
<1>3. CASE ReconcileInterrupted(p)
  <2> DEFINE seen == call[p].seen
             r == [Record("BATCH_DONE") EXCEPT
                     !.gen = seen.gen, !.epoch = seen.epoch, !.actor = seen.actor,
                     !.batch = seen.batch, !.steps = seen.steps,
                     !.outcome = "INTERRUPTED"]
  <2>1. r.kind = "BATCH_DONE" /\ r.outcome = "INTERRUPTED"
    BY DEF Record
  <2>2. Append(p, r, "RECOVERY")
    BY <1>3 DEF ReconcileInterrupted
  <2> HIDE DEF r
  <2>3. lock = None /\ lock' = lock /\ HandleStays(p)
        /\ CallBecomes(p, "idle", 0, NoGeneration)
    BY <1>0, <1>3, HandleKept, CallReturns DEF ReconcileInterrupted, LockFree
  <2>4. Ends(p)
    BY <2>3, StaysLasts DEF Ends
  <2>5. Moves(p)
    BY <2>1, <2>2, <2>3, InterruptionMoves
  <2> QED BY <2>4, <2>5 DEF Turn
<1>4. ASSUME NEW x \in Executors, PrepareSuccessor(p, x) PROVE Turn(p) /\ Moves(p)
  <2> DEFINE seen == call[p].seen
             r == [Record("PREPARED") EXCEPT !.gen = seen.gen + 1, !.epoch = seen.epoch,
                                             !.actor = x]
  <2>1. r.kind = "PREPARED" /\ r.gen = seen.gen + 1 /\ r.actor = x
    BY DEF Record
  <2>2. Append(p, r, "RECOVERY")
    BY <1>4 DEF PrepareSuccessor
  <2> HIDE DEF r
  <2>3. lock = None /\ lock' = lock /\ HandleStays(p) /\ call[p].op = "succeed"
        /\ CallBecomes(p, "idle", 0, NoGeneration)
    BY <1>0, <1>4, HandleKept, CallReturns DEF PrepareSuccessor, LockFree
  <2>4. /\ seen.ident \in Executors /\ proc[seen.ident] = "reaped" /\ seen.gen <= state.gen
        /\ seen.gen = state.gen => seen.ident = state.ident
    BY <2>3 DEF JInv, SafetyInv, SuccessionOK
  <2>5. seen.gen \in Nat
    BY SeenFields DEF JInv
  <2>6. \/ state.kind = "NO_GENERATION"
        \/ state.kind = "RETIRING_IDLE" /\ seen.gen + 1 = state.gen + 1
    BY <2>1, <2>2, AppendIs DEF Legal
  <2>7. state.kind = "NO_GENERATION" => state.gen = 0 /\ state.ident = None
    BY DEF JInv, SafetyInv, Shape, ShapeOf
  <2>8. None \notin Executors
    BY ProcsAssumption DEF Procs
  <2>9. /\ state.kind = "RETIRING_IDLE" /\ seen.gen = state.gen
        /\ state.ident \in Executors /\ proc[state.ident] = "reaped"
    BY <1>0, <2>4, <2>5, <2>6, <2>7, <2>8
  <2>10. NobodyHolds
    BY <2>3, NobodyHasLock DEF JInv, NobodyHolds
  <2>11. Moves(p)
    BY <2>1, <2>2, <2>9, <2>10, PrepareMoves
  <2>12. Ends(p)
    BY <2>3, StaysLasts DEF Ends
  <2> QED BY <2>11, <2>12 DEF Turn
<1> QED BY <1>1, <1>2, <1>3, <1>4 DEF HandOver

LEMMA DeleteTurns ==
  ASSUME JInv, NEW p \in Procs, Delete(p)
  PROVE  Turn(p) /\ Moves(p)
<1> USE DEF chain, world
<1>0. CallsOK /\ Typed /\ head \in Nat /\ head + 1 \in Nat /\ state \in LooseStates
  BY StateFields DEF JInv, SafetyInv, ReserveInv
<1>a. ASSUME NEW kind \in {"PARTIAL", "DONE"}, GrantsAuthority(p, kind)
      PROVE  HandleStays(p)
  <2> DEFINE a == [kind |-> kind, head |-> head]
  <2>1. a \in Auths
    BY <1>0 DEF Auths
  <2>2. handle' = [handle EXCEPT ![p].auth = a]
    BY <1>a DEF GrantsAuthority
  <2> HIDE DEF a
  <2> QED BY <1>0, <2>1, <2>2, AuthSet
<1>1. CASE NoIntent(p) \/ MakeDeleteAuthority(p)
  <2>1. HandleStays(p)
    BY <1>a, <1>1 DEF NoIntent, MakeDeleteAuthority
  <2>2. Running(p) /\ lock' = lock /\ UNCHANGED call /\ Same
    BY <1>1 DEF NoIntent, MakeDeleteAuthority, Ready, Same
  <2>3. CallBecomes(p, call[p].op, call[p].head, call[p].seen) /\ call[p].head \in Nat
    BY <1>0, <2>2, CallKept DEF CallsOK, CallRecords
  <2>4. Stays(p)
    BY <2>1, <2>2, <2>3, RunningIsIdle, StaysLasts DEF Stays
  <2> QED BY <2>2, <2>4 DEF Turn, Moves
<1>2. CASE NoDependentArtifact(p)
  <2> DEFINE r == Record("NO_DEPENDENT_ARTIFACT")
  <2>1. r.kind = "NO_DEPENDENT_ARTIFACT"
    BY DEF Record
  <2>2. Append(p, r, "RECOVERY")
    BY <1>2 DEF NoDependentArtifact
  <2> HIDE DEF r
  <2>3. /\ lock = None /\ lock' = p /\ Running(p) /\ HandleStays(p)
        /\ CallBecomes(p, "nodep", head + 1, state)
    BY <1>0, <1>2, HandleKept, CallAppends DEF NoDependentArtifact, Locks, LockFree, Ready
  <2>4. Takes(p)
    BY <1>0, <2>3, RunningIsIdle DEF Takes
  <2>5. Moves(p)
    BY <2>1, <2>2, NoteMoves
  <2> QED BY <2>4, <2>5 DEF Turn
<1>3. CASE CertifyNoDependent(p)
  <2>1. HandleStays(p)
    BY <1>a, <1>3 DEF CertifyNoDependent
  <2>2. CallBecomes(p, "idle", 0, NoGeneration) /\ Same /\ call[p].op = "nodep"
    BY <1>0, <1>3, CallReturns DEF CertifyNoDependent, Same
  <2>3. lock = p /\ ~HoldsToken(p)
    BY <2>2, LockingHasNoToken DEF Locking
  <2>4. lock' = None
    BY <1>3, <2>3 DEF CertifyNoDependent, Unlocks
  <2>5. Ends(p)
    BY <2>1, <2>2, <2>3, <2>4, StaysLasts DEF Ends
  <2> QED BY <2>2, <2>5 DEF Turn, Moves
<1>4. CASE Unlink(p)
  <2>1. /\ lock = None /\ lock' = p /\ Running(p) /\ HandleStays(p) /\ Same
        /\ CallBecomes(p, "delete", head, state)
    BY <1>0, <1>4, HandleKept, CallEnters DEF Unlink, Locks, LockFree, Ready, Same
  <2>2. Takes(p)
    BY <1>0, <2>1, RunningIsIdle DEF Takes
  <2> QED BY <2>1, <2>2 DEF Turn, Moves
<1>5. CASE FinishDelete(p)
  <2>1. CallBecomes(p, "idle", 0, NoGeneration) /\ Same /\ call[p].op = "delete"
    BY <1>0, <1>5, CallReturns DEF FinishDelete, Same
  <2>2. lock = p /\ ~HoldsToken(p)
    BY <2>1, LockingHasNoToken DEF Locking
  <2>3. lock' = None /\ handle' = [handle EXCEPT ![p] = Closed]
    BY <1>5, <2>2 DEF FinishDelete, Unlocks
  <2>4. Lasts(p)
    BY <2>2, <2>3, NoHandle, ClosedLasts
  <2>5. Ends(p)
    BY <2>1, <2>2, <2>3, <2>4 DEF Ends
  <2> QED BY <2>1, <2>5 DEF Turn, Moves
<1>6. CASE ReconcileAbsent(p)
  <2>1. /\ lock = None /\ lock' = lock /\ Running(p) /\ Same /\ UNCHANGED call
        /\ handle' = [handle EXCEPT ![p] = Closed]
    BY <1>6 DEF ReconcileAbsent, LockFree, Ready, Same
  <2>2. ~HoldsToken(p)
    BY <2>1, NobodyHasLock DEF JInv
  <2>3. Lasts(p)
    BY <2>1, <2>2, NoHandle, ClosedLasts
  <2>4. CallBecomes(p, call[p].op, call[p].head, call[p].seen) /\ call[p].head \in Nat
    BY <1>0, <2>1, CallKept DEF CallsOK, CallRecords
  <2>5. Stays(p)
    BY <2>1, <2>3, <2>4, RunningIsIdle DEF Stays
  <2> QED BY <2>1, <2>5 DEF Turn, Moves
<1> QED BY <1>1, <1>2, <1>3, <1>4, <1>5, <1>6 DEF Delete

LEMMA OtherTurns ==
  ASSUME JInv, NEW p \in Procs,
         ShortWrite(p) \/ Exit(p) \/ ObserveExecutor(p) \/ Activate(p)
  PROVE  Turn(p) /\ Moves(p)
<1> USE DEF chain, world
<1>0. CallsOK /\ Typed /\ head \in Nat /\ head + 1 \in Nat /\ state \in LooseStates
  BY StateFields DEF JInv, SafetyInv, ReserveInv
<1>1. CASE ShortWrite(p)
  <2>1. PICK b \in BOOLEAN : b = (call[p].op = "create")
    OBVIOUS
  <2>2. handle' = [handle EXCEPT ![p].healthy = b]
    BY <1>1, <2>1 DEF ShortWrite
  <2>3. HandleStays(p)
    BY <1>0, <2>2, HealthSet
  <2>4. CallBecomes(p, "idle", 0, NoGeneration) /\ Same
    BY <1>0, <1>1, CallReturns DEF ShortWrite, Same
  <2>5. lock' = lock \/ (lock = p /\ lock' = None /\ ~HoldsToken(p))
    BY <1>1 DEF ShortWrite, Unlocks
  <2>6. Ends(p)
    BY <2>3, <2>4, <2>5, StaysLasts DEF Ends
  <2> QED BY <2>4, <2>6 DEF Turn, Moves
<1>2. CASE Exit(p)
  <2>1. CallBecomes(p, "idle", 0, NoGeneration) /\ Same
    BY <1>0, <1>2, CallReturns DEF Exit, Same
  <2>2. handle' = [handle EXCEPT ![p] = Closed]
    BY <1>2 DEF Exit
  <2>3. HandleBecomes(p, Closed.open, Closed.token, Closed.proof)
    BY <1>0, <2>2, NoHandle, HandleSet
  <2>4. HandleBecomes(p, FALSE, NoToken, NoProof)
    BY <2>3, NoHandle
  <2>5. lock' = lock \/ (lock = p /\ lock' = None)
    BY <1>2 DEF Exit, Unlocks
  <2>6. Drops(p)
    BY <2>1, <2>4, <2>5 DEF Drops
  <2> QED BY <2>1, <2>6 DEF Turn, Moves
<1>3. CASE ObserveExecutor(p)
  <2>1. /\ HandleStays(p) /\ CallBecomes(p, "activate", head, state) /\ proc[p] = "running"
        /\ Same /\ lock' = lock
    BY <1>0, <1>3, HandleKept, CallEnters, RunningIsIdle DEF ObserveExecutor, Ready, Same
  <2>2. Watches(p)
    BY <2>1 DEF Watches
  <2> QED BY <2>1, <2>2 DEF Turn, Moves
<1>4. CASE Activate(p)
  <2> DEFINE r == Record("ACTIVE_READY")
  <2>1. r.kind = "ACTIVE_READY" /\ r.actor = state.actor
    BY DEF Record
  <2>2. Append(p, r, ClassOf(state.epoch))
    BY <1>4 DEF Activate
  <2> HIDE DEF r
  <2>3. /\ lock = None /\ lock' = p /\ HandleStays(p) /\ call[p].op = "activate"
        /\ CallBecomes(p, "certify", head + 1, state)
    BY <1>0, <1>4, HandleKept, CallAppends DEF Activate, Locks, LockFree
  <2>4. proc[p] = "running"
    BY <2>3 DEF JInv, SafetyInv, LockOK
  <2>5. Takes(p)
    BY <1>0, <2>3, <2>4 DEF Takes
  <2>6. Moves(p)
    BY <2>1, <2>2, ActivateMoves
  <2> QED BY <2>5, <2>6 DEF Turn
<1> QED BY <1>1, <1>2, <1>3, <1>4

----------------------------------------------------------------------------
(* What a step does to the processes and to the file system.               *)

Unlinks ==
  /\ file = "present" /\ file' = "unlinked" /\ Same
  /\ head = 0 \/ state.nodep \/ state.kind = "DONE"
  /\ \E r \in Procs : handle[r].open
World ==
  /\ file' \in {"absent", "present", "unlinked"} /\ workdir' \in {"absent", "present"}
  /\ proc' \in [Procs -> Life] /\ target' \in [Executors -> Life]
  /\ synced' \in Nat /\ synced <= synced' /\ synced' <= head'
  /\ \A q \in Procs :
       /\ proc[q] = "reaped" => proc'[q] = "reaped"
       /\ proc[q] # "none" => proc'[q] # "none"
       /\ proc[q] = "running" => proc'[q] = "running" \/ call'[q].op = "idle"
  /\ \A x \in Executors :
       /\ target[x] = "reaped" => target'[x] = "reaped"
       /\ target'[x] # "none" => target[x] # "none" \/ proc'[x] # "none"
  /\ workdir' = "present" =>
       file' = "present" /\ (workdir = "present" \/ state.kind = "NO_GENERATION")
  /\ file' # file => (file = "absent" /\ file' = "present") \/ Unlinks
Still == UNCHANGED <<file, workdir, proc, target>> /\ synced' \in {synced, head}

\* The chain does not get shorter.
LEMMA HeadGrows ==
  ASSUME JInv, NEW p \in Procs, Moves(p)
  PROVE  head \in Nat /\ head' \in Nat /\ head <= head' /\ head' \in {head, head + 1}
<1>1. head \in Nat
  BY StateFields DEF JInv
<1> QED BY <1>1 DEF Moves, Same, Begins, Extends

LEMMA StillWorld ==
  ASSUME JInv, NEW p \in Procs, Moves(p), Still
  PROVE  World
<1>1. Typed /\ synced \in Nat /\ synced <= head /\ FileOK
  BY DEF JInv, SafetyInv, Typed
<1>2. head \in Nat /\ head' \in Nat /\ head <= head'
  BY HeadGrows
<1>3. synced' \in Nat /\ synced <= synced' /\ synced' <= head'
  BY <1>1, <1>2 DEF Still
<1> QED BY <1>1, <1>3 DEF World, Still, Typed, FileOK

\* So a new file system or process state is all there is to say of a step.
LEMMA SyncedIn ==
  ASSUME JInv, NEW p \in Procs, Moves(p), synced' \in {synced, head}
  PROVE  synced' \in Nat /\ synced <= synced' /\ synced' <= head'
<1>1. synced \in Nat /\ synced <= head
  BY DEF JInv, SafetyInv, Typed
<1> QED BY <1>1, HeadGrows

LEMMA CreateWorld ==
  ASSUME JInv, NEW p \in Procs, Create(p)
  PROVE  World
<1> USE DEF chain, world
<1>0. Moves(p) /\ Typed /\ FileOK
  BY CreateTurns DEF JInv, SafetyInv
<1>1. CASE OpenNew(p)
  <2>1. /\ file = "absent" /\ file' = "present" /\ synced' = synced
        /\ UNCHANGED <<workdir, proc, target>>
    BY <1>1 DEF OpenNew
  <2>2. synced' \in Nat /\ synced <= synced' /\ synced' <= head'
    BY <1>0, <2>1, SyncedIn
  <2> QED BY <1>0, <2>1, <2>2 DEF World, Typed, FileOK
<1>2. CASE Mkdir(p)
  <2>1. /\ file' = file /\ synced' = head /\ UNCHANGED <<proc, target>> /\ workdir' = "present"
        /\ state.kind = "NO_GENERATION" /\ handle[p].open /\ head = 1
    BY <1>2 DEF Mkdir, Certify, Ready
  <2>2. synced' \in Nat /\ synced <= synced' /\ synced' <= head'
    BY <1>0, <2>1, SyncedIn
  <2>3. ~state.nodep
    BY <2>1 DEF JInv, SafetyInv, Shape
  <2>4. file = "present"
    BY <1>0, <2>1, <2>3 DEF FileOK, Typed
  <2> QED BY <1>0, <2>1, <2>2, <2>4 DEF World, Typed
<1>3. ASSUME \/ WriteIntent(p) \/ SyncIntent(p) \/ Open(p) \/ Close(p) \/ BindWorkdir(p)
             \/ CertifyExact(p) \/ Fail(p) \/ \E x \in Executors : Prepare(p, x)
      PROVE  World
  <2>1. Still
    BY <1>3 DEF WriteIntent, SyncIntent, Open, Close, BindWorkdir, CertifyExact, Fail,
                Prepare, Certify, Still
  <2> QED BY <1>0, <2>1, StillWorld
<1> QED BY <1>1, <1>2, <1>3 DEF Create

LEMMA ExecuteWorld ==
  ASSUME JInv, NEW p \in Executors, Execute(p)
  PROVE  World
<1> USE DEF chain, world
<1>0. p \in Procs /\ Moves(p) /\ Typed /\ FileOK
  BY ExecuteTurns DEF JInv, SafetyInv, Procs
<1>1. CASE ReapTarget(p)
  <2>1. /\ file' = file /\ synced' = synced /\ UNCHANGED <<workdir, proc>>
        /\ target' = target \/ (target[p] = "zombie" /\ target' = [target EXCEPT ![p] = "reaped"])
    BY <1>1 DEF ReapTarget
  <2>2. synced' \in Nat /\ synced <= synced' /\ synced' <= head'
    BY <1>0, <2>1, SyncedIn
  <2>3. /\ target' \in [Executors -> Life]
        /\ \A x \in Executors :
             /\ target[x] = "reaped" => target'[x] = "reaped"
             /\ target'[x] # "none" => target[x] # "none" \/ proc'[x] # "none"
    BY <1>0, <2>1 DEF Typed, Life
  <2> QED BY <1>0, <2>1, <2>2, <2>3 DEF World, Typed, FileOK
<1>2. CASE RemoveWorkdir(p)
  <2>1. /\ file' = file /\ synced' = synced /\ UNCHANGED <<target, proc>>
        /\ workdir' = "absent" \/ workdir' = workdir
    BY <1>2 DEF RemoveWorkdir
  <2>2. synced' \in Nat /\ synced <= synced' /\ synced' <= head'
    BY <1>0, <2>1, SyncedIn
  <2> QED BY <1>0, <2>1, <2>2 DEF World, Typed, FileOK
<1>3. ASSUME BeginStep(p) \/ ProcessAbsent(p) \/ TerminalChecks(p)
      PROVE  World
  <2>1. Still
    BY <1>3 DEF BeginStep, ProcessAbsent, TerminalChecks, CertifiedBatch, Certify, Still
  <2> QED BY <1>0, <2>1, StillWorld
<1> QED BY <1>1, <1>2, <1>3 DEF Execute

LEMMA BatchWorld ==
  ASSUME JInv, NEW p \in Executors, Batch(p)
  PROVE  World
<1> USE DEF chain, world
<1>0. p \in Procs /\ Moves(p)
  BY BatchTurns DEF Procs
<1>1. Still
  BY DEF Batch, AdmitBatch, GrantToken, BeginCompletion, AppendCompletion, FinishCompletion,
         AbandonBatch, FinishDone, CertifiedBatch, Certify, Still
<1> QED BY <1>0, <1>1, StillWorld

LEMMA RetireWorld ==
  ASSUME JInv, NEW p \in Procs, Retire(p)
  PROVE  World
<1> USE DEF chain, world
<1>0. Moves(p) /\ Typed /\ FileOK
  BY RetireTurns DEF JInv, SafetyInv
<1>1. CASE ConfirmReaped(p)
  <2>1. /\ file' = file /\ synced' = head /\ UNCHANGED <<workdir, target>>
        /\ proc' = [proc EXCEPT ![state.ident] = "reaped"] /\ proc[state.ident] = "zombie"
    BY <1>1 DEF ConfirmReaped, Certify, Reapable
  <2>2. synced' \in Nat /\ synced <= synced' /\ synced' <= head'
    BY <1>0, <2>1, SyncedIn
  <2>3. /\ proc' \in [Procs -> Life]
        /\ \A q \in Procs :
             /\ proc[q] = "reaped" => proc'[q] = "reaped"
             /\ proc[q] # "none" => proc'[q] # "none"
             /\ proc[q] = "running" => proc'[q] = "running"
    BY <1>0, <2>1 DEF Typed, Life
  <2> QED BY <1>0, <2>1, <2>2, <2>3 DEF World, Typed, FileOK
<1>2. ASSUME \/ BeginRetirement(p) \/ RecheckRetirement(p) \/ AppendRetirement(p)
             \/ ReplaceAuthority(p) \/ MarkUnconfirmed(p)
      PROVE  World
  <2>1. Still
    BY <1>2 DEF BeginRetirement, RecheckRetirement, AppendRetirement, ReplaceAuthority,
                MarkUnconfirmed, Certify, Still
  <2> QED BY <1>0, <2>1, StillWorld
<1> QED BY <1>1, <1>2 DEF Retire

LEMMA HandOverWorld ==
  ASSUME JInv, NEW p \in Procs, HandOver(p)
  PROVE  World
<1> USE DEF chain, world
<1>0. Moves(p)
  BY HandOverTurns
<1>1. Still
  BY DEF HandOver, BeginReconcile, ReconcileInterrupted, BeginSuccession, PrepareSuccessor,
         Still
<1> QED BY <1>0, <1>1, StillWorld

\* What authorises a deletion.
LEMMA AuthorityIs ==
  ASSUME JInv, NEW p \in Procs, ValidAuthority(p)
  PROVE  head = 0 \/ state.nodep \/ (state.kind = "DONE" /\ DoneAuthority(p))
BY DEF ValidAuthority, DoneAuthority, PartialCreateAuthority

LEMMA DeleteWorld ==
  ASSUME JInv, NEW p \in Procs, Delete(p)
  PROVE  World
<1> USE DEF chain, world
<1>0. Moves(p) /\ Typed /\ FileOK
  BY DeleteTurns DEF JInv, SafetyInv
<1>1. CASE Unlink(p)
  <2>1. /\ file = "present" /\ file' = "unlinked" /\ synced' = head /\ Same
        /\ UNCHANGED <<workdir, proc, target>> /\ handle[p].open /\ workdir = "absent"
    BY <1>1 DEF Unlink, Certify, Ready, WorkdirAbsent, Same
  <2>2. synced' \in Nat /\ synced <= synced' /\ synced' <= head'
    BY <1>0, <2>1, SyncedIn
  <2>3. head = 0 \/ state.nodep \/ state.kind = "DONE"
    BY <1>1, AuthorityIs DEF Unlink
  <2>4. Unlinks
    BY <2>1, <2>3 DEF Unlinks
  <2> QED BY <1>0, <2>1, <2>2, <2>4 DEF World, Typed
<1>2. ASSUME \/ NoIntent(p) \/ NoDependentArtifact(p) \/ CertifyNoDependent(p)
             \/ MakeDeleteAuthority(p) \/ FinishDelete(p) \/ ReconcileAbsent(p)
      PROVE  World
  <2>1. Still
    BY <1>2 DEF NoIntent, NoDependentArtifact, CertifyNoDependent, MakeDeleteAuthority,
                FinishDelete, ReconcileAbsent, Certify, Still
  <2> QED BY <1>0, <2>1, StillWorld
<1> QED BY <1>1, <1>2 DEF Delete

LEMMA OtherWorld ==
  ASSUME JInv, NEW p \in Procs,
         ShortWrite(p) \/ Exit(p) \/ ObserveExecutor(p) \/ Activate(p)
  PROVE  World
<1> USE DEF chain, world
<1>0. Moves(p) /\ Typed /\ FileOK /\ CallsOK
  BY OtherTurns DEF JInv, SafetyInv, ReserveInv
<1>1. CASE Exit(p)
  <2>1. file' = file /\ synced' = synced /\ workdir' = workdir /\ proc[p] = "running"
    BY <1>1 DEF Exit
  <2>2. synced' \in Nat /\ synced <= synced' /\ synced' <= head'
    BY <1>0, <2>1, SyncedIn
  <2>3. call'[p].op = "idle"
    BY <1>0, <1>1 DEF Exit, Returns, CallsOK, Idle
  <2>4. /\ proc' \in [Procs -> Life]
        /\ \A q \in Procs : proc'[q] \in {"zombie", "reaped", proc[q]}
        /\ \A q \in Procs : q # p =>
             proc'[q] = proc[q] \/ (proc[q] = "zombie" /\ proc'[q] = "reaped")
        /\ proc'[p] # "none"
    BY <1>0, <1>1 DEF Exit, Typed, Life
  <2>5. /\ target' \in [Executors -> Life]
        /\ \A x \in Executors :
             target'[x] = target[x] \/ (target[x] = "zombie" /\ target'[x] = "reaped")
    BY <1>0, <1>1 DEF Exit, Typed, Life
  <2> QED BY <1>0, <2>1, <2>2, <2>3, <2>4, <2>5 DEF World, Typed, FileOK
<1>2. ASSUME ShortWrite(p) \/ ObserveExecutor(p) \/ Activate(p)
      PROVE  World
  <2>1. Still
    BY <1>2 DEF ShortWrite, ObserveExecutor, Activate, Still
  <2> QED BY <1>0, <2>1, StillWorld
<1> QED BY <1>1, <1>2

\* Time passes, a process begins, a child ends.
LEMMA WaitsWorld ==
  ASSUME JInv,
         \/ UNCHANGED vars \/ Expire
         \/ \E x \in Executors : Spawn(x) \/ TargetExits(x)
  PROVE  World /\ Waits
<1> USE DEF chain, world
<1>0. Typed /\ FileOK
  BY DEF JInv, SafetyInv
<1>1. Waits /\ file' = file /\ workdir' = workdir /\ synced' = synced
  BY DEF vars, Expire, Spawn, TargetExits, Waits, Same
<1>2. synced' \in Nat /\ synced <= synced' /\ synced' <= head'
  BY <1>0, <1>1 DEF Typed, Waits, Same
<1>3. CASE UNCHANGED <<proc, target>>
  BY <1>0, <1>1, <1>2, <1>3 DEF World, Typed, FileOK
<1>4. ASSUME NEW x \in Executors, Spawn(x)
      PROVE  World
  <2>1. /\ proc' = [proc EXCEPT ![x] = "running"] /\ proc[x] = "none"
        /\ target' = [target EXCEPT ![x] = "running"]
    BY <1>4 DEF Spawn
  <2>2. x \in Procs /\ proc' \in [Procs -> Life] /\ target' \in [Executors -> Life]
    BY <1>0, <2>1 DEF Typed, Life, Procs
  <2>3. \A q \in Procs : proc'[q] = IF q = x THEN "running" ELSE proc[q]
    BY <1>0, <2>1 DEF Typed
  <2>4. \A q \in Executors : target'[q] = IF q = x THEN "running" ELSE target[q]
    BY <1>0, <2>1 DEF Typed
  <2>5. target[x] # "reaped"
    BY <2>1 DEF JInv, SafetyInv, StepsAreTrue
  <2> QED BY <1>0, <1>1, <1>2, <2>1, <2>2, <2>3, <2>4, <2>5 DEF World, Typed, FileOK
<1>5. ASSUME NEW x \in Executors, TargetExits(x)
      PROVE  World
  <2>1. /\ proc' = proc /\ target[x] = "running"
        /\ \E l \in {"zombie", "reaped"} : target' = [target EXCEPT ![x] = l]
    BY <1>5 DEF TargetExits
  <2>2. /\ target' \in [Executors -> Life]
        /\ \A q \in Executors : q # x => target'[q] = target[q]
    BY <1>0, <2>1 DEF Typed, Life
  <2> QED BY <1>0, <1>1, <1>2, <2>1, <2>2 DEF World, Typed, FileOK
<1>6. UNCHANGED vars \/ Expire => UNCHANGED <<proc, target>>
  BY DEF vars, Expire
<1> QED BY <1>1, <1>3, <1>4, <1>5, <1>6

LEMMA StepIs ==
  ASSUME JInv, [Next]_vars
  PROVE  World /\ \E p \in Procs : Turn(p) /\ Moves(p)
<1> DEFINE Goal == World /\ \E p \in Procs : Turn(p) /\ Moves(p)
<1> SUFFICES Goal
  OBVIOUS
<1>1. ASSUME \/ UNCHANGED vars \/ Expire
             \/ \E x \in Executors : Spawn(x) \/ TargetExits(x)
      PROVE  Goal
  <2>1. World /\ Waits
    BY <1>1, WaitsWorld
  <2>2. Owner \in Procs /\ Turn(Owner) /\ Moves(Owner)
    BY <2>1 DEF Procs, Turn, Moves, Waits
  <2> QED BY <2>1, <2>2
<1>2. ASSUME NEW p \in Procs, Create(p) PROVE Goal
  BY <1>2, CreateTurns, CreateWorld
<1>3. ASSUME NEW p \in Procs, Retire(p) PROVE Goal
  BY <1>3, RetireTurns, RetireWorld
<1>4. ASSUME NEW p \in Procs, HandOver(p) PROVE Goal
  BY <1>4, HandOverTurns, HandOverWorld
<1>5. ASSUME NEW p \in Procs, Delete(p) PROVE Goal
  BY <1>5, DeleteTurns, DeleteWorld
<1>6. ASSUME NEW p \in Procs,
             ShortWrite(p) \/ Exit(p) \/ ObserveExecutor(p) \/ Activate(p)
      PROVE  Goal
  BY <1>6, OtherTurns, OtherWorld
<1>7. ASSUME NEW p \in Executors, Execute(p) PROVE Goal
  BY <1>7, ExecuteTurns, ExecuteWorld DEF Procs
<1>8. ASSUME NEW p \in Executors, Batch(p) PROVE Goal
  BY <1>8, BatchTurns, BatchWorld DEF Procs
<1> HIDE DEF Goal
<1> QED BY <1>1, <1>2, <1>3, <1>4, <1>5, <1>6, <1>7, <1>8 DEF Next

----------------------------------------------------------------------------
(* Each part of the invariant is kept.                                     *)

Step(p) == World /\ Turn(p) /\ Moves(p)

\* The record on which an executor is identified stays, and so does the state
\* until there is another record.
LEMMA HistoryGrows ==
  ASSUME JInv, NEW p \in Procs, Moves(p)
  PROVE  /\ head' = head => state' = state
         /\ state.gen \in Nat /\ state'.gen \in Nat /\ state.gen <= state'.gen
         /\ state'.gen = state.gen /\ state.ident \in Executors => state'.ident = state.ident
<1>0. head \in Nat /\ state.gen \in Nat
  BY StateFields DEF JInv, LooseStates
<1>1. None \notin Executors
  BY ProcsAssumption DEF Procs
<1>2. state.kind = "PREPARED" => state.ident = None
  BY DEF JInv, SafetyInv, Shape, ShapeOf
<1>3. CASE Same \/ Begins(p)
  BY <1>0, <1>3 DEF Same, Begins
<1>4. CASE Extends(p)
  BY <1>0, <1>1, <1>2, <1>4
     DEF Extends, Notes, Prepares, Activates, Admits, Goes, Completes, Rests, Finishes,
         SameSteps, SameGen
<1> QED BY <1>3, <1>4 DEF Moves

LEMMA ProofsKept ==
  ASSUME JInv, NEW p \in Procs, Step(p), NEW q \in Procs
  PROVE  ProofOK(q)'
<1>0. World /\ Turn(p) /\ Moves(p)
  BY DEF Step
<1>1. /\ head \in Nat /\ head' \in {head, head + 1} /\ (head' = head => state' = state)
      /\ state.gen \in Nat /\ state'.gen \in Nat /\ state.gen <= state'.gen
      /\ state'.gen = state.gen /\ state.ident \in Executors => state'.ident = state.ident
  BY <1>0, HeadGrows, HistoryGrows
<1>2. ASSUME handle'[q].proof = handle[q].proof
      PROVE  ProofOK(q)'
  <2> DEFINE f == handle[q].proof
  <2>1. SUFFICES ASSUME f # NoProof
                 PROVE  /\ f.ident \in Executors /\ proc'[f.ident] = "reaped"
                        /\ f.gen <= state'.gen /\ (f.gen = state'.gen => f.ident = state'.ident)
                        /\ f.head <= head' /\ (f.head = head' => f.gen = state'.gen)
    BY <1>2 DEF ProofOK
  <2>2. /\ f.ident \in Executors /\ proc[f.ident] = "reaped"
        /\ f.gen <= state.gen /\ (f.gen = state.gen => f.ident = state.ident)
        /\ f.head <= head /\ (f.head = head => f.gen = state.gen)
    BY <2>1 DEF JInv, SafetyInv, ProofOK
  <2>3. f.gen \in Nat /\ f.head \in Nat
    BY HandleFields DEF JInv, SafetyInv, Proofs
  <2>4. proc'[f.ident] = "reaped"
    BY <1>0, <2>2 DEF World, Procs
  <2> HIDE DEF f
  <2>5. f.gen <= state'.gen /\ (f.gen = state'.gen => f.ident = state'.ident)
    BY <1>1, <2>2, <2>3
  <2>6. f.head <= head' /\ (f.head = head' => f.gen = state'.gen)
    BY <1>1, <2>2, <2>3
  <2> QED BY <2>2, <2>4, <2>5, <2>6
<1>3. ASSUME handle'[q].proof = NoProof
      PROVE  ProofOK(q)'
  BY <1>3 DEF ProofOK
<1>4. CASE q # p
  <2>1. handle'[q] = handle[q]
    BY Zenon, <1>0, <1>4
       DEF Turn, Waits, Watches, Takes, Keeps, Ends, Lasts, Stays, Proves, Drops, Grants,
           Works, Records, HandleStays, HandleBecomes
  <2> QED BY <1>2, <2>1
<1>5. CASE q = p
  <2>1. \/ handle'[p].proof = handle[p].proof
        \/ handle'[p].proof = NoProof
        \/ Proves(p)
    BY Zenon, <1>0
       DEF Turn, Waits, Watches, Takes, Keeps, Ends, Lasts, Stays, Drops, Grants,
           Works, Records, HandleStays, HandleBecomes
  <2>2. ASSUME Proves(p)
        PROVE  ProofOK(p)'
    <3> DEFINE f == [gen |-> state.gen, epoch |-> state.epoch, ident |-> state.ident,
                     head |-> head]
    <3>1. handle'[p].proof = f /\ Same /\ state.ident \in Executors
          /\ proc'[state.ident] = "reaped"
      BY <2>2 DEF Proves, HandleBecomes
    <3> QED BY <1>1, <3>1 DEF ProofOK, Same
  <2> QED BY <1>2, <1>3, <1>5, <2>1, <2>2
<1> QED BY <1>4, <1>5

\* What becomes of a call.
LEMMA CallStepIs ==
  ASSUME JInv, NEW p \in Procs, Step(p)
  PROVE  /\ \A q \in Procs : q # p => call'[q] = call[q]
         /\ \/ call'[p].op = call[p].op /\ call'[p].seen = call[p].seen
                 /\ (call[p].op \in {"idle", "create"} \/ call'[p].head = call[p].head)
            \/ call'[p].op \in {"idle", "effect", "complete", "completed"}
            \/ Watches(p) \/ Takes(p) \/ Keeps(p)
<1>0. Turn(p)
  BY DEF Step
<1>1. CASE Waits BY <1>1 DEF Waits
<1>2. CASE Watches(p) BY <1>2 DEF Watches, CallBecomes
<1>3. CASE Takes(p) BY <1>3 DEF Takes, CallBecomes
<1>4. CASE Keeps(p) BY <1>4 DEF Keeps, CallBecomes
<1>5. CASE Ends(p) BY <1>5 DEF Ends, CallBecomes
<1>6. CASE Stays(p) BY <1>6 DEF Stays, CallBecomes
<1>7. CASE Drops(p) BY <1>7 DEF Drops, CallBecomes
<1>8. CASE Grants(p) BY <1>8 DEF Grants, CallBecomes
<1>9. CASE Works(p) BY <1>9 DEF Works, CallBecomes
<1>10. CASE Records(p) BY <1>10 DEF Records, CallBecomes
<1> QED BY <1>0, <1>1, <1>2, <1>3, <1>4, <1>5, <1>6, <1>7, <1>8, <1>9, <1>10 DEF Turn

LEMMA SuccessionsKept ==
  ASSUME JInv, NEW p \in Procs, Step(p), NEW q \in Procs
  PROVE  SuccessionOK(q)'
<1>0. World /\ Moves(p)
  BY DEF Step
<1>1. /\ state.gen \in Nat /\ state'.gen \in Nat /\ state.gen <= state'.gen
      /\ state'.gen = state.gen /\ state.ident \in Executors => state'.ident = state.ident
  BY <1>0, HistoryGrows
<1> DEFINE s == call'[q].seen
<1>2. SUFFICES ASSUME call'[q].op = "succeed"
               PROVE  /\ s.ident \in Executors /\ proc'[s.ident] = "reaped"
                      /\ s.gen <= state'.gen
                      /\ s.gen = state'.gen => s.ident = state'.ident
  BY DEF SuccessionOK
<1>3. CASE call[q].op = "succeed" /\ s = call[q].seen
  <2>1. /\ s.ident \in Executors /\ proc[s.ident] = "reaped"
        /\ s.gen <= state.gen /\ (s.gen = state.gen => s.ident = state.ident)
    BY <1>3 DEF JInv, SafetyInv, SuccessionOK
  <2>2. s.gen \in Nat
    BY <1>3, SeenFields DEF JInv
  <2>3. proc'[s.ident] = "reaped"
    BY <1>0, <2>1 DEF World, Procs
  <2> HIDE DEF s
  <2> QED BY <1>1, <2>1, <2>2, <2>3
<1>4. CASE q = p /\ Watches(p)
  <2>1. s = state /\ Same /\ ValidReapProof(handle[p].proof, state)
    BY <1>2, <1>4 DEF Watches, CallBecomes
  <2>2. state.ident \in Executors /\ proc[state.ident] = "reaped"
    BY <2>1 DEF ValidReapProof, JInv, SafetyInv, ProofOK
  <2>3. proc'[state.ident] = "reaped"
    BY <1>0, <2>2 DEF World, Procs
  <2> QED BY <1>1, <2>1, <2>2, <2>3 DEF Same
<1>5. \/ call[q].op = "succeed" /\ s = call[q].seen
      \/ q = p /\ Watches(p)
  BY <1>2, CallStepIs DEF Takes, Keeps, CallBecomes
<1> QED BY <1>3, <1>4, <1>5

LEMMA SeenKept ==
  ASSUME JInv, NEW p \in Procs, Step(p), NEW q \in Procs
  PROVE  SeenOK(q)'
<1>1. head \in Nat /\ head' \in {head, head + 1} /\ (head' = head => state' = state)
  BY HeadGrows, HistoryGrows DEF Step
<1>2. SUFFICES ASSUME call'[q].op \in {"retire", "admit"}
               PROVE  /\ call'[q].head <= head'
                      /\ call'[q].op = "retire" /\ call'[q].head = head'
                           => call'[q].seen = state'
  BY DEF SeenOK
<1>3. CASE /\ call'[q].op = call[q].op /\ call'[q].seen = call[q].seen
           /\ call'[q].head = call[q].head
  <2>1. /\ call[q].head <= head
        /\ call[q].op = "retire" /\ call[q].head = head => call[q].seen = state
    BY <1>2, <1>3 DEF JInv, SafetyInv, SeenOK
  <2>2. call[q].head \in Nat
    BY DEF JInv, ReserveInv, CallsOK, CallRecords
  <2> QED BY <1>1, <1>3, <2>1, <2>2
<1>4. CASE q = p /\ Watches(p)
  BY <1>1, <1>2, <1>4 DEF Watches, CallBecomes, Same
<1>5. CASE q = p /\ Takes(p)
  BY <1>1, <1>2, <1>5 DEF Takes, CallBecomes
<1>6. \/ /\ call'[q].op = call[q].op /\ call'[q].seen = call[q].seen
         /\ call'[q].head = call[q].head
      \/ q = p /\ (Watches(p) \/ Takes(p))
  BY <1>2, CallStepIs DEF Keeps, CallBecomes
<1> QED BY <1>3, <1>4, <1>5, <1>6

\* A token is not left behind by the chain.
LEMMA TokenStays ==
  ASSUME JInv, NEW p \in Procs, Moves(p), NEW q \in Procs, HoldsToken(q),
         q = p => call'[p].op # "completed"
  PROVE  IF handle[q].token.pending = 0
           THEN /\ state'.kind \in Batching /\ state'.batch = state.batch
                /\ state'.ident = state.ident /\ state'.steps = state.steps
                /\ state'.upto = state.upto
           ELSE head' = head /\ state' = state
<1>1. /\ ~NobodyHolds /\ lock # None
      /\ IF handle[q].token.pending = 0
           THEN state.kind \in Batching
           ELSE state.kind \in {"ACTIVE_READY", "RETIRING_IDLE"} /\ head > 0
  <2>1. lock = q /\ LockOK(q) /\ TokenOK(q)
    BY DEF JInv, SafetyInv, LockOK
  <2>2. state.kind \in {"ACTIVE_READY", "RETIRING_IDLE"} => head > 0
    BY StateFields DEF JInv
  <2> QED BY <2>1, <2>2, ProcsAssumption DEF TokenOK, BatchOK, NobodyHolds
<1>2. ~Completes(p)
  <2>1. SUFFICES ASSUME Completes(p) PROVE FALSE
    OBVIOUS
  <2>2. HoldsToken(p) /\ lock = p /\ lock = q
    BY <2>1 DEF Completes, JInv, SafetyInv, LockOK
  <2> QED BY <2>1, <2>2 DEF Completes
<1>3. CASE Same
  BY <1>1, <1>3 DEF Same
<1>4. CASE Begins(p)
  <2>1. state.kind = "NO_GENERATION"
    BY <1>4, StateFields DEF Begins, JInv
  <2> QED BY <1>1, <2>1 DEF Batching
<1>5. CASE Extends(p)
  <2>1. Goes
    BY <1>1, <1>2, <1>5
       DEF Extends, Notes, Prepares, Activates, Admits, Rests, Finishes, Batching
  <2> QED BY <1>1, <2>1 DEF Goes, SameSteps, Batching
<1> QED BY <1>3, <1>4, <1>5 DEF Moves

\* What a token says has been done stays done.
LEMMA TokenKept ==
  ASSUME JInv, NEW p \in Procs, Step(p), NEW q \in Procs, HoldsToken(q),
         handle'[q].token = handle[q].token, q = p => call'[p].op # "completed",
         call'[q].op = "effect" =>
           call[q].op = "effect" \/ handle[q].token.done # state.upto
  PROVE  IF handle'[q].token.pending = 0 THEN BatchOK(q)'
         ELSE head' = handle'[q].token.pending
              /\ state'.kind \in {"ACTIVE_READY", "RETIRING_IDLE"}
<1> DEFINE t == handle[q].token
<1>0. World /\ Moves(p) /\ TokenOK(q) /\ lock = q /\ q \in Executors /\ t \in Tokens
      /\ state \in LooseStates /\ synced \in Nat
  BY HandleFields, StateFields DEF Step, JInv, SafetyInv, LockOK, Typed
<1>1. CASE t.pending # 0
  BY <1>0, <1>1, TokenStays DEF TokenOK
<1>2. CASE t.pending = 0
  <2>1. BatchOK(q)
    BY <1>0, <1>2 DEF TokenOK
  <2>2. /\ state'.kind \in Batching /\ state'.batch = state.batch
        /\ state'.ident = state.ident /\ state'.steps = state.steps /\ state'.upto = state.upto
    BY <1>0, <1>2, TokenStays
  <2>3. /\ t.batch \in Nat /\ t.done \in Nat /\ state.upto \in Nat
        /\ synced' \in Nat /\ synced <= synced'
    BY <1>0 DEF Tokens, LooseStates, AllSteps, World
  <2>4. t.batch <= synced'
    BY <1>0, <2>1, <2>3 DEF BatchOK
  <2>5. t.done >= 2 => target'[q] = "reaped"
    BY <1>0, <2>1 DEF BatchOK, World
  <2>6. t.done >= 3 => workdir' = "absent"
    BY <1>0, <2>1 DEF BatchOK, World, Batching
  <2>7. call'[q].op = "effect" => t.done < state.upto
    BY <2>1, <2>3 DEF BatchOK
  <2>8. BatchOK(q)'
    BY <2>1, <2>2, <2>4, <2>5, <2>6, <2>7 DEF BatchOK
  <2> QED BY <1>2, <2>8
<1> QED BY <1>1, <1>2

LEMMA TokensKept ==
  ASSUME JInv, NEW p \in Procs, Step(p), NEW q \in Procs
  PROVE  TokenOK(q)'
<1>0. World /\ Turn(p) /\ Moves(p) /\ state \in LooseStates /\ head \in Nat
      /\ LockOK(q) /\ LockOK(p) /\ TokenOK(q)
  BY StateFields DEF Step, JInv, SafetyInv
<1>a. \* a granted batch
      ASSUME call'[q].op = "admit", state'.kind \in Batching, state'.batch = call'[q].head
      PROVE  state'.ident = q
  <2>1. CASE q = p /\ Takes(p)
    BY <1>a, <2>1 DEF Takes, CallBecomes
  <2>2. CASE call[q].op = "admit" /\ call'[q].head = call[q].head
    <3>1. lock = q /\ ~HoldsToken(q)
      BY <1>0, <2>2 DEF LockOK, Locking
    <3>2. lock # None
      BY <3>1, ProcsAssumption
    <3>4. ~Completes(p)
      <4>1. SUFFICES ASSUME Completes(p) PROVE FALSE
        OBVIOUS
      <4>2. HoldsToken(p) /\ lock = p
        BY <1>0, <4>1 DEF Completes, LockOK
      <4> QED BY <3>1, <4>2
    <3>5. Same \/ Begins(p) \/ Goes
      BY <1>0, <1>a, <3>2, <3>4
         DEF Moves, Extends, Notes, Prepares, Activates, Admits, Rests, Finishes, Batching
    <3>6. state.kind \in Batching /\ state'.batch = state.batch /\ state'.ident = state.ident
      BY <1>a, <3>5 DEF Same, Begins, Goes, SameSteps
    <3> QED BY <1>0, <1>a, <2>2, <3>6 DEF TokenOK
  <2>3. \/ q = p /\ Takes(p)
        \/ call[q].op = "admit" /\ call'[q].head = call[q].head
    BY <1>a, CallStepIs DEF Watches, Keeps, CallBecomes
  <2> QED BY <2>1, <2>2, <2>3
<1>b. SUFFICES ASSUME HoldsToken(q)'
               PROVE  IF handle'[q].token.pending = 0 THEN BatchOK(q)'
                      ELSE head' = handle'[q].token.pending
                           /\ state'.kind \in {"ACTIVE_READY", "RETIRING_IDLE"}
  BY <1>a DEF TokenOK
<1>1. CASE q # p
  <2>1. handle'[q] = handle[q] /\ call'[q] = call[q]
    BY Zenon, <1>0, <1>1
       DEF Turn, Waits, Watches, Takes, Keeps, Ends, Lasts, Stays, Proves, Drops, Grants,
           Works, Records, HandleStays, HandleBecomes, CallBecomes
  <2>2. HoldsToken(q)
    BY <1>b, <2>1 DEF HoldsToken
  <2> QED BY <1>1, <2>1, <2>2, TokenKept
<1>2. ASSUME q = p, handle'[p].token = handle[p].token,
             call'[p].op \notin {"completed", "effect"} \/ (call'[p].op = call[p].op /\ Same)
      PROVE  IF handle'[q].token.pending = 0 THEN BatchOK(q)'
             ELSE head' = handle'[q].token.pending
                  /\ state'.kind \in {"ACTIVE_READY", "RETIRING_IDLE"}
  <2>1. HoldsToken(q)
    BY <1>b, <1>2 DEF HoldsToken
  <2>2. CASE call'[p].op # "completed"
    BY <1>2, <2>1, <2>2, TokenKept
  <2>3. CASE call'[p].op = "completed" /\ call[p].op = "completed" /\ Same
    BY <1>0, <1>2, <2>1, <2>3 DEF LockOK, TokenOK, Same
  <2> QED BY <1>2, <2>2, <2>3
<1>3. CASE q = p /\ Grants(p)
  <2>1. PICK t \in Tokens : /\ handle'[p].token = t /\ t.batch = state.batch
                            /\ t.done = state.steps /\ t.pending = 0
    BY <1>3 DEF Grants, HandleBecomes
  <2>2. /\ call[p].op = "admit" /\ state.kind \in Batching /\ state.batch = call[p].head
        /\ synced' = head /\ Same /\ p \in Executors /\ call'[p].op = "idle"
    BY <1>3 DEF Grants, CallBecomes
  <2>3. state.ident = p
    BY <1>0, <1>3, <2>2 DEF TokenOK
  <2>4. state.batch <= synced'
    BY <2>2 DEF JInv, SafetyInv, SeenOK
  <2>5. /\ state.steps >= 2 => target[p] = "reaped"
        /\ state.steps >= 3 => workdir = "absent"
    BY <2>3 DEF JInv, SafetyInv, StepsAreTrue
  <2>6. /\ state.steps >= 2 => target'[p] = "reaped"
        /\ state.steps >= 3 => workdir' = "absent"
    BY <1>0, <2>2, <2>5 DEF World, Batching
  <2>7. state.steps \in Nat /\ state.upto \in Nat /\ state.steps < state.upto
    BY <1>0, <2>2 DEF JInv, SafetyInv, Shape, ShapeOf, LooseStates, AllSteps
  <2>8. BatchOK(p)'
    BY <2>1, <2>2, <2>3, <2>4, <2>6, <2>7 DEF BatchOK, Same
  <2> QED BY <1>3, <2>1, <2>8
<1>4. CASE q = p /\ Works(p)
  <2>1. PICK t \in Tokens :
          /\ handle'[p].token = t
          /\ t.batch = handle[p].token.batch /\ t.pending = 0
          /\ call'[p].op = "effect" => t.done = handle[p].token.done /\ t.done # state.upto
          /\ \/ t.done = handle[p].token.done
             \/ /\ t.done = handle[p].token.done + 1 /\ call[p].op = "effect"
                /\ t.done = 2 => target'[p] = "reaped"
                /\ t.done >= 3 => workdir' = "absent"
    BY <1>4 DEF Works, HandleBecomes, CallBecomes
  <2>2. HoldsToken(p) /\ handle[p].token.pending = 0 /\ Same
    BY <1>4 DEF Works
  <2>3. BatchOK(p) /\ p \in Executors
    BY <1>0, <1>4, <2>2 DEF TokenOK, LockOK
  <2>4. /\ handle[p].token.done \in Nat /\ state.upto \in Nat /\ state.steps \in Nat
        /\ handle[p].token.batch \in Nat /\ synced \in Nat /\ synced' \in Nat
        /\ synced <= synced' /\ t.done \in Nat
    BY <1>0, HandleFields DEF JInv, SafetyInv, Typed, Tokens, LooseStates, AllSteps, World
  <2>5. target'[p] = "reaped" \/ target[p] # "reaped"
    BY <1>0, <2>3 DEF World
  <2>6. workdir' = "absent" \/ workdir # "absent"
    BY <1>0, <2>3 DEF World, BatchOK, Batching
  <2>7. state.steps <= t.done /\ t.done <= state.upto
    BY <2>1, <2>3, <2>4 DEF BatchOK
  <2>8. t.done >= 2 => target'[p] = "reaped"
    BY <2>1, <2>3, <2>4, <2>5 DEF BatchOK
  <2>9. t.done >= 3 => workdir' = "absent"
    BY <2>1, <2>3, <2>4, <2>6 DEF BatchOK
  <2>10. t.batch <= synced' /\ (call'[p].op = "effect" => t.done < state.upto)
    BY <2>1, <2>3, <2>4, <2>7 DEF BatchOK
  <2>11. BatchOK(p)'
    BY <2>1, <2>2, <2>3, <2>7, <2>8, <2>9, <2>10 DEF BatchOK, Same
  <2> QED BY <1>4, <2>1, <2>11
<1>5. CASE q = p /\ Records(p)
  BY <1>0, <1>5 DEF Records, HandleBecomes
<1>6. CASE q = p /\ Drops(p)
  BY <1>b, <1>6 DEF Drops, HandleBecomes, HoldsToken
<1>7. CASE q = p /\ (Watches(p) \/ Takes(p) \/ Keeps(p) \/ Ends(p))
  <2>1. handle'[p].token = handle[p].token
    BY <1>7 DEF Watches, Takes, Keeps, Ends, Lasts, HandleStays, HandleBecomes
  <2>2. call'[p].op \notin {"completed", "effect"}
    <3>1. CASE Watches(p) BY <3>1 DEF Watches, CallBecomes
    <3>2. CASE Takes(p) BY <3>2 DEF Takes, CallBecomes
    <3>3. CASE Keeps(p) BY <3>3 DEF Keeps, CallBecomes
    <3>4. CASE Ends(p) BY <3>4 DEF Ends, CallBecomes
    <3> QED BY <1>7, <3>1, <3>2, <3>3, <3>4
  <2> QED BY <1>2, <1>7, <2>1, <2>2
<1>8. CASE q = p /\ (Stays(p) \/ Waits)
  <2>1. handle'[p].token = handle[p].token
    BY <1>8 DEF Stays, Waits, Lasts, Proves, HandleBecomes
  <2>2. call'[p].op \notin {"completed", "effect"} \/ (call'[p].op = call[p].op /\ Same)
    <3>1. CASE Stays(p) BY <3>1 DEF Stays, CallBecomes
    <3>2. CASE Waits BY <3>2 DEF Waits
    <3> QED BY <1>8, <3>1, <3>2
  <2> QED BY <1>2, <1>8, <2>1, <2>2
<1> QED BY <1>0, <1>1, <1>3, <1>4, <1>5, <1>6, <1>7, <1>8 DEF Turn

LEMMA LocksKept ==
  ASSUME JInv, NEW p \in Procs, Step(p), NEW q \in Procs
  PROVE  LockOK(q)'
<1>0. World /\ Turn(p) /\ Moves(p) /\ LockOK(q) /\ LockOK(p) /\ p # None
      /\ Executors \subseteq Procs
  BY ProcsAssumption DEF Step, JInv, SafetyInv, Procs
<1>r. proc[q] = "running" => proc'[q] = "running" \/ call'[q].op = "idle"
  BY <1>0 DEF World
<1>1. CASE q # p
  <2>1. handle'[q] = handle[q] /\ call'[q] = call[q]
    BY Zenon, <1>0, <1>1
       DEF Turn, Waits, Watches, Takes, Keeps, Ends, Lasts, Stays, Proves, Drops, Grants,
           Works, Records, HandleStays, HandleBecomes, CallBecomes
  <2>2. lock = q => lock' = q
    BY <1>0, <1>1, ProcsAssumption
       DEF Turn, Waits, Watches, Takes, Keeps, Ends, Stays, Drops, Grants, Works, Records
  <2> QED BY <1>0, <1>r, <2>1, <2>2 DEF LockOK, HoldsToken, Locking
<1>2. CASE q = p /\ Waits
  BY <1>0, <1>r, <1>2 DEF Waits, LockOK, HoldsToken, Locking
<1>3. CASE q = p /\ Watches(p)
  <2>1. /\ lock' = lock /\ handle'[p].token = handle[p].token
        /\ handle'[p].open = handle[p].open /\ proc[p] = "running"
    BY <1>3 DEF Watches, HandleStays, HandleBecomes
  <2>2. /\ call'[p].op \in {"create", "activate", "retire", "retiring", "reconcile", "succeed"}
        /\ call'[p].op = "retiring" => call'[p].seen.kind = "BATCH_ACTIVE"
    BY <1>3 DEF Watches, CallBecomes
  <2> QED BY <1>0, <1>r, <1>3, <2>1, <2>2 DEF LockOK, HoldsToken, Locking
<1>4. CASE q = p /\ Takes(p)
  <2>1. /\ lock = None /\ lock' = p /\ handle'[p].token = handle[p].token
        /\ handle'[p].open = handle[p].open /\ proc[p] = "running"
    BY <1>4 DEF Takes, HandleStays, HandleBecomes
  <2>2. call'[p].op \in {"mkdir", "certify", "admit", "nodep", "delete", "retiring"}
    BY <1>4 DEF Takes, CallBecomes
  <2>3. ~HoldsToken(p)
    BY <1>0, <2>1 DEF LockOK
  <2> QED BY <1>0, <1>r, <1>4, <2>1, <2>2, <2>3 DEF LockOK, HoldsToken
<1>5. CASE q = p /\ Keeps(p)
  <2>1. /\ lock = p /\ lock' = lock /\ handle'[p].token = handle[p].token
        /\ handle'[p].open = handle[p].open /\ proc[p] = "running"
        /\ ~HoldsToken(p) /\ call'[p].op = "certify"
    BY <1>0, <1>5
       DEF Keeps, HandleStays, HandleBecomes, CallBecomes, LockOK, Locking
  <2> QED BY <1>0, <1>r, <1>5, <2>1 DEF LockOK, HoldsToken
<1>6. CASE q = p /\ Ends(p)
  <2>1. /\ call'[p].op = "idle" /\ handle'[p].token = handle[p].token
        /\ handle'[p].open \/ ~HoldsToken(p)
        /\ lock' = lock \/ (lock = p /\ lock' = None /\ ~HoldsToken(p))
    BY <1>6 DEF Ends, Lasts, HandleBecomes, CallBecomes
  <2> QED BY <1>0, <1>6, <2>1 DEF LockOK, HoldsToken, Locking
<1>7. CASE q = p /\ Stays(p)
  <2>1. /\ call'[p].op = call[p].op /\ call[p].op \in {"idle", "create"} /\ lock' = lock
    BY <1>7 DEF Stays, CallBecomes
  <2>2. /\ handle'[p].token = handle[p].token
        /\ handle'[p].open \/ ~HoldsToken(p)
    BY <1>7 DEF Stays, Lasts, Proves, HandleBecomes
  <2> QED BY <1>0, <1>r, <1>7, <2>1, <2>2 DEF LockOK, HoldsToken, Locking
<1>8. CASE q = p /\ Drops(p)
  <2>1. call'[p].op = "idle" /\ handle'[p].token = NoToken
    BY <1>8 DEF Drops, HandleBecomes, CallBecomes
  <2>2. NoToken.pending = 0
    BY DEF NoToken
  <2> QED BY <1>8, <2>1, <2>2 DEF LockOK, HoldsToken, Locking
<1>9. CASE q = p /\ Grants(p)
  <2>1. /\ call[p].op = "admit" /\ call'[p].op = "idle" /\ lock' = lock /\ p \in Executors
        /\ handle'[p].token.pending = 0 /\ handle'[p].open
    BY <1>9 DEF Grants, HandleBecomes, CallBecomes
  <2>2. lock = p
    BY <1>0, <2>1 DEF LockOK, Locking
  <2> QED BY <1>9, <2>1, <2>2 DEF LockOK, HoldsToken, Locking
<1>10. CASE q = p /\ Works(p)
  <2>1. /\ HoldsToken(p) /\ lock' = lock /\ proc[p] = "running"
        /\ handle'[p].token.pending = 0 /\ handle'[p].open = handle[p].open
        /\ handle'[p].token # NoToken /\ call'[p].op \in {"idle", "effect", "complete"}
        /\ call'[p].op = "complete" => handle'[p].token.executed
    BY <1>10 DEF Works, HandleBecomes, CallBecomes
  <2> QED BY <1>0, <1>r, <1>10, <2>1 DEF LockOK, HoldsToken, Locking
<1>11. CASE q = p /\ Records(p)
  <2>1. /\ HoldsToken(p) /\ lock' = lock /\ proc[p] = "running"
        /\ handle'[p].token.pending = head + 1 /\ handle'[p].open = handle[p].open
        /\ handle'[p].token.executed /\ call'[p].op = "completed"
    BY <1>11 DEF Records, HandleBecomes, CallBecomes
  <2>2. head + 1 # 0 /\ NoToken.pending = 0
    BY StateFields DEF JInv, NoToken
  <2> QED BY <1>0, <1>r, <1>11, <2>1, <2>2 DEF LockOK, HoldsToken, Locking
<1> QED BY <1>0, <1>1, <1>2, <1>3, <1>4, <1>5, <1>6, <1>7, <1>8, <1>9, <1>10, <1>11 DEF Turn

LEMMA TypedKept ==
  ASSUME JInv, NEW p \in Procs, Step(p)
  PROVE  Typed'
<1>0. World /\ Turn(p) /\ Moves(p) /\ Typed
  BY DEF Step, JInv, SafetyInv
<1>1. handle' \in [Procs -> Handles]
  BY Zenon, <1>0 DEF Turn, Waits, Watches, Takes, Keeps, Ends, Lasts, Stays, Proves, Drops, Grants,
              Works, Records, HandleStays, HandleBecomes, Typed
<1>2. lock' \in Procs \cup {None}
  BY <1>0 DEF Turn, Waits, Watches, Takes, Keeps, Ends, Stays, Drops, Grants,
              Works, Records, Typed
<1> QED BY <1>0, <1>1, <1>2 DEF World, Typed

LEMMA ShapeKept ==
  ASSUME JInv, NEW p \in Procs, Step(p)
  PROVE  Shape' /\ StepsAreTrue'
<1>0. /\ World /\ Moves(p) /\ ShapeOf(state) /\ (state.nodep => head > 1) /\ StepsAreTrue
      /\ state \in LooseStates /\ head \in Nat /\ None \notin Executors
  BY StateFields, ProcsAssumption DEF Step, JInv, SafetyInv, Shape, Procs
<1>t. \A x \in Executors : target'[x] # "none" => proc'[x] # "none"
  BY <1>0 DEF World, StepsAreTrue, Procs
<1>a. state.steps \in Nat /\ state.upto \in Nat /\ state.gen \in Nat
      /\ state.nodep \in BOOLEAN /\ state.ident \in Executors \cup {None}
  BY <1>0 DEF LooseStates, Actors, AllSteps
<1>1. CASE Same \/ Begins(p)
  <2>1. state' = state /\ (state.nodep => head' > 1)
    BY <1>0, <1>1 DEF Same, Begins
  <2>2. /\ state.steps >= 2 => target'[state.ident] = "reaped"
        /\ state.steps >= 3 => workdir' = "absent"
    BY <1>0, <1>a DEF World, StepsAreTrue, ShapeOf
  <2> QED BY <1>0, <1>t, <2>1, <2>2 DEF Shape, ShapeOf, StepsAreTrue
<1>2. CASE Extends(p)
  <2>1. head' > 1
    BY <1>0, <1>2 DEF Extends
  <2>2. ASSUME SameSteps \/ Notes
        PROVE  /\ state'.ident = state.ident /\ state'.steps = state.steps
               /\ state'.steps >= 2 => target'[state'.ident] = "reaped"
               /\ state'.steps >= 3 => workdir' = "absent"
    <3>1. state'.ident = state.ident /\ state'.steps = state.steps
      BY <2>2 DEF SameSteps, Notes
    <3>2. /\ state.steps >= 2 => target'[state.ident] = "reaped"
          /\ state.steps >= 3 => workdir' = "absent"
      BY <1>0, <1>a DEF World, StepsAreTrue, ShapeOf
    <3> QED BY <3>1, <3>2
  <2>3. CASE Notes
    <3>1. ShapeOf(state')
      BY <1>0, <2>3 DEF Notes, ShapeOf, Batching
    <3> QED BY <1>t, <2>1, <2>2, <2>3, <3>1 DEF Shape, StepsAreTrue
  <2>4. CASE Prepares
    <3>1. ShapeOf(state') /\ state'.steps = 0
      BY <1>a, <2>4 DEF Prepares, ShapeOf, Batching
    <3> QED BY <1>t, <2>1, <3>1 DEF Shape, StepsAreTrue
  <2>5. CASE Activates
    <3>1. ShapeOf(state') /\ state'.steps = 0
      BY <1>0, <1>a, <2>5 DEF Activates, ShapeOf, Batching
    <3> QED BY <1>t, <2>1, <3>1 DEF Shape, StepsAreTrue
  <2>6. CASE Admits
    <3>1. ShapeOf(state')
      BY <1>0, <1>a, <2>6 DEF Admits, SameSteps, ShapeOf, Batching
    <3> QED BY <1>t, <2>1, <2>2, <2>6, <3>1 DEF Shape, StepsAreTrue, Admits
  <2>7. CASE Goes
    <3>1. ShapeOf(state')
      BY <1>0, <1>a, <2>7 DEF Goes, SameSteps, ShapeOf, Batching
    <3> QED BY <1>t, <2>1, <2>2, <2>7, <3>1 DEF Shape, StepsAreTrue, Goes
  <2>8. CASE Completes(p)
    <3>1. ShapeOf(state')
      BY <1>0, <1>a, <2>8 DEF Completes, ShapeOf, Batching
    <3>2. HoldsToken(p) /\ handle[p].token.pending = 0 /\ p \in Executors
      BY <2>8 DEF Completes, JInv, SafetyInv, LockOK
    <3>3. BatchOK(p)
      BY <3>2 DEF JInv, SafetyInv, TokenOK
    <3>4. /\ state'.steps >= 2 => target'[p] = "reaped"
          /\ state'.steps >= 3 => workdir' = "absent"
          /\ state'.ident = p
      BY <1>0, <2>8, <3>2, <3>3 DEF Completes, BatchOK, World, Batching
    <3> QED BY <1>t, <2>1, <3>1, <3>4 DEF Shape, StepsAreTrue
  <2>9. CASE Rests
    <3>1. ShapeOf(state')
      BY <1>0, <1>a, <2>9 DEF Rests, SameSteps, ShapeOf, Batching
    <3> QED BY <1>t, <2>1, <2>2, <2>9, <3>1 DEF Shape, StepsAreTrue, Rests
  <2>10. CASE Finishes
    <3>1. ShapeOf(state')
      BY <1>0, <1>a, <2>10 DEF Finishes, SameSteps, ShapeOf, Batching
    <3> QED BY <1>t, <2>1, <2>2, <2>10, <3>1 DEF Shape, StepsAreTrue, Finishes
  <2> QED BY <1>2, <2>3, <2>4, <2>5, <2>6, <2>7, <2>8, <2>9, <2>10 DEF Extends
<1> QED BY <1>0, <1>1, <1>2 DEF Moves

\* Whose handle becomes open.
LEMMA OpeningIs ==
  ASSUME JInv, NEW p \in Procs, Step(p), NEW q \in Procs, handle'[q].open
  PROVE  handle[q].open \/ (q = p /\ Opens(p))
<1>1. CASE q # p
  BY Zenon, <1>1 DEF Step, Turn, Waits, Watches, Takes, Keeps, Ends, Lasts, Stays, Proves, Drops,
              Grants, Works, Records, HandleStays, HandleBecomes
<1>2. CASE q = p
  BY Zenon, <1>2 DEF Step, Turn, Waits, Watches, Takes, Keeps, Ends, Lasts, Stays, Proves, Drops,
              Grants, Works, Records, HandleStays, HandleBecomes
<1> QED BY <1>1, <1>2

LEMMA FilesKept ==
  ASSUME JInv, NEW p \in Procs, Step(p)
  PROVE  FileOK'
<1>0. World /\ Turn(p) /\ Moves(p) /\ FileOK /\ head \in Nat
      /\ file \in {"absent", "present", "unlinked"}
      /\ (head = 0 => state.kind = "NO_GENERATION")
  BY StateFields DEF Step, JInv, SafetyInv, Typed
<1>1. workdir' = "present" => file' = "present"
  BY <1>0 DEF World
<1>2. ASSUME file' = "absent"
      PROVE  head' = 0 /\ \A q \in Procs : ~handle'[q].open
  <2>1. file = "absent"
    BY <1>0, <1>2 DEF World, Unlinks
  <2>2. head = 0 /\ \A q \in Procs : ~handle[q].open
    BY <1>0, <2>1 DEF FileOK
  <2>3. head' = 0
    BY <1>0, <2>1, <2>2 DEF Moves, Same, Begins, Extends, FileOK
  <2>4. \A q \in Procs : ~handle'[q].open
    BY <2>1, <2>2, OpeningIs DEF Opens
  <2> QED BY <2>3, <2>4
<1>3. ASSUME file' = "unlinked"
      PROVE  head' = 0 \/ state'.nodep \/ state'.kind = "DONE"
  <2>1. CASE Unlinks
    BY <2>1 DEF Unlinks, Same
  <2>2. CASE file = "unlinked"
    <3>1. head = 0 \/ state.nodep \/ state.kind = "DONE"
      BY <1>0, <2>2 DEF FileOK
    <3>2. ~Begins(p)
      BY <1>0, <2>2 DEF Begins, FileOK
    <3>3. CASE Same
      BY <3>1, <3>3 DEF Same
    <3>4. CASE Extends(p)
      BY <3>1, <3>4 DEF Extends, Notes, Prepares, Activates, Admits, Goes, Completes, Rests,
                        Finishes, SameSteps, SameGen, Batching
    <3> QED BY <1>0, <3>2, <3>3, <3>4 DEF Moves
  <2> QED BY <1>0, <1>3, <2>1, <2>2 DEF World
<1>4. ASSUME NEW q \in Procs, call'[q].op = "create"
      PROVE  /\ q = Owner /\ file' = "present" /\ state'.kind = "NO_GENERATION"
             /\ \A r \in Procs : ~handle'[r].open
  <2>1. CASE q = p /\ Watches(p)
    <3>1. /\ p = Owner /\ file = "absent" /\ file' = "present" /\ Same /\ HandleStays(p)
      BY <1>4, <2>1 DEF Watches, CallBecomes
    <3>2. head = 0 /\ \A r \in Procs : ~handle[r].open
      BY <1>0, <3>1 DEF FileOK
    <3>3. \A r \in Procs : ~handle'[r].open
      BY <3>1, <3>2 DEF HandleStays, HandleBecomes
    <3> QED BY <1>0, <2>1, <3>1, <3>2, <3>3 DEF Same
  <2>2. CASE call[q].op = "create"
    <3>1. /\ q = Owner /\ file = "present" /\ state.kind = "NO_GENERATION"
          /\ \A r \in Procs : ~handle[r].open
      BY <1>0, <2>2 DEF FileOK
    <3>2. file' = "present"
      BY <1>0, <3>1 DEF World, Unlinks
    <3>3. state' = state
      BY <1>0, <3>1 DEF Moves, Same, Begins, Extends
    <3>4. state.gen = 0 /\ proc[Owner] = "running"
      BY <2>2, <3>1 DEF JInv, SafetyInv, Shape, ShapeOf, LockOK
    <3>5. ~Opens(p)
      <4>1. CASE p = Owner
        BY <1>4, <2>2, <3>1, <4>1 DEF Opens
      <4>2. CASE p # Owner
        <5>1. call[p].op # "create"
          BY <1>0, <4>2 DEF FileOK
        <5> QED BY <3>4, <4>2, <5>1 DEF Opens, MayOpen
      <4> QED BY <4>1, <4>2
    <3>6. \A r \in Procs : ~handle'[r].open
      BY <3>1, <3>5, OpeningIs
    <3> QED BY <3>1, <3>2, <3>3, <3>6
  <2>3. call[q].op = "create" \/ (q = p /\ Watches(p))
    BY <1>4, CallStepIs DEF Takes, Keeps, CallBecomes
  <2> QED BY <2>1, <2>2, <2>3
<1> QED BY <1>1, <1>2, <1>3, <1>4 DEF FileOK

----------------------------------------------------------------------------
LEMMA InitialSafety == Init => SafetyInv
<1> SUFFICES ASSUME Init PROVE SafetyInv
  OBVIOUS
<1>1. /\ file = "absent" /\ head = 0 /\ state = NoGeneration /\ synced = 0 /\ lock = None
      /\ workdir = "absent" /\ target = [x \in Executors |-> "none"]
      /\ proc = [p \in Procs |-> IF p \in Executors THEN "none" ELSE "running"]
      /\ handle = [p \in Procs |-> Closed] /\ call = [p \in Procs |-> Idle]
  BY DEF Init
<1>2. Typed
  BY <1>1, NoHandle DEF Typed, Life
<1>3. Shape /\ StepsAreTrue
  BY <1>1 DEF Shape, ShapeOf, StepsAreTrue, NoGeneration, Batching
<1>4. ASSUME NEW p \in Procs
      PROVE  handle[p] = Closed /\ call[p] = Idle /\ ~handle[p].open /\ ~HoldsToken(p)
             /\ handle[p].proof = NoProof /\ handle[p].token.pending = 0
  BY <1>1, <1>4, NoHandle DEF HoldsToken, NoToken
<1>5. ASSUME NEW p \in Procs
      PROVE  LockOK(p) /\ TokenOK(p) /\ ProofOK(p) /\ SuccessionOK(p) /\ SeenOK(p)
  BY <1>4, <1>5 DEF LockOK, TokenOK, ProofOK, SuccessionOK, SeenOK, Locking, Idle
<1>6. FileOK
  BY <1>1, <1>4 DEF FileOK, Idle
<1> QED BY <1>2, <1>3, <1>5, <1>6 DEF SafetyInv

LEMMA NextKeepsSafety == JInv /\ [Next]_vars => JInv'
<1> SUFFICES ASSUME JInv, [Next]_vars PROVE JInv'
  OBVIOUS
<1>1. ReserveInv'
  BY NextKeepsReserve DEF JInv
<1>2. PICK p \in Procs : Step(p)
  BY StepIs DEF Step
<1>3. ASSUME NEW q \in Procs
      PROVE  LockOK(q)' /\ TokenOK(q)' /\ ProofOK(q)' /\ SuccessionOK(q)' /\ SeenOK(q)'
  BY <1>2, LocksKept, TokensKept, ProofsKept, SuccessionsKept, SeenKept
<1>4. Typed' /\ Shape' /\ StepsAreTrue' /\ FileOK'
  BY <1>2, TypedKept, ShapeKept, FilesKept
<1> QED BY <1>1, <1>3, <1>4 DEF JInv, SafetyInv

\* Locks, tokens, proofs of reaping and the file system agree with the chain in
\* every reachable state, for any number of executors and claimants.
THEOREM SafetyInvariant == Spec => []JInv
<1>1. Init => JInv
  BY InitialReserve, InitialSafety DEF JInv
<1> QED BY <1>1, NextKeepsSafety, PTL DEF Spec

\* A batch token is good for as long as it is held: the lock is its process', and
\* the chain is at its batch, or at the record that completes it
\* (qg_journal_execute_batch and complete_batch compare nothing else).
THEOREM TokenCurrent == Spec => []TokenIsCurrent
<1>1. JInv => TokenIsCurrent
  BY DEF JInv, SafetyInv, LockOK, TokenOK, BatchOK, TokenIsCurrent, Procs
<1> QED BY <1>1, SafetyInvariant, PTL

\* The journal is there before the work directory, and says DONE only once the
\* directory is gone and the executor's child has been reaped.
THEOREM JournalBrackets == Spec => []JournalBracketsWorkdir
<1>1. JInv => JournalBracketsWorkdir
  BY DEF JInv, SafetyInv, FileOK, Shape, ShapeOf, StepsAreTrue, AllSteps,
         JournalBracketsWorkdir, JournalOutlivesWorkdir, DoneIsClean
<1> QED BY <1>1, SafetyInvariant, PTL

----------------------------------------------------------------------------
(* What a step may do.                                                     *)

\* A process in a step of a batch is the executor of the batch, for that step.
LEMMA EffectIs ==
  ASSUME JInv, NEW p \in Executors, call[p].op = "effect"
  PROVE  /\ state.kind \in Batching /\ state.ident = p /\ proc[p] = "running" /\ lock = p
         /\ state.batch <= synced /\ NextStep(p) \in (state.steps + 1)..state.upto
         /\ NextStep(p) >= 3 => target[p] = "reaped"
<1>1. HoldsToken(p) /\ handle[p].token.pending = 0 /\ lock = p /\ proc[p] = "running"
  BY DEF JInv, SafetyInv, LockOK, Procs
<1>2. BatchOK(p)
  BY <1>1 DEF JInv, SafetyInv, TokenOK, Procs
<1>3. handle[p].token.done \in Nat /\ state.steps \in Nat /\ state.upto \in Nat
  <2>1. handle[p].token \in Tokens /\ state \in LooseStates
    BY HandleFields, StateFields DEF JInv, SafetyInv, Procs
  <2> QED BY <2>1 DEF Tokens, LooseStates, AllSteps
<1>4. /\ state.steps <= handle[p].token.done /\ handle[p].token.done < state.upto
      /\ handle[p].token.done >= 2 => target[p] = "reaped"
  BY <1>2 DEF BatchOK
<1> QED BY <1>1, <1>2, <1>3, <1>4 DEF BatchOK, NextStep

\* Only the removal step removes the directory, and only the reaping step, of
\* processes that go on, reaps a child.
LEMMA RemovalIs ==
  ASSUME JInv, [Next]_vars, workdir = "present", workdir' = "absent"
  PROVE  \E p \in Executors : call[p].op = "effect" /\ NextStep(p) = 3
<1> USE DEF chain, world
<1> DEFINE Goal == \E p \in Executors : call[p].op = "effect" /\ NextStep(p) = 3
<1> SUFFICES Goal
  OBVIOUS
<1>1. ASSUME NEW p \in Executors, Execute(p) PROVE Goal
  BY <1>1 DEF Execute, BeginStep, ProcessAbsent, ReapTarget, RemoveWorkdir, TerminalChecks
<1>2. ASSUME NEW p \in Procs, Create(p) PROVE FALSE
  BY <1>2 DEF Create, OpenNew, WriteIntent, SyncIntent, Open, Close, Mkdir, BindWorkdir,
              CertifyExact, Fail, Prepare
<1>3. ASSUME NEW p \in Procs, Retire(p) \/ HandOver(p) \/ Delete(p) PROVE FALSE
  BY <1>3 DEF Retire, BeginRetirement, RecheckRetirement, AppendRetirement,
              ReplaceAuthority, ConfirmReaped, MarkUnconfirmed, HandOver, BeginReconcile,
              ReconcileInterrupted, BeginSuccession, PrepareSuccessor, Delete, NoIntent,
              NoDependentArtifact, CertifyNoDependent, MakeDeleteAuthority, Unlink,
              FinishDelete, ReconcileAbsent
<1>4. ASSUME NEW p \in Procs,
             ShortWrite(p) \/ Exit(p) \/ ObserveExecutor(p) \/ Activate(p)
      PROVE  FALSE
  BY <1>4 DEF ShortWrite, Exit, ObserveExecutor, Activate
<1>5. ASSUME NEW p \in Executors, Batch(p) \/ Spawn(p) \/ TargetExits(p) PROVE FALSE
  BY <1>5 DEF Batch, AdmitBatch, GrantToken, BeginCompletion, AppendCompletion,
              FinishCompletion, AbandonBatch, FinishDone, Spawn, TargetExits
<1>6. ~Expire /\ ~UNCHANGED vars
  BY DEF Expire, vars
<1> HIDE DEF Goal
<1> QED BY <1>1, <1>2, <1>3, <1>4, <1>5, <1>6 DEF Next

LEMMA ReapingIs ==
  ASSUME JInv, [Next]_vars, NEW x \in Executors, target[x] = "zombie", target'[x] = "reaped",
         proc'[x] = "running"
  PROVE  call[x].op = "effect" /\ NextStep(x) = 2
<1> USE DEF chain, world
<1> DEFINE Goal == call[x].op = "effect" /\ NextStep(x) = 2
<1> SUFFICES Goal
  OBVIOUS
<1>0. Typed /\ x \in Procs
  BY DEF JInv, SafetyInv, Procs
<1>1. ASSUME NEW p \in Executors, Execute(p) PROVE Goal
  <2>1. CASE ReapTarget(p)
    BY <1>0, <2>1 DEF ReapTarget, Typed
  <2>2. ~(BeginStep(p) \/ ProcessAbsent(p) \/ RemoveWorkdir(p) \/ TerminalChecks(p))
    BY DEF BeginStep, ProcessAbsent, RemoveWorkdir, TerminalChecks
  <2> QED BY <1>1, <2>1, <2>2 DEF Execute
<1>2. ASSUME NEW p \in Procs, Create(p) PROVE FALSE
  BY <1>2 DEF Create, OpenNew, WriteIntent, SyncIntent, Open, Close, Mkdir, BindWorkdir,
              CertifyExact, Fail, Prepare
<1>3. ASSUME NEW p \in Procs, Retire(p) \/ HandOver(p) \/ Delete(p) PROVE FALSE
  BY Zenon, <1>3 DEF Retire, BeginRetirement, RecheckRetirement, AppendRetirement,
              ReplaceAuthority, ConfirmReaped, MarkUnconfirmed, HandOver, BeginReconcile,
              ReconcileInterrupted, BeginSuccession, PrepareSuccessor, Delete, NoIntent,
              NoDependentArtifact, CertifyNoDependent, MakeDeleteAuthority, Unlink,
              FinishDelete, ReconcileAbsent
<1>4. ASSUME NEW p \in Procs, ShortWrite(p) \/ ObserveExecutor(p) \/ Activate(p)
      PROVE  FALSE
  BY <1>4 DEF ShortWrite, ObserveExecutor, Activate
<1>5. ASSUME NEW p \in Procs, Exit(p) PROVE FALSE
  BY <1>0, <1>5 DEF Exit
<1>6. ASSUME NEW p \in Executors, Batch(p) PROVE FALSE
  BY Zenon, <1>6 DEF Batch, AdmitBatch, GrantToken, BeginCompletion, AppendCompletion,
              FinishCompletion, AbandonBatch, FinishDone
<1>7. ASSUME NEW p \in Executors, Spawn(p) \/ TargetExits(p) PROVE FALSE
  BY <1>0, <1>7 DEF Spawn, TargetExits, Typed
<1>8. ~Expire /\ ~UNCHANGED vars
  BY DEF Expire, vars
<1> HIDE DEF Goal
<1> QED BY <1>1, <1>2, <1>3, <1>4, <1>5, <1>6, <1>7, <1>8 DEF Next

\* Who is on record for a generation that ends has been reaped.
LEMMA SuccessionIs ==
  ASSUME JInv, NEW p \in Procs, Moves(p), state.gen > 0, state'.gen > state.gen
  PROVE  proc[state.ident] = "reaped"
<1>1. state.gen \in Nat /\ (state.kind = "NO_GENERATION" => state.gen = 0)
  BY StateFields DEF JInv, LooseStates, SafetyInv, Shape, ShapeOf
<1>2. Prepares
  BY <1>1 DEF Moves, Same, Begins, Extends, Notes, Activates, Admits, Goes, Completes,
              Rests, Finishes, SameSteps, SameGen
<1> QED BY <1>1, <1>2 DEF Prepares

LEMMA DeletionIs ==
  ASSUME JInv, NEW p \in Procs, Unlink(p), state.kind = "DONE"
  PROVE  proc[state.ident] = "reaped"
<1>1. head = 0 \/ state.nodep \/ DoneAuthority(p)
  BY AuthorityIs DEF Unlink
<1>2. head # 0 /\ ~state.nodep
  BY StateFields DEF JInv, Consistent
<1>3. handle[p].proof # NoProof /\ handle[p].proof.head = head
  BY <1>1, <1>2 DEF DoneAuthority
<1> QED BY <1>3 DEF JInv, SafetyInv, ProofOK

LEMMA UnlinkingIs ==
  ASSUME JInv, [Next]_vars, file' = "unlinked", file # file'
  PROVE  \E p \in Procs : Unlink(p)
<1> USE DEF chain, world
<1> DEFINE Goal == \E p \in Procs : Unlink(p)
<1> SUFFICES Goal
  OBVIOUS
<1>1. ASSUME NEW p \in Executors, Execute(p) \/ Batch(p) \/ Spawn(p) \/ TargetExits(p)
      PROVE  FALSE
  BY Zenon, <1>1 DEF Execute, BeginStep, ProcessAbsent, ReapTarget, RemoveWorkdir, TerminalChecks,
              Batch, AdmitBatch, GrantToken, BeginCompletion, AppendCompletion,
              FinishCompletion, AbandonBatch, FinishDone, Spawn, TargetExits
<1>2. ASSUME NEW p \in Procs, Create(p) PROVE FALSE
  BY <1>2 DEF Create, OpenNew, WriteIntent, SyncIntent, Open, Close, Mkdir, BindWorkdir,
              CertifyExact, Fail, Prepare
<1>3. ASSUME NEW p \in Procs, Retire(p) \/ HandOver(p) PROVE FALSE
  BY Zenon, <1>3 DEF Retire, BeginRetirement, RecheckRetirement, AppendRetirement,
              ReplaceAuthority, ConfirmReaped, MarkUnconfirmed, HandOver, BeginReconcile,
              ReconcileInterrupted, BeginSuccession, PrepareSuccessor
<1>4. ASSUME NEW p \in Procs, Delete(p) PROVE Goal
  BY <1>4 DEF Delete, NoIntent, NoDependentArtifact, CertifyNoDependent,
              MakeDeleteAuthority, FinishDelete, ReconcileAbsent
<1>5. ASSUME NEW p \in Procs,
             ShortWrite(p) \/ Exit(p) \/ ObserveExecutor(p) \/ Activate(p)
      PROVE  FALSE
  BY <1>5 DEF ShortWrite, Exit, ObserveExecutor, Activate
<1>6. ~Expire /\ ~UNCHANGED vars
  BY DEF Expire, vars
<1> HIDE DEF Goal
<1> QED BY <1>1, <1>2, <1>3, <1>4, <1>5, <1>6 DEF Next

\* No process reaps a child, removes the directory, prepares a successor or
\* deletes the journal but on the authority of the chain, on disk: across
\* crashes, retirements, successors and interrupted batches.
THEOREM StepsAuthorised == Spec => StepsAreAuthorised
<1>1. ASSUME JInv, [Next]_vars
      PROVE  EffectsAreAuthorised
  <2>1. ASSUME workdir = "present", workdir' = "absent"
        PROVE  /\ state.kind \in Batching /\ proc[state.ident] = "running"
               /\ lock = state.ident /\ state.batch <= synced
               /\ 3 \in (state.steps + 1)..state.upto /\ target[state.ident] = "reaped"
    <3>1. PICK p \in Executors : call[p].op = "effect" /\ NextStep(p) = 3
      BY <1>1, <2>1, RemovalIs
    <3> QED BY <1>1, <3>1, EffectIs
  <2>2. ASSUME NEW x \in Executors, target[x] = "zombie", target'[x] = "reaped",
               proc'[x] = "running"
        PROVE  /\ state.kind \in Batching /\ state.ident = x /\ proc[x] = "running"
               /\ lock = x /\ state.batch <= synced /\ 2 \in (state.steps + 1)..state.upto
    <3>1. call[x].op = "effect" /\ NextStep(x) = 2
      BY <1>1, <2>2, ReapingIs
    <3> QED BY <1>1, <3>1, EffectIs
  <2> QED BY <2>1, <2>2 DEF EffectsAreAuthorised
<1>2. ASSUME JInv, [Next]_vars
      PROVE  HandOverAfterReap
  <2>1. ASSUME state.gen > 0, state'.gen > state.gen
        PROVE  proc[state.ident] = "reaped"
    BY <1>2, <2>1, StepIs, SuccessionIs
  <2>2. ASSUME file' = "unlinked", file # file', state.kind = "DONE"
        PROVE  proc[state.ident] = "reaped"
    BY <1>2, <2>2, UnlinkingIs, DeletionIs
  <2> QED BY <2>1, <2>2 DEF HandOverAfterReap
<1>3. JInv /\ [Next]_vars => [EffectsAreAuthorised /\ HandOverAfterReap]_vars
  BY <1>1, <1>2
<1> QED BY <1>3, SafetyInvariant, PTL DEF Spec, StepsAreAuthorised

=============================================================================
