--------------------------- MODULE LifecycleJournal ---------------------------
(***************************************************************************)
(* The allocation journal of native/lifecycle.c: the append-only file that *)
(* decides which process may clean up after a Claude CLI, and the calls    *)
(* processes make on it.  The owner (the proxy server) creates journal and *)
(* work directory and spawns an executor (the supervisor, later perhaps a  *)
(* successor); the executor reaps its own target (the anchor) and removes  *)
(* the directory in batches; anyone with a handle may retire an executor   *)
(* whose time is up.  Processes die at any point, the file system stays.   *)
(*                                                                         *)
(* A record is known by its position in the canonical chain, which stands  *)
(* for its hash and for the nonce of the batch it admits; state is what    *)
(* lifecycle_apply makes of the chain.  The four clean-up steps are always *)
(* completed in one order (process absent, reaped, directory removed,      *)
(* terminal checks), so that a set of completed steps is a number 0..4.    *)
(* Each process has one handle and uses it from one thread.  An executor   *)
(* is known by its process; ident is the identity recorded at activation.  *)
(***************************************************************************)
EXTENDS Integers

CONSTANTS
  Owner,        \* the process that creates the allocation
  Executors,    \* its children: each may become the executor once
  Claimants,    \* other processes that may open the journal
  None,
  RecordBytes,  \* length of a canonical record
  TornBytes,    \* length of a write that was cut short
  NormalLimit,  \* where the recovery tail of the file begins
  MaxTorn       \* bound on the writes that are cut short

Procs == {Owner} \cup Executors \cup Claimants

ASSUME ProcsAssumption ==
  /\ Owner \notin Executors \cup Claimants /\ None \notin Procs
  /\ Executors \cap Claimants = {}
ASSUME SizesAssumption ==
  /\ RecordBytes \in Nat \ {0} /\ TornBytes \in Nat \ {0} /\ TornBytes < RecordBytes
  /\ NormalLimit \in Nat /\ NormalLimit >= RecordBytes /\ MaxTorn \in Nat

VARIABLES
  file,     \* the journal's directory entry: absent, present or unlinked
  eof,      \* its length
  head,     \* records in the canonical chain; the intent is the first
  state,    \* canonical state
  due,      \* the deadline that governs the canonical state has passed
  synced,   \* history: the longest chain that F_FULLFSYNC has covered
  torn,     \* history: writes cut short
  lock,     \* who has the action lock (flock and mutex)
  workdir,  \* the directory entry: absent or present
  proc,     \* none, running, zombie or reaped
  target,   \* the same for each executor's child
  handle,   \* what each process' journal handle holds
  call      \* the call each process is in

vars == <<file, eof, head, state, due, synced, torn, lock, workdir, proc,
          target, handle, call>>
chain == <<eof, head, state, due, torn>>
world == <<workdir, proc, target>>

Kinds == {"NO_GENERATION", "PREPARED", "ACTIVE_READY", "BATCH_ACTIVE",
          "RETIRING_IDLE", "RETIRING_BATCH", "DONE", "UNCONFIRMED"}
Batching == {"BATCH_ACTIVE", "RETIRING_BATCH"}
Retiring == {"RETIRING_IDLE", "RETIRING_BATCH"}
Terminal == {"DONE", "UNCONFIRMED"}
AllSteps == 4

\* The recovery tail: five records of handoff, two for each clean-up step,
\* one terminal record.
RecoveryRecords == 5 + 2 * AllSteps + 1
HardLimit == NormalLimit + RecoveryRecords * RecordBytes

NoGeneration ==
  [kind |-> "NO_GENERATION", gen |-> 0, epoch |-> 0, actor |-> None,
   ident |-> None, steps |-> 0, upto |-> 0, batch |-> 0,
   bound |-> FALSE, nodep |-> FALSE]
NoToken == [batch |-> 0, first |-> 0, done |-> 0, executed |-> FALSE,
            started |-> FALSE, pending |-> 0]
NoProof == [gen |-> 0, epoch |-> 0, ident |-> None, head |-> 0]
NoAuth == [kind |-> None, head |-> 0]
Closed == [open |-> FALSE, healthy |-> TRUE, receipt |-> FALSE,
           token |-> NoToken, proof |-> NoProof, auth |-> NoAuth]
Opened == [Closed EXCEPT !.open = TRUE]
Idle == [op |-> "idle", head |-> 0, seen |-> NoGeneration]

Init ==
  /\ file = "absent" /\ eof = 0 /\ head = 0 /\ state = NoGeneration
  /\ due = FALSE /\ synced = 0 /\ torn = 0 /\ lock = None
  /\ workdir = "absent"
  /\ proc = [p \in Procs |-> IF p \in Executors THEN "none" ELSE "running"]
  /\ target = [x \in Executors |-> "none"]
  /\ handle = [p \in Procs |-> Closed]
  /\ call = [p \in Procs |-> Idle]

----------------------------------------------------------------------------
(* The transition function: which record extends the chain, and to what.   *)

Record(kind) ==
  [kind |-> kind, gen |-> state.gen, epoch |-> state.epoch,
   actor |-> state.actor, steps |-> state.steps, upto |-> 0,
   batch |-> state.batch, outcome |-> "NONE"]

Legal(s, r) ==
  /\ s.kind \notin Terminal
  /\ CASE r.kind = "WORKDIR_BOUND" -> s.kind = "NO_GENERATION" /\ ~s.bound
       [] r.kind = "NO_DEPENDENT_ARTIFACT" ->
            s.kind = "NO_GENERATION" /\ ~s.bound /\ ~s.nodep
       [] r.kind = "PREPARED" ->
            /\ r.gen > 0 /\ s.bound /\ ~s.nodep
            /\ \/ s.kind = "NO_GENERATION"
               \/ s.kind = "RETIRING_IDLE" /\ r.gen = s.gen + 1
       [] r.kind = "ACTIVE_READY" ->
            s.kind = "PREPARED" /\ r.gen = s.gen /\ r.actor = s.actor
       [] r.kind = "BATCH_ACTIVE" ->
            /\ s.kind = "ACTIVE_READY" /\ r.gen = s.gen /\ r.actor = s.actor
            /\ r.steps = s.steps /\ r.upto \in (s.steps + 1)..AllSteps
       [] r.kind = "BATCH_DONE" ->
            /\ r.gen = s.gen /\ r.actor = s.actor /\ r.batch = s.batch
            /\ \/ s.kind = "BATCH_ACTIVE" /\ r.outcome = "NONE" /\ r.steps = s.upto
               \/ /\ s.kind = "RETIRING_BATCH"
                  /\ \/ r.outcome = "COMPLETED" /\ r.steps = s.upto
                     \/ r.outcome = "INTERRUPTED" /\ r.steps = s.steps
       [] r.kind = "RETIRING_IDLE" ->
            /\ s.kind \in {"PREPARED", "ACTIVE_READY"} /\ r.gen = s.gen
            /\ s.epoch = 0 /\ r.epoch = 1 /\ r.actor = s.actor
       [] r.kind = "RETIRING_BATCH" ->
            /\ s.kind = "BATCH_ACTIVE" /\ r.gen = s.gen /\ r.actor = s.actor
            /\ s.epoch = 0 /\ r.epoch = 1 /\ r.batch = s.batch
       [] r.kind = "REPLACE_AUTHORITY" ->
            s.kind \in Retiring /\ s.epoch = 1 /\ r.epoch = 2
       [] r.kind = "DONE" ->
            /\ s.kind = "ACTIVE_READY" /\ r.gen = s.gen /\ r.actor = s.actor
            /\ s.steps = AllSteps
       [] r.kind = "UNCONFIRMED" -> TRUE

Applied(s, r) ==
  CASE r.kind = "WORKDIR_BOUND" -> [s EXCEPT !.bound = TRUE]
    [] r.kind = "NO_DEPENDENT_ARTIFACT" -> [s EXCEPT !.nodep = TRUE]
    [] r.kind = "PREPARED" ->
         [s EXCEPT !.kind = "PREPARED", !.gen = r.gen, !.epoch = r.epoch,
                   !.actor = r.actor, !.ident = None, !.steps = 0,
                   !.upto = 0, !.batch = 0]
    [] r.kind = "ACTIVE_READY" ->
         [s EXCEPT !.kind = "ACTIVE_READY", !.epoch = r.epoch,
                   !.ident = r.actor, !.steps = 0]
    [] r.kind = "BATCH_ACTIVE" ->
         [s EXCEPT !.kind = "BATCH_ACTIVE", !.upto = r.upto, !.batch = r.batch]
    [] r.kind = "BATCH_DONE" ->
         [s EXCEPT !.kind = IF s.kind = "BATCH_ACTIVE" THEN "ACTIVE_READY"
                                                       ELSE "RETIRING_IDLE",
                   !.steps = r.steps, !.upto = 0, !.batch = 0]
    [] r.kind = "RETIRING_IDLE" ->
         [s EXCEPT !.kind = "RETIRING_IDLE", !.epoch = r.epoch]
    [] r.kind = "RETIRING_BATCH" ->
         [s EXCEPT !.kind = "RETIRING_BATCH", !.epoch = r.epoch]
    [] r.kind = "REPLACE_AUTHORITY" -> [s EXCEPT !.epoch = r.epoch]
    [] r.kind = "DONE" -> [s EXCEPT !.kind = "DONE"]
    [] r.kind = "UNCONFIRMED" -> [s EXCEPT !.kind = "UNCONFIRMED"]

\* Deadlines: an executor acts before its own, a reconciler after it.
InTime(r) ==
  CASE r.kind \in {"ACTIVE_READY", "BATCH_ACTIVE"} -> ~due
    [] r.kind \in {"RETIRING_IDLE", "RETIRING_BATCH", "REPLACE_AUTHORITY"} -> due
    [] OTHER -> TRUE

RecoveryAllowed(s, r) ==
  \/ r.kind \in {"RETIRING_IDLE", "RETIRING_BATCH", "BATCH_DONE", "UNCONFIRMED",
                 "REPLACE_AUTHORITY", "NO_DEPENDENT_ARTIFACT"}
  \/ r.epoch # 0 /\ r.kind \in {"ACTIVE_READY", "BATCH_ACTIVE", "DONE"}
  \/ r.kind = "PREPARED" /\ s.kind = "RETIRING_IDLE"

\* Wrong: the end of the record is not counted.
Fits_Late(class) == eof <= IF class = "NORMAL" THEN NormalLimit ELSE HardLimit - RecordBytes

Fits(class) == eof + RecordBytes <= IF class = "NORMAL" THEN NormalLimit ELSE HardLimit

\* A handle that had a short write, or a file without room for one more
\* record, certifies nothing and appends nothing.
Healthy(p) ==
  /\ handle[p].open /\ handle[p].healthy
  /\ state.kind = "DONE" \/ eof + RecordBytes <= HardLimit

Append(p, r, class) ==
  /\ Healthy(p) /\ head > 0
  /\ InTime(r) /\ Legal(state, r)
  /\ class = "RECOVERY" => RecoveryAllowed(state, r)
  /\ Fits(class)
  /\ state' = Applied(state, r)
  /\ head' = head + 1
  /\ eof' = eof + RecordBytes
  /\ due' = (due /\ r.kind \in {"BATCH_ACTIVE", "BATCH_DONE"})
  /\ UNCHANGED torn

ClassOf(epoch) == IF epoch = 0 THEN "NORMAL" ELSE "RECOVERY"

\* Wrong: two equal scans are enough.
Certify_Unsynced(p) == Healthy(p) /\ UNCHANGED synced
\* F_FULLFSYNC between two equal scans.
Certify(p) == Healthy(p) /\ synced' = head

Running(p) == proc[p] = "running" /\ call[p] = Idle
Ready(p) == Running(p) /\ handle[p].open
HoldsToken(p) == handle[p].token # NoToken
Enters(p, op) == call' = [call EXCEPT ![p] = [op |-> op, head |-> head, seen |-> state]]
\* ... and will certify the record it appends in this step.
Appends(p, op) == call' = [call EXCEPT ![p] = [op |-> op, head |-> head + 1, seen |-> state]]
Returns(p) == call' = [call EXCEPT ![p] = Idle]
\* Wrong: the lock of another process does not stop this one.
LockFree_Shared(p) == lock # p
LockFree(p) == lock = None
Locks(p) == LockFree(p) /\ lock' = p
Unlocks(p) == lock' = IF lock = p THEN None ELSE lock

\* Wrong: the name is not looked up.
WorkdirAbsent_Unchecked == TRUE
WorkdirAbsent == workdir = "absent"

----------------------------------------------------------------------------
(* Creation: the journal before the directory, the directory before the    *)
(* first executor.                                                         *)

OpenNew(p) ==
  /\ p = Owner /\ Running(p) /\ file = "absent"
  /\ file' = "present"
  /\ Enters(p, "create")
  /\ UNCHANGED <<chain, synced, lock, world, handle>>

WriteIntent(p) ==
  /\ call[p].op = "create" /\ head = 0
  /\ head' = 1 /\ eof' = eof + RecordBytes
  /\ call' = [call EXCEPT ![p].head = 1]
  /\ UNCHANGED <<file, state, due, torn, synced, lock, world, handle>>

SyncIntent(p) ==
  /\ call[p].op = "create" /\ call[p].head = 1
  /\ synced' = head
  /\ handle' = [handle EXCEPT ![p] = [Opened EXCEPT !.receipt = TRUE]]
  /\ Returns(p)
  /\ UNCHANGED <<file, chain, lock, world>>

\* Only processes that are told of the journal open it: the owner again,
\* its executors, and others once there is a generation or no owner.
MayOpen(p) ==
  \/ p = Owner
  \/ state.gen > 0
  \/ p \in Claimants /\ proc[Owner] # "running"

Open(p) ==
  /\ Running(p) /\ ~handle[p].open
  /\ file = "present" /\ MayOpen(p)
  /\ handle' = [handle EXCEPT ![p] = Opened]
  /\ UNCHANGED <<file, chain, synced, lock, world, call>>

Close(p) ==
  /\ Ready(p) /\ ~HoldsToken(p)
  /\ handle' = [handle EXCEPT ![p] = Closed]
  /\ UNCHANGED <<file, chain, synced, lock, world, call>>

Mkdir(p) ==
  /\ Ready(p) /\ handle[p].receipt /\ Locks(p) /\ Certify(p)
  /\ head = 1 /\ state.kind = "NO_GENERATION" /\ ~state.bound
  /\ WorkdirAbsent /\ workdir' = "present"
  /\ Enters(p, "mkdir")
  /\ UNCHANGED <<file, chain, proc, target, handle>>

BindWorkdir(p) ==
  /\ call[p].op = "mkdir"
  /\ Append(p, Record("WORKDIR_BOUND"), "NORMAL")
  /\ Appends(p, "certify")
  /\ UNCHANGED <<file, synced, lock, world, handle>>

\* The one record that is appended without the action lock, by append().
Prepare(p, x) ==
  /\ p = Owner /\ Ready(p) /\ state.kind = "NO_GENERATION" /\ proc[x] = "none"
  /\ Append(p, [Record("PREPARED") EXCEPT !.gen = 1, !.actor = x], "NORMAL")
  /\ UNCHANGED <<file, synced, lock, world, handle, call>>

\* The calls that append a record and certify it end here; what was appended
\* is in the chain even when they fail.
CertifyExact(p) ==
  /\ call[p].op = "certify"
  /\ Certify(p) /\ head = call[p].head
  /\ Unlocks(p) /\ Returns(p)
  /\ UNCHANGED <<file, chain, world, handle>>

\* A call returns an error: its deadline, a system call, a lost comparison.
\* The action lock stays taken only for a token.
Fail(p) ==
  /\ call[p] # Idle /\ proc[p] = "running"
  /\ IF HoldsToken(p) THEN UNCHANGED lock ELSE Unlocks(p)
  /\ Returns(p)
  /\ UNCHANGED <<file, chain, synced, world, handle>>

----------------------------------------------------------------------------
(* The executor.                                                           *)

ObserveExecutor(p) ==
  /\ Ready(p) /\ state.kind = "PREPARED"
  /\ p \in {Owner, state.actor} /\ proc[state.actor] = "running"
  /\ Enters(p, "activate")
  /\ UNCHANGED <<file, chain, synced, lock, world, handle>>

Activate(p) ==
  /\ call[p].op = "activate" /\ Locks(p)
  /\ state.kind = "PREPARED" /\ state.gen = call[p].seen.gen
  /\ state.actor = call[p].seen.actor
  /\ Append(p, Record("ACTIVE_READY"), ClassOf(state.epoch))
  /\ Appends(p, "certify")
  /\ UNCHANGED <<file, synced, world, handle>>

AdmitBatch(p, upto) ==
  /\ Ready(p) /\ Locks(p)
  /\ state.kind = "ACTIVE_READY" /\ state.actor = p /\ state.ident = p
  /\ Append(p, [Record("BATCH_ACTIVE") EXCEPT !.upto = upto, !.batch = head + 1],
            ClassOf(state.epoch))
  /\ Appends(p, "admit")
  /\ UNCHANGED <<file, synced, world, handle>>

\* The lock stays with the token.
GrantToken(p) ==
  /\ call[p].op = "admit" /\ Certify(p)
  /\ state.kind \in Batching /\ state.batch = call[p].head
  /\ handle' = [handle EXCEPT ![p].token =
       [NoToken EXCEPT !.batch = state.batch,
                       !.first = state.steps, !.done = state.steps]]
  /\ Returns(p)
  /\ UNCHANGED <<file, chain, lock, world>>

CertifiedBatch(p) ==
  /\ Certify(p)
  /\ state.kind \in Batching /\ state.batch = handle[p].token.batch

\* execute_batch certifies before each step ...
BeginStep(p) ==
  /\ Ready(p) /\ HoldsToken(p) /\ ~handle[p].token.executed
  /\ CertifiedBatch(p)
  /\ IF handle[p].token.done = state.upto
       THEN /\ handle' = [handle EXCEPT ![p].token.executed = TRUE]
            /\ UNCHANGED call
       ELSE Enters(p, "effect") /\ UNCHANGED handle
  /\ UNCHANGED <<file, chain, lock, world>>

\* Wrong: seeing the process absent is taken for having reaped it.
NextStep_SkipsReap(p) == IF handle[p].token.done = 1 THEN 3 ELSE handle[p].token.done + 1
NextStep(p) == handle[p].token.done + 1

StepDone(p, started) ==
  /\ handle' = [handle EXCEPT ![p].token.done = NextStep(p),
                              ![p].token.started = @ \/ started]
  /\ Returns(p)
\* The step had begun, and is tried again by the next execute_batch.
StepFails(p) ==
  /\ handle' = [handle EXCEPT ![p].token.started = TRUE]
  /\ Returns(p)

\* ... and then does it.  A removal whose fsync fails has removed.
ProcessAbsent(p) ==
  /\ call[p].op = "effect" /\ NextStep(p) = 1
  /\ target[p] \in {"zombie", "reaped"}
  /\ StepDone(p, FALSE)
  /\ UNCHANGED <<file, chain, synced, lock, world>>

ReapTarget(p) ==
  /\ call[p].op = "effect" /\ NextStep(p) = 2
  /\ IF target[p] = "zombie"
       THEN target' = [target EXCEPT ![p] = "reaped"] /\ StepDone(p, TRUE)
       ELSE StepFails(p) /\ UNCHANGED target
  /\ UNCHANGED <<file, chain, synced, lock, workdir, proc>>

RemoveWorkdir(p) ==
  /\ call[p].op = "effect" /\ NextStep(p) = 3 /\ state.bound
  /\ \/ workdir' = "absent" /\ (StepDone(p, TRUE) \/ StepFails(p))
     \/ workdir = "present" /\ UNCHANGED workdir /\ StepFails(p)
  /\ UNCHANGED <<file, chain, synced, lock, proc, target>>

TerminalChecks(p) ==
  /\ call[p].op = "effect" /\ NextStep(p) = 4
  /\ WorkdirAbsent /\ StepDone(p, FALSE)
  /\ UNCHANGED <<file, chain, synced, lock, world>>

\* complete_batch: the record follows the state it has certified, the
\* retirement of the batch may come between.
BeginCompletion(p) ==
  /\ Ready(p) /\ handle[p].token.executed /\ handle[p].token.pending = 0
  /\ CertifiedBatch(p)
  /\ Enters(p, "complete")
  /\ UNCHANGED <<file, chain, lock, world, handle>>

AppendCompletion(p) ==
  LET seen == call[p].seen
      retired == seen.kind = "RETIRING_BATCH" IN
  /\ call[p].op = "complete"
  /\ Append(p, [Record("BATCH_DONE") EXCEPT
                  !.gen = seen.gen, !.epoch = seen.epoch, !.actor = seen.actor,
                  !.batch = handle[p].token.batch, !.steps = handle[p].token.done,
                  !.outcome = IF retired THEN "COMPLETED" ELSE "NONE"],
            IF retired THEN "RECOVERY" ELSE ClassOf(seen.epoch))
  /\ handle' = [handle EXCEPT ![p].token.pending = head + 1]
  /\ Appends(p, "completed")
  /\ UNCHANGED <<file, synced, lock, world>>

\* Now or when a later complete_batch finds the completion pending.
FinishCompletion(p) ==
  /\ proc[p] = "running" /\ call[p].op \in {"completed", "idle"}
  /\ handle[p].token.pending # 0 /\ Certify(p)
  /\ head = handle[p].token.pending
  /\ handle' = [handle EXCEPT ![p].token = NoToken]
  /\ Unlocks(p) /\ Returns(p)
  /\ UNCHANGED <<file, chain, world>>

AbandonBatch(p) ==
  /\ Ready(p) /\ HoldsToken(p)
  /\ ~handle[p].token.executed /\ ~handle[p].token.started
  /\ handle[p].token.done = handle[p].token.first
  /\ handle' = [handle EXCEPT ![p].token = NoToken]
  /\ Unlocks(p)
  /\ UNCHANGED <<file, chain, synced, world, call>>

FinishDone(p) ==
  /\ Ready(p) /\ Locks(p)
  /\ state.kind = "ACTIVE_READY" /\ state.actor = p /\ state.ident = p
  /\ state.steps = AllSteps
  /\ Append(p, Record("DONE"), ClassOf(state.epoch))
  /\ Appends(p, "certify")
  /\ UNCHANGED <<file, synced, world, handle>>

----------------------------------------------------------------------------
(* Retirement and hand-over.                                               *)

BeginRetirement(p) ==
  /\ Ready(p)
  /\ state.kind \in {"PREPARED", "ACTIVE_READY", "BATCH_ACTIVE"} /\ due
  /\ Enters(p, "retire")
  /\ UNCHANGED <<file, chain, synced, lock, world, handle>>

\* An admitted batch has the action lock, and is retired without it.
RetiresUnlocked(s) == s.kind = "BATCH_ACTIVE"

RecheckRetirement(p) ==
  /\ call[p].op = "retire" /\ head = call[p].head /\ due
  /\ IF RetiresUnlocked(call[p].seen) THEN UNCHANGED lock ELSE Locks(p)
  /\ Enters(p, "retiring")
  /\ UNCHANGED <<file, chain, synced, world, handle>>

AppendRetirement(p) ==
  LET seen == call[p].seen
      kind == IF seen.kind = "BATCH_ACTIVE" THEN "RETIRING_BATCH" ELSE "RETIRING_IDLE" IN
  /\ call[p].op = "retiring"
  /\ Append(p, [Record(kind) EXCEPT !.gen = seen.gen, !.epoch = 1,
                                    !.actor = seen.actor, !.batch = seen.batch],
            "RECOVERY")
  /\ IF RetiresUnlocked(seen) THEN UNCHANGED lock ELSE Unlocks(p)
  /\ Returns(p)
  /\ UNCHANGED <<file, synced, world, handle>>

ReplaceAuthority(p) ==
  /\ Ready(p) /\ LockFree(p)
  /\ state.kind \in Retiring /\ state.epoch = 1 /\ due
  /\ Append(p, [Record("REPLACE_AUTHORITY") EXCEPT !.epoch = 2], "RECOVERY")
  /\ UNCHANGED <<file, synced, lock, world, handle, call>>

\* waitpid answers a parent once its child has ended.
Reapable(p, x) == p = Owner /\ proc[x] = "zombie"

ConfirmReaped(p) ==
  /\ Ready(p) /\ LockFree(p) /\ Certify(p)
  /\ state.ident # None /\ handle[p].proof = NoProof
  /\ state.kind \in {"DONE"} \cup Retiring
  /\ Reapable(p, state.ident)
  /\ proc' = [proc EXCEPT ![state.ident] = "reaped"]
  /\ handle' = [handle EXCEPT ![p].proof =
       [gen |-> state.gen, epoch |-> state.epoch, ident |-> state.ident,
        head |-> head]]
  /\ UNCHANGED <<file, chain, lock, workdir, target, call>>

\* Wrong: an identity on record is taken for a proof.
ValidReapProof_Recorded(proof, s) == s.ident # None
ValidReapProof(proof, s) ==
  /\ proof # NoProof
  /\ proof.gen = s.gen /\ proof.epoch = s.epoch /\ proof.ident = s.ident

\* Both calls check the proof on a scan made before they have the lock.
BeginReconcile(p) ==
  /\ Ready(p) /\ state.kind = "RETIRING_BATCH"
  /\ ValidReapProof(handle[p].proof, state)
  /\ Enters(p, "reconcile")
  /\ UNCHANGED <<file, chain, synced, lock, world, handle>>

ReconcileInterrupted(p) ==
  LET seen == call[p].seen IN
  /\ call[p].op = "reconcile" /\ LockFree(p)
  /\ Append(p, [Record("BATCH_DONE") EXCEPT
                  !.gen = seen.gen, !.epoch = seen.epoch, !.actor = seen.actor,
                  !.batch = seen.batch, !.steps = seen.steps,
                  !.outcome = "INTERRUPTED"], "RECOVERY")
  /\ Returns(p)
  /\ UNCHANGED <<file, synced, lock, world, handle>>

BeginSuccession(p) ==
  /\ Ready(p) /\ state.kind = "RETIRING_IDLE"
  /\ ValidReapProof(handle[p].proof, state)
  /\ Enters(p, "succeed")
  /\ UNCHANGED <<file, chain, synced, lock, world, handle>>

PrepareSuccessor(p, x) ==
  LET seen == call[p].seen IN
  /\ call[p].op = "succeed" /\ LockFree(p) /\ proc[x] = "none"
  /\ Append(p, [Record("PREPARED") EXCEPT !.gen = seen.gen + 1,
                                          !.epoch = seen.epoch, !.actor = x],
            "RECOVERY")
  /\ Returns(p)
  /\ UNCHANGED <<file, synced, lock, world, handle>>

MarkUnconfirmed(p) ==
  /\ Ready(p) /\ LockFree(p) /\ ~HoldsToken(p) /\ Certify(p)
  /\ state.kind \notin Batching
  /\ Append(p, Record("UNCONFIRMED"), "RECOVERY")
  /\ UNCHANGED <<file, lock, world, handle, call>>

----------------------------------------------------------------------------
(* Deletion.                                                               *)

GrantsAuthority(p, kind) ==
  handle' = [handle EXCEPT ![p].auth = [kind |-> kind, head |-> head]]

\* An allocation that got no further than its journal.
NoIntent(p) ==
  /\ Ready(p) /\ LockFree(p) /\ WorkdirAbsent
  /\ Certify(p) /\ head = 0 /\ eof = 0
  /\ GrantsAuthority(p, "PARTIAL")
  /\ UNCHANGED <<file, chain, lock, world, call>>

NoDependentArtifact(p) ==
  /\ Ready(p) /\ Locks(p) /\ WorkdirAbsent /\ Certify(p)
  /\ state.kind = "NO_GENERATION" /\ ~state.bound /\ ~state.nodep
  /\ Append(p, Record("NO_DEPENDENT_ARTIFACT"), "RECOVERY")
  /\ Appends(p, "nodep")
  /\ UNCHANGED <<file, world, handle>>

CertifyNoDependent(p) ==
  /\ call[p].op = "nodep" /\ Certify(p) /\ head = call[p].head /\ WorkdirAbsent
  /\ GrantsAuthority(p, "PARTIAL")
  /\ Unlocks(p) /\ Returns(p)
  /\ UNCHANGED <<file, chain, world>>

DoneAuthority(p) ==
  /\ state.kind = "DONE" /\ state.steps = AllSteps
  /\ handle[p].proof # NoProof /\ handle[p].proof.head = head
PartialCreateAuthority == (head = 0 /\ eof = 0) \/ state.nodep

MakeDeleteAuthority(p) ==
  /\ Ready(p) /\ Certify(p) /\ DoneAuthority(p)
  /\ GrantsAuthority(p, "DONE")
  /\ UNCHANGED <<file, chain, lock, world, call>>

ValidAuthority(p) ==
  /\ handle[p].auth.kind # None /\ handle[p].auth.head = head
  /\ IF handle[p].auth.kind = "DONE" THEN DoneAuthority(p) ELSE PartialCreateAuthority

Unlink(p) ==
  /\ Ready(p) /\ Locks(p) /\ Certify(p) /\ ValidAuthority(p)
  /\ handle[p].auth.kind = "DONE" =>
       state.bound /\ proc[handle[p].proof.ident] # "running"
  /\ WorkdirAbsent
  /\ file = "present" /\ file' = "unlinked"
  /\ Enters(p, "delete")
  /\ UNCHANGED <<chain, world, handle>>

\* The parent directory is synchronised, the slot is free again.
FinishDelete(p) ==
  /\ call[p].op = "delete"
  /\ handle' = [handle EXCEPT ![p] = Closed]
  /\ Unlocks(p) /\ Returns(p)
  /\ UNCHANGED <<file, chain, synced, world>>

ReconcileAbsent(p) ==
  /\ Ready(p) /\ LockFree(p) /\ Certify(p) /\ ValidAuthority(p)
  /\ WorkdirAbsent /\ file = "unlinked"
  /\ handle' = [handle EXCEPT ![p] = Closed]
  /\ UNCHANGED <<file, chain, lock, world, call>>

----------------------------------------------------------------------------
(* Time, processes, the disk.                                              *)

Expire ==
  /\ ~due
  /\ state.kind \in {"PREPARED", "ACTIVE_READY", "BATCH_ACTIVE"} \cup Retiring
  /\ due' = TRUE
  /\ UNCHANGED <<file, eof, head, state, torn, synced, lock, world, handle, call>>

\* An append may be under way wherever one is legal.
MayBeAppending(p) ==
  \/ call[p].op = "create" /\ head = 0
  \/ Ready(p) /\ LockFree(p) /\ head > 0 /\ state.kind \notin Terminal \cup Batching
  \/ call[p].op = "retiring" /\ state = call[p].seen
  \/ call[p].op = "complete" /\ state = call[p].seen /\ Fits(ClassOf(state.epoch))

ShortWrite(p) ==
  /\ torn < MaxTorn /\ MayBeAppending(p)
  /\ handle[p].healthy /\ eof + RecordBytes <= HardLimit
  /\ torn' = torn + 1 /\ eof' = eof + TornBytes
  /\ handle' = [handle EXCEPT ![p].healthy = call[p].op = "create"]
  /\ IF HoldsToken(p) THEN UNCHANGED lock ELSE Unlocks(p)
  /\ Returns(p)
  /\ UNCHANGED <<file, head, state, due, synced, world>>

Spawn(x) ==
  /\ proc[Owner] = "running" /\ proc[x] = "none"
  /\ state.kind = "PREPARED" /\ state.actor = x
  /\ proc' = [proc EXCEPT ![x] = "running"]
  /\ target' = [target EXCEPT ![x] = "running"]
  /\ UNCHANGED <<file, chain, synced, lock, workdir, handle, call>>

TargetExits(x) ==
  /\ target[x] = "running"
  /\ target' = [target EXCEPT ![x] = IF proc[x] = "running" THEN "zombie" ELSE "reaped"]
  /\ UNCHANGED <<file, chain, synced, lock, workdir, proc, handle, call>>

\* A process ends: its descriptors and locks go, its parent may wait for it,
\* and what it has not waited for itself init does.
Exit(p) ==
  /\ proc[p] = "running"
  /\ proc' = [q \in Procs |->
       IF q = p
         THEN IF p \in Executors /\ proc[Owner] = "running" THEN "zombie" ELSE "reaped"
         ELSE IF p = Owner /\ proc[q] = "zombie" THEN "reaped" ELSE proc[q]]
  /\ target' = [x \in Executors |->
       IF x = p /\ target[x] = "zombie" THEN "reaped" ELSE target[x]]
  /\ handle' = [handle EXCEPT ![p] = Closed]
  /\ Unlocks(p) /\ Returns(p)
  /\ UNCHANGED <<file, chain, synced, workdir>>

----------------------------------------------------------------------------
Create(p) == OpenNew(p) \/ WriteIntent(p) \/ SyncIntent(p) \/ Open(p) \/ Close(p)
             \/ Mkdir(p) \/ BindWorkdir(p) \/ CertifyExact(p) \/ Fail(p)
             \/ \E x \in Executors : Prepare(p, x)
Execute(p) == BeginStep(p) \/ ProcessAbsent(p) \/ ReapTarget(p)
              \/ RemoveWorkdir(p) \/ TerminalChecks(p)
Batch(p) == (\E upto \in 1..AllSteps : AdmitBatch(p, upto)) \/ GrantToken(p)
            \/ BeginCompletion(p) \/ AppendCompletion(p) \/ FinishCompletion(p)
            \/ AbandonBatch(p) \/ FinishDone(p)
Retire(p) == BeginRetirement(p) \/ RecheckRetirement(p) \/ AppendRetirement(p)
             \/ ReplaceAuthority(p) \/ ConfirmReaped(p) \/ MarkUnconfirmed(p)
HandOver(p) == BeginReconcile(p) \/ ReconcileInterrupted(p) \/ BeginSuccession(p)
               \/ \E x \in Executors : PrepareSuccessor(p, x)
Delete(p) == NoIntent(p) \/ NoDependentArtifact(p) \/ CertifyNoDependent(p)
             \/ MakeDeleteAuthority(p) \/ Unlink(p) \/ FinishDelete(p)
             \/ ReconcileAbsent(p)

Next ==
  \/ Expire
  \/ \E p \in Procs :
       \/ Create(p) \/ Retire(p) \/ HandOver(p) \/ Delete(p)
       \/ ShortWrite(p) \/ Exit(p)
       \/ ObserveExecutor(p) \/ Activate(p)
  \/ \E x \in Executors : Execute(x) \/ Batch(x) \/ Spawn(x) \/ TargetExits(x)

Spec == Init /\ [][Next]_vars

----------------------------------------------------------------------------
(* Properties.                                                             *)

\* The calls a process can be in.
Operations == {"idle", "create", "mkdir", "certify", "activate", "admit", "effect",
               "complete", "completed", "retire", "retiring", "reconcile",
               "succeed", "nodep", "delete"}

\* There is no work directory without the journal that accounts for it,
\* wherever creation, clean-up or deletion were interrupted.
JournalOutlivesWorkdir == workdir = "present" => file = "present"

\* A batch token is good for as long as it is held: its process has the
\* action lock, and the canonical state is its batch until the record that
\* completes the batch is the head, however often completion is tried.
TokenIsCurrent ==
  \A x \in Executors : HoldsToken(x) =>
    /\ lock = x
    /\ IF handle[x].token.pending = 0
         THEN state.kind \in Batching /\ state.batch = handle[x].token.batch
         ELSE head = handle[x].token.pending

\* DONE is only reached once the executor's child has been reaped and the
\* work directory is gone, across errors, retries and successors.
DoneIsClean ==
  state.kind = "DONE" => workdir = "absent" /\ target[state.ident] = "reaped"

\* The journal accounts for the directory: it is there before it, and says DONE
\* only after it.
JournalBracketsWorkdir == JournalOutlivesWorkdir /\ DoneIsClean

\* Records that may still be needed until the chain is terminal, at worst.
Remaining(s) ==
  CASE s.kind \in Terminal -> 0
    [] s.kind \notin Terminal /\ s.nodep -> 1
    [] s.kind \notin Terminal /\ ~s.nodep /\ s.epoch = 0 -> RecoveryRecords
    [] s.kind = "RETIRING_BATCH" /\ ~s.nodep /\ s.epoch > 0 -> 14 - s.epoch
    [] s.kind = "RETIRING_IDLE" /\ ~s.nodep /\ s.epoch > 0 -> 13 - s.epoch
    [] s.kind = "PREPARED" /\ ~s.nodep /\ s.epoch > 0 -> 10
    [] s.kind = "ACTIVE_READY" /\ ~s.nodep /\ s.epoch > 0 ->
         2 * (AllSteps - s.steps) + 1
    [] s.kind = "BATCH_ACTIVE" /\ ~s.nodep /\ s.epoch > 0 ->
         2 * (AllSteps - s.upto) + 2

\* The recovery tail is long enough: without torn writes there is always
\* room for the longest chain of records that is still possible, from the
\* retirement of an executor to the terminal record.
RecoveryReserve == torn = 0 => eof + Remaining(state) * RecordBytes <= HardLimit

\* Only a running executor that has the action lock, whose admitted batch is
\* canonical, on disk, and names the step, reaps its child or removes the
\* directory, and the child goes first.
EffectsAreAuthorised ==
  LET Authorised(x, step) ==
        /\ state.kind \in Batching /\ state.ident = x /\ proc[x] = "running"
        /\ lock = x /\ state.batch <= synced /\ step \in (state.steps + 1)..state.upto
  IN /\ workdir = "present" /\ workdir' = "absent"
          => Authorised(state.ident, 3) /\ target[state.ident] = "reaped"
     /\ \A x \in Executors :
          target[x] = "zombie" /\ target'[x] = "reaped" /\ proc'[x] = "running"
            => Authorised(x, 2)

\* A successor is only prepared, and a finished journal only deleted, once the
\* executor on record has been reaped: no two executors ever overlap.
HandOverAfterReap ==
  LET Succeeds == state.gen > 0 /\ state'.gen > state.gen
      Deletes == file' = "unlinked" /\ file # file' /\ state.kind = "DONE"
  IN Succeeds \/ Deletes => proc[state.ident] = "reaped"

\* No step outside the authority on disk: neither an effect nor a hand-over.
StepsAreAuthorised == [][EffectsAreAuthorised /\ HandOverAfterReap]_vars

=============================================================================
