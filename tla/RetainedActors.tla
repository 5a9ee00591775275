--------------------------- MODULE RetainedActors ---------------------------
(* Owners of supervisors that outlive an exception (the retained chains of     *)
(* supervisor_probe.py): a slot reserved before the supervisor is spawned, its *)
(* promotion to the owner of the process, the journal and the descriptors, the *)
(* recovery that converges an owner to a terminal journal, and the release     *)
(* that needs every proof.  The supervisor and its anchor, which go on without *)
(* their controller, are modelled as the controller sees them.                 *)
EXTENDS Naturals, Sequences

CONSTANTS
  Releasers,    \* threads that reconcile and release the retained owner
  MaxReleases   \* bound: calls of _reconcile_and_release_retained_actor_chain

ASSUME RetainedAssumption ==
  MaxReleases \in Nat /\ {"driver", "free"} \cap Releasers = {}

Threads == {"driver"} \cup Releasers

VARIABLES
  child,      \* the supervisor, a child of this process
  group,      \* the process group of its anchor
  wire,       \* the control channel between them
  journal,    \* the head of the allocation's journal
  held,       \* the descriptors of this process
  artifacts,  \* the allocation's directory
  entry,      \* the slot in _RETAINED_ACTOR_REGISTRY
  owner,      \* the _RetainedActorChain in it
  lock,       \* its recovery_lock
  pc,         \* where each thread stands in a recovery or a release
  seen,       \* what the holder of the lock has read
  calls       \* releases begun

world == <<child, group, wire>>
ownerVars == <<entry, owner, lock, pc, seen, calls>>
retainedVars == <<world, journal, held, artifacts, ownerVars>>

Terminal == {"DONE", "UNCONFIRMED"}

NoOwner == [close |-> "OWNED", proof |-> FALSE, request |-> FALSE, certified |-> FALSE]
NothingSeen == [kind |-> "none", wait |-> "none"]

RetainedInit ==
  /\ child = [state |-> "none", code |-> 0]
  /\ group = "none"
  /\ wire = [frame |-> 0, acked |-> 0, refused |-> FALSE, delivered |-> FALSE,
             reply |-> FALSE, selfTerm |-> FALSE]
  /\ journal = "none"
  /\ held = [control |-> "none", stderr |-> "none", journal |-> "none", dir |-> "none",
             closes |-> 0]
  /\ artifacts = [dir |-> "none", path |-> FALSE, kept |-> FALSE]
  /\ entry = "none" /\ owner = NoOwner
  /\ lock = "free"
  /\ pc = [t \in Threads |-> "idle"]
  /\ seen = NothingSeen
  /\ calls = 0

-----------------------------------------------------------------------------
(* The registry.                                                               *)
Reserves == entry = "none" /\ entry' = "reserved"

(* The one assignment that publishes the owner.                                *)
Transfers == entry = "reserved" /\ entry' = "owned" /\ owner' = NoOwner

Cancels == entry' = IF entry = "reserved" THEN "none" ELSE entry

(* An owner that was published keeps the resources from the stack's unwinding, *)
(* also after it has been released.                                            *)
LocallyOwned == entry \notin {"owned", "released"}

-----------------------------------------------------------------------------
(* What the journal allows (lifecycle.c).                                      *)

(* Mutant: UNCONFIRMED may be appended over an admitted batch. *)
MayMark_Any(kind) == kind \notin Terminal

MayMark(kind) == kind \notin Terminal \cup {"BATCH_ACTIVE", "RETIRING_BATCH"}
Marks == MayMark(journal) /\ journal' = "UNCONFIRMED"

(* An executor is retired only when its process has ended, after its lease.    *)
Retired(kind) == IF kind = "BATCH_ACTIVE" THEN "RETIRING_BATCH" ELSE "RETIRING_IDLE"
Retires ==
  /\ child.state = "zombie" /\ journal \in {"ACTIVE_READY", "BATCH_ACTIVE"}
  /\ journal' = Retired(journal)

(* It is waited for once; the handle of the journal remembers the proof.       *)
ConfirmsReaped ==
  /\ journal \in {"DONE", "RETIRING_IDLE", "RETIRING_BATCH"}
  /\ child.state = "zombie" \/ (child.state = "reaped" /\ owner.proof)
  /\ child' = [child EXCEPT !.state = "reaped"]
  /\ owner' = [owner EXCEPT !.proof = TRUE]

Replayed(kind) == IF kind = "RETIRING_BATCH" THEN "RETIRING_IDLE" ELSE kind

-----------------------------------------------------------------------------
(* The supervisor sends the frames of its bootstrap, one for each              *)
(* acknowledgement, and starts its anchor and, released by the third, the CLI. *)
SupervisorSends ==
  /\ child.state = "live" /\ ~wire.refused
  /\ wire.frame = wire.acked /\ wire.frame < 4
  /\ wire' = [wire EXCEPT !.frame = @ + 1]
  /\ journal' = IF journal = "PREPARED" THEN "ACTIVE_READY" ELSE journal
  /\ group' = CASE wire.frame = 1 -> "gated"
                [] wire.frame = 3 -> "running"
                [] OTHER -> group
  /\ UNCHANGED <<child, held, artifacts, ownerVars>>

(* Asked to clean up it acknowledges, admits the batch, stops the group,       *)
(* resumes it, ends it, and completes the batches up to DONE.                  *)
SupervisorCleans ==
  /\ child.state = "live" /\ wire.delivered /\ ~wire.refused
  /\ \/ ~wire.reply /\ wire' = [wire EXCEPT !.reply = TRUE] /\ UNCHANGED <<journal, group>>
     \/ /\ wire.reply /\ journal = "ACTIVE_READY" /\ journal' = "BATCH_ACTIVE"
        /\ UNCHANGED <<wire, group>>
     \/ /\ journal = "BATCH_ACTIVE" /\ group \in {"running", "stopped"}
        /\ group' = IF group = "running" THEN "stopped" ELSE "resumed"
        /\ UNCHANGED <<wire, journal>>
     \/ /\ journal = "BATCH_ACTIVE" /\ group = "resumed"
        /\ group' = "absent" /\ UNCHANGED <<wire, journal>>
     \/ /\ journal = "BATCH_ACTIVE" /\ group = "absent"
        /\ journal' = "DONE" /\ UNCHANGED <<wire, group>>
  /\ UNCHANGED <<child, held, artifacts, ownerVars>>

(* It exits with 0 after DONE, with 86 where its death is injected, and with   *)
(* 75 whenever it fails, meets an end of file or is refused something.         *)
SupervisorEnds ==
  /\ child.state = "live"
  /\ \E code \in {75} \cup (IF journal = "DONE" THEN {0} ELSE {})
                      \cup (IF wire.delivered THEN {86} ELSE {}) :
       child' = [state |-> "zombie", code |-> code]
  /\ UNCHANGED <<group, wire, journal, held, artifacts, ownerVars>>

(* Without its supervisor an anchor that is not running yet fails dead; one    *)
(* that runs obeys a single request to terminate its own group, and survives   *)
(* it; when the control is closed too it marks the journal, if it may, and     *)
(* ends with its group.  A stopped one can do nothing.                         *)
AnchorRemains ==
  /\ child.state # "live"
  /\ \/ group = "gated" /\ group' = "absent" /\ UNCHANGED <<journal, wire>>
     \/ /\ group = "running" /\ wire.selfTerm /\ Marks
        /\ wire' = [wire EXCEPT !.selfTerm = FALSE] /\ UNCHANGED group
     \/ /\ group \in {"running", "resumed"} /\ held.control = "closed"
        /\ group' = "absent"
        /\ journal' = IF MayMark(journal) /\ artifacts.dir = "present"
                      THEN "UNCONFIRMED" ELSE journal
        /\ UNCHANGED wire
  /\ UNCHANGED <<child, held, artifacts, ownerVars>>

-----------------------------------------------------------------------------
(* _reconcile_owner, by a thread that holds the lock.  A recovery of the       *)
(* driver is best effort; a releaser goes on to the release, or raises.        *)
Stage(t, stage) == pc' = [pc EXCEPT ![t] = stage] /\ UNCHANGED calls
Moves(t, stage) == Stage(t, stage) /\ UNCHANGED <<lock, seen>>
Sees(t, what, stage) == Stage(t, stage) /\ seen' = what /\ UNCHANGED lock

(* Mutant: who leaves forgets the lock. *)
Leaves_Locked(t, stage) == Stage(t, stage) /\ UNCHANGED lock /\ seen' = NothingSeen

Leaves(t, stage) == Stage(t, stage) /\ lock' = "free" /\ seen' = NothingSeen
Converges(t) == Leaves(t, IF t = "driver" THEN "idle" ELSE "relock")

Quiet == UNCHANGED <<group, wire, held, artifacts, entry>>

LocksToReconcile(t) ==
  /\ pc[t] = "lock" /\ lock = "free"
  /\ lock' = t /\ pc' = [pc EXCEPT ![t] = "head"]
  /\ Quiet /\ UNCHANGED <<child, journal, owner, seen, calls>>

(* Any statement may raise; a closed journal always does. *)
ReconcileRaises(t) ==
  /\ pc[t] \in {"head", "record", "wait", "bounded", "decide", "exit", "confirm", "terminal"}
  /\ Leaves(t, "idle")
  /\ Quiet /\ UNCHANGED <<child, journal, owner>>

(* The head is certified, then the record scanned, then the child observed.    *)
CertifiesHead(t) ==
  /\ pc[t] = "head" /\ held.journal = "open"
  /\ IF journal \in Terminal THEN Converges(t) ELSE Moves(t, "record")
  /\ Quiet /\ UNCHANGED <<child, journal, owner>>

ScansRecord(t) ==
  /\ pc[t] = "record"
  /\ Sees(t, [seen EXCEPT !.kind = journal], "wait")
  /\ Quiet /\ UNCHANGED <<child, journal, owner>>

ChildWaitState ==
  CASE child.state = "live" -> "live" [] child.state = "zombie" -> "reapable"
    [] OTHER -> "reaped"

(* A live child that has been asked to clean up is given some time to end.     *)
ObservesChild(t) ==
  /\ pc[t] = "wait"
  /\ Sees(t, [seen EXCEPT !.wait = ChildWaitState],
          IF ChildWaitState = "live" /\ owner.request THEN "bounded" ELSE "decide")
  /\ Quiet /\ UNCHANGED <<child, journal, owner>>

WaitsForExit(t) ==
  /\ pc[t] = "bounded"
  /\ Sees(t, [seen EXCEPT !.wait = ChildWaitState], "decide")
  /\ Quiet /\ UNCHANGED <<child, journal, owner>>

(* A live executor may still finish the batch that was seen admitted.          *)
Progressed(kind) == kind \in {"BATCH_ACTIVE", "RETIRING_IDLE", "RETIRING_BATCH"}

Decides(t) ==
  /\ pc[t] = "decide"
  /\ IF seen.wait # "live" THEN Moves(t, "exit")
     ELSE IF Progressed(seen.kind) THEN Converges(t)
     ELSE Moves(t, "terminal")
  /\ Quiet /\ UNCHANGED <<child, journal, owner>>

(* The child has ended: the record is read again, an active executor retired.  *)
RecoversExit(t) ==
  /\ pc[t] = "exit"
  /\ IF seen.wait = "reapable" /\ journal \in {"ACTIVE_READY", "BATCH_ACTIVE"}
     THEN Retires /\ Moves(t, "confirm")
     ELSE /\ UNCHANGED journal
          /\ IF journal \in {"RETIRING_IDLE", "RETIRING_BATCH"} THEN Moves(t, "confirm")
             ELSE IF journal = "BATCH_ACTIVE" THEN Converges(t)
             ELSE Moves(t, "terminal")
  /\ Quiet /\ UNCHANGED <<child, owner>>

(* It is reaped through the journal, and its interrupted batch reconciled.     *)
RecoversReap(t) ==
  /\ pc[t] = "confirm"
  /\ ConfirmsReaped
  /\ \/ journal' = Replayed(journal) /\ Moves(t, "terminal")
     \/ UNCHANGED journal /\ Leaves(t, "idle")
  /\ Quiet

EnsuresUnconfirmed(t) ==
  /\ pc[t] = "terminal"
  /\ IF journal \in Terminal THEN UNCHANGED journal ELSE Marks
  /\ Converges(t)
  /\ Quiet /\ UNCHANGED <<child, owner>>

Reconcile(t) ==
  \/ LocksToReconcile(t) \/ ReconcileRaises(t) \/ CertifiesHead(t) \/ ScansRecord(t)
  \/ ObservesChild(t) \/ WaitsForExit(t) \/ Decides(t) \/ RecoversExit(t)
  \/ RecoversReap(t) \/ EnsuresUnconfirmed(t)

-----------------------------------------------------------------------------
(* _reconcile_and_release_retained_actor_chain.  Whether the journal is closed *)
(* is looked at before the lock is taken, and the lock is taken twice.         *)
Begins(t) ==
  /\ pc[t] = "idle" /\ entry = "owned" /\ calls < MaxReleases
  /\ calls' = calls + 1
  /\ pc' = [pc EXCEPT ![t] = IF held.journal = "open" THEN "lock" ELSE "relock"]
  /\ UNCHANGED <<world, journal, held, artifacts, entry, owner, lock, seen>>

LocksToRelease(t) ==
  /\ pc[t] = "relock" /\ lock = "free"
  /\ lock' = t /\ pc' = [pc EXCEPT ![t] = "prove"]
  /\ UNCHANGED <<world, journal, held, artifacts, entry, owner, seen, calls>>

(* No member is listed, and no signal can be sent to the group. *)
GroupAbsent == group = "absent"

(* Mutant: the group's members are not asked for. *)
MayRelease_GroupUnasked ==
  journal \in Terminal /\ child.state = "reaped" /\ owner.proof

(* A terminal head, no member and no capability of the group, a reaped child   *)
(* and the proof that the journal remembers.                                   *)
MayRelease ==
  journal \in Terminal /\ GroupAbsent /\ child.state = "reaped" /\ owner.proof

Proves(t) ==
  /\ pc[t] = "prove"
  /\ IF /\ owner.close # "AMBIGUOUS"
        /\ IF held.journal = "open" THEN MayRelease ELSE owner.certified
     THEN owner' = [owner EXCEPT !.certified = TRUE] /\ Moves(t, "close")
     ELSE Leaves(t, "idle") /\ UNCHANGED owner
  /\ UNCHANGED <<world, journal, held, artifacts, entry>>

(* The controls, stderr and the journal are closed in this order; a close that *)
(* raises may have closed it or not.                                           *)
ClosesHandles(t) ==
  /\ pc[t] = "close"
  /\ \E r \in {"control", "stderr", "journal"} :
       /\ held[r] = "open"
       /\ r = "stderr" => held.control # "open"
       /\ r = "journal" => {held.control, held.stderr} \cap {"open"} = {}
       /\ \/ held' = [held EXCEPT ![r] = "closed"] /\ Moves(t, "close")
          \/ held' = [held EXCEPT ![r] = "closed"] /\ Leaves(t, "idle")
          \/ UNCHANGED held /\ Leaves(t, "idle")
  /\ UNCHANGED <<world, journal, artifacts, entry, owner>>

(* Mutant: a close that raises leaves the descriptor to the next release. *)
AfterFailedClose_Owned == "OWNED"

(* The parent descriptor is detached, then closed; whether a close that raises *)
(* has closed it nobody knows.                                                 *)
AfterFailedClose == "AMBIGUOUS"

ClosesParent(t) ==
  /\ pc[t] = "close"
  /\ {held.control, held.stderr, held.journal} \cap {"open"} = {}
  /\ IF owner.close = "OWNED"
     THEN \E known \in BOOLEAN, raised \in BOOLEAN :
            /\ known \/ raised
            /\ held' = [held EXCEPT !.dir = "closed", !.closes = @ + 1]
            /\ owner' = [owner EXCEPT !.close =
                           IF known THEN "CLOSED_PROVED" ELSE AfterFailedClose]
            /\ IF raised THEN Leaves(t, "idle") ELSE Moves(t, "remove")
     ELSE Moves(t, "remove") /\ UNCHANGED <<held, owner>>
  /\ UNCHANGED <<world, journal, artifacts, entry>>

(* The entry is removed if it is still there. *)
Removes(t) ==
  /\ pc[t] = "remove"
  /\ entry' = "released"
  /\ Leaves(t, "idle")
  /\ UNCHANGED <<world, journal, held, artifacts, owner>>

Release(t) ==
  \/ LocksToRelease(t) \/ Proves(t) \/ ClosesHandles(t) \/ ClosesParent(t) \/ Removes(t)

-----------------------------------------------------------------------------
(* What a registry entry was for is proved gone when the entry is released:    *)
(* the supervisor was reaped, no process of its group is left, the journal is  *)
(* terminal and every descriptor is closed.                                    *)
ReleasedIsProved ==
  entry = "released" =>
    /\ child.state = "reaped" /\ group = "absent" /\ journal \in Terminal
    /\ {held.control, held.stderr, held.journal, held.dir} \cap {"open"} = {}

(* The descriptor of the allocation's directory is closed at most once, by the *)
(* driver's unwinding, the releasers' retries or the test release together:    *)
(* its number may belong to another file by then.  An owner whose close is in  *)
(* doubt is never released.                                                    *)
ParentClosedOnce ==
  held.closes <= 1 /\ (owner.close = "AMBIGUOUS" => entry = "owned")

(* Releasing an owner is proved first, and done once.                          *)
ReleaseIsProvedAndOnce == ReleasedIsProved /\ ParentClosedOnce

(* UNCONFIRMED is never appended over a batch of which a live supervisor holds *)
(* the authority.                                                              *)
NoTerminalDuringBatch ==
  [][journal = "BATCH_ACTIVE" /\ child.state = "live" => journal' # "UNCONFIRMED"]_retainedVars
=============================================================================
