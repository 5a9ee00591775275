--------------------------- MODULE ActorScenarios ---------------------------
(* The drivers of supervisor_probe.py: each creates an allocation with its     *)
(* journal, spawns a supervisor, exchanges the frames of its bootstrap with it *)
(* and then takes one path through its lifecycle.  A driver is the sequence of *)
(* its steps, with those of its except and finally clauses; a step that raises *)
(* leaves what was done before it.                                             *)
EXTENDS RetainedActors

CONSTANT Drivers   \* the scenarios that are run, one in a behaviour

VARIABLE run       \* the driver: its scenario, its clause and the steps it has left

vars == <<retainedVars, run>>

-----------------------------------------------------------------------------
(* Steps.                                                                      *)
Launch == <<"allocate", "spawn">>
Handshake == <<"identity", "anchor", "armed", "running">>

(* A driver whose owner is retained: everything is local until the transfer.   *)
RetainingLaunch == Launch \o <<"identity", "anchor", "transfer", "armed", "running">>

WedgedTry ==
  RetainingLaunch \o <<"refusedRetirement", "unconfirmed", "path",
                       "killGroup", "waitChild", "closeAll">>

LossRecovery(scenario) ==
  <<"exit86", "retire", "confirm", "replay">>
    \o IF scenario = "stale_executor" THEN <<"successor", "activate">> ELSE <<>>
LossTry(scenario) ==
  RetainingLaunch \o <<"request", "send">>
    \o (IF scenario = "after_running" THEN <<>> ELSE <<"ack">>)
    \o LossRecovery(scenario)
    \o <<"unconfirmed", "path", "killGroup", "waitChild", "closeAll">>

RetainingExcept == <<"reconcile", "path">>
RetainingFinally == <<"cancel", "closeControl", "waitUnknown", "closeRest", "path">>

ControlRejectionTry == Launch \o <<"frame1", "refuse", "exit75", "unconfirmed", "path">>

BindingRejectionTry ==
  Launch \o Handshake \o <<"known", "request", "refuse", "exit75", "unconfirmed",
                           "teardown", "path">>

ConfigRejectionTry == Launch \o <<"frame1", "refuse", "exitAny">>

IdentityRejectionTry(scenario) ==
  Launch \o <<"identity", "anchor", "armed", "known">>
    \o (IF scenario = "altered_executable_identity" THEN <<>>
        ELSE <<"running", "request", "send", "ack">>)
    \o <<"exit75", "unconfirmed", "teardown", "path">>

FallbackTry(scenario) ==
  CASE scenario = "fallback_early_before_running" ->
         Launch \o <<"identity", "anchor", "frame3", "refuse", "exitAny", "noAnchor">>
    [] scenario = "fallback_wrong_phase_after_loss" ->
         Launch \o Handshake \o <<"known", "kill", "unconfirmed", "retain">>
    [] OTHER ->
         Launch \o Handshake \o <<"known", "kill", "selfTerm", "termed", "retain">>

FailDeadTry(scenario) ==
  Launch
    \o (CASE scenario = "supervisor_before_identity" -> <<>>
          [] scenario = "anchor_before_identity" -> <<"identity">>
          [] OTHER -> <<"identity", "anchor", "known", "frame3">>)
    \o <<"closeControl", "exit75", "noAnchor", "unconfirmed", "path">>

RequestsCleanup ==
  <<"request", "send", "ack", "result", "exit0", "reap", "delete">>
CleanupTry == Launch \o Handshake \o RequestsCleanup
BootstrapTry == Launch \o Handshake \o RequestsCleanup

(* The finally clauses: the supervisor is killed, or given 5 s and then kept,  *)
(* or left alone; a temporary directory goes with its block.                   *)
RejectionFinally(scenario) ==
  <<"closeControl", "kill">>
    \o (IF scenario \in {"cleanup_request_binding", "altered_executable_identity", "reused_pid"}
        THEN <<"teardownKnown">> ELSE <<>>)
    \o <<"closeRest">>
    \o (IF scenario = "identity_ack_missing_config" THEN <<"remove">> ELSE <<"path">>)
FallbackFinally == <<"closeControl", "kill", "teardownRetained", "closeRest", "path">>
CleanupFinally == <<"closeControl", "waitOrKeep", "closeRest", "remove">>
BootstrapFinally == <<"closeControl", "closeRest", "remove">>

Retaining == {"during_term_batch", "after_running", "stale_executor", "wedged_supervisor"}
Cleaning == {"ordinary_term_success"}
Bootstrapping == {"bootstrap_environment"}
Falling == {"kill_supervisor_after_running", "fallback_early_before_running",
            "fallback_wrong_phase_after_loss"}

(* run_lifecycle_scenario: the driver of a scenario. *)
Try(s) ==
  CASE s = "wedged_supervisor" -> WedgedTry
    [] s \in Retaining \ {"wedged_supervisor"} -> LossTry(s)
    [] s = "control_frame_validation" -> ControlRejectionTry
    [] s = "cleanup_request_binding" -> BindingRejectionTry
    [] s = "identity_ack_missing_config" -> ConfigRejectionTry
    [] s \in {"altered_executable_identity", "reused_pid"} -> IdentityRejectionTry(s)
    [] s \in Falling -> FallbackTry(s)
    [] s \in Cleaning -> CleanupTry
    [] s \in Bootstrapping -> BootstrapTry
    [] OTHER -> FailDeadTry(s)

Finally(s) ==
  CASE s \in Retaining -> RetainingFinally
    [] s \in Falling -> FallbackFinally
    [] s \in Cleaning -> CleanupFinally
    [] s \in Bootstrapping -> BootstrapFinally
    [] OTHER -> RejectionFinally(s)

-----------------------------------------------------------------------------
Init ==
  /\ RetainedInit
  /\ \E s \in Drivers :
       run = [scenario |-> s, clause |-> "open", left |-> <<>>, known |-> FALSE,
              retained |-> FALSE]

(* The clause that follows, with what it has to do. *)
Enters(clause, steps) == [run EXCEPT !.clause = clause, !.left = steps]
Following ==
  IF run.clause = "finally" THEN Enters("ended", <<>>)
  ELSE Enters("finally", Finally(run.scenario))

At(step) == run.left # <<>> /\ Head(run.left) = step /\ pc["driver"] = "idle"
Advanced == IF Len(run.left) = 1 THEN Following ELSE [run EXCEPT !.left = Tail(@)]
Proceeds == run' = Advanced

NoThread == UNCHANGED <<pc, seen, calls>>

(* A slot is reserved, the directory made and opened; either may fail.         *)
Opens ==
  /\ run.clause = "open"
  /\ \/ /\ IF run.scenario \in Retaining THEN Reserves ELSE UNCHANGED entry
        /\ held' = [held EXCEPT !.dir = "open"]
        /\ artifacts' = [artifacts EXCEPT !.dir = "present"]
        /\ run' = Enters("try", Try(run.scenario))
     \/ run' = Enters("ended", <<>>) /\ UNCHANGED <<entry, held, artifacts>>
  /\ NoThread /\ UNCHANGED <<world, journal, owner, lock>>

(* Any step of the try clause may raise, and of finally those that wait for    *)
(* the teardown of a group.                                                    *)
Raises ==
  /\ run.left # <<>> /\ pc["driver"] = "idle"
  /\ \/ /\ run.clause = "try"
        /\ run' = IF run.scenario \in Retaining /\ entry \in {"owned", "released"}
                  THEN Enters("except", RetainingExcept) ELSE Following
     \/ /\ Head(run.left) \in {"teardownKnown", "teardownRetained"}
        /\ run' = Enters("ended", <<>>)
  /\ lock' = "free"
  /\ NoThread /\ UNCHANGED <<world, journal, held, artifacts, entry, owner>>

(* The journal with its intent, its workdir and PREPARED; the control's two    *)
(* ends; the supervisor, after which its end is closed here.                   *)
Allocates ==
  /\ At("allocate")
  /\ held' = [held EXCEPT !.journal = "open", !.control = "open"]
  /\ journal' = "PREPARED"
  /\ Proceeds /\ NoThread
  /\ UNCHANGED <<world, artifacts, entry, owner, lock>>

Spawns ==
  /\ At("spawn")
  /\ child' = [child EXCEPT !.state = "live"]
  /\ held' = [held EXCEPT !.stderr = "open"]
  /\ Proceeds /\ NoThread
  /\ UNCHANGED <<group, wire, journal, artifacts, entry, owner, lock>>

(* A frame is received and certified in the journal, then acknowledged unless  *)
(* it is the last one, or a test of what comes next.                           *)
Frame(step) ==
  CASE step \in {"identity", "frame1"} -> 1 [] step = "anchor" -> 2
    [] step \in {"armed", "frame3"} -> 3 [] step = "running" -> 4

ReceivesFrame ==
  /\ \E step \in {"identity", "anchor", "armed", "running", "frame1", "frame3"} :
       /\ At(step) /\ wire.frame >= Frame(step)
       /\ wire' = IF step \in {"identity", "anchor", "armed"}
                  THEN [wire EXCEPT !.acked = Frame(step)] ELSE wire
  /\ Proceeds /\ NoThread
  /\ UNCHANGED <<child, group, journal, held, artifacts, entry, owner, lock>>

(* The anchor is known: by its owner, or by the driver alone. *)
KnowsAnchor ==
  /\ \/ At("transfer") /\ Transfers
     \/ At("known") /\ UNCHANGED <<entry, owner>>
  /\ run' = [Advanced EXCEPT !.known = TRUE]
  /\ NoThread /\ UNCHANGED <<world, journal, held, artifacts, lock>>

(* The cleanup request is appended, sent and acknowledged.                     *)
Requests ==
  /\ At("request")
  /\ owner' = [owner EXCEPT !.request = TRUE]
  /\ Proceeds /\ NoThread
  /\ UNCHANGED <<world, journal, held, artifacts, entry, lock>>

Sends ==
  /\ child.state = "live"
  /\ \/ At("send") /\ wire' = [wire EXCEPT !.delivered = TRUE]
     \/ At("refuse") /\ wire' = [wire EXCEPT !.refused = TRUE]
  /\ Proceeds /\ NoThread
  /\ UNCHANGED <<child, group, journal, held, artifacts, entry, owner, lock>>

(* A request may be delivered although its sending raises. *)
SendRaises ==
  /\ At("send") /\ child.state = "live"
  /\ wire' = [wire EXCEPT !.delivered = TRUE]
  /\ run' = IF entry = "owned" THEN Enters("except", RetainingExcept) ELSE Following
  /\ NoThread
  /\ UNCHANGED <<child, group, journal, held, artifacts, entry, owner, lock>>

ReceivesAck ==
  /\ At("ack") /\ wire.reply
  /\ Proceeds /\ NoThread
  /\ UNCHANGED <<world, journal, held, artifacts, entry, owner, lock>>

-----------------------------------------------------------------------------
(* What a driver only observes: the end of its child, still waitable or waited *)
(* for; the absence of the anchor; a DONE or UNCONFIRMED head; the refusal to  *)
(* retire an executor that lives.                                              *)
Observes ==
  /\ \/ At("exit86") /\ child.state = "zombie" /\ child.code = 86
     \/ At("exit0") /\ child.state = "zombie" /\ child.code = 0
     \/ At("noAnchor") /\ group \in {"none", "absent"}
     \/ At("termed") /\ journal = "UNCONFIRMED"
     \/ At("result") /\ journal = "DONE"
     \/ At("refusedRetirement") /\ child.state = "live"
  /\ Proceeds /\ NoThread
  /\ UNCHANGED <<world, journal, held, artifacts, entry, owner, lock>>

WaitsForChild ==
  /\ \/ At("exit75") /\ child.state = "zombie" /\ child.code = 75
     \/ At("exitAny") /\ child.state = "zombie"
  /\ child' = [child EXCEPT !.state = "reaped"]
  /\ Proceeds /\ NoThread
  /\ UNCHANGED <<group, wire, journal, held, artifacts, entry, owner, lock>>

(* The bootstrap's driver alone waits for the child where the last frame does  *)
(* not come, and kills it if it does not end.                                  *)
RunningGateFails ==
  /\ At("running") /\ run.scenario \in Bootstrapping
  /\ child' = [child EXCEPT !.state = "reaped"]
  /\ run' = Following
  /\ NoThread /\ UNCHANGED <<group, wire, journal, held, artifacts, entry, owner, lock>>

AsksAnchor ==
  /\ At("selfTerm")
  /\ wire' = [wire EXCEPT !.selfTerm = TRUE]
  /\ Proceeds /\ NoThread
  /\ UNCHANGED <<child, group, journal, held, artifacts, entry, owner, lock>>

(* The journal's transitions after the child's death. *)
AdvancesJournal ==
  /\ \/ At("retire") /\ Retires
     \/ At("replay") /\ journal' = Replayed(journal)
     \/ At("successor") /\ journal = "RETIRING_IDLE" /\ journal' = "PREPARED"
     \/ At("activate") /\ journal = "PREPARED" /\ journal' = "ACTIVE_READY"
     \/ At("unconfirmed") /\ Marks
  /\ Proceeds /\ NoThread
  /\ UNCHANGED <<world, held, artifacts, entry, owner, lock>>

ReapsThroughJournal ==
  /\ At("confirm") \/ At("reap")
  /\ ConfirmsReaped
  /\ Proceeds /\ NoThread
  /\ UNCHANGED <<group, wire, journal, held, artifacts, entry, lock>>

Deletes ==
  /\ At("delete")
  /\ artifacts' = [artifacts EXCEPT !.dir = "deleted"]
  /\ Proceeds /\ NoThread
  /\ UNCHANGED <<world, journal, held, entry, owner, lock>>

(* The allocation's path is kept on record, and by the fallback's driver also  *)
(* the anchor that it will tear down.                                          *)
Records ==
  /\ \/ At("path") /\ artifacts' = [artifacts EXCEPT !.path = TRUE] /\ Proceeds
     \/ /\ At("retain") /\ UNCHANGED artifacts
        /\ run' = [Advanced EXCEPT !.retained = TRUE]
  /\ NoThread /\ UNCHANGED <<world, journal, held, entry, owner, lock>>

-----------------------------------------------------------------------------
(* Groups and children are ended.                                              *)
TearsDown ==
  /\ \/ At("teardown")
     \/ At("teardownKnown") /\ run.known /\ ~artifacts.path
     \/ At("teardownRetained") /\ run.retained
  /\ group' = "absent"
  /\ Proceeds /\ NoThread
  /\ UNCHANGED <<child, wire, journal, held, artifacts, entry, owner, lock>>

Passes ==
  /\ \/ At("teardownKnown") /\ ~(run.known /\ ~artifacts.path)
     \/ At("teardownRetained") /\ ~run.retained
     \/ At("waitUnknown") /\ (~LocallyOwned \/ run.known \/ child.state = "none")
  /\ Proceeds /\ NoThread
  /\ UNCHANGED <<world, journal, held, artifacts, entry, owner, lock>>

Kills ==
  /\ At("kill")
  /\ child' = [child EXCEPT !.state = IF @ = "none" THEN @ ELSE "reaped"]
  /\ Proceeds /\ NoThread
  /\ UNCHANGED <<group, wire, journal, held, artifacts, entry, owner, lock>>

(* A supervisor whose anchor was never known meets the end of its control.     *)
WaitsUnknown ==
  /\ At("waitUnknown") /\ LocallyOwned /\ ~run.known
  /\ child.state \in {"zombie", "reaped"}
  /\ child' = [child EXCEPT !.state = "reaped"]
  /\ Proceeds /\ NoThread
  /\ UNCHANGED <<group, wire, journal, held, artifacts, entry, owner, lock>>

(* Mutant: after its 5 s the supervisor is not kept. *)
WaitsOrKeeps_Forgets ==
  /\ At("waitOrKeep")
  /\ child' = [child EXCEPT !.state = IF @ = "zombie" THEN "reaped" ELSE @]
  /\ UNCHANGED artifacts
  /\ Proceeds /\ NoThread
  /\ UNCHANGED <<group, wire, journal, held, entry, owner, lock>>

WaitsOrKeeps ==
  /\ At("waitOrKeep")
  /\ child' = [child EXCEPT !.state = IF @ = "zombie" THEN "reaped" ELSE @]
  /\ artifacts' = [artifacts EXCEPT !.kept = child.state = "live"]
  /\ Proceeds /\ NoThread
  /\ UNCHANGED <<group, wire, journal, held, entry, owner, lock>>

(* _test_release_retained_actor_chain: the group is killed, the controls and   *)
(* the child are seen to end, every handle is closed.                          *)
TestRelease ==
  /\ \/ /\ At("killGroup") /\ lock = "free" /\ lock' = "driver"
        /\ group' = "absent"
        /\ held' = [held EXCEPT !.control = "closed"]
        /\ UNCHANGED <<child, entry, owner>>
     \/ /\ At("waitChild") /\ child.state \in {"zombie", "reaped"}
        /\ child' = [child EXCEPT !.state = "reaped"]
        /\ UNCHANGED <<group, held, entry, owner, lock>>
     \/ /\ At("closeAll") /\ lock' = "free"
        /\ held' = [held EXCEPT !.stderr = "closed", !.journal = "closed",
                                !.dir = "closed", !.closes = @ + 1]
        /\ owner' = [owner EXCEPT !.close = "CLOSED_PROVED"]
        /\ entry' = "released"
        /\ UNCHANGED <<child, group>>
  /\ Proceeds /\ NoThread
  /\ UNCHANGED <<wire, journal, artifacts>>

(* _reconcile_owner_best_effort. *)
StartsReconciling ==
  /\ At("reconcile")
  /\ pc' = [pc EXCEPT !["driver"] = "lock"]
  /\ Proceeds
  /\ UNCHANGED <<world, journal, held, artifacts, entry, owner, lock, seen, calls>>

(* Mutant: what an owner retains is closed all the same. *)
CloseUnwinds_All(step) ==
  IF step = "closeControl" THEN [held EXCEPT !.control = "closed"]
  ELSE [held EXCEPT !.stderr = "closed", !.journal = "closed", !.dir = "closed",
                    !.closes = @ + 1]

(* The finally clauses close what no owner retains.                            *)
CloseUnwinds(step) ==
  IF ~LocallyOwned THEN held
  ELSE IF step = "closeControl" THEN [held EXCEPT !.control = "closed"]
  ELSE [held EXCEPT !.stderr = "closed", !.journal = "closed", !.dir = "closed",
                    !.closes = @ + 1]

Closes ==
  /\ \E step \in {"closeControl", "closeRest"} :
       At(step) /\ held' = CloseUnwinds(step)
  /\ Proceeds /\ NoThread
  /\ UNCHANGED <<world, journal, artifacts, entry, owner, lock>>

CancelsReservation ==
  /\ At("cancel") /\ Cancels
  /\ Proceeds /\ NoThread
  /\ UNCHANGED <<world, journal, held, artifacts, owner, lock>>

RemovesDirectory ==
  /\ At("remove")
  /\ artifacts' = [artifacts EXCEPT !.dir = IF artifacts.kept THEN @ ELSE "removed"]
  /\ Proceeds /\ NoThread
  /\ UNCHANGED <<world, journal, held, entry, owner, lock>>

DriverStep ==
  \/ Allocates \/ Spawns \/ ReceivesFrame \/ KnowsAnchor \/ Requests \/ Sends
  \/ SendRaises \/ ReceivesAck \/ Observes \/ WaitsForChild \/ RunningGateFails
  \/ AsksAnchor \/ AdvancesJournal \/ ReapsThroughJournal \/ Deletes \/ Records
  \/ TearsDown \/ Passes \/ Kills \/ WaitsUnknown \/ WaitsOrKeeps \/ TestRelease
  \/ StartsReconciling \/ Closes \/ CancelsReservation \/ RemovesDirectory

Recovery(t) == Reconcile(t) \/ Release(t)

Environment == SupervisorSends \/ SupervisorCleans \/ SupervisorEnds \/ AnchorRemains

(* The owners that an exception has left are reconciled after the driver.      *)
Next ==
  \/ Opens \/ Raises \/ DriverStep
  \/ (\E t \in Threads : Recovery(t)) /\ UNCHANGED run
  \/ (\E t \in Releasers : run.clause = "ended" /\ Begins(t)) /\ UNCHANGED run
  \/ Environment /\ UNCHANGED run

(* Every wait of a driver, a recovery or a release has a deadline; a           *)
(* supervisor whose control has ended before it runs its CLI exits.            *)
FailsDead == SupervisorEnds /\ held.control = "closed" /\ UNCHANGED run
FairSpec ==
  /\ Init /\ [][Next]_vars
  /\ WF_vars(Opens \/ Raises \/ DriverStep)
  /\ WF_vars(FailsDead)
  /\ \A t \in Threads : WF_vars(Recovery(t) /\ UNCHANGED run)

-----------------------------------------------------------------------------
(* When a driver is over, the supervisor it has started was waited for, or is  *)
(* kept by a published owner or as a retained cleanup actor.  The driver of    *)
(* the bootstrap's environment does not promise it.                            *)
NothingIsForgotten ==
  run.clause = "ended" /\ run.scenario \notin Bootstrapping =>
    child.state \in {"none", "reaped"} \/ entry = "owned" \/ artifacts.kept

(* An owner that is registered can be recovered again: as long as no release   *)
(* was certified, its journal and its directory are open, whatever raised.     *)
OwnerKeepsItsHandles ==
  entry = "owned" /\ ~owner.certified => held.journal = "open" /\ held.dir = "open"

(* What a driver leaves behind is known and can be recovered.                  *)
LeftoversAreRecoverable == NothingIsForgotten /\ OwnerKeepsItsHandles

(* An owner is kept with its handles until everything of it is proved gone.    *)
OwnersAreKeptUntilProved == LeftoversAreRecoverable /\ ReleaseIsProvedAndOnce

(* Every driver ends, and nobody keeps the lock of an owner for ever.          *)
EveryCallEnds ==
  /\ <>(run.clause = "ended")
  /\ \A t \in Threads : lock = t ~> lock # t

=============================================================================
