-------------------------- MODULE SupervisorLaunch ---------------------------
(* How the native supervisor is prepared for launch (_attestation_v2.py): the  *)
(* CLI is measured before and after a bounded run of "claude --version", whose *)
(* process is owned by an entry of _RETAINED_VERSION_PROBES until the whole    *)
(* process group is gone and its resources are closed; the launch that results *)
(* is then claimed by one transport, within a capacity.  The probe runs under  *)
(* _VERSION_PROBE_LOCK in one thread, so its steps are those of one program;   *)
(* what interleaves is the child, its descendants and the interrupts.          *)
EXTENDS Naturals

CONSTANTS
  Capacity,   \* _MAX_LIVE_TRANSPORT_AUTHORITIES
  MaxProbes,  \* bound: calls of prepare_supervisor_launch
  MaxSwaps    \* bound: replacements of the file behind the path of the CLI

ASSUME LaunchAssumption ==
  /\ Capacity \in Nat \ {0}
  /\ MaxProbes \in Nat
  /\ MaxSwaps \in Nat

VARIABLES
  step,    \* where the thread that prepares the launch stands
  owner,   \* the _VersionProbeOwner that is registered
  child,   \* the probe's process, its group, its pipes and stray signals to it
  cli,     \* the file behind the path, and what was executed of it
  launch,  \* the PreparedSupervisorLaunch
  others   \* registered transports of other launches

launchVars == <<step, owner, child, cli, launch, others>>

NoOwner == [entry |-> "none", handle |-> FALSE, selector |-> FALSE,
            disposition |-> "pending"]
NoChild == [state |-> "none", group |-> FALSE, pipes |-> FALSE, stray |-> FALSE]

LaunchInit ==
  /\ step = [at |-> "idle", runs |-> 0, threads |-> FALSE, ok |-> FALSE]
  /\ owner = NoOwner
  /\ child = NoChild
  /\ cli = [image |-> "pinned", ran |-> "none", swaps |-> 0]
  /\ launch = "none"
  /\ others \in 0..Capacity

At(stage) == step.at = stage
Goes(stage) == step' = [step EXCEPT !.at = stage]

Unreaped == child.state \in {"running", "zombie"}

(* Mutant: descendants in the group are not looked for. *)
GroupAbsent_LeaderOnly == child.state = "zombie"

(* Only the leader is left, and it can be reaped. *)
GroupAbsent == child.state = "zombie" /\ ~child.group

(* What _validate_version_probe_owner asks of a live owner: its process was    *)
(* not reaped behind its back.                                                 *)
LiveAndOwned == owner.entry = "live" /\ Unreaped

-----------------------------------------------------------------------------
(* The environment: the child forks, exits and leaves descendants behind; the  *)
(* file of the CLI is replaced; another launch's transport is closed.          *)
ChildForks ==
  /\ child.state = "running" /\ ~child.group
  /\ child' = [child EXCEPT !.group = TRUE]
  /\ UNCHANGED <<step, owner, cli, launch, others>>

DescendantExits ==
  /\ child.group
  /\ child' = [child EXCEPT !.group = FALSE]
  /\ UNCHANGED <<step, owner, cli, launch, others>>

ChildExits ==
  /\ child.state = "running"
  /\ child' = [child EXCEPT !.state = "zombie"]
  /\ UNCHANGED <<step, owner, cli, launch, others>>

CliIsReplaced ==
  /\ cli.swaps < MaxSwaps
  /\ cli' = [cli EXCEPT !.swaps = @ + 1,
                        !.image = IF @ = "pinned" THEN "other" ELSE "pinned"]
  /\ UNCHANGED <<step, owner, child, launch, others>>

OtherCloses ==
  /\ others > 0
  /\ others' = others - 1
  /\ UNCHANGED <<step, owner, child, cli, launch>>

-----------------------------------------------------------------------------
(* _measure_cli snapshots the file, which must be the manifest's, and          *)
(* _run_bounded_version_probe reserves the single entry.  Other threads of the *)
(* process may be there to take a SIGINT this thread blocks.                   *)
Reserves ==
  /\ At("idle") /\ step.runs < MaxProbes
  /\ launch = "none"
  /\ cli.image = "pinned"
  /\ owner.entry = "none"
  /\ owner' = [NoOwner EXCEPT !.entry = "reserved"]
  /\ child' = NoChild
  /\ \E t \in BOOLEAN :
       step' = [at |-> "spawn", runs |-> step.runs + 1, threads |-> t, ok |-> FALSE]
  /\ UNCHANGED <<cli, launch, others>>

(* Popen fails and leaves the reservation, returns the child in a session of   *)
(* its own, or is interrupted after the fork: the handle is lost, and the      *)
(* reservation stands for the child that may exist.                            *)
Spawns ==
  /\ At("spawn")
  /\ \/ /\ Goes("failed") /\ UNCHANGED <<child, cli>>
     \/ /\ \E stage \in {"attach", "failed"} : Goes(stage)
        /\ child' = [NoChild EXCEPT !.state = "running", !.pipes = TRUE]
        /\ cli' = [cli EXCEPT !.ran = cli.image]
  /\ UNCHANGED <<owner, launch, others>>

(* _promote_version_probe_reservation attaches the handle and moves the entry  *)
(* from the reservation to the process; it can fail in between.                *)
Attaches ==
  /\ At("attach")
  /\ \/ Goes("capture") /\ owner' = [owner EXCEPT !.handle = TRUE, !.entry = "live"]
     \/ Goes("failed") /\ owner' = [owner EXCEPT !.handle = TRUE]
  /\ UNCHANGED <<child, cli, launch, others>>

(* _capture_version_probe_owner confirms the group, and the pending SIGINT is  *)
(* let in: what is raised here leaves before the cleanup of the run is armed.  *)
Captures ==
  /\ At("capture")
  /\ Goes("read") \/ Goes("failed")
  /\ UNCHANGED <<owner, child, cli, launch, others>>

(* The selector reads both pipes to their end, within 5 s and 256 bytes.       *)
Reads ==
  /\ At("read")
  /\ \/ Goes("clean") /\ UNCHANGED owner
     \/ /\ \E stage \in {"finish", "clean"} : Goes(stage)
        /\ owner' = [owner EXCEPT !.selector = TRUE]
  /\ UNCHANGED <<child, cli, launch, others>>

(* _finish_version_probe: the leader is reapable and alone, or the run fails.  *)
Finishes ==
  /\ At("finish")
  /\ IF GroupAbsent THEN Goes("reap") \/ Goes("clean") ELSE Goes("clean")
  /\ UNCHANGED <<owner, child, cli, launch, others>>

(* _reap_version_probe_leader waits for the leader once its group is absent.   *)
(* An interrupt after the wait, which another thread lets through, leaves the  *)
(* owner "live" although its process has been reaped.                          *)
Reaps ==
  /\ step.at \in {"reap", "reapKilled"}
  /\ LET interrupted == IF At("reap") THEN "clean" ELSE "failed"
         reaped == [child EXCEPT !.state = "reaped"]
     IN IF LiveAndOwned /\ GroupAbsent
        THEN \/ /\ child' = reaped
                /\ owner' = [owner EXCEPT !.entry = "reaped"]
                /\ step' = [step EXCEPT !.at = "clean", !.ok = At("reap")]
             \/ Goes(interrupted) /\ UNCHANGED <<owner, child>>
             \/ /\ step.threads
                /\ child' = reaped
                /\ Goes(interrupted) /\ UNCHANGED owner
        ELSE Goes(interrupted) /\ UNCHANGED <<owner, child>>
  /\ UNCHANGED <<cli, launch, others>>

(* Mutant: the exit status of a live owner is not looked at. *)
MaySignal_AnyLive == owner.entry = "live"

(* _signal_version_probe_group: the unreaped leader guards against the reuse   *)
(* of its group's number; a signal without it may reach somebody else.         *)
MaySignal == LiveAndOwned

Signals(next) ==
  IF MaySignal
  THEN /\ Goes(next) \/ Goes("failed")
       /\ child' = [child EXCEPT !.stray = @ \/ ~Unreaped]
  ELSE Goes("failed") /\ UNCHANGED child

(* _cleanup_version_probe_owner, in the finally of the run: a reserved owner   *)
(* is beyond it, a reaped one has only its resources to close, a live one is   *)
(* terminated: TERM unless the group is absent, KILL if it is not after 0.25 s,*)
(* and it is reaped only if the group is absent after 2 s more.                *)
Cleans ==
  /\ At("clean")
  /\ CASE owner.entry = "reaped" -> Goes("close") /\ UNCHANGED child
       [] owner.entry = "live" /\ GroupAbsent -> Goes("reapKilled") /\ UNCHANGED child
       [] owner.entry = "live" /\ ~GroupAbsent -> Signals("term")
       [] OTHER -> Goes("failed") /\ UNCHANGED child
  /\ UNCHANGED <<owner, cli, launch, others>>

Terminates ==
  /\ At("term")
  /\ IF GroupAbsent THEN Goes("reapKilled") /\ UNCHANGED child ELSE Signals("kill")
  /\ UNCHANGED <<owner, cli, launch, others>>

Kills ==
  /\ At("kill")
  /\ Goes(IF GroupAbsent THEN "reapKilled" ELSE "failed")
  /\ UNCHANGED <<owner, child, cli, launch, others>>

(* _close_version_probe_resources: the selector's close is tried once, the     *)
(* pipes are closed whatever it did, and the entry is removed only when all    *)
(* are known to be closed.                                                     *)
ClosesResources ==
  /\ At("close")
  /\ \E selectorCloses, pipesClose \in BOOLEAN :
       LET closed == ~owner.selector \/ (selectorCloses /\ owner.disposition = "pending")
           pipes == child.pipes /\ ~pipesClose
       IN /\ child' = [child EXCEPT !.pipes = pipes]
          /\ IF closed /\ ~pipes
             THEN /\ owner' = NoOwner
                  /\ Goes("measured")
             ELSE /\ owner' = [owner EXCEPT !.disposition =
                                 IF closed THEN "closed" ELSE "ambiguous"]
                  /\ Goes("failed")
  /\ UNCHANGED <<cli, launch, others>>

(* The end of _measure_cli: the run succeeded, the file is as it was and the   *)
(* version is the one the manifest pins; if not, the caller may try again.     *)
(* What another image prints is not known.                                     *)
Measures ==
  /\ At("measured")
  /\ \E printsPinned \in {TRUE, cli.ran = "pinned"} :
       Goes(IF step.ok /\ cli.image = "pinned" /\ printsPinned THEN "prepare" ELSE "idle")
  /\ UNCHANGED <<owner, child, cli, launch, others>>

(* prepare_supervisor_launch creates the launch, or refuses its environment.   *)
Prepares ==
  /\ At("prepare")
  /\ Goes("idle")
  /\ launch' \in {"none", "prepared"}
  /\ UNCHANGED <<owner, child, cli, others>>

(* PreparedSupervisorLaunch._claim: one transport, if there is room for it.    *)
Claims ==
  /\ launch = "prepared"
  /\ others < Capacity
  /\ launch' = "claimed"
  /\ UNCHANGED <<step, owner, child, cli, others>>

Environment ==
  ChildForks \/ DescendantExits \/ ChildExits \/ CliIsReplaced \/ OtherCloses

LaunchNext ==
  \/ Environment
  \/ Reserves \/ Spawns \/ Attaches \/ Captures \/ Reads \/ Finishes \/ Reaps
  \/ Cleans \/ Terminates \/ Kills \/ ClosesResources \/ Measures \/ Prepares

-----------------------------------------------------------------------------
(* Nothing is left behind: while the registry of probes is empty and no probe  *)
(* runs, there is no process of a probe, no descendant in its group, and no    *)
(* open pipe; an entry that is retained holds the handle of its process unless *)
(* it is the ambiguous reservation.                                            *)
NothingLeftBehind ==
  /\ owner.entry = "none" => ~Unreaped /\ ~child.group /\ ~child.pipes
  /\ owner.entry \in {"live", "reaped"} => owner.handle
  /\ owner.entry = "reaped" => child.state = "reaped" /\ ~child.group

(* A signal goes to the group of the probe only while its unreaped leader      *)
(* keeps the group's number from being reused.                                 *)
NoStraySignal == ~child.stray

(* The version probe ends its own process group and no other, entirely.        *)
ProbeIsContained == NothingLeftBehind /\ NoStraySignal
=============================================================================
