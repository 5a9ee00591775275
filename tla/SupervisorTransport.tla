------------------------ MODULE SupervisorTransport -------------------------
(* The transport that claimed a prepared launch (AttestedSupervisorTransport   *)
(* of _attestation_v2.py): it spawns the supervisor, goes through the          *)
(* handshake whose frames are certified in the journal, lets one initialize    *)
(* message through, and is closed by a cleanup that must end with a DONE and   *)
(* deleted journal.  Its methods are tasks of one event loop that share a FIFO *)
(* lock and give way at every await; spawning, the handshake and the cleanup   *)
(* run in threads that a cancellation does not abandon.                        *)
EXTENDS SupervisorLaunch, Sequences, SequencesExt

CONSTANTS
  Writers,      \* tasks that call write()
  MaxCalls      \* bound: calls of connect, write, end_input and release_buffered

ASSUME TransportAssumption ==
  /\ MaxCalls \in Nat
  /\ Writers \cap {"connect", "end", "release", "close"} = {}

Tasks == {"connect", "end", "release", "close"} \cup Writers

VARIABLES
  auth,     \* the _TransportAuthority of the transport
  sup,      \* the supervisor's process and pipes, as the system has them
  journal,  \* the journal of the launch: its head and the certified frames
  pc,       \* where each task stands
  queue,    \* the lock: its holder and those that wait
  reader,   \* read_messages()
  calls     \* calls made

transportVars == <<auth, sup, journal, pc, queue, reader, calls>>
vars == <<launchVars, transportVars>>

NoSupervisor == [state |-> "none", stdin |-> "none", stdout |-> "none",
                 runs |-> "none", initialize |-> 0, ended |-> FALSE]

TransportInit ==
  /\ auth = [state |-> "none", retained |-> FALSE, process |-> FALSE, stdin |-> FALSE,
             stdout |-> FALSE, ready |-> FALSE, seen |-> FALSE, buffered |-> 0,
             discarded |-> 0, receipt |-> FALSE, flagged |-> FALSE, broken |-> FALSE]
  /\ sup = NoSupervisor
  /\ journal = [kind |-> "READY", frames |-> 0, deleted |-> FALSE]
  /\ pc = [t \in Tasks |-> "idle"]
  /\ queue = <<>>
  /\ reader = "idle"
  /\ calls = 0

Init == LaunchInit /\ TransportInit

Holds(t) == queue # <<>> /\ Head(queue) = t
Moves(t, stage) == pc' = [pc EXCEPT ![t] = stage]

(* The task leaves the lock, and with it the method. *)
Leaves(t) ==
  /\ pc' = [pc EXCEPT ![t] = "idle"]
  /\ \E i \in DOMAIN queue : queue[i] = t /\ queue' = RemoveAt(queue, i)

Stays == UNCHANGED <<launchVars, calls>>

(* __init__: the launch is claimed, and its authority registered. *)
Creates ==
  /\ auth.state = "none"
  /\ Claims
  /\ auth' = [auth EXCEPT !.state = "active"]
  /\ UNCHANGED <<sup, journal, pc, queue, reader, calls>>

(* A transport nobody holds is discarded by its weak reference, unless a       *)
(* connect or a close has retained it.                                         *)
Discards ==
  /\ auth.state = "active" /\ ~auth.retained
  /\ queue = <<>> /\ reader # "waiting"
  /\ auth' = [auth EXCEPT !.state = "discarded"]
  /\ Stays /\ UNCHANGED <<sup, journal, pc, queue, reader>>

(* A method finds the authority active and asks for the lock. *)
Enters(t) ==
  /\ t # "close" /\ pc[t] = "idle"
  /\ auth.state = "active" /\ calls < MaxCalls
  /\ calls' = calls + 1
  /\ queue' = Append(queue, t)
  /\ Moves(t, "waiting")
  /\ UNCHANGED launchVars /\ UNCHANGED <<auth, sup, journal, reader>>

(* It is cancelled while it waits for the lock, or at the checkpoint of a      *)
(* thread that has not started yet; close() is shielded.                       *)
CancelledWaiting(t) ==
  /\ t # "close" /\ pc[t] \in {"waiting", "spawn"}
  /\ Leaves(t)
  /\ Stays /\ UNCHANGED <<auth, sup, journal, reader>>

(* Mutant: the check after the lock is taken raises without releasing it. *)
Refused_KeepsLock(t) ==
  /\ t # "close" /\ pc[t] = "waiting" /\ Holds(t)
  /\ auth.state # "active"
  /\ Moves(t, "idle")
  /\ Stays /\ UNCHANGED <<auth, sup, journal, queue, reader>>

(* With the lock, the authority is checked again: close() may have burned it. *)
Refused(t) ==
  /\ t # "close" /\ pc[t] = "waiting" /\ Holds(t)
  /\ auth.state # "active"
  /\ Leaves(t)
  /\ Stays /\ UNCHANGED <<auth, sup, journal, reader>>

Admitted(t) == pc[t] = "waiting" /\ Holds(t) /\ auth.state = "active"

-----------------------------------------------------------------------------
(* The authority keeps its transport alive. *)
Retained(a) == [a EXCEPT !.retained = TRUE]

(* Mutant: the authority is not retained before the supervisor is spawned. *)
Connects_Unretained ==
  /\ Admitted("connect")
  /\ IF auth.process
     THEN Leaves("connect") /\ UNCHANGED auth
     ELSE Moves("connect", "spawn") /\ UNCHANGED <<auth, queue>>
  /\ Stays /\ UNCHANGED <<sup, journal, reader>>

(* connect() *)
Connects ==
  /\ Admitted("connect")
  /\ IF auth.process
     THEN Leaves("connect") /\ UNCHANGED auth
     ELSE /\ auth' = Retained(auth)
          /\ Moves("connect", "spawn") /\ UNCHANGED queue
  /\ Stays /\ UNCHANGED <<sup, journal, reader>>

(* The thread starts the supervisor, and its owner is recorded even when       *)
(* close() has begun meanwhile; the child's end of the control is closed.      *)
SpawnsSupervisor ==
  /\ pc["connect"] = "spawn"
  /\ \/ /\ sup' = [sup EXCEPT !.state = "running", !.stdin = "open", !.stdout = "open"]
        /\ auth' = [auth EXCEPT !.process = TRUE]
        /\ Moves("connect", "handshake") /\ UNCHANGED queue
     \/ Leaves("connect") /\ UNCHANGED <<auth, sup>>
  /\ Stays /\ UNCHANGED <<journal, reader>>

(* _perform_handshake.  The frames are the supervisor's identity, the anchor's,*)
(* the armed CLI's and the running CLI's; each is certified in the journal and *)
(* acknowledged before the next one.  The third must name the measured CLI as  *)
(* the one to be executed, and the fourth the one that is executed.            *)
NamesTheCli(frame) ==
  CASE frame = 3 -> cli.image = "pinned"
    [] frame = 4 -> sup.runs = "pinned"
    [] OTHER -> TRUE

ExchangesFrame ==
  /\ pc["connect"] = "handshake" /\ journal.frames < 4
  /\ sup.state = "running" /\ journal.kind # "READY"
  /\ sup.runs # "none" \/ journal.frames < 3
  /\ journal' = [journal EXCEPT !.frames = @ + 1]
  /\ IF NamesTheCli(journal.frames + 1)
     THEN UNCHANGED <<pc, queue, auth>>
     ELSE Leaves("connect") /\ auth' = [auth EXCEPT !.flagged = TRUE]
  /\ Stays /\ UNCHANGED <<sup, reader>>

(* Released by the third acknowledgement, the armed member executes the CLI.  *)
CliStarts ==
  /\ sup.state = "running" /\ sup.runs = "none"
  /\ pc["connect"] = "handshake" /\ journal.frames = 3
  /\ sup' = [sup EXCEPT !.runs = cli.image]
  /\ Stays /\ UNCHANGED <<auth, journal, pc, queue, reader>>

(* A frame does not come in 5 s, is malformed or is not certified.            *)
HandshakeFails ==
  /\ pc["connect"] = "handshake" /\ journal.frames < 4
  /\ auth' = [auth EXCEPT !.flagged = TRUE]
  /\ Leaves("connect")
  /\ Stays /\ UNCHANGED <<sup, journal, reader>>

(* The receipt is recorded with the pipes; the transport is ready only if      *)
(* close() has not begun.                                                      *)
HandshakeEnds ==
  /\ pc["connect"] = "handshake" /\ journal.frames = 4
  /\ auth' = [auth EXCEPT !.receipt = TRUE, !.stdin = TRUE, !.stdout = TRUE,
                          !.ready = auth.state = "active"]
  /\ Leaves("connect")
  /\ Stays /\ UNCHANGED <<sup, journal, reader>>

-----------------------------------------------------------------------------
(* Mutant: every safe initialize is sent. *)
SendsInitialize_Each(safe) == safe

(* write(): the first safe initialize is sent, anything else is held back.     *)
SendsInitialize(safe) == safe /\ ~auth.seen

Writes(w) ==
  /\ Admitted(w)
  /\ \E safe \in BOOLEAN :
       IF ~auth.ready \/ ~auth.stdin
       THEN Leaves(w) /\ UNCHANGED auth
       ELSE IF SendsInitialize(safe)
       THEN /\ auth' = [auth EXCEPT !.seen = TRUE]
            /\ Moves(w, "sending") /\ UNCHANGED queue
       ELSE /\ auth' = [auth EXCEPT !.buffered = @ + 1]
            /\ Leaves(w)
  /\ Stays /\ UNCHANGED <<sup, journal, reader>>

(* The thread writes the bytes, or fails, or is abandoned after 1 s, or when   *)
(* its task is cancelled.                                                      *)
Sends(w) ==
  /\ pc[w] = "sending"
  /\ \/ sup.stdin = "open" /\ sup' = [sup EXCEPT !.initialize = @ + 1]
     \/ UNCHANGED sup
  /\ Leaves(w)
  /\ Stays /\ UNCHANGED <<auth, journal, reader>>

(* end_input(): closing stdin takes less than 0.25 s, or is unconfirmed, or is *)
(* cancelled; a thread that is abandoned may still close it.                   *)
EndsInput ==
  /\ Admitted("end")
  /\ IF auth.stdin THEN Moves("end", "closing") /\ UNCHANGED queue ELSE Leaves("end")
  /\ Stays /\ UNCHANGED <<auth, sup, journal, reader>>

StdinIsClosed ==
  /\ pc["end"] = "closing"
  /\ \/ /\ sup' = [sup EXCEPT !.stdin = "closed"]
        /\ auth' = [auth EXCEPT !.stdin = FALSE]
     \/ /\ \E late \in {"open", "closed"} : sup' = [sup EXCEPT !.stdin = late]
        /\ \E flagged \in {TRUE, auth.flagged} : auth' = [auth EXCEPT !.flagged = flagged]
  /\ Leaves("end")
  /\ Stays /\ UNCHANGED <<journal, reader>>

(* release_buffered(): what was held back is dropped, and the transport closed. *)
Releases ==
  /\ Admitted("release")
  /\ auth' = [auth EXCEPT !.discarded = @ + auth.buffered, !.buffered = 0]
  /\ Leaves("release")
  /\ Stays /\ UNCHANGED <<sup, journal, reader>>

-----------------------------------------------------------------------------
(* read_messages(): the authority is checked before a chunk is awaited and     *)
(* after it came.                                                              *)
StartsReading ==
  /\ reader = "idle" /\ auth.state = "active" /\ auth.stdout
  /\ reader' = "waiting"
  /\ Stays /\ UNCHANGED <<auth, sup, journal, pc, queue>>

(* It ends with the output, a bad message, its cancellation, or an authority   *)
(* that is no longer active.                                                   *)
StopsReading ==
  /\ reader = "waiting"
  /\ reader' = "idle"
  /\ Stays /\ UNCHANGED <<auth, sup, journal, pc, queue>>

-----------------------------------------------------------------------------
(* close(), also at the end of release_buffered(): the authority is burned     *)
(* before anything else, what was held back is dropped, stdout is closed once. *)
(* A close that raises leaves it unconfirmed.                                  *)
StdoutClosed(closes) ==
  [sup EXCEPT !.stdout = IF auth.stdout THEN (IF closes THEN "closed" ELSE "unconfirmed") ELSE @]

Burned(a) ==
  [Retained(a) EXCEPT !.state = "closing", !.ready = FALSE,
                      !.discarded = @ + a.buffered, !.buffered = 0]

BeginsClosing ==
  /\ pc["close"] = "idle" /\ auth.state = "active"
  /\ \E closes \in BOOLEAN :
       /\ sup' = StdoutClosed(closes)
       /\ auth' = [Burned(auth) EXCEPT !.stdout = @ /\ ~closes,
                                       !.broken = auth.stdout /\ ~closes]
  /\ queue' = Append(queue, "close")
  /\ Moves("close", "waiting")
  /\ Stays /\ UNCHANGED <<journal, reader>>

GivesUp(a) == [a EXCEPT !.state = "unconfirmed", !.flagged = TRUE]

(* A stdin whose close takes more than 0.25 s stays, and is unconfirmed.       *)
StdinClosed(a, closes) ==
  [a EXCEPT !.stdin = @ /\ ~closes, !.flagged = @ \/ (a.stdin /\ ~closes)]

(* With the lock: a stdout that a connect has installed meanwhile is closed    *)
(* too, then stdin; how the process is closed depends on the receipt.          *)
ClosesPipes ==
  /\ pc["close"] = "waiting" /\ Holds("close")
  /\ \/ /\ auth.broken
        /\ auth' = GivesUp(auth)
        /\ Leaves("close") /\ UNCHANGED sup
     \/ /\ ~auth.broken
        /\ \/ \E stdinCloses \in BOOLEAN :
                /\ sup' = [StdoutClosed(TRUE) EXCEPT
                             !.stdin = IF auth.stdin /\ stdinCloses THEN "closed" ELSE @]
                /\ auth' = [StdinClosed(auth, stdinCloses) EXCEPT !.stdout = FALSE]
                /\ Moves("close", IF auth.receipt THEN "cleanup" ELSE "reconcile")
                /\ UNCHANGED queue
           \/ /\ auth.stdout
              /\ sup' = StdoutClosed(FALSE)
              /\ auth' = GivesUp(auth)
              /\ Leaves("close")
  /\ Stays /\ UNCHANGED <<journal, reader>>

(* The end of _close_transition: only a closed stdin and a closed process let  *)
(* the authority go.                                                           *)
EndsClosing(processClosed, a) ==
  /\ auth' = IF processClosed /\ ~auth.stdin
             THEN [a EXCEPT !.state = "closed", !.retained = FALSE]
             ELSE GivesUp(a)
  /\ Leaves("close")

ForgetsProcess(a) == [a EXCEPT !.process = FALSE, !.stdin = FALSE, !.stdout = FALSE]

(* _close_failed_handshake_process, without a receipt: there was no process,   *)
(* or it is reaped through the journal if it has ended, which never counts as  *)
(* closed.  An expired lease is needed to retire an executor that is active.   *)
Reconciled ==
  CASE journal.kind = "ACTIVE_READY" -> {"UNCONFIRMED"}
    [] journal.kind = "BATCH_ACTIVE" -> {"UNCONFIRMED", "DONE"}
    [] journal.kind = "DONE" -> {"DONE"}
    [] OTHER -> {}

(* waitid sees an end that is not waited for yet. *)
Reapable == sup.state = "exited"

(* Mutant: a process that was reaped after a failed handshake counts as closed. *)
ReconcilesFailedHandshake_Closes ==
  /\ pc["close"] = "reconcile"
  /\ \/ /\ ~auth.process
        /\ EndsClosing(TRUE, auth) /\ UNCHANGED <<sup, journal>>
     \/ /\ auth.process /\ Reapable
        /\ \E kind \in Reconciled : journal' = [journal EXCEPT !.kind = kind]
        /\ sup' = [sup EXCEPT !.state = "reaped", !.stdin = "closed", !.stdout = "closed"]
        /\ EndsClosing(TRUE, ForgetsProcess(auth))
  /\ Stays /\ UNCHANGED reader

ReconcilesFailedHandshake ==
  /\ pc["close"] = "reconcile"
  /\ \/ /\ ~auth.process
        /\ EndsClosing(TRUE, auth) /\ UNCHANGED <<sup, journal>>
     \/ /\ auth.process /\ Reapable
        /\ \E kind \in Reconciled : journal' = [journal EXCEPT !.kind = kind]
        /\ \/ /\ sup' = [sup EXCEPT !.state = "reaped", !.stdin = "closed",
                                    !.stdout = "closed"]
              /\ EndsClosing(FALSE, ForgetsProcess(auth))
           \/ /\ sup' = [sup EXCEPT !.state = "reaped"]
              /\ EndsClosing(FALSE, auth)
     \/ /\ auth.process
        /\ EndsClosing(FALSE, auth) /\ UNCHANGED <<sup, journal>>
  /\ Stays /\ UNCHANGED reader

(* _close_running_process: the cleanup is requested and certified, and must    *)
(* end in DONE; the supervisor must then exit with 0; it is reaped through the *)
(* journal, which is certified and deleted.  Each step may fail.               *)
ClosesRunningProcess ==
  LET stage == pc["close"]
      Proceeds(next) == Moves("close", next) /\ UNCHANGED <<queue, auth>>
  IN
  /\ stage \in {"cleanup", "observe", "reap", "delete"}
  /\ \/ /\ stage = "cleanup" /\ journal.kind = "DONE"
        /\ Proceeds("observe") /\ UNCHANGED <<sup, journal>>
     \/ /\ stage = "observe" /\ Reapable /\ sup.ended
        /\ Proceeds("reap") /\ UNCHANGED <<sup, journal>>
     \/ /\ stage = "reap"
        /\ sup' = [sup EXCEPT !.state = "reaped"]
        /\ Proceeds("delete") /\ UNCHANGED journal
     \/ /\ stage = "delete"
        /\ journal' = [journal EXCEPT !.deleted = TRUE]
        /\ sup' = [sup EXCEPT !.stdin = "closed", !.stdout = "closed"]
        /\ EndsClosing(TRUE, ForgetsProcess(auth))
     \/ /\ stage = "delete" /\ auth.stdin
        /\ journal' = [journal EXCEPT !.deleted = TRUE]
        /\ EndsClosing(FALSE, auth) /\ UNCHANGED sup
     \/ EndsClosing(FALSE, auth) /\ UNCHANGED <<sup, journal>>
  /\ Stays /\ UNCHANGED reader

-----------------------------------------------------------------------------
(* The supervisor, as this process sees it: it activates the journal, cleans   *)
(* up when it is asked to or when its CLI ends, and exits with 0 after DONE;   *)
(* it may die at any time.                                                     *)
SupervisorKinds == <<"READY", "ACTIVE_READY", "BATCH_ACTIVE", "DONE">>

SupervisorAdvances ==
  /\ sup.state = "running"
  /\ \E from \in 1..3 :
       /\ journal.kind = SupervisorKinds[from]
       /\ journal' = [journal EXCEPT !.kind = SupervisorKinds[from + 1]]
  /\ Stays /\ UNCHANGED <<auth, sup, pc, queue, reader>>

SupervisorExits ==
  /\ sup.state = "running"
  /\ \E ended \in {FALSE, journal.kind = "DONE"} :
       sup' = [sup EXCEPT !.state = "exited", !.ended = ended]
  /\ Stays /\ UNCHANGED <<auth, journal, pc, queue, reader>>

-----------------------------------------------------------------------------
Progress ==
  \/ Connects \/ SpawnsSupervisor \/ ExchangesFrame \/ HandshakeFails \/ HandshakeEnds
  \/ \E t \in Tasks : Refused(t)
  \/ \E w \in Writers : Writes(w) \/ Sends(w)
  \/ EndsInput \/ StdinIsClosed \/ Releases
  \/ ClosesPipes \/ ReconcilesFailedHandshake \/ ClosesRunningProcess

TransportNext ==
  \/ Creates \/ Discards
  \/ \E t \in Tasks : Enters(t) \/ CancelledWaiting(t)
  \/ StartsReading \/ StopsReading \/ BeginsClosing \/ Progress
  \/ CliStarts \/ SupervisorAdvances \/ SupervisorExits

Next == (LaunchNext /\ UNCHANGED transportVars) \/ TransportNext

Spec == Init /\ [][Next]_vars

(* Every await of a method is bounded by a timeout or ends with its thread.    *)
FairSpec == Spec /\ WF_vars(Progress)

-----------------------------------------------------------------------------
(* A transport that is closed has left nothing: the supervisor was never       *)
(* started, or it was reaped after a DONE cleanup and its journal deleted; its *)
(* pipes are closed, its process is forgotten and no write is held back.       *)
ClosedIsClean ==
  auth.state = "closed" =>
    /\ sup.state = "none" \/ (sup.state = "reaped" /\ journal.deleted /\ journal.kind = "DONE")
    /\ {sup.stdin, sup.stdout} \cap {"open", "unconfirmed"} = {}
    /\ ~auth.process /\ ~auth.retained /\ auth.buffered = 0

(* A supervisor that has not been reaped is recorded in an authority that is   *)
(* registered and that keeps its transport alive, whatever was cancelled,      *)
(* failed or was closed meanwhile.                                             *)
OwnedUntilReaped ==
  sup.state \in {"running", "exited"} =>
    /\ auth.state \in {"active", "closing", "unconfirmed"}
    /\ auth.process /\ auth.retained

(* A supervisor is owned from its start until it is reaped and cleaned up.     *)
SupervisorIsOwned == OwnedUntilReaped /\ ClosedIsClean

(* What is written reaches the CLI at most once, as its initialize message,    *)
(* and only a CLI that runs the executable measured for the launch, even if    *)
(* the file at its path is replaced at any time.                               *)
OnlyInitializeIsSent ==
  sup.initialize > 0 => sup.initialize = 1 /\ auth.receipt /\ sup.runs = "pinned"

(* A close that has begun ends with the transport closed or unconfirmed.       *)
CloseEnds == auth.state = "closing" ~> auth.state \in {"closed", "unconfirmed"}
=============================================================================
