---------------------------- MODULE CredentialStore ----------------------------
(***************************************************************************)
(* The OpenAI credentials in the file system and the tasks that use them   *)
(* (openai_subscription/storage.py, CredentialManager of auth.py): use and *)
(* refresh by requests of one or several servers, `quaylet login openai`   *)
(* and `quaylet logout openai`, each maybe in a process of its own.        *)
(*                                                                         *)
(* A task runs the store's operations in a thread (asyncio.to_thread),     *)
(* which goes on when the task is cancelled: op is the coroutine, job the  *)
(* thread.  A grant is one answer of the token endpoint, an access token   *)
(* and a refresh token; every save stores a grant of its own, so the grant *)
(* stands for the random revision of the file.  The random generation is   *)
(* only compared with a snapshot of it: snapshots holds the logins whose   *)
(* snapshot is still what the file holds.                                  *)
(***************************************************************************)
EXTENDS Naturals

CONSTANTS
  Tasks,
  None,
  MaxGrants,  \* bound on the grants the token endpoint issues
  Faults      \* which of cancel, crash, loss, disk, timeout may happen

ASSUME GrantsAssumption == MaxGrants \in Nat \ {0}
ASSUME NoneAssumption ==
  None \notin Nat /\ None \notin Tasks /\ None \notin {"save", "store", "delete"}
ASSUME FaultsAssumption ==
  Faults \subseteq {"cancel", "crash", "loss", "disk", "timeout"}

VARIABLES
  stored,        \* openai-credentials.json: a grant, or None without a file
  snapshots,     \* logins whose snapshot equals openai-generation
  state_lock,    \* who has openai-state.lock
  refresh_lock,  \* who has openai-refresh.lock
  op,            \* what each task does
  job,           \* what the thread of each task does
  issued,        \* token endpoint: how many grants it has issued
  spent,         \* token endpoint: grants whose refresh token was exchanged
  expired,       \* the stored access token is about to expire
  late           \* history: logins begun before the last change or logout

vars == <<stored, snapshots, state_lock, refresh_lock, op, job, issued, spent,
          expired, late>>
server == <<issued, spent>>
files == <<stored, expired, snapshots, state_lock, late>>

Grants == 1..MaxGrants
Idle == [pc |-> "idle", grant |-> None, rejected |-> FALSE]
NoJob == [do |-> None, pc |-> "done", new |-> None, expected |-> None]

Init ==
  /\ stored = None /\ snapshots = {} /\ late = {}
  /\ state_lock = None /\ refresh_lock = None
  /\ op = [p \in Tasks |-> Idle]
  /\ job = [p \in Tasks |-> NoJob]
  /\ issued = 0 /\ spent = {} /\ expired = FALSE

Goes(p, pc, grant) == op' = [op EXCEPT ![p].pc = pc, ![p].grant = grant]
Ends(p) == op' = [op EXCEPT ![p] = Idle]
Starts(p, do, new, expected) ==
  job' = [job EXCEPT ![p] = [do |-> do, pc |-> "queued", new |-> new,
                             expected |-> expected]]
Free(p) == op[p].pc = "idle" /\ job[p] = NoJob
Forgets(p) == snapshots' = snapshots \ {p} /\ late' = late \ {p}

----------------------------------------------------------------------------
(* credentials() and refresh_once(): load() takes no lock.                 *)

Expire ==
  /\ stored # None /\ ~expired
  /\ expired' = TRUE
  /\ UNCHANGED <<stored, snapshots, state_lock, late, refresh_lock, op, job, server>>

Use(p) ==
  /\ Free(p) /\ stored # None
  /\ Goes(p, IF expired THEN "waiting" ELSE "using", stored)
  /\ UNCHANGED <<files, refresh_lock, job, server>>

\* The backend answers 401: once per request, the token is refreshed.
RefreshOnce(p) ==
  /\ op[p].pc = "using" /\ ~op[p].rejected
  /\ op' = [op EXCEPT ![p] =
              IF stored = None THEN Idle
              ELSE [pc |-> IF stored = op[p].grant THEN "waiting" ELSE "using",
                    grant |-> stored, rejected |-> TRUE]]
  /\ UNCHANGED <<files, refresh_lock, job, server>>

\* The request is over, or the lock was not to be had in time.
Leave(p) ==
  /\ op[p].pc \in {"using", "waiting"}
  /\ Ends(p)
  /\ UNCHANGED <<files, refresh_lock, job, server>>

----------------------------------------------------------------------------
(* _refresh under openai-refresh.lock: it ends with credentials to use or, *)
(* as None, an error, and a thread releases the lock on the way out.       *)

\* Wrong: the lock is shared.
Acquire_Shared(p) ==
  /\ op[p].pc = "waiting"
  /\ refresh_lock' = p
  /\ Goes(p, "checking", op[p].grant)
  /\ UNCHANGED <<files, job, server>>

Acquire(p) ==
  /\ op[p].pc = "waiting" /\ refresh_lock = None
  /\ refresh_lock' = p
  /\ Goes(p, "checking", op[p].grant)
  /\ UNCHANGED <<files, job, server>>

\* Wrong: no second look at the file under the lock.
Check_Once(p) ==
  /\ op[p].pc = "checking"
  /\ Goes(p, "exchanging", op[p].grant)
  /\ UNCHANGED <<files, refresh_lock, job, server>>

\* The second look: another task may have refreshed, logged in or out.
Check(p) ==
  /\ op[p].pc = "checking"
  /\ IF stored = op[p].grant /\ (op[p].rejected \/ expired)
       THEN Goes(p, "exchanging", stored)
       ELSE Goes(p, "releasing", stored)
  /\ UNCHANGED <<files, refresh_lock, job, server>>

\* The endpoint has rotated the refresh token.
Rotated(p) ==
  /\ op[p].pc = "exchanging" /\ op[p].grant \notin spent /\ issued < MaxGrants
  /\ issued' = issued + 1
  /\ spent' = spent \cup {op[p].grant}
  /\ Starts(p, "save", issued + 1, op[p].grant)
  /\ Goes(p, "persisting", op[p].grant)
  /\ UNCHANGED <<files, refresh_lock>>

\* 400, 401 or 403: for a token that is spent or was revoked.
Refused(p) ==
  /\ op[p].pc = "exchanging"
  /\ Starts(p, "delete", None, op[p].grant)
  /\ Goes(p, "persisting", op[p].grant)
  /\ UNCHANGED <<files, refresh_lock, server>>

\* An exchange that the endpoint has carried out and nobody learns of.
Exchanged(p) ==
  spent' = IF op[p].pc = "exchanging" THEN spent \cup {op[p].grant} ELSE spent

\* The endpoint cannot be reached or fails; or its answer is lost, malformed or
\* names another account.
Unanswered(p) ==
  /\ op[p].pc = "exchanging"
  /\ \/ UNCHANGED spent
     \/ "loss" \in Faults /\ Exchanged(p)
  /\ Goes(p, "releasing", None)
  /\ UNCHANGED <<files, refresh_lock, job, issued>>

\* The thread has come back to the coroutine.
Persisted(p) ==
  /\ op[p].pc = "persisting" /\ job[p].pc \in {"done", "failed"}
  /\ Goes(p, "releasing", IF job[p].pc = "done" THEN job[p].new ELSE None)
  /\ job' = [job EXCEPT ![p] = NoJob]
  /\ UNCHANGED <<files, refresh_lock, server>>

Released(p) ==
  /\ op[p].pc = "releasing"
  /\ refresh_lock' = None
  /\ IF op[p].grant = None THEN Ends(p) ELSE Goes(p, "using", op[p].grant)
  /\ UNCHANGED <<files, job, server>>

----------------------------------------------------------------------------
(* login() and logout().                                                   *)

Snapshot(p) ==
  /\ Free(p) /\ state_lock = None
  /\ snapshots' = snapshots \cup {p}
  /\ Goes(p, "browsing", None)
  /\ UNCHANGED <<stored, expired, late, state_lock, refresh_lock, job, server>>

Authorized(p) ==
  /\ op[p].pc = "browsing" /\ issued < MaxGrants
  /\ issued' = issued + 1
  /\ Starts(p, "store", issued + 1, None)
  /\ Goes(p, "storing", None)
  /\ UNCHANGED <<files, refresh_lock, spent>>

NotAuthorized(p) ==
  /\ op[p].pc = "browsing"
  /\ Ends(p) /\ Forgets(p)
  /\ UNCHANGED <<stored, expired, state_lock, refresh_lock, job, server>>

Logout(p) ==
  /\ Free(p)
  /\ Starts(p, "delete", None, None)
  /\ Goes(p, "leaving", None)
  /\ UNCHANGED <<files, refresh_lock, server>>

\* The thread of a login or logout, or one whose coroutine was cancelled, ends.
Reaped(p) ==
  /\ job[p] # NoJob /\ job[p].pc \in {"done", "failed"} /\ op[p].pc # "persisting"
  /\ job' = [job EXCEPT ![p] = NoJob]
  /\ IF op[p].pc \in {"storing", "leaving"} THEN Ends(p) ELSE UNCHANGED op
  /\ Forgets(p)
  /\ UNCHANGED <<stored, expired, state_lock, refresh_lock, server>>

----------------------------------------------------------------------------
(* The threads: _save_sync, _save_if_generation_sync, _delete_sync.        *)

\* Wrong: the revision is not compared.
Admissible_AnyRevision(p) == job[p].do = "store" => p \in snapshots

\* A login looks at the generation, the others at the revision; logout() has
\* no expectation.
Admissible(p) ==
  CASE job[p].do = "store" -> p \in snapshots
    [] job[p].do # "store" /\ job[p].expected # None -> stored = job[p].expected
    [] OTHER -> TRUE

JobLocks(p) ==
  /\ job[p].pc = "queued" /\ state_lock = None
  /\ IF Admissible(p)
       THEN state_lock' = p /\ job' = [job EXCEPT ![p].pc = "locked"]
       ELSE UNCHANGED state_lock /\ job' = [job EXCEPT ![p].pc = "failed"]
  /\ UNCHANGED <<stored, expired, snapshots, late, refresh_lock, op, server>>

\* Wrong: a change of the credentials leaves the generation.
JobMarks_KeepsGeneration(p) ==
  /\ job[p].pc = "locked"
  /\ job' = [job EXCEPT ![p].pc = "written"]
  /\ UNCHANGED <<files, refresh_lock, op, server>>

\* The new generation is in the file, before the credentials are.
JobMarks(p) ==
  /\ job[p].pc = "locked"
  /\ snapshots' = {}
  /\ job' = [job EXCEPT ![p].pc = "written"]
  /\ UNCHANGED <<stored, expired, state_lock, late, refresh_lock, op, server>>

\* os.replace or unlink, and the lock is released.  When the directory cannot
\* be synced after that, the thread fails with the change made.
JobCommits(p) ==
  /\ job[p].pc = "written"
  /\ stored' = job[p].new /\ expired' = FALSE
  /\ late' = late \cup
       {q \in Tasks \ {p} : op[q].pc = "browsing" \/ job[q].do = "store"}
  /\ state_lock' = None
  /\ \E pc \in {"done"} \cup (IF "disk" \in Faults THEN {"failed"} ELSE {}) :
       job' = [job EXCEPT ![p].pc = pc]
  /\ UNCHANGED <<snapshots, refresh_lock, op, server>>

\* The lock is not to be had in time, or a write fails.
JobFails(p) ==
  /\ \/ "timeout" \in Faults /\ job[p].pc = "queued"
        /\ UNCHANGED <<snapshots, state_lock>>
     \/ "disk" \in Faults /\ job[p].pc \in {"locked", "written"}
        /\ snapshots' \in {snapshots, {}} /\ state_lock' = None
  /\ job' = [job EXCEPT ![p].pc = "failed"]
  /\ UNCHANGED <<stored, expired, late, refresh_lock, op, server>>

----------------------------------------------------------------------------
(* Faults.                                                                 *)

\* The client goes or the turn times out.  The coroutine leaves the refresh
\* lock; a thread the executor has begun goes on, one it has not is dropped,
\* also the one that would have released the lock.
Cancel(p) ==
  /\ "cancel" \in Faults /\ op[p].pc # "idle"
  /\ UNCHANGED spent \/ Exchanged(p)
  /\ IF op[p].pc \in {"checking", "exchanging", "persisting"}
       THEN Goes(p, "releasing", None) ELSE Ends(p)
  /\ \/ UNCHANGED refresh_lock
     \/ op[p].pc = "releasing" /\ refresh_lock' = None
  /\ \/ /\ job[p].pc \in {"queued", "done"}
        /\ job' = [job EXCEPT ![p] = NoJob] /\ Forgets(p)
     \/ job[p] # NoJob /\ UNCHANGED <<job, snapshots, late>>
  /\ UNCHANGED <<stored, expired, state_lock, issued>>

\* The process dies: the kernel releases its locks.
Crash(p) ==
  /\ "crash" \in Faults /\ (~Free(p) \/ refresh_lock = p)
  /\ UNCHANGED spent \/ Exchanged(p)
  /\ Ends(p)
  /\ refresh_lock' = IF refresh_lock = p THEN None ELSE refresh_lock
  /\ job' = [job EXCEPT ![p] = NoJob]
  /\ state_lock' = IF state_lock = p THEN None ELSE state_lock
  /\ Forgets(p)
  /\ UNCHANGED <<stored, expired, issued>>

----------------------------------------------------------------------------
RunJob(p) == JobLocks(p) \/ JobMarks(p) \/ JobCommits(p) \/ Reaped(p)
Refresh(p) == Acquire(p) \/ Check(p) \/ Rotated(p) \/ Refused(p) \/ Unanswered(p)
                \/ Persisted(p) \/ Released(p)
Next ==
  \/ Expire
  \/ \E p \in Tasks :
       \/ Use(p) \/ RefreshOnce(p) \/ Leave(p) \/ Refresh(p)
       \/ Snapshot(p) \/ Authorized(p) \/ NotAuthorized(p) \/ Logout(p)
       \/ RunJob(p) \/ JobFails(p) \/ Cancel(p) \/ Crash(p)

Spec == Init /\ [][Next]_vars

----------------------------------------------------------------------------

\* The thread of p changes the credentials.
Changes(p) ==
  job[p].pc = "written" /\ job'[p].pc # "written" /\ stored' # stored

\* A login that was begun before the credentials last changed, or before a
\* logout, never stores its grant, whatever crashes in between: a logout is not
\* undone by an older login, a newer login not overwritten.
OlderLoginIsDropped ==
  \A p \in Tasks : job[p].do = "store" /\ Changes(p) => p \notin late

\* A refresh replaces or deletes only the very credentials it has sent, never a
\* login stored since, even when its coroutine is gone.
NewerLoginIsKept ==
  \A p \in Tasks : job[p].expected # None /\ Changes(p) => stored = job[p].expected

\* Whoever changes the credentials changes those it means to: neither a login
\* nor a refresh overwrites or deletes what it has not seen.
ChangesAreConditional == [][OlderLoginIsDropped /\ NewerLoginIsKept]_vars

\* The tasks at work on the refresh of a grant.
Refreshing(g) ==
  {p \in Tasks :
     \/ op[p].pc = "exchanging" /\ op[p].grant = g
     \/ job[p].expected = g /\ job[p].pc \in {"queued", "locked", "written"}}

\* Refresh is locked across tasks and processes: no two work on the same
\* credentials, one that saves the rotated token and one that is refused for
\* sending the old one.
OneRefreshPerGrant ==
  \A g \in Grants : \A p, q \in Refreshing(g) : p = q

\* The same of coroutines alone, whatever may fail or be cancelled: at most one
\* is between its second look at the file and the answer of its thread.
OneLiveRefresh ==
  \A g \in Grants : \A p, q \in Tasks :
    (\A t \in {p, q} : op[t].pc \in {"exchanging", "persisting"} /\ op[t].grant = g) => p = q

\* A refresh token that is spent is sent again only while the file still has
\* it, because a fault has lost the rotated one; never because a task has missed
\* the refresh, login or logout of another while it waited for the lock.
SpentTokenIsNotSent ==
  [][\A p \in Tasks :
       op'[p].pc = "exchanging" /\ op[p].pc # "exchanging"
         /\ op'[p].grant \in spent => stored = op'[p].grant]_vars

=============================================================================
