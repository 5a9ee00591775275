------------------------- MODULE CredentialStore_proofs -------------------------
(***************************************************************************)
(* Machine-checked proofs about CredentialStore, for every set of tasks,   *)
(* every number of grants and every choice of faults.                      *)
(***************************************************************************)
EXTENDS CredentialStore, TLAPS

Stages == {"idle", "using", "waiting", "checking", "exchanging", "persisting",
           "releasing", "browsing", "storing", "leaving"}
JobStages == {"done", "failed", "queued", "locked", "written"}
GrantOrNone == Grants \cup {None}
OpRecords == [pc : Stages, grant : GrantOrNone, rejected : BOOLEAN]
JobRecords == [do : {None, "save", "store", "delete"}, pc : JobStages,
               new : GrantOrNone, expected : GrantOrNone]
Holders == Tasks \cup {None}

TypeOK ==
  /\ stored \in GrantOrNone /\ expired \in BOOLEAN
  /\ snapshots \subseteq Tasks /\ late \subseteq Tasks
  /\ state_lock \in Holders /\ refresh_lock \in Holders
  /\ op \in [Tasks -> OpRecords] /\ job \in [Tasks -> JobRecords]
  /\ issued \in 0..MaxGrants /\ spent \subseteq Grants

\* Who is past the acquisition of the refresh lock has it, also while a fault of
\* the release lets nobody else have it.
RefreshIsLocked ==
  \A p \in Tasks :
    op[p].pc \in {"checking", "exchanging", "persisting", "releasing"}
      => refresh_lock = p

\* The coroutine and its thread agree: a login's thread stores, a refresh's saves
\* or deletes what it expects, and a coroutine that does neither has no thread.
ThreadMatches ==
  \A p \in Tasks :
    /\ op[p].pc \in {"using", "waiting", "checking", "exchanging", "browsing"}
         => job[p] = NoJob
    /\ op[p].pc = "releasing" /\ op[p].grant # None => job[p] = NoJob
    /\ op[p].pc \in {"using", "waiting", "checking", "exchanging", "persisting"}
         => op[p].grant # None
    /\ op[p].pc = "persisting" => job[p].do \in {"save", "delete"}
    /\ job[p].do = "store" => job[p].expected = None
    /\ job[p].pc = "queued" => job[p] # NoJob

\* A thread works on the files under the state lock, and while it does, what it
\* has compared stays as it was.
WorkIsLocked ==
  \A p \in Tasks : job[p].pc \in {"locked", "written"} =>
    /\ state_lock = p
    /\ job[p].expected # None => stored = job[p].expected
    /\ job[p].do = "store" => p \notin late
    /\ job[p].pc = "written" => snapshots = {}

\* A login that is late has lost its snapshot, and only a login can be late.
LateHasNoSnapshot ==
  \A p \in late :
    /\ p \notin snapshots
    /\ op[p].pc = "browsing" \/ job[p].do = "store"

IInv == TypeOK /\ RefreshIsLocked /\ ThreadMatches /\ WorkIsLocked /\ LateHasNoSnapshot

\* Without cancellation a refresh that has a thread waits for it.
RefreshersWait ==
  \A p \in Tasks : job[p].expected # None => op[p].pc = "persisting"

----------------------------------------------------------------------------
(* What the helpers of the actions do to the records.                      *)

\* The types of the fields.
LEMMA Fields ==
  ASSUME TypeOK, NEW p \in Tasks
  PROVE  /\ op[p].pc \in Stages /\ op[p].grant \in GrantOrNone /\ op[p].rejected \in BOOLEAN
         /\ job[p].do \in {None, "save", "store", "delete"} /\ job[p].pc \in JobStages
         /\ job[p].new \in GrantOrNone /\ job[p].expected \in GrantOrNone
  BY DEF TypeOK, OpRecords, JobRecords

\* The fields of a task at rest.
LEMMA AtRest ==
  /\ Idle \in OpRecords /\ NoJob \in JobRecords
  /\ Idle.pc = "idle" /\ Idle.grant = None
  /\ NoJob.do = None /\ NoJob.pc = "done" /\ NoJob.new = None /\ NoJob.expected = None
  BY DEF Idle, NoJob, OpRecords, JobRecords, GrantOrNone, Stages, JobStages

\* A coroutine goes to a stage.
LEMMA GoesTo ==
  ASSUME TypeOK, NEW p \in Tasks, NEW pc \in Stages, NEW grant \in GrantOrNone,
         Goes(p, pc, grant)
  PROVE  /\ op' \in [Tasks -> OpRecords]
         /\ op'[p].pc = pc /\ op'[p].grant = grant /\ op'[p].rejected = op[p].rejected
         /\ \A q \in Tasks \ {p} : op'[q] = op[q]
  BY DEF TypeOK, OpRecords, Goes

\* A coroutine ends.
LEMMA EndsIdle ==
  ASSUME TypeOK, NEW p \in Tasks, Ends(p)
  PROVE  /\ op' \in [Tasks -> OpRecords]
         /\ op'[p] = Idle /\ \A q \in Tasks \ {p} : op'[q] = op[q]
  BY AtRest DEF TypeOK, Ends

\* A thread is started for a coroutine.
LEMMA StartsJob ==
  ASSUME TypeOK, NEW p \in Tasks, NEW do \in {"save", "store", "delete"},
         NEW new \in GrantOrNone, NEW expected \in GrantOrNone,
         Starts(p, do, new, expected)
  PROVE  /\ job' \in [Tasks -> JobRecords]
         /\ job'[p].do = do /\ job'[p].pc = "queued"
         /\ job'[p].new = new /\ job'[p].expected = expected
         /\ \A q \in Tasks \ {p} : job'[q] = job[q]
  BY DEF TypeOK, JobRecords, JobStages, Starts

\* A thread is gone.
LEMMA JobGoes ==
  ASSUME TypeOK, NEW p \in Tasks, job' = [job EXCEPT ![p] = NoJob]
  PROVE  /\ job' \in [Tasks -> JobRecords]
         /\ job'[p] = NoJob /\ \A q \in Tasks \ {p} : job'[q] = job[q]
  BY AtRest DEF TypeOK

\* A thread goes on to its next stage.
LEMMA JobMoves ==
  ASSUME TypeOK, NEW p \in Tasks, NEW pc \in JobStages, job' = [job EXCEPT ![p].pc = pc]
  PROVE  /\ job' \in [Tasks -> JobRecords]
         /\ job'[p].do = job[p].do /\ job'[p].pc = pc
         /\ job'[p].new = job[p].new /\ job'[p].expected = job[p].expected
         /\ \A q \in Tasks \ {p} : job'[q] = job[q]
  BY DEF TypeOK, JobRecords

\* Only grants are exchanged.
LEMMA ExchangedGrants ==
  ASSUME IInv, NEW p \in Tasks, UNCHANGED spent \/ Exchanged(p)
  PROVE  spent' \subseteq Grants
  BY Fields DEF IInv, TypeOK, ThreadMatches, GrantOrNone, Exchanged

----------------------------------------------------------------------------
(* The steps.                                                              *)

\* Every step keeps the types.
LEMMA TypeStep ==
  ASSUME IInv, [Next]_vars
  PROVE  TypeOK'
  <1> USE GrantsAssumption, NoneAssumption DEF IInv, TypeOK, GrantOrNone, Grants, Holders, Stages, JobStages, ThreadMatches
  <1>1. CASE Expire
    BY <1>1 DEF Expire, server
  <1>2. ASSUME NEW p \in Tasks, Use(p) PROVE TypeOK'
    BY <1>2, Fields, AtRest, GoesTo DEF Use, Free, files, server
  <1>3. ASSUME NEW p \in Tasks, RefreshOnce(p) PROVE TypeOK'
    BY <1>3 DEF RefreshOnce, files, server, Idle, OpRecords
  <1>4. ASSUME NEW p \in Tasks, Leave(p) PROVE TypeOK'
    BY <1>4, Fields, AtRest, EndsIdle DEF Leave, files, server
  <1>5. ASSUME NEW p \in Tasks, Acquire(p) PROVE TypeOK'
    BY <1>5, Fields, AtRest, GoesTo DEF Acquire, files, server
  <1>6. ASSUME NEW p \in Tasks, Check(p) PROVE TypeOK'
    BY <1>6, Fields, AtRest, GoesTo DEF Check, files, server
  <1>7. ASSUME NEW p \in Tasks, Rotated(p) PROVE TypeOK'
    <2>1. issued + 1 \in GrantOrNone /\ op[p].grant \in GrantOrNone
      BY <1>7, Fields DEF Rotated
    <2>2. op' \in [Tasks -> OpRecords]
      BY <1>7, <2>1, GoesTo DEF Rotated
    <2>3. job' \in [Tasks -> JobRecords]
      BY <1>7, <2>1, StartsJob DEF Rotated
    <2>4. spent' \subseteq Grants
      BY <1>7, Fields DEF Rotated
    <2> QED
      BY <1>7, <2>2, <2>3, <2>4 DEF Rotated, files
  <1>8. ASSUME NEW p \in Tasks, Refused(p) PROVE TypeOK'
    BY <1>8, Fields, AtRest, GoesTo, StartsJob DEF Refused, files, server
  <1>9. ASSUME NEW p \in Tasks, Unanswered(p) PROVE TypeOK'
    <2>1. op' \in [Tasks -> OpRecords]
      BY <1>9, GoesTo DEF Unanswered
    <2>2. spent' \subseteq Grants
      BY <1>9, ExchangedGrants DEF Unanswered
    <2> QED
      BY <1>9, <2>1, <2>2 DEF Unanswered, files
  <1>10. ASSUME NEW p \in Tasks, Persisted(p) PROVE TypeOK'
    BY <1>10, Fields, AtRest, GoesTo, JobGoes DEF Persisted, files, server
  <1>11. ASSUME NEW p \in Tasks, Released(p) PROVE TypeOK'
    BY <1>11, Fields, AtRest, GoesTo, EndsIdle DEF Released, files, server
  <1>12. ASSUME NEW p \in Tasks, Snapshot(p) PROVE TypeOK'
    BY <1>12, Fields, AtRest, GoesTo DEF Snapshot, Free, server
  <1>13. ASSUME NEW p \in Tasks, Authorized(p) PROVE TypeOK'
    <2>1. issued + 1 \in GrantOrNone
      BY <1>13 DEF Authorized
    <2>2. op' \in [Tasks -> OpRecords]
      BY <1>13, GoesTo DEF Authorized
    <2>3. job' \in [Tasks -> JobRecords]
      BY <1>13, <2>1, StartsJob DEF Authorized
    <2> QED
      BY <1>13, <2>2, <2>3 DEF Authorized, files
  <1>14. ASSUME NEW p \in Tasks, NotAuthorized(p) PROVE TypeOK'
    BY <1>14, Fields, AtRest, EndsIdle DEF NotAuthorized, Forgets, server
  <1>15. ASSUME NEW p \in Tasks, Logout(p) PROVE TypeOK'
    BY <1>15, Fields, AtRest, GoesTo, StartsJob DEF Logout, Free, files, server
  <1>16. ASSUME NEW p \in Tasks, JobLocks(p) PROVE TypeOK'
    BY <1>16, Fields, AtRest, JobMoves DEF JobLocks, Admissible, server
  <1>17. ASSUME NEW p \in Tasks, JobMarks(p) PROVE TypeOK'
    BY <1>17, Fields, AtRest, JobMoves DEF JobMarks, server
  <1>18. ASSUME NEW p \in Tasks, JobCommits(p) PROVE TypeOK'
    <2>1. job' \in [Tasks -> JobRecords]
      BY <1>18, JobMoves DEF JobCommits
    <2> QED
      BY <1>18, <2>1, Fields DEF JobCommits, server
  <1>19. ASSUME NEW p \in Tasks, Reaped(p) PROVE TypeOK'
    BY <1>19, Fields, AtRest, JobGoes, EndsIdle DEF Reaped, Forgets, server
  <1>20. ASSUME NEW p \in Tasks, JobFails(p) PROVE TypeOK'
    BY <1>20, Fields, AtRest, JobMoves DEF JobFails, server
  <1>21. ASSUME NEW p \in Tasks, Cancel(p) PROVE TypeOK'
    <2>1. op' \in [Tasks -> OpRecords]
      BY <1>21, GoesTo, EndsIdle DEF Cancel
    <2>2. job' \in [Tasks -> JobRecords]
      BY <1>21, JobGoes DEF Cancel
    <2>3. spent' \subseteq Grants
      BY <1>21, ExchangedGrants DEF Cancel
    <2> QED
      BY <1>21, <2>1, <2>2, <2>3 DEF Cancel, Forgets
  <1>22. ASSUME NEW p \in Tasks, Crash(p) PROVE TypeOK'
    <2>1. op' \in [Tasks -> OpRecords] /\ job' \in [Tasks -> JobRecords]
      BY <1>22, EndsIdle, JobGoes DEF Crash
    <2>2. spent' \subseteq Grants
      BY <1>22, ExchangedGrants DEF Crash
    <2> QED
      BY <1>22, <2>1, <2>2 DEF Crash, Forgets
  <1>23. CASE UNCHANGED vars
    BY <1>23 DEF vars
  <1> QED
    BY <1>1, <1>2, <1>3, <1>4, <1>5, <1>6, <1>7, <1>8, <1>9, <1>10, <1>11, <1>12, <1>13, <1>14, <1>15, <1>16, <1>17, <1>18, <1>19, <1>20, <1>21, <1>22, <1>23 DEF Next, Refresh, RunJob

\* No step lets a second task past the acquisition of the refresh lock.
LEMMA RefreshStep ==
  ASSUME IInv, [Next]_vars
  PROVE  RefreshIsLocked'
  <1> USE TypeStep, NoneAssumption DEF IInv, TypeOK, Stages, JobStages, RefreshIsLocked, ThreadMatches
  <1>1. CASE Expire
    BY <1>1 DEF Expire, server
  <1>2. ASSUME NEW p \in Tasks, Use(p) PROVE RefreshIsLocked'
    BY <1>2 DEF Use, Goes, Free, files, server, Idle, NoJob, OpRecords, JobRecords, Holders
  <1>3. ASSUME NEW p \in Tasks, RefreshOnce(p) PROVE RefreshIsLocked'
    BY <1>3 DEF RefreshOnce, files, server, Idle, OpRecords, JobRecords, Holders
  <1>4. ASSUME NEW p \in Tasks, Leave(p) PROVE RefreshIsLocked'
    BY <1>4 DEF Leave, Ends, Idle, files, server, OpRecords, JobRecords, Holders
  <1>5. ASSUME NEW p \in Tasks, Acquire(p) PROVE RefreshIsLocked'
    BY <1>5 DEF Acquire, Goes, files, server, OpRecords, JobRecords, Holders
  <1>6. ASSUME NEW p \in Tasks, Check(p) PROVE RefreshIsLocked'
    BY <1>6 DEF Check, Goes, files, server, OpRecords, JobRecords, Holders
  <1>7. ASSUME NEW p \in Tasks, Rotated(p) PROVE RefreshIsLocked'
    BY <1>7 DEF Rotated, Starts, Goes, files, OpRecords, JobRecords, Holders
  <1>8. ASSUME NEW p \in Tasks, Refused(p) PROVE RefreshIsLocked'
    BY <1>8 DEF Refused, Starts, Goes, files, server, OpRecords, JobRecords, Holders
  <1>9. ASSUME NEW p \in Tasks, Unanswered(p) PROVE RefreshIsLocked'
    BY <1>9 DEF Unanswered, Goes, Exchanged, files, OpRecords, JobRecords, Holders
  <1>10. ASSUME NEW p \in Tasks, Persisted(p) PROVE RefreshIsLocked'
    BY <1>10 DEF Persisted, Goes, files, server, NoJob, OpRecords, JobRecords, Holders
  <1>11. ASSUME NEW p \in Tasks, Released(p) PROVE RefreshIsLocked'
    BY <1>11, Fields, AtRest, GoesTo, EndsIdle DEF Released, files, server
  <1>12. ASSUME NEW p \in Tasks, Snapshot(p) PROVE RefreshIsLocked'
    BY <1>12 DEF Snapshot, Free, Goes, server, NoJob, OpRecords, JobRecords, Holders
  <1>13. ASSUME NEW p \in Tasks, Authorized(p) PROVE RefreshIsLocked'
    BY <1>13 DEF Authorized, Starts, Goes, files, OpRecords, JobRecords, Holders
  <1>14. ASSUME NEW p \in Tasks, NotAuthorized(p) PROVE RefreshIsLocked'
    BY <1>14 DEF NotAuthorized, Ends, Idle, Forgets, server, OpRecords, JobRecords, Holders
  <1>15. ASSUME NEW p \in Tasks, Logout(p) PROVE RefreshIsLocked'
    BY <1>15 DEF Logout, Free, Starts, Goes, files, server, NoJob, OpRecords, JobRecords, Holders
  <1>16. ASSUME NEW p \in Tasks, JobLocks(p) PROVE RefreshIsLocked'
    BY <1>16 DEF JobLocks, Admissible, server, OpRecords, JobRecords, Holders
  <1>17. ASSUME NEW p \in Tasks, JobMarks(p) PROVE RefreshIsLocked'
    BY <1>17 DEF JobMarks, server, OpRecords, JobRecords, Holders
  <1>18. ASSUME NEW p \in Tasks, JobCommits(p) PROVE RefreshIsLocked'
    BY <1>18 DEF JobCommits, server, OpRecords, JobRecords, Holders
  <1>19. ASSUME NEW p \in Tasks, Reaped(p) PROVE RefreshIsLocked'
    BY <1>19 DEF Reaped, Ends, Idle, Forgets, NoJob, server, OpRecords, JobRecords, Holders
  <1>20. ASSUME NEW p \in Tasks, JobFails(p) PROVE RefreshIsLocked'
    BY <1>20 DEF JobFails, server, OpRecords, JobRecords, Holders
  <1>21. ASSUME NEW p \in Tasks, Cancel(p) PROVE RefreshIsLocked'
    BY <1>21 DEF Cancel, Goes, Ends, Idle, Forgets, Exchanged, NoJob, OpRecords, JobRecords, Holders
  <1>22. ASSUME NEW p \in Tasks, Crash(p) PROVE RefreshIsLocked'
    BY <1>22 DEF Crash, Free, Ends, Idle, NoJob, Forgets, Exchanged, OpRecords, JobRecords, Holders
  <1>23. CASE UNCHANGED vars
    BY <1>23 DEF vars
  <1> QED
    BY <1>1, <1>2, <1>3, <1>4, <1>5, <1>6, <1>7, <1>8, <1>9, <1>10, <1>11, <1>12, <1>13, <1>14, <1>15, <1>16, <1>17, <1>18, <1>19, <1>20, <1>21, <1>22, <1>23 DEF Next, Refresh, RunJob

\* Every step keeps coroutine and thread in agreement.
LEMMA ThreadStep ==
  ASSUME IInv, [Next]_vars
  PROVE  ThreadMatches'
  <1> USE TypeStep, NoneAssumption DEF IInv, TypeOK, Stages, JobStages, ThreadMatches, GrantOrNone
  <1>1. CASE Expire
    BY <1>1 DEF Expire, server
  <1>2. ASSUME NEW p \in Tasks, Use(p) PROVE ThreadMatches'
    BY <1>2 DEF Use, Goes, Free, files, server, Idle, NoJob, OpRecords, JobRecords, Holders, NoJob
  <1>3. ASSUME NEW p \in Tasks, RefreshOnce(p) PROVE ThreadMatches'
    BY <1>3 DEF RefreshOnce, files, server, Idle, OpRecords, JobRecords, Holders, NoJob
  <1>4. ASSUME NEW p \in Tasks, Leave(p) PROVE ThreadMatches'
    BY <1>4 DEF Leave, Ends, Idle, files, server, OpRecords, JobRecords, Holders, NoJob
  <1>5. ASSUME NEW p \in Tasks, Acquire(p) PROVE ThreadMatches'
    BY <1>5 DEF Acquire, Goes, files, server, OpRecords, JobRecords, Holders, NoJob
  <1>6. ASSUME NEW p \in Tasks, Check(p) PROVE ThreadMatches'
    <2>1. job' = job /\ op[p].pc = "checking" /\ job[p] = NoJob /\ stored \in GrantOrNone
      BY <1>6, Fields DEF Check
    <2>2. CASE stored = op[p].grant /\ (op[p].rejected \/ expired)
      <3>1. Goes(p, "exchanging", stored)
        BY <1>6, <2>2 DEF Check
      <3>2. stored # None
        BY <1>6, <2>2, Fields DEF Check
      <3> QED
        BY <2>1, <3>1, <3>2, GoesTo, AtRest
    <2>3. CASE ~(stored = op[p].grant /\ (op[p].rejected \/ expired))
      <3>1. Goes(p, "releasing", stored)
        BY <1>6, <2>3 DEF Check
      <3> QED
        BY <2>1, <3>1, GoesTo, AtRest
    <2> QED
      BY <2>2, <2>3
  <1>7. ASSUME NEW p \in Tasks, Rotated(p) PROVE ThreadMatches'
    BY <1>7 DEF Rotated, Starts, Goes, files, OpRecords, JobRecords, Holders, NoJob
  <1>8. ASSUME NEW p \in Tasks, Refused(p) PROVE ThreadMatches'
    BY <1>8 DEF Refused, Starts, Goes, files, server, OpRecords, JobRecords, Holders, NoJob
  <1>9. ASSUME NEW p \in Tasks, Unanswered(p) PROVE ThreadMatches'
    BY <1>9 DEF Unanswered, Goes, Exchanged, files, OpRecords, JobRecords, Holders, NoJob
  <1>10. ASSUME NEW p \in Tasks, Persisted(p) PROVE ThreadMatches'
    BY <1>10 DEF Persisted, Goes, files, server, NoJob, OpRecords, JobRecords, Holders, NoJob
  <1>11. ASSUME NEW p \in Tasks, Released(p) PROVE ThreadMatches'
    BY <1>11 DEF Released, Goes, Ends, Idle, files, server, OpRecords, JobRecords, Holders, NoJob
  <1>12. ASSUME NEW p \in Tasks, Snapshot(p) PROVE ThreadMatches'
    BY <1>12 DEF Snapshot, Free, Goes, server, NoJob, OpRecords, JobRecords, Holders, NoJob
  <1>13. ASSUME NEW p \in Tasks, Authorized(p) PROVE ThreadMatches'
    BY <1>13 DEF Authorized, Starts, Goes, files, OpRecords, JobRecords, Holders, NoJob
  <1>14. ASSUME NEW p \in Tasks, NotAuthorized(p) PROVE ThreadMatches'
    BY <1>14 DEF NotAuthorized, Ends, Idle, Forgets, server, OpRecords, JobRecords, Holders, NoJob
  <1>15. ASSUME NEW p \in Tasks, Logout(p) PROVE ThreadMatches'
    BY <1>15 DEF Logout, Free, Starts, Goes, files, server, NoJob, OpRecords, JobRecords, Holders, NoJob
  <1>16. ASSUME NEW p \in Tasks, JobLocks(p) PROVE ThreadMatches'
    <2>1. PICK pc \in {"locked", "failed"} : job' = [job EXCEPT ![p].pc = pc]
      BY <1>16 DEF JobLocks
    <2>2. job[p] # NoJob
      BY <1>16, AtRest DEF JobLocks
    <2> QED
      BY <1>16, <2>1, <2>2, JobMoves, AtRest DEF JobLocks
  <1>17. ASSUME NEW p \in Tasks, JobMarks(p) PROVE ThreadMatches'
    BY <1>17 DEF JobMarks, server, OpRecords, JobRecords, Holders, NoJob
  <1>18. ASSUME NEW p \in Tasks, JobCommits(p) PROVE ThreadMatches'
    BY <1>18 DEF JobCommits, server, OpRecords, JobRecords, Holders, NoJob
  <1>19. ASSUME NEW p \in Tasks, Reaped(p) PROVE ThreadMatches'
    BY <1>19 DEF Reaped, Ends, Idle, Forgets, NoJob, server, OpRecords, JobRecords, Holders, NoJob
  <1>20. ASSUME NEW p \in Tasks, JobFails(p) PROVE ThreadMatches'
    BY <1>20 DEF JobFails, server, OpRecords, JobRecords, Holders, NoJob
  <1>21. ASSUME NEW p \in Tasks, Cancel(p) PROVE ThreadMatches'
    <2>1. /\ op'[p].pc \in {"idle", "releasing"} /\ op'[p].grant = None
          /\ \A q \in Tasks \ {p} : op'[q] = op[q]
      BY <1>21, GoesTo, EndsIdle, AtRest DEF Cancel
    <2>2. (job'[p] = job[p] \/ job'[p] = NoJob) /\ \A q \in Tasks \ {p} : job'[q] = job[q]
      BY <1>21, JobGoes DEF Cancel
    <2> QED
      BY <2>1, <2>2, AtRest
  <1>22. ASSUME NEW p \in Tasks, Crash(p) PROVE ThreadMatches'
    BY <1>22 DEF Crash, Free, Ends, Idle, NoJob, Forgets, Exchanged, OpRecords, JobRecords, Holders, NoJob
  <1>23. CASE UNCHANGED vars
    BY <1>23 DEF vars
  <1> QED
    BY <1>1, <1>2, <1>3, <1>4, <1>5, <1>6, <1>7, <1>8, <1>9, <1>10, <1>11, <1>12, <1>13, <1>14, <1>15, <1>16, <1>17, <1>18, <1>19, <1>20, <1>21, <1>22, <1>23 DEF Next, Refresh, RunJob

\* No step of another task disturbs a thread under the state lock.
LEMMA WorkStep ==
  ASSUME IInv, [Next]_vars
  PROVE  WorkIsLocked'
  <1> USE TypeStep, NoneAssumption DEF IInv, TypeOK, Stages, JobStages, WorkIsLocked, ThreadMatches, LateHasNoSnapshot
  <1>1. CASE Expire
    BY <1>1 DEF Expire, server
  <1>2. ASSUME NEW p \in Tasks, Use(p) PROVE WorkIsLocked'
    BY <1>2 DEF Use, Goes, Free, files, server, Idle, NoJob, OpRecords, JobRecords, Holders, NoJob
  <1>3. ASSUME NEW p \in Tasks, RefreshOnce(p) PROVE WorkIsLocked'
    BY <1>3 DEF RefreshOnce, files, server, Idle, OpRecords, JobRecords, Holders, NoJob
  <1>4. ASSUME NEW p \in Tasks, Leave(p) PROVE WorkIsLocked'
    BY <1>4 DEF Leave, Ends, Idle, files, server, OpRecords, JobRecords, Holders, NoJob
  <1>5. ASSUME NEW p \in Tasks, Acquire(p) PROVE WorkIsLocked'
    BY <1>5 DEF Acquire, Goes, files, server, OpRecords, JobRecords, Holders, NoJob
  <1>6. ASSUME NEW p \in Tasks, Check(p) PROVE WorkIsLocked'
    BY <1>6 DEF Check, Goes, files, server, OpRecords, JobRecords, Holders, NoJob
  <1>7. ASSUME NEW p \in Tasks, Rotated(p) PROVE WorkIsLocked'
    BY <1>7 DEF Rotated, Starts, Goes, files, OpRecords, JobRecords, Holders, NoJob
  <1>8. ASSUME NEW p \in Tasks, Refused(p) PROVE WorkIsLocked'
    BY <1>8 DEF Refused, Starts, Goes, files, server, OpRecords, JobRecords, Holders, NoJob
  <1>9. ASSUME NEW p \in Tasks, Unanswered(p) PROVE WorkIsLocked'
    BY <1>9 DEF Unanswered, Goes, Exchanged, files, OpRecords, JobRecords, Holders, NoJob
  <1>10. ASSUME NEW p \in Tasks, Persisted(p) PROVE WorkIsLocked'
    BY <1>10 DEF Persisted, Goes, files, server, NoJob, OpRecords, JobRecords, Holders, NoJob
  <1>11. ASSUME NEW p \in Tasks, Released(p) PROVE WorkIsLocked'
    BY <1>11 DEF Released, Goes, Ends, Idle, files, server, OpRecords, JobRecords, Holders, NoJob
  <1>12. ASSUME NEW p \in Tasks, Snapshot(p) PROVE WorkIsLocked'
    BY <1>12 DEF Snapshot, Free, Goes, server, NoJob, OpRecords, JobRecords, Holders, NoJob
  <1>13. ASSUME NEW p \in Tasks, Authorized(p) PROVE WorkIsLocked'
    BY <1>13 DEF Authorized, Starts, Goes, files, OpRecords, JobRecords, Holders, NoJob
  <1>14. ASSUME NEW p \in Tasks, NotAuthorized(p) PROVE WorkIsLocked'
    BY <1>14 DEF NotAuthorized, Ends, Idle, Forgets, server, OpRecords, JobRecords, Holders, NoJob
  <1>15. ASSUME NEW p \in Tasks, Logout(p) PROVE WorkIsLocked'
    BY <1>15 DEF Logout, Free, Starts, Goes, files, server, NoJob, OpRecords, JobRecords, Holders, NoJob
  <1>16. ASSUME NEW p \in Tasks, JobLocks(p) PROVE WorkIsLocked'
    BY <1>16 DEF JobLocks, Admissible, server, OpRecords, JobRecords, Holders, NoJob
  <1>17. ASSUME NEW p \in Tasks, JobMarks(p) PROVE WorkIsLocked'
    BY <1>17 DEF JobMarks, server, OpRecords, JobRecords, Holders, NoJob
  <1>18. ASSUME NEW p \in Tasks, JobCommits(p) PROVE WorkIsLocked'
    BY <1>18 DEF JobCommits, server, OpRecords, JobRecords, Holders, NoJob
  <1>19. ASSUME NEW p \in Tasks, Reaped(p) PROVE WorkIsLocked'
    BY <1>19 DEF Reaped, Ends, Idle, Forgets, NoJob, server, OpRecords, JobRecords, Holders, NoJob
  <1>20. ASSUME NEW p \in Tasks, JobFails(p) PROVE WorkIsLocked'
    BY <1>20 DEF JobFails, server, OpRecords, JobRecords, Holders, NoJob
  <1>21. ASSUME NEW p \in Tasks, Cancel(p) PROVE WorkIsLocked'
    <2>1. \/ job'[p] = NoJob /\ late' \subseteq late /\ snapshots' \subseteq snapshots
          \/ job'[p] = job[p] /\ UNCHANGED <<snapshots, late>>
      BY <1>21, JobGoes DEF Cancel, Forgets
    <2>2. \A q \in Tasks \ {p} : job'[q] = job[q]
      BY <1>21, JobGoes DEF Cancel
    <2>3. stored' = stored /\ state_lock' = state_lock
      BY <1>21 DEF Cancel
    <2> QED
      BY <2>1, <2>2, <2>3, AtRest
  <1>22. ASSUME NEW p \in Tasks, Crash(p) PROVE WorkIsLocked'
    BY <1>22 DEF Crash, Free, Ends, Idle, NoJob, Forgets, Exchanged, OpRecords, JobRecords, Holders, NoJob
  <1>23. CASE UNCHANGED vars
    BY <1>23 DEF vars
  <1> QED
    BY <1>1, <1>2, <1>3, <1>4, <1>5, <1>6, <1>7, <1>8, <1>9, <1>10, <1>11, <1>12, <1>13, <1>14, <1>15, <1>16, <1>17, <1>18, <1>19, <1>20, <1>21, <1>22, <1>23 DEF Next, Refresh, RunJob

\* A step that makes a login late finds it without a snapshot.
LEMMA LateStep ==
  ASSUME IInv, [Next]_vars
  PROVE  LateHasNoSnapshot'
  <1> USE TypeStep, NoneAssumption DEF IInv, TypeOK, Stages, JobStages, WorkIsLocked, ThreadMatches, LateHasNoSnapshot, GrantOrNone
  <1>1. CASE Expire
    BY <1>1 DEF Expire, server
  <1>2. ASSUME NEW p \in Tasks, Use(p) PROVE LateHasNoSnapshot'
    BY <1>2 DEF Use, Goes, Free, files, server, Idle, NoJob, OpRecords, JobRecords, Holders, NoJob
  <1>3. ASSUME NEW p \in Tasks, RefreshOnce(p) PROVE LateHasNoSnapshot'
    BY <1>3 DEF RefreshOnce, files, server, Idle, OpRecords, JobRecords, Holders, NoJob
  <1>4. ASSUME NEW p \in Tasks, Leave(p) PROVE LateHasNoSnapshot'
    BY <1>4 DEF Leave, Ends, Idle, files, server, OpRecords, JobRecords, Holders, NoJob
  <1>5. ASSUME NEW p \in Tasks, Acquire(p) PROVE LateHasNoSnapshot'
    BY <1>5 DEF Acquire, Goes, files, server, OpRecords, JobRecords, Holders, NoJob
  <1>6. ASSUME NEW p \in Tasks, Check(p) PROVE LateHasNoSnapshot'
    BY <1>6, Fields, AtRest, GoesTo DEF Check, files, server
  <1>7. ASSUME NEW p \in Tasks, Rotated(p) PROVE LateHasNoSnapshot'
    BY <1>7 DEF Rotated, Starts, Goes, files, OpRecords, JobRecords, Holders, NoJob
  <1>8. ASSUME NEW p \in Tasks, Refused(p) PROVE LateHasNoSnapshot'
    BY <1>8 DEF Refused, Starts, Goes, files, server, OpRecords, JobRecords, Holders, NoJob
  <1>9. ASSUME NEW p \in Tasks, Unanswered(p) PROVE LateHasNoSnapshot'
    BY <1>9 DEF Unanswered, Goes, Exchanged, files, OpRecords, JobRecords, Holders, NoJob
  <1>10. ASSUME NEW p \in Tasks, Persisted(p) PROVE LateHasNoSnapshot'
    BY <1>10 DEF Persisted, Goes, files, server, NoJob, OpRecords, JobRecords, Holders, NoJob
  <1>11. ASSUME NEW p \in Tasks, Released(p) PROVE LateHasNoSnapshot'
    BY <1>11 DEF Released, Goes, Ends, Idle, files, server, OpRecords, JobRecords, Holders, NoJob
  <1>12. ASSUME NEW p \in Tasks, Snapshot(p) PROVE LateHasNoSnapshot'
    BY <1>12 DEF Snapshot, Free, Goes, server, NoJob, OpRecords, JobRecords, Holders, NoJob
  <1>13. ASSUME NEW p \in Tasks, Authorized(p) PROVE LateHasNoSnapshot'
    BY <1>13 DEF Authorized, Starts, Goes, files, OpRecords, JobRecords, Holders, NoJob
  <1>14. ASSUME NEW p \in Tasks, NotAuthorized(p) PROVE LateHasNoSnapshot'
    BY <1>14 DEF NotAuthorized, Ends, Idle, Forgets, server, OpRecords, JobRecords, Holders, NoJob
  <1>15. ASSUME NEW p \in Tasks, Logout(p) PROVE LateHasNoSnapshot'
    BY <1>15 DEF Logout, Free, Starts, Goes, files, server, NoJob, OpRecords, JobRecords, Holders, NoJob
  <1>16. ASSUME NEW p \in Tasks, JobLocks(p) PROVE LateHasNoSnapshot'
    BY <1>16 DEF JobLocks, Admissible, server, OpRecords, JobRecords, Holders, NoJob
  <1>17. ASSUME NEW p \in Tasks, JobMarks(p) PROVE LateHasNoSnapshot'
    BY <1>17 DEF JobMarks, server, OpRecords, JobRecords, Holders, NoJob
  <1>18. ASSUME NEW p \in Tasks, JobCommits(p) PROVE LateHasNoSnapshot'
    BY <1>18 DEF JobCommits, server, OpRecords, JobRecords, Holders, NoJob
  <1>19. ASSUME NEW p \in Tasks, Reaped(p) PROVE LateHasNoSnapshot'
    BY <1>19 DEF Reaped, Ends, Idle, Forgets, NoJob, server, OpRecords, JobRecords, Holders, NoJob
  <1>20. ASSUME NEW p \in Tasks, JobFails(p) PROVE LateHasNoSnapshot'
    BY <1>20 DEF JobFails, server, OpRecords, JobRecords, Holders, NoJob
  <1>21. ASSUME NEW p \in Tasks, Cancel(p) PROVE LateHasNoSnapshot'
    BY <1>21 DEF Cancel, Goes, Ends, Idle, Forgets, Exchanged, NoJob, OpRecords, JobRecords, Holders, NoJob
  <1>22. ASSUME NEW p \in Tasks, Crash(p) PROVE LateHasNoSnapshot'
    BY <1>22 DEF Crash, Free, Ends, Idle, NoJob, Forgets, Exchanged, OpRecords, JobRecords, Holders, NoJob
  <1>23. CASE UNCHANGED vars
    BY <1>23 DEF vars
  <1> QED
    BY <1>1, <1>2, <1>3, <1>4, <1>5, <1>6, <1>7, <1>8, <1>9, <1>10, <1>11, <1>12, <1>13, <1>14, <1>15, <1>16, <1>17, <1>18, <1>19, <1>20, <1>21, <1>22, <1>23 DEF Next, Refresh, RunJob

\* Only a cancellation lets a refresh go on without its coroutine.
LEMMA RefreshersStep ==
  ASSUME "cancel" \notin Faults, IInv, RefreshersWait, [Next]_vars
  PROVE  RefreshersWait'
  <1> USE TypeStep, NoneAssumption DEF IInv, TypeOK, Stages, JobStages, RefreshersWait, ThreadMatches, GrantOrNone
  <1>1. CASE Expire
    BY <1>1 DEF Expire, server
  <1>2. ASSUME NEW p \in Tasks, Use(p) PROVE RefreshersWait'
    BY <1>2 DEF Use, Goes, Free, files, server, Idle, NoJob, OpRecords, JobRecords, Holders, NoJob
  <1>3. ASSUME NEW p \in Tasks, RefreshOnce(p) PROVE RefreshersWait'
    BY <1>3 DEF RefreshOnce, files, server, Idle, OpRecords, JobRecords, Holders, NoJob
  <1>4. ASSUME NEW p \in Tasks, Leave(p) PROVE RefreshersWait'
    BY <1>4 DEF Leave, Ends, Idle, files, server, OpRecords, JobRecords, Holders, NoJob
  <1>5. ASSUME NEW p \in Tasks, Acquire(p) PROVE RefreshersWait'
    BY <1>5 DEF Acquire, Goes, files, server, OpRecords, JobRecords, Holders, NoJob
  <1>6. ASSUME NEW p \in Tasks, Check(p) PROVE RefreshersWait'
    BY <1>6, Fields, AtRest, GoesTo DEF Check, files, server
  <1>7. ASSUME NEW p \in Tasks, Rotated(p) PROVE RefreshersWait'
    BY <1>7 DEF Rotated, Starts, Goes, files, OpRecords, JobRecords, Holders, NoJob
  <1>8. ASSUME NEW p \in Tasks, Refused(p) PROVE RefreshersWait'
    BY <1>8 DEF Refused, Starts, Goes, files, server, OpRecords, JobRecords, Holders, NoJob
  <1>9. ASSUME NEW p \in Tasks, Unanswered(p) PROVE RefreshersWait'
    BY <1>9 DEF Unanswered, Goes, Exchanged, files, OpRecords, JobRecords, Holders, NoJob
  <1>10. ASSUME NEW p \in Tasks, Persisted(p) PROVE RefreshersWait'
    BY <1>10 DEF Persisted, Goes, files, server, NoJob, OpRecords, JobRecords, Holders, NoJob
  <1>11. ASSUME NEW p \in Tasks, Released(p) PROVE RefreshersWait'
    BY <1>11 DEF Released, Goes, Ends, Idle, files, server, OpRecords, JobRecords, Holders, NoJob
  <1>12. ASSUME NEW p \in Tasks, Snapshot(p) PROVE RefreshersWait'
    BY <1>12 DEF Snapshot, Free, Goes, server, NoJob, OpRecords, JobRecords, Holders, NoJob
  <1>13. ASSUME NEW p \in Tasks, Authorized(p) PROVE RefreshersWait'
    BY <1>13 DEF Authorized, Starts, Goes, files, OpRecords, JobRecords, Holders, NoJob
  <1>14. ASSUME NEW p \in Tasks, NotAuthorized(p) PROVE RefreshersWait'
    BY <1>14 DEF NotAuthorized, Ends, Idle, Forgets, server, OpRecords, JobRecords, Holders, NoJob
  <1>15. ASSUME NEW p \in Tasks, Logout(p) PROVE RefreshersWait'
    BY <1>15 DEF Logout, Free, Starts, Goes, files, server, NoJob, OpRecords, JobRecords, Holders, NoJob
  <1>16. ASSUME NEW p \in Tasks, JobLocks(p) PROVE RefreshersWait'
    BY <1>16 DEF JobLocks, Admissible, server, OpRecords, JobRecords, Holders, NoJob
  <1>17. ASSUME NEW p \in Tasks, JobMarks(p) PROVE RefreshersWait'
    BY <1>17 DEF JobMarks, server, OpRecords, JobRecords, Holders, NoJob
  <1>18. ASSUME NEW p \in Tasks, JobCommits(p) PROVE RefreshersWait'
    BY <1>18 DEF JobCommits, server, OpRecords, JobRecords, Holders, NoJob
  <1>19. ASSUME NEW p \in Tasks, Reaped(p) PROVE RefreshersWait'
    BY <1>19 DEF Reaped, Ends, Idle, Forgets, NoJob, server, OpRecords, JobRecords, Holders, NoJob
  <1>20. ASSUME NEW p \in Tasks, JobFails(p) PROVE RefreshersWait'
    BY <1>20 DEF JobFails, server, OpRecords, JobRecords, Holders, NoJob
  <1>21. ASSUME NEW p \in Tasks, Cancel(p) PROVE RefreshersWait'
    BY <1>21 DEF Cancel, Goes, Ends, Idle, Forgets, Exchanged, NoJob, OpRecords, JobRecords, Holders, NoJob
  <1>22. ASSUME NEW p \in Tasks, Crash(p) PROVE RefreshersWait'
    BY <1>22 DEF Crash, Free, Ends, Idle, NoJob, Forgets, Exchanged, OpRecords, JobRecords, Holders, NoJob
  <1>23. CASE UNCHANGED vars
    BY <1>23 DEF vars
  <1> QED
    BY <1>1, <1>2, <1>3, <1>4, <1>5, <1>6, <1>7, <1>8, <1>9, <1>10, <1>11, <1>12, <1>13, <1>14, <1>15, <1>16, <1>17, <1>18, <1>19, <1>20, <1>21, <1>22, <1>23 DEF Next, Refresh, RunJob

----------------------------------------------------------------------------
(* The theorems.                                                           *)

\* The initial state satisfies the invariant.
LEMMA InitOK == Init => IInv /\ RefreshersWait
  <1> SUFFICES ASSUME Init PROVE IInv /\ RefreshersWait
    OBVIOUS
  <1>1. TypeOK
    <2>1. op \in [Tasks -> OpRecords] /\ job \in [Tasks -> JobRecords]
      BY AtRest DEF Init
    <2>2. issued \in 0..MaxGrants
      BY GrantsAssumption DEF Init
    <2> QED
      BY <2>1, <2>2 DEF Init, TypeOK, GrantOrNone, Holders
  <1>2. \A p \in Tasks : op[p] = Idle /\ job[p] = NoJob
    BY DEF Init
  <1>3. RefreshIsLocked /\ ThreadMatches /\ WorkIsLocked /\ RefreshersWait
    BY <1>2, AtRest, NoneAssumption
       DEF RefreshIsLocked, ThreadMatches, WorkIsLocked, RefreshersWait
  <1>4. LateHasNoSnapshot
    BY DEF Init, LateHasNoSnapshot
  <1> QED
    BY <1>1, <1>3, <1>4 DEF IInv

\* Every step keeps it.
LEMMA NextOK == IInv /\ [Next]_vars => IInv'
  BY TypeStep, RefreshStep, ThreadStep, WorkStep, LateStep DEF IInv

\* The inductive invariant of the store: who is past either lock holds it, a
\* coroutine and its thread agree, and a late login has no snapshot
\* (refresh_lock and state_lock of storage.py, the commits under them).
THEOREM StoreInvariant == Spec => []IInv
  BY InitOK, NextOK, PTL DEF Spec

\* At most one coroutine is between its second look at the file and the answer of
\* its thread, whatever is cancelled, crashes or fails (_refresh in auth.py).
THEOREM OneTaskRefreshes == Spec => []OneLiveRefresh
  <1>1. IInv => OneLiveRefresh
    BY DEF IInv, OneLiveRefresh, RefreshIsLocked
  <1> QED
    BY <1>1, StoreInvariant, PTL

\* A login stores only when nothing has changed the credentials since it was
\* begun, and a refresh only changes the credentials it has sent
\* (_save_if_generation_sync, _save_sync and _delete_sync of storage.py).
THEOREM ConditionalChanges == Spec => ChangesAreConditional
  <1>1. IInv /\ [Next]_vars => [OlderLoginIsDropped /\ NewerLoginIsKept]_vars
    <2> SUFFICES ASSUME IInv PROVE OlderLoginIsDropped /\ NewerLoginIsKept
      OBVIOUS
    <2> QED
      BY DEF IInv, WorkIsLocked, OlderLoginIsDropped, NewerLoginIsKept, Changes
  <1> QED
    BY <1>1, StoreInvariant, PTL DEF Spec, ChangesAreConditional

\* A spent refresh token is sent only while it is what the file holds: every task
\* looks at the file again once it has the lock (_refresh in auth.py).
THEOREM SpentTokens == Spec => SpentTokenIsNotSent
  <1> DEFINE Sends == \A p \in Tasks :
       op'[p].pc = "exchanging" /\ op[p].pc # "exchanging"
         /\ op'[p].grant \in spent => stored = op'[p].grant
  <1>1. IInv /\ [Next]_vars => Sends
    <2> SUFFICES ASSUME IInv, [Next]_vars, NEW p \in Tasks,
                        op'[p].pc = "exchanging", op[p].pc # "exchanging"
                 PROVE  stored = op'[p].grant
      OBVIOUS
    <2> USE DEF IInv, TypeOK, OpRecords, Stages
    <2>1. ASSUME NEW q \in Tasks, Check(q) PROVE stored = op'[p].grant
      BY <2>1 DEF Check, Goes
    <2>2. ASSUME NEW q \in Tasks,
                 Use(q) \/ Acquire(q) \/ Rotated(q) \/ Refused(q) \/ Unanswered(q)
                   \/ Persisted(q) \/ Snapshot(q) \/ Authorized(q) \/ Logout(q)
          PROVE  FALSE
      BY <2>2 DEF Goes, Use, Acquire, Rotated, Refused, Unanswered, Persisted, Snapshot,
                  Authorized, Logout
    <2>3. ASSUME NEW q \in Tasks, RefreshOnce(q) \/ Released(q) \/ Cancel(q) PROVE FALSE
      BY <2>3 DEF Goes, Ends, Idle, RefreshOnce, Released, Cancel
    <2>4. ASSUME NEW q \in Tasks, Leave(q) \/ NotAuthorized(q) \/ Reaped(q) \/ Crash(q)
          PROVE  FALSE
      BY <2>4 DEF Ends, Idle, Leave, NotAuthorized, Reaped, Crash
    <2>5. op' # op
      OBVIOUS
    <2>6. ASSUME NEW q \in Tasks, JobLocks(q) \/ JobMarks(q) \/ JobCommits(q) \/ JobFails(q)
          PROVE  FALSE
      BY <2>5, <2>6 DEF JobLocks, JobMarks, JobCommits, JobFails
    <2>7. ~Expire /\ ~UNCHANGED vars
      BY <2>5 DEF Expire, vars
    <2> QED
      BY <2>1, <2>2, <2>3, <2>4, <2>6, <2>7 DEF Next, Refresh, RunJob
  <1> QED
    BY <1>1, StoreInvariant, PTL DEF Spec, SpentTokenIsNotSent

\* Without cancellation no two tasks, nor their threads, are at work on the same
\* credentials: that a coroutine leaves the lock while its thread goes on is the
\* one way in which OneRefreshPerGrant fails (refresh_lock of storage.py).
THEOREM OneRefreshWithoutCancel ==
  ASSUME "cancel" \notin Faults
  PROVE  Spec => []OneRefreshPerGrant
  <1>1. IInv /\ RefreshersWait /\ [Next]_vars => RefreshersWait'
    BY RefreshersStep
  <1>2. IInv /\ RefreshersWait => OneRefreshPerGrant
    BY NoneAssumption DEF IInv, RefreshersWait, RefreshIsLocked, OneRefreshPerGrant, Refreshing, Grants
  <1> QED
    BY <1>1, <1>2, InitOK, StoreInvariant, PTL DEF Spec

=============================================================================
