------------------------------ MODULE ToolBridge ------------------------------
(***************************************************************************)
(* The ToolBridge of tool_bridge.py: it turns the callbacks by which the   *)
(* SDK runs a tool into public calls, and the results of the public calls  *)
(* into the answers of the callbacks.  A bridge is a record; an operator   *)
(* is what a method does to it between two suspensions.                    *)
(*                                                                         *)
(* A call's internal id is a number, its name and arguments are one value. *)
(* A public id is never issued twice: it is the number of its issue and    *)
(* the call it is issued for.  The future of a call is part of its record  *)
(* and outlives its place among the pending.                               *)
(***************************************************************************)
EXTENDS Naturals, Sequences, FiniteSets, SequencesExt

CONSTANTS
  Calls,   \* internal ids, and the identities (name, arguments) of the calls
  None
ASSUME CallsAssumption == Calls \subseteq Nat \ {0} /\ None \notin Calls \cup {0}

NoCall == [pub |-> None, args |-> None, entered |-> FALSE, delivered |-> FALSE,
           future |-> "none", value |-> None]
NewBridge ==
  [pending |-> {}, call |-> [c \in Calls |-> NoCall], issued |-> 0, seen |-> {},
   expected |-> {}, sealed |-> FALSE, verified |-> FALSE, resolved |-> FALSE,
   failure |-> FALSE, cancelled |-> FALSE, changed |-> FALSE]

Signalled(b) == [b EXCEPT !.failure = TRUE, !.changed = TRUE]

Issued(b, id, args, entered) ==
  [NoCall EXCEPT !.pub = [issue |-> b.issued + 1, id |-> id], !.args = args,
                 !.entered = entered, !.future = "open"]
NewPending(b, id, args, entered) ==
  [b EXCEPT !.pending = @ \cup {id}, !.issued = @ + 1,
            !.call[id] = Issued(b, id, args, entered)]

\* Wrong: an announced call is entered for as often as it is called back.
Admits_Again(b, id, args) ==
  /\ id \in Calls /\ args \in Calls
  /\ IF b.sealed
     THEN id \in b.pending /\ [id |-> id, args |-> args] \in b.expected
     ELSE id \notin b.seen

\* invoke: a callback of an open epoch is a new call, one of a sealed epoch has
\* to be the first for an announced call, of the same name and arguments.
\* Any other callback is a protocol failure, and parked.
Admits(b, id, args) ==
  /\ id \in Calls /\ args \in Calls
  /\ IF b.sealed
     THEN /\ id \in b.pending /\ ~b.call[id].entered
          /\ [id |-> id, args |-> args] \in b.expected
     ELSE id \notin b.seen
\* Wrong: a late callback is not noted.
Entered_Unseen(b, id, args) ==
  IF b.sealed
  THEN [b EXCEPT !.call[id].entered = TRUE]
  ELSE [NewPending(b, id, args, TRUE) EXCEPT !.seen = @ \cup {id}, !.changed = TRUE]

Entered(b, id, args) ==
  IF b.sealed
  THEN [b EXCEPT !.call[id].entered = TRUE, !.seen = @ \cup {id}]
  ELSE [NewPending(b, id, args, TRUE) EXCEPT !.seen = @ \cup {id}, !.changed = TRUE]

\* _await_result: the callback ends and its call is no longer pending.
Left(b, id) ==
  IF id \in b.pending
  THEN [b EXCEPT !.pending = @ \ {id}, !.changed = TRUE] ELSE b

\* Wrong: what the callback said is not compared with the raw call.
Agrees_Unchecked(b, c) == TRUE

\* A callback that has entered must have said what the raw call says.
Agrees(b, c) == c.id \in b.pending => b.call[c.id].args = c.args

\* Raw calls no callback has entered for get a placeholder each.
Placeholders(b, calls) ==
  LET missing == {c \in calls : c.id \notin b.pending} IN
    [b EXCEPT !.pending = @ \cup {c.id : c \in missing}, !.issued = @ + 1,
              !.call = [id \in Calls |->
                IF \E c \in missing : c.id = id
                THEN Issued(b, id, (CHOOSE c \in missing : c.id = id).args, FALSE)
                ELSE b.call[id]]]

\* seal_epoch: the raw calls are the calls of the epoch.  It takes them one by one,
\* and stops at the first that does not agree with its callback.
ProperIds(calls) ==
  \A i, j \in DOMAIN calls :
    calls[i].id \in Calls /\ (calls[i].id = calls[j].id => i = j)
Sealed(b, calls) ==
  LET announced == [b EXCEPT !.expected = Range(calls)]
      odd == {i \in DOMAIN calls : ~Agrees(b, calls[i])}
      before == {i \in DOMAIN calls \ odd : \A j \in odd : i < j}
      made == Placeholders(announced, {calls[i] : i \in before})
  IN  IF b.cancelled \/ b.failure THEN b
      ELSE IF b.sealed \/ ~ProperIds(calls) THEN Signalled(b)
      ELSE IF ~(b.seen \subseteq {c.id : c \in Range(calls)}) THEN Signalled(announced)
      ELSE IF odd # {} THEN Signalled(made)
      ELSE [made EXCEPT !.sealed = TRUE, !.verified = TRUE]
Published(b, calls) ==
  [i \in DOMAIN calls |-> [pub |-> b.call[calls[i].id].pub,
                           args |-> b.call[calls[i].id].args]]

\* resolve: all or nothing; results maps the public ids to values.
Undelivered(b) == {c \in b.pending : ~b.call[c].delivered}
Matches(b, results) ==
  /\ DOMAIN results = {b.call[c].pub : c \in Undelivered(b)}
  /\ \A c \in Undelivered(b) : b.call[c].future = "open"

Resolved(b, results) ==
  [b EXCEPT !.sealed = TRUE, !.resolved = TRUE,
            !.call = [c \in Calls |->
              IF c \notin Undelivered(b) THEN b.call[c]
              ELSE [b.call[c] EXCEPT !.delivered = TRUE, !.future = "result",
                                     !.value = results[b.call[c].pub]]]]

\* wait_epoch_complete: what it refuses before its loop, in it and after it,
\* and what it leaves behind.
Premature(b) ==
  ~b.sealed \/ ~b.verified \/ ~b.resolved \/ Undelivered(b) # {}
WaitFails(b) ==
  \/ b.cancelled \/ b.failure
  \/ b.pending = {} /\ b.seen # {c.id : c \in b.expected}
WaitFailed(b) == IF b.cancelled \/ b.failure THEN b ELSE Signalled(b)
EpochComplete(b) == [b EXCEPT !.expected = {}, !.seen = {}]

\* has_epoch_activity: calls and callbacks of a round that is not complete.
HasEpochActivity(b) == b.seen # {} \/ b.pending # {}

\* begin_epoch, once the last one is complete.
Begun(b) ==
  [b EXCEPT !.sealed = FALSE, !.verified = FALSE, !.resolved = FALSE,
            !.expected = {}, !.seen = {}]

\* Wrong: callbacks that wait for a result are left to wait.
Cancelled_LeavesWaiting(b) ==
  [b EXCEPT !.cancelled = TRUE, !.changed = TRUE, !.pending = {},
            !.expected = {}, !.seen = {}]

Cancelled(b) ==
  IF b.cancelled THEN b
  ELSE [b EXCEPT !.cancelled = TRUE, !.changed = TRUE, !.pending = {},
                 !.expected = {}, !.seen = {},
                 !.call = [c \in Calls |->
                   IF c \in b.pending /\ b.call[c].future = "open"
                   THEN [b.call[c] EXCEPT !.future = IF b.call[c].entered
                                                     THEN "error" ELSE "cancelled"]
                   ELSE b.call[c]]]
=============================================================================
