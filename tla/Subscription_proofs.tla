------------------------ MODULE Subscription_proofs ------------------------
(* The safety properties of the OpenAI subscription: of its turns             *)
(* (SubscriptionTurn), for every set of requests, and of what it sends, tells *)
(* and stores (SubscriptionReplay), for any items, texts, prompts, accounts,  *)
(* models and bounds of the cache, and for any number of turns, events and    *)
(* edits.                                                                     *)
EXTENDS SubscriptionTurn, SubscriptionReplay, Integers, SequenceTheorems,
        NaturalsInduction, WellFoundedInduction, TLAPS

-----------------------------------------------------------------------------
(* SubscriptionTurn.  A turn is a record, and almost everything that is done  *)
(* to it is done by the task of its own request: the invariant is one of each *)
(* record, but for what Backend.close() has seen of it, and the proof has a   *)
(* lemma for each piece of code between two suspensions.                      *)
Pcs == {"body", "starting", "credentials", "refreshing", "exchange", "reading", "sending",
        "closing", "replying", "finish", "over"}
Cleanups == {"cancel", "raise", "report"}
Afters ==
  {"none", "refresh", "attempt", "complete", "fail", "unwind", "cancel", "raise", "report"}
Results == {"none", "quiet", "cancelled", "replied", "error"}

Fields ==
  {"pc", "stream", "after", "result", "cancelling", "pending", "causes", "monitor",
   "disconnected", "mine", "started", "headers", "reported", "shown", "timer", "lease",
   "aborted", "upstream", "attempt", "refreshed", "retried", "last"}

Typed(t) ==
  /\ DOMAIN t = Fields
  /\ t.pc \in Pcs /\ t.after \in Afters /\ t.result \in Results
  /\ t.monitor \in {"none", "listening", "cancelled", "done"}
  /\ t.timer \in {"off", "on", "expired"} /\ t.lease \in {"none", "open", "gone"}
  /\ t.upstream \in {"none", "open", "closing", "closed", "failed"}
  /\ t.causes \subseteq Causes /\ t.cancelling \in Int /\ t.mine \in Int
  /\ t.attempt \in Nat /\ t.reported \in Nat /\ t.shown \in Nat /\ t.headers \subseteq Nat
  /\ t.stream \in BOOLEAN /\ t.pending \in BOOLEAN /\ t.disconnected \in BOOLEAN
  /\ t.started \in BOOLEAN /\ t.aborted \in BOOLEAN
  /\ t.refreshed \in BOOLEAN /\ t.retried \in BOOLEAN /\ t.last \in BOOLEAN

One(b) == IF b THEN 1 ELSE 0

-----------------------------------------------------------------------------
(* The attempts: each one after the first was paid for by the one refresh or   *)
(* by the one retry, and before both nothing had been shown.                   *)
Untried(t) ==
  /\ t.attempt = 0 /\ t.shown = 0 /\ t.reported = 0
  /\ ~t.refreshed /\ ~t.retried /\ ~t.started /\ t.headers = {}

Attempts(t) ==
  /\ t.attempt <= 1 + One(t.retried) + One(t.refreshed)
  /\ t.reported \in {0, t.attempt} /\ t.shown \in {0, t.attempt}
  /\ t.headers \subseteq {0, t.shown}
  /\ t.pc \in {"body", "starting", "credentials"} => Untried(t)
  /\ t.pc = "refreshing" \/ (t.pc = "closing" /\ t.after = "refresh") =>
       ~t.refreshed /\ t.shown = 0
  /\ t.pc = "closing" /\ t.after = "attempt" =>
       t.shown = 0 /\ t.attempt <= One(t.retried) + One(t.refreshed)
  /\ t.pc = "sending" \/ (t.pc = "closing" /\ t.after = "complete") => t.shown = t.attempt

(* What a turn owns: its lease and its timer while its stream runs, the        *)
(* response while it is read.  A response that somebody else has closed was    *)
(* closed by an abort, and its task is cancelled.                              *)
InStream(t) ==
  \/ t.pc \in {"credentials", "refreshing", "exchange", "reading"}
  \/ t.pc = "closing" /\ t.after \notin Cleanups

Owns(t) ==
  /\ InStream(t) => t.lease = "open"
  /\ t.pc \in {"body", "starting"} => t.lease = "none"
  /\ t.pc \in {"replying", "finish", "over"} => t.lease # "open"
  /\ t.pc \in {"sending", "closing"} => t.lease # "none"
  /\ t.timer = "off" <=> t.lease # "open"
  /\ t.pc = "reading" \/ (t.pc = "sending" /\ t.lease = "open") =>
       t.upstream = "open" \/ t.pending
  /\ t.pc \in {"body", "starting", "credentials", "refreshing", "exchange"} => t.upstream = "none"
  /\ t.upstream = "open" => t.pc \in {"reading", "sending"}
  /\ t.upstream \in {"open", "closing"} => t.lease = "open"

(* Task.cancelling() counts the cancellations that nobody has taken back: the  *)
(* client's until the monitor, the deadline's until the timer takes it.        *)
Ledger(t) ==
  t.pc \notin {"finish", "over"} =>
    /\ t.disconnected <=> "client" \in t.causes
    /\ t.mine = One("client" \in t.causes)
    /\ t.lease = "none" => "deadline" \notin t.causes
    /\ t.lease = "open" => (t.timer = "expired" <=> "deadline" \in t.causes)
    /\ t.cancelling = One("client" \in t.causes) + One("server" \in t.causes)
                        + One("close" \in t.causes) + One(t.timer = "expired")

(* Where a cancellation is: to be thrown at the next await, or being unwound.  *)
Expected(t) ==
  /\ t.pending => t.causes # {}
  /\ \/ t.pc \in {"body", "starting", "sending"}
     \/ InStream(t) /\ ~(t.pc = "closing" /\ t.after = "unwind")
     => t.causes = {} \/ t.pending
  /\ t.pc = "closing" /\ t.after \in {"unwind", "cancel"} => t.causes # {}

(* The listener, and what a request that is ending tells.                      *)
Listener(t) ==
  /\ t.pc = "body" => t.monitor = "none"
  /\ t.pc = "finish" => t.monitor # "listening"
  /\ t.pc = "over" /\ t.monitor = "listening" => t.upstream = "failed"

Meaning(t) ==
  /\ t.pc = "finish" /\ t.pending => "server" \in t.causes
  /\ t.pc \in {"finish", "over"} =>
       /\ t.result = "quiet" =>
            \/ "client" \in t.causes /\ t.causes \subseteq {"client", "deadline"}
            \/ t.pc = "finish" /\ t.pending
       /\ t.result = "cancelled" =>
            t.causes \cap {"server", "close", "deadline"} # {} \/ t.upstream = "failed"

TurnInv(t) ==
  Typed(t) /\ Attempts(t) /\ Owns(t) /\ Ledger(t) /\ Expected(t) /\ Listener(t) /\ Meaning(t)

(* What Backend.close() knows: every lease that was open when it began is      *)
(* still to be aborted or was aborted, and none was opened since.              *)
Closer ==
  /\ closer \in {"running", "aborting", "closed", "failed"}
  /\ todo \subseteq Requests /\ cached \subseteq Requests /\ aborts \subseteq Requests
  /\ closer = "running" => todo = {}
  /\ closer # "aborting" => aborts = {}
  /\ closer = "closed" => todo = {} /\ cached = {}
  /\ \A r \in Requests :
       /\ "close" \in turn[r].causes => closer # "running" /\ r \notin todo
       /\ closer # "running" /\ turn[r].lease = "open" => r \in todo \/ turn[r].aborted

SubscriptionInv ==
  DOMAIN turn = Requests /\ (\A r \in Requests : TurnInv(turn[r])) /\ Closer

-----------------------------------------------------------------------------
(* What Backend.close() does not notice of what a task does: it takes back no  *)
(* cancellation of the shutdown, and opens no lease.                           *)
LeavesOpen(t, u) ==
  /\ "close" \in u.causes <=> "close" \in t.causes
  /\ u.lease = "open" => t.lease = "open"
  /\ t.aborted => u.aborted

Follows(t, u) == TurnInv(u) /\ LeavesOpen(t, u)

(* What is left of a turn whose stream has ended, or has not begun.            *)
Ending(t) ==
  /\ Typed(t)
  /\ t.attempt <= 1 + One(t.retried) + One(t.refreshed)
  /\ t.reported \in {0, t.attempt} /\ t.shown \in {0, t.attempt}
  /\ t.headers \subseteq {0, t.shown}
  /\ t.lease # "open" /\ t.timer = "off" /\ t.upstream \notin {"open", "closing"}
  /\ t.disconnected <=> "client" \in t.causes
  /\ t.mine = One("client" \in t.causes)
  /\ t.cancelling = One("client" \in t.causes) + One("server" \in t.causes)
                      + One("close" \in t.causes)
  /\ t.lease = "none" => "deadline" \notin t.causes
  /\ t.pending => t.causes # {}
  /\ t.pc # "over"

(* An event is shown, the last one of a collected response among them.         *)
LEMMA ShowsInv ==
  ASSUME NEW t, TurnInv(t), t.pc = "reading", ~t.pending
  PROVE  Follows(t, Shows(t))
<1> DEFINE u == Shows(t)
<1>1. Typed(u)
  BY DEF TurnInv, Typed, Fields, Pcs, Shows, IdentityHeaders
<1>2. /\ Attempts(u) /\ Owns(u) /\ Ledger(u) /\ Expected(u)
      /\ Listener(u) /\ Meaning(u) /\ LeavesOpen(t, u)
  BY DEF TurnInv, Typed, Fields, Attempts, Untried, Owns, InStream, Ledger, Expected,
         Listener, Meaning, Cleanups, LeavesOpen, One, Shows, IdentityHeaders
<1> QED BY <1>1, <1>2 DEF TurnInv, Follows

LEMMA FinishesInv ==
  ASSUME NEW t, Ending(t), ~t.pending, NEW result \in {"replied", "error"}
  PROVE  Follows(t, Finishes(t, result))
<1> DEFINE u == Finishes(t, result)
<1>1. Typed(u)
  BY DEF Typed, Fields, Ending, Pcs, Results, Finishes
<1>2. /\ Attempts(u) /\ Owns(u) /\ Ledger(u) /\ Expected(u)
      /\ Listener(u) /\ Meaning(u) /\ LeavesOpen(t, u)
  BY DEF Typed, Fields, Ending, Attempts, Untried, Owns, InStream, Ledger, Expected,
         Listener, Meaning, Cleanups, LeavesOpen, One, Finishes
<1> QED BY <1>1, <1>2 DEF TurnInv, Follows

LEMMA TakesInv ==
  ASSUME NEW t, Ending(t), t.causes # {} \/ t.upstream = "failed"
  PROVE  Follows(t, TakesCancellation(t))
<1> DEFINE u == TakesCancellation(t)
<1>1. Typed(u)
  BY DEF Ending, Typed, Fields, Pcs, Results, TakesCancellation, Finishes, Uncancelled
<1>2. /\ u.pc = "finish" /\ u.monitor # "listening" /\ ~u.pending
      /\ u.result = IF IsDisconnect(t) THEN "quiet" ELSE "cancelled"
      /\ u.causes = t.causes /\ u.upstream = t.upstream
      /\ u.lease = t.lease /\ u.timer = t.timer /\ u.aborted = t.aborted
      /\ u.attempt = t.attempt /\ u.shown = t.shown /\ u.reported = t.reported
      /\ u.headers = t.headers /\ u.refreshed = t.refreshed /\ u.retried = t.retried
  BY DEF Ending, Typed, Fields, TakesCancellation, Finishes, Uncancelled
<1>3. IsDisconnect(t) => "client" \in t.causes /\ t.causes \subseteq {"client", "deadline"}
  <2> SUFFICES ASSUME IsDisconnect(t)
               PROVE  "client" \in t.causes /\ t.causes \subseteq {"client", "deadline"}
    OBVIOUS
  <2>1. t.disconnected /\ t.cancelling - t.mine = 0
    BY DEF Ending, Typed, Fields, IsDisconnect, Uncancelled
  <2>2. "client" \in t.causes /\ "server" \notin t.causes /\ "close" \notin t.causes
    BY <2>1 DEF Ending, One
  <2> QED BY <2>2 DEF Ending, Typed, Causes
<1>4. ~IsDisconnect(t) =>
        t.causes \cap {"server", "close", "deadline"} # {} \/ t.upstream = "failed"
  <2> SUFFICES ASSUME ~IsDisconnect(t), t.causes \subseteq {"client"}, t.upstream # "failed"
               PROVE  FALSE
    BY DEF Ending, Typed, Causes
  <2>1. "client" \in t.causes /\ "server" \notin t.causes /\ "close" \notin t.causes
    OBVIOUS
  <2>2. t.disconnected /\ t.mine = 1 /\ t.cancelling = 1
    BY <2>1 DEF Ending, One
  <2> QED BY <2>2 DEF Ending, Typed, Fields, IsDisconnect, Uncancelled
<1> HIDE DEF u
<1>5. Attempts(u) /\ Owns(u) /\ Ledger(u) /\ Expected(u) /\ Listener(u)
  BY <1>1, <1>2 DEF Ending, Attempts, Owns, InStream, Ledger, Expected, Listener
<1>6. Meaning(u)
  BY <1>2, <1>3, <1>4 DEF Meaning
<1>7. LeavesOpen(t, u)
  BY <1>2 DEF LeavesOpen
<1> QED BY <1>1, <1>5, <1>6, <1>7 DEF TurnInv, Follows, u

LEMMA RespondsInv ==
  ASSUME NEW t, Ending(t), ~t.pending, t.cancelling = 0
  PROVE  Follows(t, Responds(t))
<1> DEFINE u == Responds(t)
<1>1. Typed(u)
  BY DEF Typed, Fields, Ending, One, Pcs, Responds, Finishes
<1>2. /\ Attempts(u) /\ Owns(u) /\ Ledger(u) /\ Expected(u)
      /\ Listener(u) /\ Meaning(u) /\ LeavesOpen(t, u)
  BY DEF Typed, Fields, Ending, One, Attempts, Untried, Owns, InStream, Ledger, Expected,
         Listener, Meaning, Cleanups, LeavesOpen, Responds, Finishes
<1> QED BY <1>1, <1>2 DEF TurnInv, Follows

LEMMA CompletesInv ==
  ASSUME NEW t, Ending(t), ~t.pending, t.causes = {}, t.shown = t.attempt, t.lease = "gone"
  PROVE  Follows(t, StreamCompletes(t))
<1> DEFINE u == StreamCompletes(t)
<1>1. Typed(u)
  BY DEF Typed, Fields, Ending, One, Pcs, StreamCompletes, Responds, Finishes,
         IdentityHeaders
<1>2. /\ Attempts(u) /\ Owns(u) /\ Ledger(u) /\ Expected(u)
      /\ Listener(u) /\ Meaning(u) /\ LeavesOpen(t, u)
  BY DEF Typed, Fields, Ending, One, Attempts, Untried, Owns, InStream, Ledger, Expected,
         Listener, Meaning, Cleanups, LeavesOpen, StreamCompletes, Responds, Finishes,
         IdentityHeaders
<1> QED BY <1>1, <1>2 DEF TurnInv, Follows

LEMMA FailsInv ==
  ASSUME NEW t, Ending(t), ~t.pending, t.cancelling > 0 => t.upstream = "failed"
  PROVE  Follows(t, StreamFails(t))
<1>1. CASE Abandons(t)
  <2> DEFINE u == StreamFails(t)
  <2>1. Typed(u)
    BY <1>1 DEF Typed, Fields, Ending, Pcs, Results, StreamFails, Abandons
  <2>2. /\ Attempts(u) /\ Owns(u) /\ Ledger(u) /\ Expected(u)
        /\ Listener(u) /\ Meaning(u) /\ LeavesOpen(t, u)
    BY <1>1 DEF Typed, Fields, Ending, Attempts, Untried, Owns, InStream, Ledger,
      Expected, Listener, Meaning, Cleanups, LeavesOpen, One, StreamFails, Abandons
  <2> QED BY <2>1, <2>2 DEF TurnInv, Follows
<1>2. CASE ~Abandons(t) /\ t.cancelling > 0
  BY <1>2, TakesInv DEF StreamFails
<1>3. CASE ~Abandons(t) /\ ~(t.cancelling > 0) /\ t.started
  <2> DEFINE u == StreamFails(t)
  <2>1. Typed(u)
    BY <1>3 DEF Typed, Fields, Ending, One, Pcs, StreamFails
  <2>2. /\ Attempts(u) /\ Owns(u) /\ Ledger(u) /\ Expected(u)
        /\ Listener(u) /\ Meaning(u) /\ LeavesOpen(t, u)
    BY <1>3 DEF Typed, Fields, Ending, One, Attempts, Untried, Owns, InStream, Ledger,
      Expected, Listener, Meaning, Cleanups, LeavesOpen, StreamFails
  <2> QED BY <2>1, <2>2 DEF TurnInv, Follows
<1>4. CASE ~Abandons(t) /\ ~(t.cancelling > 0) /\ ~t.started
  BY <1>4, RespondsInv DEF StreamFails, Ending, Typed, One
<1> QED BY <1>1, <1>2, <1>3, <1>4

(* From a turn to what is left of it.                                          *)
LEMMA FollowsOn == \A t, u, v : LeavesOpen(t, u) /\ Follows(u, v) => Follows(t, v)
BY DEF LeavesOpen, Follows

LEMMA EndingOf ==
  ASSUME NEW t, TurnInv(t), t.lease # "open", t.pc \notin {"finish", "over"}
  PROVE  Ending(t)
BY DEF TurnInv, Typed, Attempts, Owns, Ledger, Expected, Ending, One

LEMMA LeavesEnds ==
  ASSUME NEW t, TurnInv(t), t.lease = "open", t.upstream \notin {"open", "closing"},
    NEW pending \in {t.pending, FALSE}
  PROVE  LET u == [Leaves(t) EXCEPT !.pending = pending]
         IN  /\ Ending(u) /\ LeavesOpen(t, u) /\ u.lease = "gone" /\ u.pending = pending
             /\ u.causes = t.causes /\ u.upstream = t.upstream
             /\ u.shown = t.shown /\ u.attempt = t.attempt
             /\ t.causes = {} => u.cancelling = 0
             /\ t.causes # {} /\ t.timer # "expired" => u.cancelling > 0
             /\ pending = t.pending => u = Leaves(t)
<1> DEFINE u == [Leaves(t) EXCEPT !.pending = pending]
<1>1. /\ DOMAIN u = DOMAIN t /\ u.after = t.after /\ u.result = t.result
      /\ u.monitor = t.monitor /\ u.stream = t.stream /\ u.started = t.started /\ u.last = t.last
  BY DEF TurnInv, Typed, Fields, Leaves
<1>2. /\ u.lease = "gone" /\ u.timer = "off" /\ u.pending = pending /\ u.pc = t.pc
      /\ u.causes = t.causes /\ u.upstream = t.upstream /\ u.aborted = t.aborted
      /\ u.shown = t.shown /\ u.attempt = t.attempt /\ u.reported = t.reported
      /\ u.headers = t.headers /\ u.refreshed = t.refreshed /\ u.retried = t.retried
      /\ u.disconnected = t.disconnected /\ u.mine = t.mine
      /\ u.cancelling = IF t.timer = "expired" THEN t.cancelling - 1 ELSE t.cancelling
  BY DEF TurnInv, Typed, Fields, Leaves
<1>3. pending = t.pending => u = Leaves(t)
  BY DEF TurnInv, Typed, Fields, Leaves
<1> HIDE DEF u
<1>4. t.pc \notin {"finish", "over"}
  BY DEF TurnInv, Owns
<1>5. Ending(u)
  <2>4. Typed(u)
    <3>1. u.cancelling \in Int
      BY <1>2 DEF TurnInv, Typed
    <3>3. u.pending \in BOOLEAN
      BY <1>2 DEF TurnInv, Typed
    <3>2. u.timer \in {"off", "on", "expired"} /\ u.lease \in {"none", "open", "gone"}
      BY <1>2
    <3> QED BY <1>1, <1>2, <3>1, <3>2, <3>3 DEF TurnInv, Typed
  <2>1. /\ u.attempt <= 1 + One(u.retried) + One(u.refreshed)
        /\ u.reported \in {0, u.attempt} /\ u.shown \in {0, u.attempt}
        /\ u.headers \subseteq {0, u.shown}
    BY <1>2 DEF TurnInv, Attempts
  <2>2. /\ u.disconnected <=> "client" \in u.causes
        /\ u.mine = One("client" \in u.causes)
        /\ u.cancelling = One("client" \in u.causes) + One("server" \in u.causes)
                            + One("close" \in u.causes)
    BY <1>2, <1>4 DEF TurnInv, Ledger, One
  <2>3. u.pending => u.causes # {}
    BY <1>2 DEF TurnInv, Expected
  <2> QED BY <1>2, <1>4, <2>1, <2>2, <2>3, <2>4 DEF Ending
<1>6. /\ t.causes = {} => u.cancelling = 0
      /\ t.causes # {} /\ t.timer # "expired" => u.cancelling > 0
  BY <1>2, <1>4 DEF TurnInv, Typed, Owns, Ledger, Causes, One
<1>7. LeavesOpen(t, u)
  BY <1>2 DEF LeavesOpen
<1> QED BY <1>2, <1>3, <1>5, <1>6, <1>7 DEF u

(* The cancellation of a stream: the deadline's becomes a failure, if it is    *)
(* the only one.                                                               *)
LEMMA IsCancelledInv ==
  ASSUME NEW t, TurnInv(t), t.lease = "open", t.upstream \notin {"open", "closing"},
    t.causes # {}
  PROVE  Follows(t, StreamIsCancelled(t))
<1> DEFINE u == [Leaves(t) EXCEPT !.pending = FALSE]
<1>1. /\ Ending(u) /\ LeavesOpen(t, u) /\ ~u.pending /\ u.causes # {}
  BY LeavesEnds
<1> HIDE DEF u
<1>2. CASE t.timer = "expired" /\ u.cancelling = 0
  <2>1. StreamIsCancelled(t) = StreamFails(u)
    BY <1>2 DEF StreamIsCancelled, u
  <2> QED BY <1>1, <1>2, <2>1, FailsInv, FollowsOn
<1>3. CASE ~(t.timer = "expired" /\ u.cancelling = 0)
  <2>1. StreamIsCancelled(t) = TakesCancellation(u)
    BY <1>3 DEF StreamIsCancelled, u
  <2> QED BY <1>1, <2>1, TakesInv, FollowsOn
<1> QED BY <1>2, <1>3

(* The attempts.                                                               *)
LEMMA AttemptInv ==
  ASSUME NEW t, TurnInv(t), t.pc \in {"credentials", "refreshing"}, ~t.pending
  PROVE  LET u == Attempt([t EXCEPT !.refreshed = @ \/ t.pc = "refreshing"])
         IN  Follows(t, u)
<1> DEFINE u == Attempt([t EXCEPT !.refreshed = @ \/ t.pc = "refreshing"])
<1>1. Typed(u)
  BY DEF TurnInv, Typed, Fields, Pcs, Attempt
<1>2. Attempts(u)
  <2>1. /\ u.attempt = t.attempt + 1 /\ u.reported = 0 /\ u.shown = 0 /\ u.headers = t.headers
        /\ u.retried = t.retried /\ u.pc = "exchange"
        /\ t.pc = "refreshing" => u.refreshed
    BY DEF TurnInv, Typed, Fields, Attempts, Untried, Attempt
  <2>2. t.shown = 0 /\ ~t.refreshed /\ t.attempt \in Nat
    BY DEF TurnInv, Typed, Attempts, Untried
  <2> HIDE DEF u
  <2>3. t.attempt + 1 <= 1 + One(u.retried) + One(u.refreshed)
    <3>1. CASE t.pc = "credentials"
      BY <2>2, <3>1 DEF TurnInv, Attempts, Untried, One
    <3>2. CASE t.pc = "refreshing"
      BY <2>1, <2>2, <3>2 DEF TurnInv, Attempts, One
    <3> QED BY <3>1, <3>2
  <2> QED BY <2>1, <2>2, <2>3 DEF TurnInv, Attempts
<1>3. Owns(u) /\ Ledger(u) /\ Expected(u) /\ Listener(u) /\ Meaning(u) /\ LeavesOpen(t, u)
  BY DEF TurnInv, Typed, Fields, Owns, InStream, Ledger, Expected, Listener, Meaning,
         Cleanups, LeavesOpen, One, Attempt
<1> QED BY <1>1, <1>2, <1>3 DEF TurnInv, Follows

LEMMA RetryInv ==
  ASSUME NEW t, TurnInv(t), t.pc = "exchange", ~t.pending, MayRetry(t)
  PROVE  Follows(t, Attempt([t EXCEPT !.retried = TRUE]))
<1> DEFINE u == Attempt([t EXCEPT !.retried = TRUE])
<1>1. Typed(u)
  BY DEF TurnInv, Typed, Fields, Pcs, Attempt, MayRetry
<1>2. /\ Attempts(u) /\ Owns(u) /\ Ledger(u) /\ Expected(u)
      /\ Listener(u) /\ Meaning(u) /\ LeavesOpen(t, u)
  BY DEF TurnInv, Typed, Fields, Attempts, Untried, Owns, InStream, Ledger, Expected,
         Listener, Meaning, Cleanups, LeavesOpen, One, Attempt, MayRetry
<1> QED BY <1>1, <1>2 DEF TurnInv, Follows

LEMMA NoCredentialsInv ==
  ASSUME NEW t, TurnInv(t), t.pc \in {"credentials", "refreshing", "exchange"},
    ~t.pending
  PROVE  Follows(t, StreamFails(Leaves(t)))
<1>1. t.lease = "open" /\ t.upstream = "none" /\ t.causes = {}
  BY DEF TurnInv, Owns, Expected, InStream
<1>2. Ending(Leaves(t)) /\ LeavesOpen(t, Leaves(t)) /\ ~Leaves(t).pending /\ Leaves(t).cancelling = 0
  <2> DEFINE u == [Leaves(t) EXCEPT !.pending = t.pending]
  <2>1. u = Leaves(t) /\ Ending(u) /\ LeavesOpen(t, u) /\ u.pending = t.pending /\ u.cancelling = 0
    BY <1>1, LeavesEnds
  <2> QED BY <2>1
<1> QED BY <1>2, FailsInv, FollowsOn

(* The answers of upstream.                                                    *)
LEMMA OkInv ==
  ASSUME NEW t, TurnInv(t), t.pc = "exchange", ~t.pending
  PROVE  Follows(t, [t EXCEPT !.pc = "reading", !.upstream = "open"])
<1> DEFINE u == [t EXCEPT !.pc = "reading", !.upstream = "open"]
<1>1. Typed(u)
  BY DEF TurnInv, Typed, Fields, Pcs
<1>2. /\ Attempts(u) /\ Owns(u) /\ Ledger(u) /\ Expected(u)
      /\ Listener(u) /\ Meaning(u) /\ LeavesOpen(t, u)
  BY DEF TurnInv, Typed, Fields, Attempts, Untried, Owns, InStream, Ledger, Expected,
         Listener, Meaning, Cleanups, LeavesOpen, One
<1> QED BY <1>1, <1>2 DEF TurnInv, Follows

LEMMA UnauthorizedInv ==
  ASSUME NEW t, TurnInv(t), t.pc = "exchange", ~t.pending, ~t.refreshed, t.shown = 0
  PROVE  Follows(t, Closing([t EXCEPT !.upstream = "open"], "refresh"))
<1> DEFINE u == Closing([t EXCEPT !.upstream = "open"], "refresh")
<1>1. Typed(u)
  BY DEF TurnInv, Typed, Fields, Pcs, Afters, Closing
<1>2. /\ Attempts(u) /\ Owns(u) /\ Ledger(u) /\ Expected(u)
      /\ Listener(u) /\ Meaning(u) /\ LeavesOpen(t, u)
  BY DEF TurnInv, Typed, Fields, Attempts, Untried, Owns, InStream, Ledger, Expected,
         Listener, Meaning, Cleanups, LeavesOpen, One, Closing
<1> QED BY <1>1, <1>2 DEF TurnInv, Follows

LEMMA TransientInv ==
  ASSUME NEW t, TurnInv(t), t.pc = "exchange", ~t.pending, MayRetry(t)
  PROVE  Follows(t, Closing([t EXCEPT !.upstream = "open", !.retried = TRUE], "attempt"))
<1> DEFINE u == Closing([t EXCEPT !.upstream = "open", !.retried = TRUE], "attempt")
<1>1. Typed(u)
  BY DEF TurnInv, Typed, Fields, Pcs, Afters, Closing, MayRetry
<1>2. /\ Attempts(u) /\ Owns(u) /\ Ledger(u) /\ Expected(u)
      /\ Listener(u) /\ Meaning(u) /\ LeavesOpen(t, u)
  BY DEF TurnInv, Typed, Fields, Attempts, Untried, Owns, InStream, Ledger, Expected,
         Listener, Meaning, Cleanups, LeavesOpen, One, Closing, MayRetry
<1> QED BY <1>1, <1>2 DEF TurnInv, Follows

LEMMA RefusedInv ==
  ASSUME NEW t, TurnInv(t), t.pc = "exchange", ~t.pending
  PROVE  Follows(t, Closing([t EXCEPT !.upstream = "open"], "fail"))
<1> DEFINE u == Closing([t EXCEPT !.upstream = "open"], "fail")
<1>1. Typed(u)
  BY DEF TurnInv, Typed, Fields, Pcs, Afters, Closing
<1>2. /\ Attempts(u) /\ Owns(u) /\ Ledger(u) /\ Expected(u)
      /\ Listener(u) /\ Meaning(u) /\ LeavesOpen(t, u)
  BY DEF TurnInv, Typed, Fields, Attempts, Untried, Owns, InStream, Ledger, Expected,
         Listener, Meaning, Cleanups, LeavesOpen, One, Closing
<1> QED BY <1>1, <1>2 DEF TurnInv, Follows

(* What is read from the response.                                             *)
LEMMA IdentifiesInv ==
  ASSUME NEW t, TurnInv(t), t.pc = "reading", ~t.pending
  PROVE  Follows(t, [t EXCEPT !.reported = t.attempt])
<1> DEFINE u == [t EXCEPT !.reported = t.attempt]
<1>1. Typed(u)
  BY DEF TurnInv, Typed, Fields, Pcs
<1>2. /\ Attempts(u) /\ Owns(u) /\ Ledger(u) /\ Expected(u)
      /\ Listener(u) /\ Meaning(u) /\ LeavesOpen(t, u)
  BY DEF TurnInv, Typed, Fields, Attempts, Untried, Owns, InStream, Ledger, Expected,
         Listener, Meaning, Cleanups, LeavesOpen, One
<1> QED BY <1>1, <1>2 DEF TurnInv, Follows

LEMMA LastShownInv ==
  ASSUME NEW t, TurnInv(t), t.pc = "reading", ~t.pending, t.stream
  PROVE  Follows(t, [Shows(t) EXCEPT !.last = TRUE])
<1> DEFINE u == [Shows(t) EXCEPT !.last = TRUE]
<1>1. Typed(u)
  BY DEF TurnInv, Typed, Fields, Pcs, Shows, IdentityHeaders
<1>2. /\ Attempts(u) /\ Owns(u) /\ Ledger(u) /\ Expected(u)
      /\ Listener(u) /\ Meaning(u) /\ LeavesOpen(t, u)
  BY DEF TurnInv, Typed, Fields, Attempts, Untried, Owns, InStream, Ledger, Expected,
         Listener, Meaning, Cleanups, LeavesOpen, One, Shows, IdentityHeaders
<1> QED BY <1>1, <1>2 DEF TurnInv, Follows

LEMMA CollectedInv ==
  ASSUME NEW t, TurnInv(t), t.pc = "reading", ~t.pending, ~t.stream
  PROVE  Follows(t, Closing([Shows(t) EXCEPT !.last = TRUE], "complete"))
<1> DEFINE u == Closing([Shows(t) EXCEPT !.last = TRUE], "complete")
<1>1. Typed(u)
  BY DEF TurnInv, Typed, Fields, Pcs, Afters, Closing, Shows, IdentityHeaders
<1>2. /\ Attempts(u) /\ Owns(u) /\ Ledger(u) /\ Expected(u)
      /\ Listener(u) /\ Meaning(u) /\ LeavesOpen(t, u)
  BY DEF TurnInv, Typed, Fields, Attempts, Untried, Owns, InStream, Ledger, Expected,
         Listener, Meaning, Cleanups, LeavesOpen, One, Closing, Shows, IdentityHeaders
<1> QED BY <1>1, <1>2 DEF TurnInv, Follows

LEMMA FramingFailsInv ==
  ASSUME NEW t, TurnInv(t), t.pc = "reading", ~t.pending
  PROVE  Follows(t, Closing(t, "fail"))
<1> DEFINE u == Closing(t, "fail")
<1>1. Typed(u)
  BY DEF TurnInv, Typed, Fields, Pcs, Afters, Closing
<1>2. /\ Attempts(u) /\ Owns(u) /\ Ledger(u) /\ Expected(u)
      /\ Listener(u) /\ Meaning(u) /\ LeavesOpen(t, u)
  BY DEF TurnInv, Typed, Fields, Attempts, Untried, Owns, InStream, Ledger, Expected,
         Listener, Meaning, Cleanups, LeavesOpen, One, Closing
<1> QED BY <1>1, <1>2 DEF TurnInv, Follows

LEMMA ReadFailsInv ==
  ASSUME NEW t, TurnInv(t), t.pc = "reading", ~t.pending, MayRetry(t)
  PROVE  Follows(t, Closing([t EXCEPT !.retried = TRUE], "attempt"))
<1> DEFINE u == Closing([t EXCEPT !.retried = TRUE], "attempt")
<1>1. Typed(u)
  BY DEF TurnInv, Typed, Fields, Pcs, Afters, Closing, MayRetry
<1>2. /\ Attempts(u) /\ Owns(u) /\ Ledger(u) /\ Expected(u)
      /\ Listener(u) /\ Meaning(u) /\ LeavesOpen(t, u)
  BY DEF TurnInv, Typed, Fields, Attempts, Untried, Owns, InStream, Ledger, Expected,
         Listener, Meaning, Cleanups, LeavesOpen, One, Closing, MayRetry
<1> QED BY <1>1, <1>2 DEF TurnInv, Follows

LEMMA UnwindsInv ==
  ASSUME NEW t, TurnInv(t), t.pc = "reading", t.pending
  PROVE  Follows(t, Closing([t EXCEPT !.pending = FALSE], "unwind"))
<1> DEFINE u == Closing([t EXCEPT !.pending = FALSE], "unwind")
<1>1. Typed(u)
  BY DEF TurnInv, Typed, Fields, Pcs, Afters, Closing
<1>2. /\ Attempts(u) /\ Owns(u) /\ Ledger(u) /\ Expected(u)
      /\ Listener(u) /\ Meaning(u) /\ LeavesOpen(t, u)
  BY DEF TurnInv, Typed, Fields, Attempts, Untried, Owns, InStream, Ledger, Expected,
         Listener, Meaning, Cleanups, LeavesOpen, One, Closing
<1> QED BY <1>1, <1>2 DEF TurnInv, Follows

(* What was sent, and what could not be.                                       *)
LEMMA SentInv ==
  ASSUME NEW t, TurnInv(t), t.pc = "sending", ~t.pending, t.lease = "open"
  PROVE  Follows(t, [t EXCEPT !.pc = "reading"])
<1> DEFINE u == [t EXCEPT !.pc = "reading"]
<1>1. Typed(u)
  BY DEF TurnInv, Typed, Fields, Pcs
<1>2. /\ Attempts(u) /\ Owns(u) /\ Ledger(u) /\ Expected(u)
      /\ Listener(u) /\ Meaning(u) /\ LeavesOpen(t, u)
  BY DEF TurnInv, Typed, Fields, Attempts, Untried, Owns, InStream, Ledger, Expected,
         Listener, Meaning, Cleanups, LeavesOpen, One
<1> QED BY <1>1, <1>2 DEF TurnInv, Follows

LEMMA SentLastInv ==
  ASSUME NEW t, TurnInv(t), t.pc = "sending", ~t.pending, t.lease = "open"
  PROVE  Follows(t, Closing(t, "complete"))
<1> DEFINE u == Closing(t, "complete")
<1>1. Typed(u)
  BY DEF TurnInv, Typed, Fields, Pcs, Afters, Closing
<1>2. /\ Attempts(u) /\ Owns(u) /\ Ledger(u) /\ Expected(u)
      /\ Listener(u) /\ Meaning(u) /\ LeavesOpen(t, u)
  BY DEF TurnInv, Typed, Fields, Attempts, Untried, Owns, InStream, Ledger, Expected,
         Listener, Meaning, Cleanups, LeavesOpen, One, Closing
<1> QED BY <1>1, <1>2 DEF TurnInv, Follows

LEMMA SendFailsInv ==
  ASSUME NEW t, TurnInv(t), t.pc = "sending", ~t.pending, NEW after \in {"raise",
    "report"}
  PROVE  Follows(t, CleansUp(t, after))
<1> DEFINE u == CleansUp(t, after)
<1>1. Typed(u)
  BY ZenonT(60) DEF TurnInv, Typed, Fields, Pcs, Afters, CleansUp, Closing
<1>2. /\ Attempts(u) /\ Owns(u) /\ Ledger(u) /\ Expected(u)
      /\ Listener(u) /\ Meaning(u) /\ LeavesOpen(t, u)
  BY DEF TurnInv, Typed, Fields, Attempts, Untried, Owns, InStream, Ledger, Expected,
         Listener, Meaning, Cleanups, LeavesOpen, One, CleansUp, Closing
<1> QED BY <1>1, <1>2 DEF TurnInv, Follows

LEMMA SendIsCancelledInv ==
  ASSUME NEW t, TurnInv(t), t.pc = "sending", t.pending
  PROVE  Follows(t, CleansUp([t EXCEPT !.pending = FALSE], "cancel"))
<1> DEFINE u == CleansUp([t EXCEPT !.pending = FALSE], "cancel")
<1>1. Typed(u)
  <2>1. CASE t.lease = "gone"
    BY <2>1 DEF TurnInv, Typed, Fields, Pcs, Afters, CleansUp, Closing
  <2>2. CASE t.lease # "gone"
    BY <2>2 DEF TurnInv, Typed, Fields, Pcs, Afters, CleansUp, Closing
  <2> QED BY <2>1, <2>2
<1>2. /\ Attempts(u) /\ Owns(u) /\ Ledger(u) /\ Expected(u)
      /\ Listener(u) /\ Meaning(u) /\ LeavesOpen(t, u)
  BY DEF TurnInv, Typed, Fields, Attempts, Untried, Owns, InStream, Ledger, Expected,
         Listener, Meaning, Cleanups, LeavesOpen, One, CleansUp, Closing
<1> QED BY <1>1, <1>2 DEF TurnInv, Follows

(* The close of the response, and what comes after the wait for it.            *)
LEMMA UpstreamClosesInv ==
  ASSUME NEW t, TurnInv(t), t.upstream = "closing", NEW upstream \in {"closed",
    "failed"}
  PROVE  Follows(t, [t EXCEPT !.upstream = upstream])
<1> DEFINE u == [t EXCEPT !.upstream = upstream]
<1>1. Typed(u)
  BY DEF TurnInv, Typed, Fields
<1>2. /\ Attempts(u) /\ Owns(u) /\ Ledger(u) /\ Expected(u)
      /\ Listener(u) /\ Meaning(u) /\ LeavesOpen(t, u)
  BY DEF TurnInv, Typed, Fields, Attempts, Untried, Owns, InStream, Ledger, Expected,
         Listener, Meaning, Cleanups, LeavesOpen, One
<1> QED BY <1>1, <1>2 DEF TurnInv, Follows

(* What cancels a task.                                                        *)
LEMMA CancelledTyped ==
  ASSUME NEW t, Typed(t), NEW cause \in Causes
  PROVE  Typed(Cancelled(t, cause))
<1>1. CASE t.pc = "over" \/ cause \in t.causes
  BY <1>1 DEF Cancelled
<1>2. CASE ~(t.pc = "over" \/ cause \in t.causes)
  <2>1. t.cancelling + 1 \in Int /\ t.causes \cup {cause} \subseteq Causes
    BY DEF Typed
  <2> QED BY <1>2, <2>1 DEF Cancelled, Typed, Fields
<1> QED BY <1>1, <1>2

LEMMA ServerCancelsInv ==
  ASSUME NEW t, TurnInv(t), t.pc # "over"
  PROVE  Follows(t, Cancelled(t, "server"))
<1> DEFINE u == Cancelled(t, "server")
<1>1. Typed(u)
  BY CancelledTyped DEF TurnInv, Causes
<1>2. /\ Attempts(u) /\ Owns(u) /\ Ledger(u) /\ Expected(u)
      /\ Listener(u) /\ Meaning(u) /\ LeavesOpen(t, u)
  BY DEF TurnInv, Typed, Fields, Attempts, Untried, Owns, InStream, Ledger, Expected,
         Listener, Meaning, Cleanups, LeavesOpen, One, Cancelled
<1> QED BY <1>1, <1>2 DEF TurnInv, Follows

LEMMA ClosedInInv ==
  ASSUME NEW t, TurnInv(t), t.pc = "closing", t.after \notin Cleanups, t.upstream #
    "closing"
  PROVE  Follows(t, ClosedIn(t))
<1>1. t.lease = "open" /\ t.upstream \notin {"open", "closing"}
  BY DEF TurnInv, Owns, InStream
<1>2. CASE t.upstream = "failed"
  <2> DEFINE u == [Leaves(t) EXCEPT !.pending = FALSE]
  <2>1. Ending(u) /\ LeavesOpen(t, u) /\ ~u.pending /\ u.upstream = "failed"
    BY <1>1, <1>2, LeavesEnds
  <2> HIDE DEF u
  <2>2. ClosedIn(t) = StreamFails(u)
    BY <1>2 DEF ClosedIn, u
  <2> QED BY <2>1, <2>2, FailsInv, FollowsOn
<1>3. CASE t.upstream # "failed" /\ (t.pending \/ t.after = "unwind")
  <2>1. t.causes # {}
    BY <1>3 DEF TurnInv, Expected
  <2> QED BY <1>1, <1>3, <2>1, IsCancelledInv DEF ClosedIn
<1>4. CASE t.upstream # "failed" /\ ~t.pending /\ t.after = "refresh"
  <2> DEFINE u == [t EXCEPT !.upstream = "none", !.pc = "refreshing"]
  <2>1. Typed(u)
    BY <1>4 DEF TurnInv, Typed, Fields, Pcs
  <2>2. /\ Attempts(u) /\ Owns(u) /\ Ledger(u) /\ Expected(u)
        /\ Listener(u) /\ Meaning(u) /\ LeavesOpen(t, u)
    BY <1>4 DEF TurnInv, Typed, Fields, Attempts, Untried, Owns, InStream, Ledger,
      Expected, Listener, Meaning, Cleanups, LeavesOpen, One
  <2>3. ClosedIn(t) = u
    BY <1>4 DEF ClosedIn
  <2> HIDE DEF u
  <2> QED BY <2>1, <2>2, <2>3 DEF TurnInv, Follows
<1>5. CASE t.upstream # "failed" /\ ~t.pending /\ t.after = "attempt"
  <2> DEFINE u == Attempt([t EXCEPT !.upstream = "none"])
  <2>1. Typed(u)
    BY <1>5 DEF TurnInv, Typed, Fields, Pcs, Attempt
  <2>2. /\ Attempts(u) /\ Owns(u) /\ Ledger(u) /\ Expected(u)
        /\ Listener(u) /\ Meaning(u) /\ LeavesOpen(t, u)
    BY <1>5 DEF TurnInv, Typed, Fields, Attempts, Untried, Owns, InStream, Ledger,
      Expected, Listener, Meaning, Cleanups, LeavesOpen, One, Attempt
  <2>3. ClosedIn(t) = u
    BY <1>5 DEF ClosedIn
  <2> HIDE DEF u
  <2> QED BY <2>1, <2>2, <2>3 DEF TurnInv, Follows
<1>6. CASE t.upstream # "failed" /\ ~t.pending /\ t.after \notin {"unwind", "refresh", "attempt"}
  <2> DEFINE u == [Leaves(t) EXCEPT !.pending = t.pending]
  <2>1. t.causes = {} /\ (t.after = "complete" => t.shown = t.attempt)
    BY <1>6 DEF TurnInv, Expected, InStream, Attempts
  <2>2. /\ Ending(u) /\ LeavesOpen(t, u) /\ ~u.pending /\ u.causes = {} /\ u.lease = "gone"
        /\ u.cancelling = 0 /\ u = Leaves(t) /\ u.shown = t.shown /\ u.attempt = t.attempt
    BY <1>1, <1>6, <2>1, LeavesEnds
  <2> HIDE DEF u
  <2>3. CASE t.after = "complete"
    BY <1>6, <2>1, <2>2, <2>3, CompletesInv, FollowsOn DEF ClosedIn
  <2>4. CASE t.after # "complete"
    BY <1>6, <2>2, <2>4, FailsInv, FollowsOn DEF ClosedIn
  <2> QED BY <2>3, <2>4
<1> QED BY <1>2, <1>3, <1>4, <1>5, <1>6 DEF ClosedIn

LEMMA RepliesPcInv ==
  ASSUME NEW t, Ending(t), ~t.pending
  PROVE  Follows(t, [t EXCEPT !.pc = "replying"])
<1> DEFINE u == [t EXCEPT !.pc = "replying"]
<1>1. Typed(u)
  BY DEF Typed, Fields, Ending, Pcs
<1>2. /\ Attempts(u) /\ Owns(u) /\ Ledger(u) /\ Expected(u)
      /\ Listener(u) /\ Meaning(u) /\ LeavesOpen(t, u)
  BY DEF Typed, Fields, Ending, Attempts, Untried, Owns, InStream, Ledger, Expected,
         Listener, Meaning, Cleanups, LeavesOpen, One
<1> QED BY <1>1, <1>2 DEF TurnInv, Follows

LEMMA CleanedUpInv ==
  ASSUME NEW t, TurnInv(t), t.pc = "closing", t.after \in Cleanups, t.upstream #
    "closing"
  PROVE  Follows(t, CleanedUp(t))
<1> DEFINE u == Swept(t)
<1>1. Ending(u) /\ LeavesOpen(t, u) /\ ~u.pending /\ u.causes = t.causes
  <2>1. CASE t.lease = "gone"
    <3>1. Ending(t)
      BY <2>1, EndingOf
    <3> QED BY <2>1, <3>1 DEF Swept, Ending, Typed, Fields, LeavesOpen
  <2>2. CASE t.lease # "gone"
    <3>1. t.lease = "open" /\ t.upstream \notin {"open", "closing"}
      BY <2>2 DEF TurnInv, Typed, Owns
    <3>2. u = [Leaves(t) EXCEPT !.pending = FALSE]
      BY <2>2 DEF Swept
    <3> HIDE DEF u
    <3> QED BY <3>1, <3>2, LeavesEnds
  <2> QED BY <2>1, <2>2
<1> HIDE DEF u
<1>2. CASE t.after = "cancel"
  <2>1. t.causes # {} /\ CleanedUp(t) = TakesCancellation(u)
    BY <1>2 DEF TurnInv, Expected, CleanedUp, u
  <2> QED BY <1>1, <2>1, TakesInv, FollowsOn
<1>3. CASE t.after = "raise"
  <2>1. CleanedUp(t) = Finishes(u, "error")
    BY <1>3 DEF CleanedUp, u
  <2> QED BY <1>1, <2>1, FinishesInv, FollowsOn
<1>4. CASE t.after = "report"
  <2>1. CleanedUp(t) = [u EXCEPT !.pc = "replying"]
    BY <1>4 DEF CleanedUp, u
  <2> QED BY <1>1, <2>1, RepliesPcInv, FollowsOn
<1> QED BY <1>2, <1>3, <1>4 DEF Cleanups

LEMMA ExpiresInv ==
  ASSUME NEW t, TurnInv(t), t.timer = "on"
  PROVE  Follows(t, [Cancelled(t, "deadline") EXCEPT !.timer = "expired"])
<1> DEFINE u == [Cancelled(t, "deadline") EXCEPT !.timer = "expired"]
<1>1. Typed(u)
  <2>1. Typed(Cancelled(t, "deadline"))
    BY CancelledTyped DEF TurnInv, Causes
  <2> QED BY <2>1 DEF Typed, Fields
<1>2. /\ Attempts(u) /\ Owns(u) /\ Ledger(u) /\ Expected(u)
      /\ Listener(u) /\ Meaning(u) /\ LeavesOpen(t, u)
  BY DEF TurnInv, Typed, Fields, Attempts, Untried, Owns, InStream, Ledger, Expected,
         Listener, Meaning, Cleanups, LeavesOpen, One, Cancelled
<1> QED BY <1>1, <1>2 DEF TurnInv, Follows

LEMMA DisconnectsInv ==
  ASSUME NEW t, TurnInv(t), t.monitor = "listening"
  PROVE  Follows(t, [Cancelled(t, "client") EXCEPT
                         !.monitor = "done", !.disconnected = TRUE,
                         !.mine = IF t.pc = "over" THEN 0 ELSE 1])
<1> DEFINE u == [Cancelled(t, "client") EXCEPT
                         !.monitor = "done", !.disconnected = TRUE,
                         !.mine = IF t.pc = "over" THEN 0 ELSE 1]
<1>1. Typed(u)
  <2>1. Typed(Cancelled(t, "client"))
    BY CancelledTyped DEF TurnInv, Causes
  <2> QED BY <2>1 DEF Typed, Fields
<1>2. /\ Attempts(u) /\ Owns(u) /\ Ledger(u) /\ Expected(u)
      /\ Listener(u) /\ Meaning(u) /\ LeavesOpen(t, u)
  BY DEF TurnInv, Typed, Fields, Attempts, Untried, Owns, InStream, Ledger, Expected,
         Listener, Meaning, Cleanups, LeavesOpen, One, Cancelled
<1> QED BY <1>1, <1>2 DEF TurnInv, Follows

LEMMA ListenerEndsInv ==
  ASSUME NEW t, TurnInv(t), t.monitor = "cancelled"
  PROVE  Follows(t, [t EXCEPT !.monitor = "done"])
<1> DEFINE u == [t EXCEPT !.monitor = "done"]
<1>1. Typed(u)
  BY DEF TurnInv, Typed, Fields, Pcs
<1>2. /\ Attempts(u) /\ Owns(u) /\ Ledger(u) /\ Expected(u)
      /\ Listener(u) /\ Meaning(u) /\ LeavesOpen(t, u)
  BY DEF TurnInv, Typed, Fields, Attempts, Untried, Owns, InStream, Ledger, Expected,
         Listener, Meaning, Cleanups, LeavesOpen, One
<1> QED BY <1>1, <1>2 DEF TurnInv, Follows

(* The beginning and the end of a request.                                     *)
LEMMA FinishedInv ==
  ASSUME NEW t, TurnInv(t), t.pc = "finish"
  PROVE  Follows(t, [t EXCEPT !.pc = "over", !.pending = FALSE,
                         !.result = IF t.pending THEN "cancelled" ELSE @])
<1> DEFINE u == [t EXCEPT !.pc = "over", !.pending = FALSE,
                         !.result = IF t.pending THEN "cancelled" ELSE @]
<1>1. Typed(u)
  BY DEF TurnInv, Typed, Fields, Pcs, Results
<1>2. /\ Attempts(u) /\ Owns(u) /\ Ledger(u) /\ Expected(u)
      /\ Listener(u) /\ Meaning(u) /\ LeavesOpen(t, u)
  BY DEF TurnInv, Typed, Fields, Attempts, Untried, Owns, InStream, Ledger, Expected,
         Listener, Meaning, Cleanups, LeavesOpen, One
<1> QED BY <1>1, <1>2 DEF TurnInv, Follows

LEMMA ListensInv ==
  ASSUME NEW t, TurnInv(t), t.pc = "body", ~t.pending
  PROVE  Follows(t, Listens(t))
<1> DEFINE u == Listens(t)
<1>1. Typed(u)
  BY DEF TurnInv, Typed, Fields, Pcs, Listens
<1>2. /\ Attempts(u) /\ Owns(u) /\ Ledger(u) /\ Expected(u)
      /\ Listener(u) /\ Meaning(u) /\ LeavesOpen(t, u)
  BY DEF TurnInv, Typed, Fields, Attempts, Untried, Owns, InStream, Ledger, Expected,
         Listener, Meaning, Cleanups, LeavesOpen, One, Listens
<1> QED BY <1>1, <1>2 DEF TurnInv, Follows

LEMMA OpensInv ==
  ASSUME NEW t, TurnInv(t), t.pc = "starting", ~t.pending
  PROVE  LET u == [t EXCEPT !.pc = "credentials", !.lease = "open", !.timer = "on"]
         IN  /\ TurnInv(u)
             /\ ("close" \in u.causes <=> "close" \in t.causes) /\ (t.aborted => u.aborted)
<1> DEFINE u == [t EXCEPT !.pc = "credentials", !.lease = "open", !.timer = "on"]
<1>1. Typed(u)
  BY DEF TurnInv, Typed, Fields, Pcs
<1>2. /\ Attempts(u) /\ Owns(u) /\ Ledger(u) /\ Expected(u)
      /\ Listener(u) /\ Meaning(u)
      /\ ("close" \in u.causes <=> "close" \in t.causes) /\ (t.aborted => u.aborted)
  BY DEF TurnInv, Typed, Fields, Attempts, Untried, Owns, InStream, Ledger, Expected,
         Listener, Meaning, Cleanups, LeavesOpen, One
<1> QED BY <1>1, <1>2 DEF TurnInv, Follows

(* Backend.close() aborts a lease: in time, or when its stream has ended.      *)
LEMMA AbortsInv ==
  ASSUME NEW t, TurnInv(t), t.lease = "open", "close" \notin t.causes
  PROVE  TurnInv([Cancelled(t, "close") EXCEPT !.aborted = TRUE,
                    !.upstream = IF @ = "open" THEN "closing" ELSE @])
<1> DEFINE u == [Cancelled(t, "close") EXCEPT !.aborted = TRUE,
                   !.upstream = IF @ = "open" THEN "closing" ELSE @]
<1>1. Typed(u)
  <2>1. Typed(Cancelled(t, "close"))
    BY CancelledTyped DEF TurnInv, Causes
  <2> QED BY <2>1 DEF Typed, Fields
<1>2. /\ Attempts(u) /\ Owns(u) /\ Ledger(u) /\ Expected(u)
      /\ Listener(u) /\ Meaning(u) /\ u.aborted
  BY DEF TurnInv, Typed, Fields, Attempts, Untried, Owns, InStream, Ledger, Expected,
         Listener, Meaning, Cleanups, LeavesOpen, One, Cancelled
<1> QED BY <1>1, <1>2 DEF TurnInv, Follows

LEMMA AbortsLateInv ==
  ASSUME NEW t, TurnInv(t), t.lease # "open"
  PROVE  LET u == [t EXCEPT !.aborted = TRUE, !.upstream = IF @ = "open" THEN "closing" ELSE @]
         IN  Follows(t, u)
<1> DEFINE u == [t EXCEPT !.aborted = TRUE, !.upstream = IF @ = "open" THEN "closing" ELSE @]
<1>1. Typed(u)
  BY DEF TurnInv, Typed, Fields, Pcs
<1>2. /\ Attempts(u) /\ Owns(u) /\ Ledger(u) /\ Expected(u)
      /\ Listener(u) /\ Meaning(u) /\ LeavesOpen(t, u)
  BY DEF TurnInv, Typed, Fields, Attempts, Untried, Owns, InStream, Ledger, Expected,
         Listener, Meaning, Cleanups, LeavesOpen, One
<1> QED BY <1>1, <1>2 DEF TurnInv, Follows

-----------------------------------------------------------------------------
(* A step of a request's task, of its listener or of what cancels it leaves    *)
(* the other requests and Backend.close() alone.                               *)
LEMMA TaskStep ==
  ASSUME SubscriptionInv, NEW r \in Requests, NEW u,
         Follows(turn[r], u), Becomes(r, u), UNCHANGED <<closer, todo, aborts>>,
         cached' = cached \/ (cached' = cached \cup {r} /\ closer # "closed")
  PROVE  SubscriptionInv'
<1>1. /\ DOMAIN turn' = Requests /\ turn'[r] = u
      /\ \A q \in Requests \ {r} : turn'[q] = turn[q]
  BY DEF SubscriptionInv, Becomes
<1>2. \A q \in Requests : TurnInv(turn'[q])
  BY <1>1 DEF SubscriptionInv, Follows
<1>3. \A q \in Requests : LeavesOpen(turn[q], turn'[q])
  BY <1>1 DEF LeavesOpen, Follows
<1>4. Closer'
  BY <1>3 DEF SubscriptionInv, Closer, LeavesOpen
<1> QED BY <1>1, <1>2, <1>4 DEF SubscriptionInv

LEMMA BackendIdle == UNCHANGED Backend => UNCHANGED <<closer, todo, aborts>> /\ cached' = cached
BY DEF Backend

(* A turn caches its result only before Backend.close() has ended.             *)
LEMMA CachesInTime ==
  ASSUME SubscriptionInv, NEW r \in Requests, turn[r].lease = "open", Caches(r)
  PROVE  cached' = cached \/ (cached' = cached \cup {r} /\ closer # "closed")
<1>1. closer = "closed" => turn[r].aborted
  BY DEF SubscriptionInv, Closer
<1> QED BY <1>1 DEF Caches

LEMMA OpensTurnStep ==
  ASSUME SubscriptionInv, NEW r \in Requests, OpensTurn(r)
  PROVE  SubscriptionInv'
<1> DEFINE t == turn[r]
<1>1. TurnInv(t) /\ t.pc = "starting" /\ UNCHANGED <<closer, todo, aborts>> /\ cached' = cached
  BY BackendIdle DEF SubscriptionInv, OpensTurn
<1>2. Ending(t) /\ (t.pending => t.causes # {}) /\ (~t.pending => t.cancelling = 0)
  BY <1>1, EndingOf DEF TurnInv, Owns, Expected, Ledger, One
<1>3. CASE t.pending
  BY <1>1, <1>2, <1>3, TakesInv, TaskStep DEF OpensTurn
<1>4. CASE ~t.pending /\ closer # "running"
  BY <1>1, <1>2, <1>4, RespondsInv, TaskStep DEF OpensTurn
<1>5. CASE ~t.pending /\ closer = "running"
  <2> DEFINE u == [t EXCEPT !.pc = "credentials", !.lease = "open", !.timer = "on"]
  <2>1. TurnInv(u) /\ ("close" \in u.causes <=> "close" \in t.causes) /\ (t.aborted => u.aborted)
    BY <1>1, <1>5, OpensInv
  <2>2. turn' = [turn EXCEPT ![r] = u]
    BY <1>5 DEF OpensTurn, Becomes
  <2> HIDE DEF u
  <2>3. /\ DOMAIN turn' = Requests /\ turn'[r] = u
        /\ \A q \in Requests \ {r} : turn'[q] = turn[q]
    BY <2>2 DEF SubscriptionInv
  <2>4. \A q \in Requests : TurnInv(turn'[q])
    BY <2>1, <2>3 DEF SubscriptionInv
  <2>5. Closer'
    BY <1>1, <1>5, <2>1, <2>3 DEF SubscriptionInv, Closer
  <2> QED BY <2>3, <2>4, <2>5 DEF SubscriptionInv
<1> QED BY <1>3, <1>4, <1>5

(* The generator between its lease and the end of its stream.                  *)
LEMMA StreamStep ==
  ASSUME SubscriptionInv, NEW r \in Requests,
         HasCredentials(r) \/ ConnectionFails(r) \/ Exchanges(r) \/ Identifies(r)
           \/ ReadsEvent(r) \/ ReadsLast(r) \/ FramingFails(r) \/ ReadFails(r) \/ Unwinds(r)
  PROVE  SubscriptionInv'
<1> DEFINE t == turn[r]
<1>0. TurnInv(t)
  BY DEF SubscriptionInv
<1>1. CASE HasCredentials(r)
  <2>1. t.pc \in {"credentials", "refreshing"} /\ ~t.pending
    BY <1>1 DEF HasCredentials, Ready
  <2> QED BY <1>0, <1>1, <2>1, AttemptInv, NoCredentialsInv, TaskStep, BackendIdle
     DEF HasCredentials
<1>2. CASE ConnectionFails(r)
  <2>1. t.pc = "exchange" /\ ~t.pending
    BY <1>2 DEF ConnectionFails, Ready
  <2>2. CASE MayRetry(t)
    BY <1>0, <1>2, <2>1, <2>2, RetryInv, TaskStep, BackendIdle DEF ConnectionFails
  <2>3. CASE ~MayRetry(t)
    BY <1>0, <1>2, <2>1, <2>3, NoCredentialsInv, TaskStep, BackendIdle DEF ConnectionFails
  <2> QED BY <2>2, <2>3
<1>3. CASE Exchanges(r)
  <2>1. t.pc = "exchange" /\ ~t.pending /\ UNCHANGED Backend
    BY <1>3 DEF Exchanges, Ready
  <2>2. PICK status \in {"ok", "unauthorized", "transient", "refused"} :
          Becomes(r, Answered(t, status))
    BY <1>3 DEF Exchanges
  <2>3. CASE status = "ok"
    BY <1>0, <2>1, <2>2, <2>3, OkInv, TaskStep, BackendIdle DEF Answered
  <2>4. CASE status = "unauthorized" /\ ~t.refreshed /\ t.shown = 0
    BY <1>0, <2>1, <2>2, <2>4, UnauthorizedInv, TaskStep, BackendIdle DEF Answered
  <2>5. CASE status = "transient" /\ MayRetry(t)
    BY <1>0, <2>1, <2>2, <2>5, TransientInv, TaskStep, BackendIdle DEF Answered
  <2>6. CASE status # "ok" /\ ~(status = "unauthorized" /\ ~t.refreshed /\ t.shown = 0)
               /\ ~(status = "transient" /\ MayRetry(t))
    BY <1>0, <2>1, <2>2, <2>6, RefusedInv, TaskStep, BackendIdle DEF Answered
  <2> QED BY <2>3, <2>4, <2>5, <2>6
<1>4. CASE Identifies(r)
  BY <1>0, <1>4, IdentifiesInv, TaskStep, BackendIdle DEF Identifies, Ready
<1>5. CASE ReadsEvent(r)
  BY <1>0, <1>5, ShowsInv, TaskStep, BackendIdle DEF ReadsEvent, Ready
<1>6. CASE ReadsLast(r)
  <2>1. t.pc = "reading" /\ ~t.pending /\ t.lease = "open" /\ UNCHANGED <<closer, todo, aborts>>
    BY <1>0, <1>6 DEF ReadsLast, Ready, TurnInv, Owns, InStream
  <2>2. [Shows(t) EXCEPT !.last = TRUE].stream = t.stream
    BY <1>0, <2>1 DEF TurnInv, Typed, Fields, Shows
  <2>3. CASE t.stream
    BY <1>0, <1>6, <2>1, <2>2, <2>3, LastShownInv, TaskStep DEF ReadsLast
  <2>4. CASE ~t.stream
    BY <1>0, <1>6, <2>1, <2>2, <2>4, CollectedInv, CachesInTime, TaskStep DEF ReadsLast
  <2> QED BY <2>3, <2>4
<1>7. CASE FramingFails(r)
  BY <1>0, <1>7, FramingFailsInv, TaskStep, BackendIdle DEF FramingFails, Ready
<1>8. CASE ReadFails(r)
  BY <1>0, <1>8, FramingFailsInv, ReadFailsInv, TaskStep, BackendIdle DEF ReadFails, Ready
<1>9. CASE Unwinds(r)
  <2>1. t.pending /\ UNCHANGED Backend /\ t.causes # {}
    BY <1>0, <1>9 DEF Unwinds, Stopped, TurnInv, Expected
  <2>2. CASE t.pc \in {"credentials", "refreshing", "exchange"}
    <3>1. t.lease = "open" /\ t.upstream = "none" /\ Becomes(r, StreamIsCancelled(t))
      BY <1>0, <1>9, <2>2 DEF Unwinds, Stopped, TurnInv, Owns, InStream
    <3> QED BY <1>0, <2>1, <3>1, IsCancelledInv, TaskStep, BackendIdle
  <2>3. CASE t.pc \notin {"credentials", "refreshing", "exchange"}
    BY <1>0, <1>9, <2>1, <2>3, UnwindsInv, TaskStep, BackendIdle DEF Unwinds, Stopped
  <2> QED BY <2>2, <2>3
<1> QED BY <1>1, <1>2, <1>3, <1>4, <1>5, <1>6, <1>7, <1>8, <1>9

(* The reader of the stream, and the waits for the close of its response.      *)
LEMMA DeliveryStep ==
  ASSUME SubscriptionInv, NEW r \in Requests,
         SendsOn(r) \/ SendsEnd(r) \/ SendFails(r) \/ SendIsCancelled(r) \/ LeavesClosing(r)
  PROVE  SubscriptionInv'
<1> DEFINE t == turn[r]
<1>0. TurnInv(t)
  BY DEF SubscriptionInv
<1>1. CASE SendsOn(r)
  <2>1. t.pc = "sending" /\ ~t.pending /\ t.lease = "open" /\ UNCHANGED <<closer, todo, aborts>>
    BY <1>1 DEF SendsOn, Ready
  <2>2. CASE t.last
    BY <1>0, <1>1, <2>1, <2>2, SentLastInv, CachesInTime, TaskStep DEF SendsOn
  <2>3. CASE ~t.last
    BY <1>0, <1>1, <2>1, <2>3, SentInv, TaskStep DEF SendsOn
  <2> QED BY <2>2, <2>3
<1>2. CASE SendsEnd(r)
  <2>1. Ending(t) /\ ~t.pending
    BY <1>0, <1>2, EndingOf DEF SendsEnd, Ready
  <2> QED BY <1>2, <2>1, FinishesInv, TaskStep, BackendIdle DEF SendsEnd
<1>3. CASE SendFails(r)
  BY <1>0, <1>3, SendFailsInv, TaskStep, BackendIdle DEF SendFails, Ready
<1>4. CASE SendIsCancelled(r)
  BY <1>0, <1>4, SendIsCancelledInv, TaskStep, BackendIdle DEF SendIsCancelled, Stopped
<1>5. CASE LeavesClosing(r)
  <2>1. t.pc = "closing" /\ t.upstream # "closing" /\ UNCHANGED Backend
    BY <1>5 DEF LeavesClosing, Waits
  <2>2. CASE t.after \in Cleanups
    BY <1>0, <1>5, <2>1, <2>2, CleanedUpInv, TaskStep, BackendIdle DEF LeavesClosing,
      Cleanups
  <2>3. CASE t.after \notin Cleanups
    BY <1>0, <1>5, <2>1, <2>3, ClosedInInv, TaskStep, BackendIdle DEF LeavesClosing,
      Cleanups
  <2> QED BY <2>2, <2>3
<1> QED BY <1>1, <1>2, <1>3, <1>4, <1>5

(* The request before and after its turn, and its listener.                    *)
LEMMA ServesStep ==
  ASSUME SubscriptionInv, NEW r \in Requests, Serves(r) \/ Disturbs(r)
  PROVE  SubscriptionInv'
<1> DEFINE t == turn[r]
<1>0. TurnInv(t) /\ UNCHANGED <<closer, todo, aborts>> /\ cached' = cached
  BY BackendIdle DEF SubscriptionInv, Serves, Disturbs
<1>1. CASE ReadsBody(r)
  <2>1. Ending(t) /\ (t.pending => t.causes # {}) /\ (~t.pending => t.cancelling = 0)
    BY <1>0, <1>1, EndingOf DEF ReadsBody, TurnInv, Owns, Expected, Ledger, One
  <2>2. CASE t.pending
    BY <1>0, <1>1, <2>1, <2>2, TakesInv, TaskStep DEF ReadsBody
  <2>3. CASE ~t.pending
    BY <1>0, <1>1, <2>1, <2>3, ListensInv, RespondsInv, TaskStep DEF ReadsBody
  <2> QED BY <2>2, <2>3
<1>2. CASE Replies(r)
  <2>1. Ending(t) /\ (t.pending => t.causes # {})
    BY <1>0, <1>2, EndingOf DEF Replies, TurnInv, Owns, Expected
  <2>2. CASE t.pending
    BY <1>0, <1>2, <2>1, <2>2, TakesInv, TaskStep DEF Replies
  <2>3. CASE ~t.pending
    <3>1. PICK result \in {"replied", "error"} : Becomes(r, Finishes(t, result))
      BY <1>2, <2>3 DEF Replies
    <3> QED BY <1>0, <2>1, <2>3, <3>1, FinishesInv, TaskStep
  <2> QED BY <2>2, <2>3
<1>3. CASE Finished(r)
  BY <1>0, <1>3, FinishedInv, TaskStep DEF Finished
<1>4. CASE ListenerEnds(r)
  BY <1>0, <1>4, ListenerEndsInv, TaskStep DEF ListenerEnds
<1>5. CASE Disconnects(r)
  BY <1>0, <1>5, DisconnectsInv, TaskStep DEF Disconnects
<1>6. CASE ServerCancels(r)
  BY <1>0, <1>6, ServerCancelsInv, TaskStep DEF ServerCancels
<1> QED BY <1>1, <1>2, <1>3, <1>4, <1>5, <1>6 DEF Serves, Disturbs

LEMMA AbortsStep ==
  ASSUME SubscriptionInv, NEW r \in Requests, Aborts(r)
  PROVE  SubscriptionInv'
<1> DEFINE t == turn[r]
           s == IF t.lease = "open" THEN Cancelled(t, "close") ELSE t
           u == [s EXCEPT !.aborted = TRUE, !.upstream = IF @ = "open" THEN "closing" ELSE @]
<1>1. /\ turn' = [turn EXCEPT ![r] = u] /\ todo' = todo \ {r} /\ aborts' = {r}
      /\ closer = "aborting" /\ closer' = closer /\ cached' = cached /\ r \in todo
  BY DEF Aborts, Becomes
<1>2. TurnInv(t) /\ "close" \notin t.causes
  BY <1>1 DEF SubscriptionInv, Closer
<1>3. TurnInv(u)
  <2>1. CASE t.lease = "open"
    BY <1>2, <2>1, AbortsInv
  <2>2. CASE t.lease # "open"
    BY <1>2, <2>2, AbortsLateInv DEF Follows
  <2> QED BY <2>1, <2>2
<1>4. u.aborted
  BY <1>2 DEF TurnInv, Typed, Fields, Cancelled
<1> HIDE DEF u
<1>5. /\ DOMAIN turn' = Requests /\ turn'[r] = u
      /\ \A q \in Requests \ {r} : turn'[q] = turn[q]
  BY <1>1 DEF SubscriptionInv
<1>6. \A q \in Requests : TurnInv(turn'[q])
  BY <1>3, <1>5 DEF SubscriptionInv
<1>7. Closer'
  BY <1>1, <1>4, <1>5 DEF SubscriptionInv, Closer
<1> QED BY <1>5, <1>6, <1>7 DEF SubscriptionInv

(* Backend.close(), but for the leases that it aborts.                         *)
LEMMA CloserStep ==
  ASSUME SubscriptionInv, ShutsDown \/ ClearsCache \/ \E r \in Requests : AbortEnds(r)
  PROVE  SubscriptionInv'
<1>1. turn' = turn
  BY DEF ShutsDown, ClearsCache, AbortEnds
<1>2. Closer'
  <2>1. CASE ShutsDown
    BY <2>1 DEF SubscriptionInv, Closer, ShutsDown
  <2>2. CASE ClearsCache
    BY <2>2 DEF SubscriptionInv, Closer, ClearsCache
  <2>3. CASE \E r \in Requests : AbortEnds(r)
    BY <2>3 DEF SubscriptionInv, Closer, AbortEnds
  <2> QED BY <2>1, <2>2, <2>3
<1> QED BY <1>1, <1>2 DEF SubscriptionInv

LEMMA SubscriptionStep == SubscriptionInv /\ [Next]_vars => SubscriptionInv'
<1> SUFFICES ASSUME SubscriptionInv, [Next]_vars PROVE SubscriptionInv'
  OBVIOUS
<1>1. CASE \E r \in Requests : Owner(r)
  BY <1>1, OpensTurnStep, StreamStep, DeliveryStep DEF Owner
<1>2. CASE \E r \in Requests : Serves(r) \/ Disturbs(r)
  BY <1>2, ServesStep
<1>3. CASE \E r \in Requests : UpstreamCloses(r)
  <2>1. PICK r \in Requests : UpstreamCloses(r)
    BY <1>3
  <2>2. TurnInv(turn[r])
    BY DEF SubscriptionInv
  <2> QED BY <2>1, <2>2, UpstreamClosesInv, TaskStep, BackendIdle DEF UpstreamCloses
<1>4. CASE \E r \in Requests : Expires(r)
  <2>1. PICK r \in Requests : Expires(r)
    BY <1>4
  <2>2. TurnInv(turn[r])
    BY DEF SubscriptionInv
  <2> QED BY <2>1, <2>2, ExpiresInv, TaskStep, BackendIdle DEF Expires
<1>5. CASE ShutsDown \/ Aborting \/ ClearsCache
  BY <1>5, CloserStep, AbortsStep DEF Aborting
<1>6. CASE UNCHANGED vars
  BY <1>6 DEF vars, SubscriptionInv, Closer
<1> QED BY <1>1, <1>2, <1>3, <1>4, <1>5, <1>6 DEF Next

LEMMA SubscriptionInit == Init => SubscriptionInv
<1> SUFFICES ASSUME Init PROVE SubscriptionInv
  OBVIOUS
<1>1. ASSUME NEW r \in Requests
      PROVE  TurnInv(turn[r]) /\ turn[r].causes = {} /\ turn[r].lease = "none"
  <2>1. PICK streamed \in BOOLEAN : turn[r] = NewRequest(streamed)
    BY DEF Init
  <2> DEFINE t == NewRequest(streamed)
  <2>2. Typed(t)
    BY DEF NewRequest, Typed, Fields, Pcs, Afters, Results
  <2>3. Attempts(t) /\ Owns(t)
    BY DEF NewRequest, Attempts, Untried, Owns, InStream, One
  <2>4. Ledger(t) /\ Expected(t) /\ Listener(t) /\ Meaning(t)
    BY DEF NewRequest, Ledger, Expected, InStream, Listener, Meaning, One
  <2>5. t.causes = {} /\ t.lease = "none"
    BY DEF NewRequest
  <2> QED BY <2>1, <2>2, <2>3, <2>4, <2>5 DEF TurnInv
<1>2. Closer
  BY <1>1 DEF Init, Closer
<1> QED BY <1>1, <1>2 DEF Init, SubscriptionInv

-----------------------------------------------------------------------------
(* The invariant holds in every state of the backend, for every set of         *)
(* requests: the types of a turn, the price of its attempts, what it owns      *)
(* where, the ledger of its task's cancellations, and what the shutdown has    *)
(* seen of it.                                                                 *)
THEOREM SubscriptionInvariant == Spec => []SubscriptionInv
BY SubscriptionInit, SubscriptionStep, PTL DEF Spec

(* A client is shown the events of one attempt only, under the model that this *)
(* attempt has reported, and a request is sent at most three times.            *)
THEOREM OneAttempt == Spec => []ClientSeesOneAttempt
<1>1. SubscriptionInv => ClientSeesOneAttempt
  <2> SUFFICES ASSUME SubscriptionInv, NEW r \in Requests
               PROVE  /\ turn[r].attempt <= 3 /\ turn[r].shown \in {0, turn[r].attempt}
                      /\ turn[r].headers \subseteq {0, turn[r].shown}
    BY DEF ClientSeesOneAttempt, OneAttemptIsShown, IdentityIsOfTheAttempt
  <2>1. Attempts(turn[r]) /\ turn[r].attempt \in Nat
    BY DEF SubscriptionInv, TurnInv, Typed
  <2> QED BY <2>1 DEF Attempts, One
<1> QED BY <1>1, SubscriptionInvariant, PTL

(* A request that is over has closed its response and left no lease, timer or  *)
(* listener, and a backend that has closed keeps no result.                    *)
THEOREM NothingIsLeftBehind == Spec => []NothingOutlivesItsOwner
<1>1. SubscriptionInv => NothingOutlivesItsOwner
  <2> SUFFICES ASSUME SubscriptionInv PROVE NothingOutlivesItsOwner
    OBVIOUS
  <2>1. NothingIsLeft
    BY DEF SubscriptionInv, TurnInv, Owns, NothingIsLeft, Over
  <2>2. MonitorEnds
    BY DEF SubscriptionInv, TurnInv, Listener, MonitorEnds, Over
  <2>3. ClosedIsEmpty
    BY DEF SubscriptionInv, Closer, ClosedIsEmpty
  <2> QED BY <2>1, <2>2, <2>3 DEF NothingOutlivesItsOwner
<1> QED BY <1>1, SubscriptionInvariant, PTL

(* A request that ends quietly was cancelled by its client alone; one that     *)
(* ends cancelled was so by another party, or its response could not be        *)
(* closed.                                                                     *)
THEOREM CancellationsMean == Spec => []CancellationsKeepTheirMeaning
<1>1. SubscriptionInv => CancellationsKeepTheirMeaning
  BY DEF SubscriptionInv, TurnInv, Meaning, CancellationsKeepTheirMeaning, Over
<1> QED BY <1>1, SubscriptionInvariant, PTL

-----------------------------------------------------------------------------
(* Sequences.  Facts about all sequences come from induction on their length, *)
(* which is stated with sets: what FlattenSeq and its maps make of a sequence *)
(* and of one element more.                                                   *)
(* Induction over the natural numbers, for a set.                             *)
LEMMA SetInduction ==
  ASSUME NEW S, 0 \in S, \A n \in Nat : n \in S => n + 1 \in S
  PROVE  Nat \subseteq S
<1>. DEFINE T == Nat \ S
<1>. SUFFICES ASSUME T # {} PROVE FALSE
  OBVIOUS
<1>1. \E x \in T : \A y \in T : ~(<<y, x>> \in OpToRel(<, Nat))
  <2>. HIDE DEF T
  <2>1. T \subseteq Nat BY DEF T
  <2>. QED BY <2>1, WFMin, NatLessThanWellFounded
<1>2. PICK x \in T : \A y \in T : ~(<<y, x>> \in OpToRel(<, Nat))
  BY <1>1
<1>3. \A y \in T : ~(y < x)
  BY <1>2 DEF OpToRel
<1>4. x # 0 /\ x \in Nat OBVIOUS
<1>5. x - 1 \in Nat /\ x - 1 < x BY <1>4
<1>6. x - 1 \in S BY <1>3, <1>5
<1>. QED BY <1>4, <1>5, <1>6

(* A set of sequences that has the empty one, and with a sequence every longer one*)
LEMMA SequenceInduction ==
  ASSUME NEW S, NEW T, <<>> \in T,
         \A s \in Seq(S) : s \in T => \A x \in S : Append(s, x) \in T
  PROVE  Seq(S) \subseteq T
<1>. DEFINE N == {n \in Nat : \A s \in Seq(S) : Len(s) = n => s \in T}
<1>1. 0 \in N
  <2>1. \A s \in Seq(S) : Len(s) = 0 => s = <<>>
    OBVIOUS
  <2>. QED BY <2>1
<1>2. ASSUME NEW n \in Nat, n \in N PROVE n + 1 \in N
  <2>1. ASSUME NEW s \in Seq(S), Len(s) = n + 1 PROVE s \in T
    <3>1. s # <<>>
      BY <2>1
    <3>2. PICK u \in Seq(S), x \in S : s = Append(u, x)
      BY <3>1, SequenceEmptyOrAppend
    <3>3. Len(u) = n
      BY <3>2, <2>1
    <3>. QED BY <3>2, <3>3, <1>2
  <2>. QED BY <2>1
<1>3. Nat \subseteq N
  <2>. HIDE DEF N
  <2>. QED BY <1>1, <1>2, SetInduction
<1>. QED BY <1>3

(* The function that FlattenSeq picks: f[i] joins the first i elements of s.  *)
IsFlattening(s, f) ==
  f = [i \in 1..Len(s) |-> IF i = 1 THEN s[i] ELSE f[i - 1] \o s[i]]

LEMMA FlatteningSteps ==
  ASSUME NEW s, NEW f, IsFlattening(s, f), NEW i \in 1..Len(s)
  PROVE  /\ i = 1 => f[i] = s[i]
         /\ i # 1 => f[i] = f[i - 1] \o s[i]
<1>1. f[i] = IF i = 1 THEN s[i] ELSE f[i - 1] \o s[i]
  BY Zenon DEF IsFlattening
<1>. QED BY <1>1, Zenon

(* There is one such function for a sequence.                                 *)
LEMMA OneFlattening ==
  ASSUME NEW s, Len(s) \in Nat, NEW f, NEW g, IsFlattening(s, f), IsFlattening(s, g)
  PROVE  f = g
<1>. DEFINE N == {n \in Nat : n \in 1..Len(s) => f[n] = g[n]}
<1>0. f = [i \in 1..Len(s) |-> f[i]] /\ g = [i \in 1..Len(s) |-> g[i]]
  BY Zenon DEF IsFlattening
<1>1. 0 \in N
  OBVIOUS
<1>2. ASSUME NEW n \in Nat, n \in N PROVE n + 1 \in N
  <2>. SUFFICES ASSUME NEW m \in 1..Len(s), m = n + 1 PROVE f[m] = g[m]
    OBVIOUS
  <2>1. CASE m # 1
    <3>1. n \in 1..Len(s) /\ m - 1 = n
      BY <2>1
    <3>2. f[n] = g[n]
      BY <1>2, <3>1
    <3>3. f[m] = f[m - 1] \o s[m]
      BY <2>1, FlatteningSteps, Zenon
    <3>4. g[m] = g[m - 1] \o s[m]
      BY <2>1, FlatteningSteps, Zenon
    <3>. QED BY <3>1, <3>2, <3>3, <3>4, Zenon
  <2>2. CASE m = 1
    <3>1. f[m] = s[m]
      BY <2>2, FlatteningSteps, Zenon
    <3>2. g[m] = s[m]
      BY <2>2, FlatteningSteps, Zenon
    <3>. QED BY <3>1, <3>2
  <2>. QED BY <2>1, <2>2
<1>3. Nat \subseteq N
  <2>. HIDE DEF N
  <2>. QED BY <1>1, <1>2, SetInduction
<1>4. \A n \in 1..Len(s) : f[n] = g[n]
  BY <1>3
<1>. QED BY <1>0, <1>4, Zenon

LEMMA FlatteningExists ==
  ASSUME NEW S, NEW s \in Seq(S)
  PROVE  \E f : IsFlattening(s, f)
<1>. DEFINE T == {u \in Seq(S) : \E f : IsFlattening(u, f)}
<1>1. <<>> \in T
  <2>1. IsFlattening(<<>>, [i \in 1..0 |-> i])
    BY DEF IsFlattening
  <2>. QED BY <2>1
<1>2. ASSUME NEW u \in Seq(S), u \in T, NEW x \in S PROVE Append(u, x) \in T
  <2>1. PICK f : IsFlattening(u, f)
    BY <1>2
  <2>. DEFINE v == Append(u, x)
              g == [i \in 1..Len(v) |->
                      IF i = Len(v) THEN IF i = 1 THEN x ELSE f[i - 1] \o x ELSE f[i]]
  <2>2. Len(v) = Len(u) + 1 /\ v[Len(v)] = x /\ \A i \in 1..Len(u) : v[i] = u[i]
    OBVIOUS
  <2>3. \A i \in 1..Len(u) : f[i] = IF i = 1 THEN u[i] ELSE f[i - 1] \o u[i]
    BY <2>1 DEF IsFlattening
  <2>4. ASSUME NEW i \in 1..Len(v)
        PROVE  g[i] = IF i = 1 THEN v[i] ELSE g[i - 1] \o v[i]
    <3>. HIDE DEF v
    <3>1. CASE i = Len(v)
      BY <2>2, <3>1
    <3>2. CASE i # Len(v)
      BY <2>2, <2>3, <3>2, SMTT(60)
    <3>. QED BY <3>1, <3>2
  <2>5. IsFlattening(v, g)
    <3>. HIDE DEF v
    <3>. QED BY <2>4 DEF IsFlattening
  <2>. QED BY <2>5
<1>3. Seq(S) \subseteq T
  <2>. HIDE DEF T
  <2>. QED BY <1>1, <1>2, SequenceInduction
<1>. QED BY <1>3

(* FlattenSeq is the last value of any such function.                         *)
LEMMA FlattenIs ==
  ASSUME NEW S, NEW s \in Seq(S)
  PROVE  /\ s = <<>> => FlattenSeq(s) = <<>>
         /\ \A f : IsFlattening(s, f) /\ s # <<>> => FlattenSeq(s) = f[Len(s)]
<1>1. Len(s) = 0 <=> s = <<>>
  OBVIOUS
<1>2. ASSUME NEW f, IsFlattening(s, f), s # <<>> PROVE FlattenSeq(s) = f[Len(s)]
  <2>. DEFINE c == CHOOSE g : IsFlattening(s, g)
  <2>1. IsFlattening(s, c)
    BY <1>2
  <2>2. c = f
    <3>. HIDE DEF c
    <3>. QED BY <2>1, <1>2, OneFlattening
  <2>3. FlattenSeq(s) = c[Len(s)]
    BY <1>1, <1>2 DEF FlattenSeq, IsFlattening
  <2>. QED BY <2>2, <2>3
<1>. QED BY <1>1, <1>2 DEF FlattenSeq

LEMMA FlattenAppend ==
  ASSUME NEW S, NEW s \in Seq(Seq(S)), NEW x \in Seq(S), FlattenSeq(s) \in Seq(S)
  PROVE  /\ FlattenSeq(Append(s, x)) = FlattenSeq(s) \o x
<1>. DEFINE v == Append(s, x)
<1>0. v \in Seq(Seq(S)) /\ v # <<>>
  OBVIOUS
<1>1. PICK f : IsFlattening(v, f)
  BY <1>0, FlatteningExists
<1>2. Len(v) = Len(s) + 1 /\ v[Len(v)] = x /\ \A i \in 1..Len(s) : v[i] = s[i]
  OBVIOUS
<1>. HIDE DEF v
<1>3. FlattenSeq(v) = f[Len(v)]
  BY <1>0, <1>1, FlattenIs
<1>5. CASE s = <<>>
  <2>1. Len(v) = 1 /\ 1 \in 1..Len(v)
    BY <1>2, <1>5
  <2>2. FlattenSeq(s) = <<>>
    BY <1>5, FlattenIs
  <2>3. f[1] = v[1]
    <3>1. \A i \in 1..Len(v) : i = 1 => f[i] = v[i]
      BY <1>1, FlatteningSteps, Zenon
    <3>. QED BY <2>1, <3>1
  <2>4. FlattenSeq(v) = x
    BY <1>2, <1>3, <2>1, <2>3
  <2>5. <<>> \o x = x
    OBVIOUS
  <2>. QED BY <2>2, <2>4, <2>5 DEF v
<1>6. CASE s # <<>>
  <2>. DEFINE g == [i \in 1..Len(s) |-> f[i]]
  <2>1. IsFlattening(s, g)
    <3>. SUFFICES ASSUME NEW i \in 1..Len(s)
                  PROVE  g[i] = IF i = 1 THEN s[i] ELSE g[i - 1] \o s[i]
      BY Zenon DEF IsFlattening
    <3>1. i \in 1..Len(v) /\ v[i] = s[i] /\ g[i] = f[i] /\ (i # 1 => g[i - 1] = f[i - 1])
      BY <1>2
    <3>2. /\ i = 1 => f[i] = v[i]
          /\ i # 1 => f[i] = f[i - 1] \o v[i]
      BY <1>1, <3>1, FlatteningSteps, Zenon
    <3>. QED BY <3>1, <3>2, Zenon
  <2>2. FlattenSeq(s) = g[Len(s)]
    BY <1>6, <2>1, FlattenIs
  <2>3. FlattenSeq(s) = f[Len(s)] /\ Len(s) \in 1..Len(v) /\ Len(v) # 1
    BY <1>2, <1>6, <2>2
  <2>4. Len(v) \in 1..Len(v) /\ Len(v) - 1 = Len(s)
    BY <1>2, <2>3
  <2>6. f[Len(v)] = f[Len(v) - 1] \o v[Len(v)]
    BY <1>1, <2>3, <2>4, FlatteningSteps, Zenon
  <2>5. FlattenSeq(v) = FlattenSeq(s) \o x
    BY <1>2, <1>3, <2>3, <2>4, <2>6, Zenon
  <2>. QED BY <2>5 DEF v
<1>. QED BY <1>5, <1>6 DEF v

LEMMA FlattenEmpty == FlattenSeq(<<>>) = <<>>
BY DEF FlattenSeq

(* A sequence of sequences is flattened to a sequence.                        *)
LEMMA FlattenIsSeq ==
  ASSUME NEW S, NEW s \in Seq(Seq(S))
  PROVE  FlattenSeq(s) \in Seq(S)
<1>. DEFINE T == {u \in Seq(Seq(S)) : FlattenSeq(u) \in Seq(S)}
<1>1. <<>> \in T
  <2>1. <<>> \in Seq(S) /\ <<>> \in Seq(Seq(S))
    BY EmptySeq, Zenon
  <2>. QED BY <2>1, FlattenEmpty, Zenon
<1>2. ASSUME NEW u \in Seq(Seq(S)), u \in T, NEW x \in Seq(S) PROVE Append(u, x) \in T
  <2>1. FlattenSeq(Append(u, x)) = FlattenSeq(u) \o x
    BY <1>2, FlattenAppend
  <2>2. FlattenSeq(u) \o x \in Seq(S)
    BY <1>2, ConcatProperties, Zenon
  <2>3. Append(u, x) \in Seq(Seq(S))
    BY AppendProperties, Zenon
  <2>. QED BY <2>1, <2>2, <2>3, Zenon
<1>3. Seq(Seq(S)) \subseteq T
  <2>. HIDE DEF T
  <2>. QED BY <1>1, <1>2, SequenceInduction
<1>. QED BY <1>3

LEMMA FlattenOne ==
  ASSUME NEW S, NEW s \in Seq(Seq(S)), NEW x \in Seq(S)
  PROVE  FlattenSeq(Append(s, x)) = FlattenSeq(s) \o x
BY FlattenIsSeq, FlattenAppend

(* To flatten two sequences one after the other is to flatten each.           *)
LEMMA FlattenJoin ==
  ASSUME NEW S, NEW s \in Seq(Seq(S)), NEW t \in Seq(Seq(S))
  PROVE  FlattenSeq(s \o t) = FlattenSeq(s) \o FlattenSeq(t)
<1>. DEFINE T == {u \in Seq(Seq(S)) : FlattenSeq(s \o u) = FlattenSeq(s) \o FlattenSeq(u)}
<1>0. FlattenSeq(s) \in Seq(S)
  BY FlattenIsSeq
<1>1. <<>> \in T
  <2>1. s \o <<>> = s /\ FlattenSeq(s) \o <<>> = FlattenSeq(s) /\ <<>> \in Seq(Seq(S))
    BY <1>0, ConcatEmptySeq, EmptySeq, Zenon
  <2>. QED BY <2>1, FlattenEmpty, Zenon
<1>2. ASSUME NEW u \in Seq(Seq(S)), u \in T, NEW x \in Seq(S) PROVE Append(u, x) \in T
  <2>1. s \o Append(u, x) = Append(s \o u, x) /\ s \o u \in Seq(Seq(S))
    BY SMTT(60)
  <2>2. FlattenSeq(Append(s \o u, x)) = FlattenSeq(s \o u) \o x
    BY <2>1, FlattenOne
  <2>3. FlattenSeq(Append(u, x)) = FlattenSeq(u) \o x /\ FlattenSeq(u) \in Seq(S)
    BY FlattenOne, FlattenIsSeq
  <2>4. (FlattenSeq(s) \o FlattenSeq(u)) \o x = FlattenSeq(s) \o (FlattenSeq(u) \o x)
    <3>1. \A a, b, c \in Seq(S) : (a \o b) \o c = a \o (b \o c)
      BY SMTT(60)
    <3>2. FlattenSeq(s) \in Seq(S) /\ FlattenSeq(u) \in Seq(S) /\ x \in Seq(S)
      BY <1>0, <2>3, Zenon
    <3>. QED BY <3>1, <3>2, Zenon
  <2>5. Append(u, x) \in Seq(Seq(S))
    BY AppendProperties, Zenon
  <2>. QED BY <1>2, <2>1, <2>2, <2>3, <2>4, <2>5, Zenon
<1>3. Seq(Seq(S)) \subseteq T
  <2>. HIDE DEF T
  <2>. QED BY <1>1, <1>2, SequenceInduction
<1>. QED BY <1>3

(* The values of g over a sequence, joined: what Joined is for a function.    *)
JoinBy(g, s) == FlattenSeq([i \in DOMAIN s |-> g[s[i]]])

LEMMA PiecesOf ==
  ASSUME NEW E, NEW Q, NEW g \in [E -> Q], NEW s \in Seq(E)
  PROVE  [i \in DOMAIN s |-> g[s[i]]] \in Seq(Q)
OBVIOUS

LEMMA PiecesAppend ==
  ASSUME NEW E, NEW Q, NEW g \in [E -> Q], NEW s \in Seq(E), NEW x \in E
  PROVE  [i \in DOMAIN Append(s, x) |-> g[Append(s, x)[i]]]
         = Append([i \in DOMAIN s |-> g[s[i]]], g[x])
<1>. DEFINE v == Append(s, x)
            p == [i \in DOMAIN s |-> g[s[i]]]
<1>1. v \in Seq(E) /\ DOMAIN v = 1..Len(s) + 1 /\ v[Len(s) + 1] = x
      /\ \A i \in 1..Len(s) : v[i] = s[i]
  OBVIOUS
<1>2. p \in Seq(Q) /\ Len(p) = Len(s) /\ \A i \in 1..Len(s) : p[i] = g[s[i]]
  OBVIOUS
<1>. HIDE DEF p
<1>3. Append(p, g[x]) \in Seq(Q) /\ DOMAIN Append(p, g[x]) = 1..Len(s) + 1
      /\ Append(p, g[x])[Len(s) + 1] = g[x]
      /\ \A i \in 1..Len(s) : Append(p, g[x])[i] = g[s[i]]
  BY <1>2
<1>. HIDE DEF v
<1>4. \A i \in 1..Len(s) + 1 : Append(p, g[x])[i] = g[v[i]]
  BY <1>1, <1>3
<1>5. Append(p, g[x]) = [i \in DOMAIN v |-> g[v[i]]]
  BY <1>1, <1>3, <1>4
<1>. QED BY <1>5 DEF v, p

LEMMA JoinByIsSeq ==
  ASSUME NEW E, NEW X, NEW g \in [E -> Seq(X)], NEW s \in Seq(E)
  PROVE  JoinBy(g, s) \in Seq(X)
<1>. DEFINE Q == Seq(X)
<1>1. [i \in DOMAIN s |-> g[s[i]]] \in Seq(Q)
  <2>1. g \in [E -> Q]
    OBVIOUS
  <2>. HIDE DEF Q
  <2>. QED BY <2>1, PiecesOf, SMTT(60)
<1>. QED BY <1>1, FlattenIsSeq, Zenon DEF JoinBy

LEMMA JoinByAppend ==
  ASSUME NEW E, NEW X, NEW g \in [E -> Seq(X)], NEW s \in Seq(E), NEW x \in E
  PROVE  JoinBy(g, Append(s, x)) = JoinBy(g, s) \o g[x]
<1>. DEFINE Q == Seq(X)
            p == [i \in DOMAIN s |-> g[s[i]]]
<1>0. g \in [E -> Q] /\ g[x] \in Q
  OBVIOUS
<1>1. p \in Seq(Q)
  BY <1>0, PiecesOf, Zenon
<1>2. [i \in DOMAIN Append(s, x) |-> g[Append(s, x)[i]]] = Append(p, g[x])
  <2>. HIDE DEF Q
  <2>. QED BY <1>0, PiecesAppend
<1>3. FlattenSeq(Append(p, g[x])) = FlattenSeq(p) \o g[x]
  <2>. HIDE DEF p
  <2>. QED BY <1>0, <1>1, FlattenOne, Zenon
<1>. QED BY <1>2, <1>3, Zenon DEF JoinBy

LEMMA JoinByEmpty == ASSUME NEW g PROVE JoinBy(g, <<>>) = <<>>
<1>1. [i \in DOMAIN <<>> |-> g[<<>>[i]]] = <<>>
  OBVIOUS
<1>. QED BY <1>1, FlattenEmpty, Zenon DEF JoinBy

(* What is joined of two sequences is joined of one and then of the other.    *)
Splits(g, E) == \A s, u \in Seq(E) : JoinBy(g, s \o u) = JoinBy(g, s) \o JoinBy(g, u)

(* Every map to sequences splits.                                             *)
LEMMA JoinByJoins ==
  ASSUME NEW E, NEW X, NEW g \in [E -> Seq(X)]
  PROVE  Splits(g, E)
<1>. SUFFICES ASSUME NEW s \in Seq(E), NEW u \in Seq(E)
              PROVE  JoinBy(g, s \o u) = JoinBy(g, s) \o JoinBy(g, u)
  BY DEF Splits
<1>. DEFINE T == {v \in Seq(E) : JoinBy(g, s \o v) = JoinBy(g, s) \o JoinBy(g, v)}
<1>0. \A v \in Seq(E) : JoinBy(g, v) \in Seq(X)
  BY JoinByIsSeq
<1>1. <<>> \in T
  <2>1. s \o <<>> = s /\ JoinBy(g, s) \o <<>> = JoinBy(g, s) /\ <<>> \in Seq(E)
    BY <1>0, ConcatEmptySeq, EmptySeq, Zenon
  <2>. QED BY <2>1, JoinByEmpty, Zenon
<1>2. ASSUME NEW v \in Seq(E), v \in T, NEW x \in E PROVE Append(v, x) \in T
  <2>1. s \o Append(v, x) = Append(s \o v, x) /\ s \o v \in Seq(E) /\ Append(v, x) \in Seq(E)
    BY SMTT(60)
  <2>2. JoinBy(g, Append(s \o v, x)) = JoinBy(g, s \o v) \o g[x]
    BY <2>1, JoinByAppend, Zenon
  <2>3. JoinBy(g, Append(v, x)) = JoinBy(g, v) \o g[x]
    BY JoinByAppend, Zenon
  <2>4. (JoinBy(g, s) \o JoinBy(g, v)) \o g[x] = JoinBy(g, s) \o (JoinBy(g, v) \o g[x])
    <3>1. \A a, b, c \in Seq(X) : (a \o b) \o c = a \o (b \o c)
      BY SMTT(60)
    <3>2. JoinBy(g, s) \in Seq(X) /\ JoinBy(g, v) \in Seq(X) /\ g[x] \in Seq(X)
      BY <1>0
    <3>. QED BY <3>1, <3>2, Zenon
  <2>. QED BY <1>2, <2>1, <2>2, <2>3, <2>4, Zenon
<1>3. Seq(E) \subseteq T
  <2>. HIDE DEF T
  <2>. QED BY <1>1, <1>2, SequenceInduction
<1>. QED BY <1>3

LEMMA JoinedEmpty ==
  ASSUME NEW X, NEW a \in Seq(X), NEW b \in Seq(X)
  PROVE  a \o b = <<>> <=> a = <<>> /\ b = <<>>
BY ConcatEqualIffEmpty

(* Nothing comes of a sequence only if nothing comes of any element.          *)
NothingIs(g, s) == JoinBy(g, s) = <<>> <=> \A i \in DOMAIN s : g[s[i]] = <<>>

LEMMA JoinByNothing ==
  ASSUME NEW E, NEW X, NEW g \in [E -> Seq(X)], NEW s \in Seq(E)
  PROVE  NothingIs(g, s)
<1>. DEFINE T == {v \in Seq(E) : JoinBy(g, v) = <<>> <=> \A i \in DOMAIN v : g[v[i]] = <<>>}
<1>1. <<>> \in T
  <2>1. <<>> \in Seq(E) /\ DOMAIN <<>> = {}
    OBVIOUS
  <2>. QED BY <2>1, JoinByEmpty
<1>2. ASSUME NEW v \in Seq(E), v \in T, NEW x \in E PROVE Append(v, x) \in T
  <2>. DEFINE w == Append(v, x)
  <2>1. w \in Seq(E) /\ DOMAIN w = 1..Len(v) + 1 /\ w[Len(v) + 1] = x
        /\ DOMAIN v = 1..Len(v) /\ \A i \in 1..Len(v) : w[i] = v[i]
    OBVIOUS
  <2>2. JoinBy(g, w) = JoinBy(g, v) \o g[x]
    BY JoinByAppend, Zenon
  <2>3. JoinBy(g, v) \in Seq(X) /\ g[x] \in Seq(X)
    BY JoinByIsSeq
  <2>4. JoinBy(g, w) = <<>> <=> JoinBy(g, v) = <<>> /\ g[x] = <<>>
    BY <2>2, <2>3, JoinedEmpty, Zenon
  <2>. HIDE DEF w
  <2>5. (\A i \in DOMAIN w : g[w[i]] = <<>>) <=>
          (\A i \in DOMAIN v : g[v[i]] = <<>>) /\ g[x] = <<>>
    <3>1. DOMAIN w = DOMAIN v \cup {Len(v) + 1}
      BY <2>1
    <3>2. \A i \in DOMAIN v : w[i] = v[i]
      BY <2>1
    <3>. QED BY <2>1, <3>1, <3>2, Zenon
  <2>. QED BY <1>2, <2>1, <2>4, <2>5, Zenon DEF w
<1>3. Seq(E) \subseteq T
  <2>. HIDE DEF T
  <2>. QED BY <1>1, <1>2, SequenceInduction
<1>. QED BY <1>3 DEF NothingIs

-----------------------------------------------------------------------------
(* The cache of replays: what its entries take.                               *)
(* Entries whose keys and items are from X, and how they lie one after the    *)
(* other.                                                                     *)
Storable(E, X) == \A e \in E : Stored(e) \in Seq(X)
Laid(entries) == [i \in DOMAIN entries |-> Stored(entries[i])]

LEMMA LaidOut ==
  ASSUME NEW E, NEW X, Storable(E, X), NEW s \in Seq(E)
  PROVE  /\ Laid(s) \in Seq(Seq(X)) /\ Bytes(s) = Len(FlattenSeq(Laid(s)))
         /\ FlattenSeq(Laid(s)) \in Seq(X) /\ Bytes(s) \in Nat
<1>. DEFINE Q == Seq(X)
<1>0. \A i \in DOMAIN s : Stored(s[i]) \in Q
  BY DEF Storable
<1>1. Laid(s) \in Seq(Q)
  <2>. HIDE DEF Q
  <2>. QED BY <1>0 DEF Laid
<1>2. FlattenSeq(Laid(s)) \in Seq(X)
  BY <1>1, FlattenIsSeq, Zenon
<1>3. Bytes(s) = Len(FlattenSeq(Laid(s)))
  BY DEF Bytes, Laid
<1>. QED BY <1>1, <1>2, <1>3

(* The bytes of entries add up.                                               *)
LEMMA BytesJoin ==
  ASSUME NEW E, NEW X, Storable(E, X), NEW s \in Seq(E), NEW u \in Seq(E)
  PROVE  Bytes(s \o u) = Bytes(s) + Bytes(u)
<1>. DEFINE Q == Seq(X)
<1>1. Laid(s \o u) = Laid(s) \o Laid(u)
  <2>1. \A i \in DOMAIN s : Stored(s[i]) \in Q
    BY DEF Storable
  <2>2. \A i \in DOMAIN u : Stored(u[i]) \in Q
    BY DEF Storable
  <2>. HIDE DEF Q
  <2>3. Laid(s) \in Seq(Q) /\ Len(Laid(s)) = Len(s) /\ \A i \in DOMAIN s : Laid(s)[i] = Stored(s[i])
    BY <2>1 DEF Laid
  <2>4. Laid(u) \in Seq(Q) /\ Len(Laid(u)) = Len(u) /\ \A i \in DOMAIN u : Laid(u)[i] = Stored(u[i])
    BY <2>2 DEF Laid
  <2>5. \A i \in 1..Len(s) + Len(u) : (s \o u)[i] = IF i <= Len(s) THEN s[i] ELSE u[i - Len(s)]
    OBVIOUS
  <2>6. Len(s \o u) = Len(s) + Len(u)
    OBVIOUS
  <2>. DEFINE j == Laid(s) \o Laid(u)
  <2>7. j \in Seq(Q) /\ Len(j) = Len(s) + Len(u)
        /\ \A i \in 1..Len(s) + Len(u) :
             j[i] = IF i <= Len(s) THEN Laid(s)[i] ELSE Laid(u)[i - Len(s)]
    <3>1. /\ j \in Seq(Q) /\ Len(j) = Len(Laid(s)) + Len(Laid(u))
          /\ \A i \in 1..Len(Laid(s)) + Len(Laid(u)) :
               j[i] = IF i <= Len(Laid(s)) THEN Laid(s)[i] ELSE Laid(u)[i - Len(Laid(s))]
      <4>1. \A v, w \in Seq(Q) :
              /\ v \o w \in Seq(Q) /\ Len(v \o w) = Len(v) + Len(w)
              /\ \A i \in 1..Len(v) + Len(w) :
                   (v \o w)[i] = IF i <= Len(v) THEN v[i] ELSE w[i - Len(v)]
        OBVIOUS
      <4>2. Laid(s) \in Seq(Q) /\ Laid(u) \in Seq(Q)
        BY <2>3, <2>4
      <4>. QED BY <4>1, <4>2
    <3>2. Len(Laid(s)) = Len(s) /\ Len(Laid(u)) = Len(u)
      BY <2>3, <2>4
    <3>. QED BY <3>1, <3>2
  <2>. HIDE DEF j
  <2>8. \A i \in 1..Len(s) + Len(u) : j[i] = Stored((s \o u)[i])
    <3>. SUFFICES ASSUME NEW i \in 1..Len(s) + Len(u) PROVE j[i] = Stored((s \o u)[i])
      OBVIOUS
    <3>1. CASE i <= Len(s)
      BY <2>3, <2>5, <2>7, <3>1
    <3>2. CASE ~(i <= Len(s))
      <4>1. i - Len(s) \in DOMAIN u
        BY <3>2
      <4>. QED BY <2>4, <2>5, <2>7, <3>2, <4>1
    <3>. QED BY <3>1, <3>2
  <2>9. DOMAIN (s \o u) = 1..Len(s) + Len(u) /\ DOMAIN j = 1..Len(s) + Len(u)
    BY <2>7
  <2>10. j = [i \in DOMAIN (s \o u) |-> Stored((s \o u)[i])]
    BY <2>7, <2>8, <2>9
  <2>. QED BY <2>10 DEF Laid, j
<1>2. FlattenSeq(Laid(s) \o Laid(u)) = FlattenSeq(Laid(s)) \o FlattenSeq(Laid(u))
  <2>1. Laid(s) \in Seq(Q) /\ Laid(u) \in Seq(Q)
    BY LaidOut, Zenon
  <2>. QED BY <2>1, FlattenJoin
<1>3. /\ FlattenSeq(Laid(s)) \in Seq(X) /\ FlattenSeq(Laid(u)) \in Seq(X)
      /\ Bytes(s) = Len(FlattenSeq(Laid(s))) /\ Bytes(u) = Len(FlattenSeq(Laid(u)))
  BY LaidOut, Zenon
<1>4. Bytes(s \o u) = Len(FlattenSeq(Laid(s \o u)))
  BY DEF Bytes, Laid
<1>5. Len(FlattenSeq(Laid(s)) \o FlattenSeq(Laid(u)))
        = Len(FlattenSeq(Laid(s))) + Len(FlattenSeq(Laid(u)))
  BY <1>3, ConcatProperties, Zenon
<1>. QED BY <1>1, <1>2, <1>3, <1>4, <1>5, Zenon

LEMMA BytesOne ==
  ASSUME NEW E, NEW X, Storable(E, X), NEW e \in E
  PROVE  Bytes(<<e>>) = SizeOf(e) /\ SizeOf(e) \in Nat
<1>1. Stored(e) \in Seq(X) /\ <<>> \in Seq(Seq(X))
  BY EmptySeq, Zenon DEF Storable
<1>2. FlattenSeq(Append(<<>>, Stored(e))) = FlattenSeq(<<>>) \o Stored(e)
  BY <1>1, FlattenOne, Zenon
<1>3. <<>> \o Stored(e) = Stored(e)
  BY <1>1, ConcatEmptySeq, Zenon
<1>4. Laid(<<e>>) = Append(<<>>, Stored(e))
  BY DEF Laid
<1>5. Len(Stored(e)) \in Nat
  BY <1>1
<1>. QED BY <1>2, <1>3, <1>4, <1>5, FlattenEmpty, Zenon DEF Bytes, Laid, SizeOf

LEMMA BytesEmpty == Bytes(<<>>) = 0
<1>1. [i \in DOMAIN <<>> |-> Stored(<<>>[i])] = <<>>
  OBVIOUS
<1>2. Len(<<>>) = 0
  OBVIOUS
<1>. QED BY <1>1, <1>2, FlattenEmpty, Zenon DEF Bytes

LEMMA BytesAppend ==
  ASSUME NEW E, NEW X, Storable(E, X), NEW s \in Seq(E), NEW e \in E
  PROVE  Bytes(Append(s, e)) = Bytes(s) + SizeOf(e)
<1>1. Append(s, e) = s \o <<e>> /\ <<e>> \in Seq(E)
  OBVIOUS
<1>2. Bytes(s \o <<e>>) = Bytes(s) + Bytes(<<e>>)
  BY <1>1, BytesJoin
<1>3. Bytes(<<e>>) = SizeOf(e)
  BY BytesOne
<1>. QED BY <1>1, <1>2, <1>3

LEMMA BytesSplit ==
  ASSUME NEW E, NEW X, Storable(E, X), NEW s \in Seq(E), NEW n \in 0..Len(s)
  PROVE  /\ SubSeq(s, 1, n) \in Seq(E) /\ SubSeq(s, n + 1, Len(s)) \in Seq(E)
         /\ Bytes(SubSeq(s, 1, n)) \in Nat /\ Bytes(SubSeq(s, n + 1, Len(s))) \in Nat
         /\ Bytes(s) = Bytes(SubSeq(s, 1, n)) + Bytes(SubSeq(s, n + 1, Len(s)))
<1>1. SubSeq(s, 1, n) \in Seq(E) /\ SubSeq(s, n + 1, Len(s)) \in Seq(E)
  OBVIOUS
<1>2. s = SubSeq(s, 1, n) \o SubSeq(s, n + 1, Len(s))
  <2>1. SubSeq(s, 1, n) \o SubSeq(s, n + 1, Len(s)) = SubSeq(s, 1, Len(s))
    <3>1. 1 \in 1..Len(s) + 1 /\ n \in 1 - 1..Len(s) /\ Len(s) \in n..Len(s)
      OBVIOUS
    <3>. QED BY <3>1, ConcatAdjacentSubSeq
  <2>2. SubSeq(s, 1, Len(s)) = s
    BY SubSeqFull
  <2>. QED BY Zenon, <2>1, <2>2
<1>3. Bytes(SubSeq(s, 1, n) \o SubSeq(s, n + 1, Len(s)))
        = Bytes(SubSeq(s, 1, n)) + Bytes(SubSeq(s, n + 1, Len(s)))
  BY <1>1, BytesJoin
<1>4. Bytes(SubSeq(s, 1, n)) \in Nat /\ Bytes(SubSeq(s, n + 1, Len(s))) \in Nat
  BY <1>1, LaidOut
<1>. QED BY <1>1, <1>2, <1>3, <1>4

(* The entries, and that there is one for a key.                              *)
EntriesOf(s) == {s[i] : i \in DOMAIN s}
Distinct(s) == \A i, j \in DOMAIN s : s[i].key = s[j].key => i = j

(* An entry that is removed takes its bytes with it, no more and no less.     *)
LEMMA BytesRemove ==
  ASSUME NEW E, NEW X, Storable(E, X), NEW s \in Seq(E), NEW n \in DOMAIN s
  PROVE  /\ RemoveAt(s, n) \in Seq(E) /\ Len(RemoveAt(s, n)) = Len(s) - 1
         /\ Bytes(RemoveAt(s, n)) + SizeOf(s[n]) = Bytes(s)
<1>. DEFINE a == SubSeq(s, 1, n - 1)
            b == SubSeq(s, n + 1, Len(s))
<1>1. a \in Seq(E) /\ b \in Seq(E) /\ s[n] \in E /\ SubSeq(s, 1, n) = Append(a, s[n])
  OBVIOUS
<1>2. Len(a) = n - 1 /\ Len(b) = Len(s) - n
  OBVIOUS
<1>. HIDE DEF a, b
<1>3. RemoveAt(s, n) = a \o b
  BY DEF RemoveAt, a, b
<1>4. Bytes(a \o b) = Bytes(a) + Bytes(b)
  BY <1>1, BytesJoin
<1>5. Bytes(Append(a, s[n])) = Bytes(a) + SizeOf(s[n])
  BY <1>1, BytesAppend
<1>6. Bytes(s) = Bytes(SubSeq(s, 1, n)) + Bytes(b)
  BY BytesSplit DEF b
<1>7. Bytes(a) \in Nat /\ Bytes(b) \in Nat /\ SizeOf(s[n]) \in Nat
  <2>1. Bytes(a) \in Nat /\ Bytes(b) \in Nat
    BY <1>1, LaidOut
  <2>2. SizeOf(s[n]) \in Nat
    BY <1>1, BytesOne
  <2>. QED BY <2>1, <2>2
<1>8. Bytes(a \o b) + SizeOf(s[n]) = Bytes(s)
  <2>1. Bytes(SubSeq(s, 1, n)) = Bytes(a) + SizeOf(s[n])
    BY <1>1, <1>5, Zenon
  <2>. QED BY <2>1, <1>4, <1>6, <1>7
<1>9. a \o b \in Seq(E) /\ Len(a \o b) = Len(s) - 1
  BY <1>1, <1>2
<1>. QED BY <1>3, <1>8, <1>9, Zenon

LEMMA RemoveDistinct ==
  ASSUME NEW E, NEW s \in Seq(E), Distinct(s), NEW n \in DOMAIN s
  PROVE  /\ Distinct(RemoveAt(s, n))
         /\ EntriesOf(RemoveAt(s, n)) = {e \in EntriesOf(s) : e.key # s[n].key}
<1>. DEFINE r == RemoveAt(s, n)
<1>1. r \in Seq(E) /\ Len(r) = Len(s) - 1
  BY SMTT(60) DEF RemoveAt
<1>2. \A i \in 1..(Len(s) - 1) : (i < n => r[i] = s[i]) /\ (~(i < n) => r[i] = s[i + 1])
  <2>. DEFINE a == SubSeq(s, 1, n - 1)
              b == SubSeq(s, n + 1, Len(s))
  <2>1. a \in Seq(E) /\ Len(a) = n - 1 /\ \A i \in 1..(n - 1) : a[i] = s[i]
    OBVIOUS
  <2>2. b \in Seq(E) /\ Len(b) = Len(s) - n /\ \A i \in 1..(Len(s) - n) : b[i] = s[i + n]
    OBVIOUS
  <2>. HIDE DEF a, b
  <2>3. \A i \in 1..Len(a) + Len(b) :
          (i <= Len(a) => (a \o b)[i] = a[i]) /\ (~(i <= Len(a)) => (a \o b)[i] = b[i - Len(a)])
    BY <2>1, <2>2, SMTT(60)
  <2>4. ASSUME NEW i \in 1..(Len(s) - 1), ~(i < n) PROVE (a \o b)[i] = s[i + 1]
    <3>1. i - (n - 1) \in 1..(Len(s) - n) /\ (i - (n - 1)) + n = i + 1
      BY <2>4
    <3>. QED BY <2>1, <2>2, <2>3, <2>4, <3>1, SMTT(60)
  <2>5. ASSUME NEW i \in 1..(Len(s) - 1), i < n PROVE (a \o b)[i] = s[i]
    <3>1. i <= Len(a) /\ i \in 1..Len(a) + Len(b) /\ i \in 1..(n - 1)
      BY <2>1, <2>2, <2>5
    <3>. QED BY <2>1, <2>3, <3>1
  <2>. QED BY <2>4, <2>5 DEF RemoveAt, a, b
<1>. HIDE DEF r
<1>3. Distinct(r)
  <2>. SUFFICES ASSUME NEW i \in 1..(Len(s) - 1), NEW j \in 1..(Len(s) - 1), r[i].key = r[j].key
                PROVE  i = j
    BY <1>1 DEF Distinct
  <2>1. PICK k \in DOMAIN s : r[i] = s[k] /\ k = IF i < n THEN i ELSE i + 1
    BY <1>2
  <2>2. PICK l \in DOMAIN s : r[j] = s[l] /\ l = IF j < n THEN j ELSE j + 1
    BY <1>2
  <2>3. k = l
    BY <2>1, <2>2 DEF Distinct
  <2>. QED BY <2>1, <2>2, <2>3
<1>4. ASSUME NEW e \in EntriesOf(r) PROVE e \in EntriesOf(s) /\ e.key # s[n].key
  <2>1. PICK i \in 1..(Len(s) - 1) : e = r[i]
    BY <1>1 DEF EntriesOf
  <2>2. PICK j \in DOMAIN s : e = s[j] /\ j # n
    <3>1. CASE i < n
      BY <1>2, <2>1, <3>1
    <3>2. CASE ~(i < n)
      <4>1. i + 1 \in DOMAIN s /\ i + 1 # n
        BY <3>2
      <4>. QED BY <1>2, <2>1, <3>2, <4>1
    <3>. QED BY <3>1, <3>2
  <2>. QED BY <2>2 DEF EntriesOf, Distinct
<1>5. ASSUME NEW e \in EntriesOf(s), e.key # s[n].key PROVE e \in EntriesOf(r)
  <2>1. PICK j \in DOMAIN s : e = s[j]
    BY DEF EntriesOf
  <2>2. j # n
    BY <1>5, <2>1
  <2>3. CASE j < n
    BY <1>1, <1>2, <2>1, <2>3 DEF EntriesOf
  <2>4. CASE j > n
    <3>1. j - 1 \in 1..(Len(s) - 1) /\ ~(j - 1 < n) /\ (j - 1) + 1 = j
      BY <2>4
    <3>2. r[j - 1] = e
      BY <1>2, <2>1, <3>1
    <3>. QED BY <1>1, <3>1, <3>2 DEF EntriesOf
  <2>. QED BY <2>2, <2>3, <2>4
<1>. QED BY <1>3, <1>4, <1>5 DEF r

(* A set of numbers has a least element.                                      *)
LEMMA Least ==
  ASSUME NEW P \in SUBSET Nat, P # {}
  PROVE  \E k \in P : \A j \in P : k <= j
<1>1. \E k \in P : \A j \in P : ~(<<j, k>> \in OpToRel(<, Nat))
  BY WFMin, NatLessThanWellFounded
<1>2. PICK k \in P : \A j \in P : ~(<<j, k>> \in OpToRel(<, Nat))
  BY <1>1
<1>3. \A j \in P : ~(j < k)
  BY <1>2 DEF OpToRel
<1>. QED BY <1>3

(* Eviction leaves a suffix that is within both bounds: there is always one.  *)
LEMMA EvictedIs ==
  ASSUME NEW E, NEW X, Storable(E, X), NEW s \in Seq(E)
  PROVE  \E n \in 0..Len(s) :
           /\ Evicted(s, Bytes(s)).entries = SubSeq(s, n + 1, Len(s))
           /\ Evicted(s, Bytes(s)).bytes = Bytes(SubSeq(s, n + 1, Len(s)))
           /\ Len(s) - n <= MaxEntries /\ Bytes(SubSeq(s, n + 1, Len(s))) <= MaxBytes
<1>. DEFINE After(n) == Bytes(s) - Bytes(SubSeq(s, 1, n))
            Fits(n) == Len(s) - n <= MaxEntries /\ After(n) <= MaxBytes
            First(n) == n \in 0..Len(s) /\ Fits(n)
                        /\ \A j \in 0..(n - 1) : Len(s) - j > MaxEntries \/ After(j) > MaxBytes
            m == CHOOSE n \in 0..Len(s) :
                   /\ Len(s) - n <= MaxEntries /\ After(n) <= MaxBytes
                   /\ \A j \in 0..(n - 1) : Len(s) - j > MaxEntries \/ After(j) > MaxBytes
<1>0. MaxEntries \in Nat /\ MaxBytes \in Nat
  BY CacheAssumption
<1>1. \A n \in 0..Len(s) : After(n) = Bytes(SubSeq(s, n + 1, Len(s))) /\ After(n) \in Nat
  BY BytesSplit
<1>2. After(Len(s)) = 0
  <2>1. SubSeq(s, Len(s) + 1, Len(s)) = <<>>
    BY SubSeqEmpty
  <2>2. After(Len(s)) = Bytes(SubSeq(s, Len(s) + 1, Len(s)))
    <3>1. Len(s) \in 0..Len(s)
      OBVIOUS
    <3>. HIDE DEF After
    <3>. QED BY <1>1, <3>1, Zenon
  <2>. QED BY <2>1, <2>2, BytesEmpty, Zenon
<1>3. \E n : First(n)
  <2>. DEFINE P == {n \in 0..Len(s) : Fits(n)}
  <2>1. P \in SUBSET Nat /\ Len(s) \in P
    BY <1>0, <1>2
  <2>2. PICK n \in P : \A j \in P : n <= j
    <3>. HIDE DEF P
    <3>. QED BY <2>1, Least
  <2>3. \A j \in 0..(n - 1) : j \in 0..Len(s) /\ j \notin P
    <3>1. n \in 0..Len(s)
      OBVIOUS
    <3>. HIDE DEF P
    <3>. QED BY <2>2, <3>1
  <2>4. \A j \in 0..(n - 1) : ~Fits(j) /\ After(j) \in Nat
    BY <2>3, <1>1
  <2>. HIDE DEF After
  <2>5. First(n)
    BY <2>4, <1>0
  <2>. QED BY <2>5
<1>4. First(m)
  <2>. HIDE DEF After
  <2>. QED BY <1>3
<1>5. Evicted(s, Bytes(s)) = [entries |-> SubSeq(s, m + 1, Len(s)), bytes |-> After(m)]
  BY DEF Evicted
<1>. HIDE DEF m
<1>. QED BY <1>1, <1>4, <1>5

-----------------------------------------------------------------------------
(* The translator of a turn: its types, and what each event makes of it.      *)
(* Texts, the events that tell of them and of calls, and the states of a      *)
(* translator.                                                                *)
Texts == Seq(Letters)
Kinds == {"text", "refusal", "summary"}
CallBlocks ==
  {[call |-> c.call, args |-> c.args] : c \in {k \in KnownItems : k.type = "function_call"}}
Events ==
  [kind : Kinds, index : Index, what : Texts]
    \cup [kind : {"call"}, index : Index, what : CallBlocks]
Reasons == {"none", "max_tokens", "refusal", "tool_use", "end_turn"}
Translators ==
  [items : [Index -> KnownItems \cup {NoItem}], done : SUBSET Index, calls : SUBSET Index,
   heard : [Deltas -> [Index -> Texts]], output : Seq(KnownItems), finished : BOOLEAN,
   cacheable : BOOLEAN, failed : BOOLEAN, reason : Reasons, says : Seq(Events)]

(* Of an item that is unknown nothing is heard, and a call is told when it is *)
(* done.                                                                      *)
Holds(t, i, type) == t.items[i] # NoItem /\ t.items[i].type = type
TranslatorInv(t) ==
  /\ t \in Translators
  /\ \A i \in Index :
       /\ i \in t.calls => i \in t.done /\ Holds(t, i, "function_call")
       /\ \A kind \in Kinds : t.heard[kind][i] # <<>> => Holds(t, i, TypeOf(kind))

LEMMA WithTheCipher ==
  ASSUME NEW id, NEW summary, NEW c, NEW d
  PROVE  [Reasoning(id, summary, c) EXCEPT !.cipher = d] = Reasoning(id, summary, d)
BY DEF Reasoning

(* An item that is known has the form of its type.                            *)
LEMMA KnownAreWellFormed ==
  ASSUME NEW item \in KnownItems
  PROVE  /\ WellFormed(item) /\ item # NoItem
         /\ item.type \in {"message", "function_call", "reasoning"}
         /\ item.type = "reasoning" => [item EXCEPT !.cipher = TRUE] \in KnownItems
         /\ item.type = "reasoning" /\ ~item.cipher => [item EXCEPT !.cipher = FALSE] = item
<1>1. CASE item \in Items
  <2>1. WellFormed(item) /\ item # NoItem
    BY <1>1, ItemsAssumption DEF KnownItems
  <2>2. item.type = "reasoning" => [item EXCEPT !.cipher = TRUE] \in KnownItems
    BY <1>1 DEF KnownItems
  <2>. QED BY <2>1, <2>2 DEF WellFormed, Message, Call, Reasoning
<1>2. CASE item \notin Items
  <2>1. PICK r \in Items : r.type = "reasoning" /\ item = [r EXCEPT !.cipher = TRUE]
    BY <1>2 DEF KnownItems
  <2>2. r = Reasoning(r.id, r.summary, r.cipher) /\ r.summary \in Seq(Letters)
    BY <2>1, ItemsAssumption DEF WellFormed
  <2>3. item = Reasoning(r.id, r.summary, TRUE)
    BY <2>1, <2>2 DEF Reasoning
  <2>4. WellFormed(item)
    BY <2>2, <2>3 DEF WellFormed, Reasoning
  <2>5. item # NoItem
    BY ItemsAssumption
  <2>6. [item EXCEPT !.cipher = TRUE] \in KnownItems
    <3>1. [item EXCEPT !.cipher = TRUE] = item
      BY <2>3, WithTheCipher, Zenon
    <3>. QED BY <3>1, Zenon
  <2>. QED BY <2>3, <2>4, <2>5, <2>6 DEF Reasoning
<1>. QED BY <1>1, <1>2

(* A later version of an item differs from it in nothing but the ciphertext   *)
(* it keeps.                                                                  *)
LEMMA WithCipherIs ==
  ASSUME NEW item \in KnownItems, NEW before \in KnownItems \cup {NoItem}
  PROVE  /\ WithCipher(item, before) \in KnownItems
         /\ WithCipher(item, before).type = item.type
         /\ item.type # "reasoning" => WithCipher(item, before) = item
         /\ item.type = "reasoning" => WithCipher(item, before).summary = item.summary
         /\ HasCipher(before) /\ item.type = "reasoning" => HasCipher(WithCipher(item, before))
<1>1. CASE before # NoItem /\ item.type = "reasoning" /\ before.type = "reasoning" /\ ~item.cipher
  <2>1. before \in KnownItems
    BY <1>1
  <2>2. before.cipher \in BOOLEAN
    BY <1>1, <2>1, KnownAreWellFormed DEF WellFormed, Message, Call, Reasoning
  <2>3. item = Reasoning(item.id, item.summary, item.cipher)
    BY <1>1, KnownAreWellFormed DEF WellFormed
  <2>4. WithCipher(item, before) = [item EXCEPT !.cipher = before.cipher]
    BY <1>1 DEF WithCipher
  <2>5. WithCipher(item, before) = Reasoning(item.id, item.summary, before.cipher)
    BY <2>3, <2>4 DEF Reasoning
  <2>6. WithCipher(item, before) \in KnownItems
    <3>1. CASE before.cipher = TRUE
      BY <1>1, <2>4, <3>1, KnownAreWellFormed
    <3>2. CASE before.cipher = FALSE
      BY <1>1, <2>4, <3>2, KnownAreWellFormed
    <3>. QED BY <2>2, <3>1, <3>2
  <2>7. HasCipher(before) => HasCipher(WithCipher(item, before))
    <3>1. WithCipher(item, before) # NoItem
      BY <2>6, KnownAreWellFormed
    <3>2. WithCipher(item, before).type = "reasoning" /\ WithCipher(item, before).cipher = before.cipher
      BY <2>5 DEF Reasoning
    <3>. QED BY <3>1, <3>2 DEF HasCipher
  <2>. QED BY <1>1, <2>5, <2>6, <2>7 DEF Reasoning
<1>2. CASE ~(before # NoItem /\ item.type = "reasoning" /\ before.type = "reasoning" /\ ~item.cipher)
  <2>1. WithCipher(item, before) = item
    BY <1>2 DEF WithCipher
  <2>2. HasCipher(before) /\ item.type = "reasoning" => HasCipher(item)
    BY <1>2, KnownAreWellFormed DEF HasCipher
  <2>. QED BY <2>1, <2>2
<1>. QED BY <1>1, <1>2

LEMMA IndexIsFinite == MaxItems \in Nat /\ Index = 1..MaxItems
BY ItemsAssumption DEF Index

LEMMA NewTranslatorInv == TranslatorInv(NewTranslator)
<1>1. <<>> \in Texts /\ <<>> \in Seq(KnownItems) /\ <<>> \in Seq(Events)
  BY EmptySeq, Zenon DEF Texts
<1>2. NewTranslator \in Translators
  BY <1>1 DEF NewTranslator, Translators, Reasons
<1>3. /\ NewTranslator.calls = {}
      /\ NewTranslator.heard = [kind \in Deltas |-> [i \in Index |-> <<>>]]
  BY DEF NewTranslator
<1>4. \A kind \in Kinds : kind \in Deltas
  BY DEF Kinds, Deltas
<1>. QED BY <1>2, <1>3, <1>4 DEF TranslatorInv

(* An item is added.                                                          *)
LEMMA AddedInv ==
  ASSUME NEW t, TranslatorInv(t), NEW i \in Index, NEW item \in Items, ~Added(t, i, item).failed
  PROVE  TranslatorInv(Added(t, i, item)) /\ ~t.failed
<1>1. i \notin Known(t) /\ t.items[i] = NoItem
  BY DEF Added, Fails, Known, TranslatorInv, Translators
<1>2. Added(t, i, item) = [t EXCEPT !.items[i] = item, !.says = <<>>]
  BY <1>1 DEF Added
<1>3. item \in KnownItems /\ <<>> \in Seq(Events)
  BY EmptySeq DEF KnownItems
<1>4. Added(t, i, item) \in Translators /\ ~t.failed
  <2>1. Added(t, i, item) = [t EXCEPT !.items = [@ EXCEPT ![i] = item], !.says = <<>>]
    BY <1>2 DEF TranslatorInv, Translators
  <2>2. ~Added(t, i, item).failed
    OBVIOUS
  <2>. HIDE DEF Translators
  <2>3. t \in Translators
    BY DEF TranslatorInv
  <2>4. [t.items EXCEPT ![i] = item] \in [Index -> KnownItems \cup {NoItem}]
    BY <1>3, <2>3 DEF Translators
  <2>. QED BY <1>3, <2>1, <2>2, <2>3, <2>4 DEF Translators
<1>. QED BY <1>1, <1>2, <1>4 DEF TranslatorInv, Holds, Translators

(* An item ends.                                                              *)
LEMMA DoneInv ==
  ASSUME NEW t, TranslatorInv(t), NEW i \in Index, NEW item \in Items, ~Done(t, i, item).failed
  PROVE  /\ TranslatorInv(Done(t, i, item)) /\ ~t.failed
         /\ Holds(Done(t, i, item), i, item.type)
         /\ t.items[i] # NoItem => t.items[i].type = item.type
<1>. DEFINE u == Done(t, i, item)
<1>0. t \in Translators /\ item \in KnownItems
  BY DEF TranslatorInv, KnownItems
<1>1. MayBeDone(t, i, item)
  BY <1>0 DEF Done, Fails, Translators
<1>2. WithCipher(item, t.items[i]) \in KnownItems /\ WithCipher(item, t.items[i]).type = item.type
  BY <1>0, WithCipherIs DEF Translators
<1>3. t.items[i] # NoItem => t.items[i].type = item.type
  BY <1>0, <1>1 DEF MayBeDone, SameItem, Known, Translators
<1>4. (IF item.type = "function_call" THEN TellsCall(t, i, item) ELSE <<>>) \in Seq(Events)
  <2>1. item.type = "function_call" => Says("call", i, [call |-> item.call, args |-> item.args]) \in Events
    BY <1>0 DEF Says, Events, CallBlocks
  <2>. QED BY <2>1, EmptySeq DEF TellsCall
<1>5. u = [t EXCEPT !.items = [@ EXCEPT ![i] = WithCipher(item, t.items[i])], !.done = @ \cup {i},
                    !.calls = IF item.type = "function_call" THEN @ \cup {i} ELSE @,
                    !.says = IF item.type = "function_call" THEN TellsCall(t, i, item) ELSE <<>>]
  BY <1>0, <1>1 DEF Done, Translators
<1>6. u \in Translators /\ ~t.failed
  <2>. HIDE DEF u
  <2>1. ~u.failed
    BY DEF u
  <2>. QED BY <1>0, <1>2, <1>4, <1>5, <2>1 DEF Translators
<1>7. WithCipher(item, t.items[i]) # NoItem
  BY <1>2, KnownAreWellFormed
<1>8. Holds(u, i, item.type)
  <2>. HIDE DEF u
  <2>. QED BY <1>0, <1>2, <1>5, <1>7 DEF Holds, Translators
<1>9. ASSUME NEW j \in Index
      PROVE  /\ j \in u.calls => j \in u.done /\ Holds(u, j, "function_call")
             /\ \A kind \in Kinds : u.heard[kind][j] # <<>> => Holds(u, j, TypeOf(kind))
  <2>. HIDE DEF u
  <2>0. u.heard = t.heard /\ u.done = t.done \cup {i}
        /\ u.calls = IF item.type = "function_call" THEN t.calls \cup {i} ELSE t.calls
    BY <1>0, <1>5 DEF Translators
  <2>1. CASE j = i
    BY <2>1, <2>0, <1>3, <1>8 DEF TranslatorInv, Holds
  <2>2. CASE j # i
    <3>1. u.items[j] = t.items[j]
      BY <2>2, <1>0, <1>5 DEF Translators
    <3>. QED BY <2>2, <3>1, <2>0 DEF TranslatorInv, Holds
  <2>. QED BY <2>1, <2>2
<1>. QED BY <1>3, <1>6, <1>8, <1>9 DEF TranslatorInv

(* A delta is heard.                                                          *)
LEMMA DeltaInv ==
  ASSUME NEW t, TranslatorInv(t), NEW kind \in Deltas, NEW i \in Index, NEW letter \in Letters,
         ~Delta(t, kind, i, letter).failed
  PROVE  /\ TranslatorInv(Delta(t, kind, i, letter)) /\ ~t.failed
         /\ Delta(t, kind, i, letter).items = t.items
<1>. DEFINE u == Delta(t, kind, i, letter)
            told_ == IF kind = "args" THEN <<>> ELSE <<Says(kind, i, <<letter>>)>>
            heard_ == [t.heard EXCEPT ![kind] =
                         [t.heard[kind] EXCEPT ![i] = Append(t.heard[kind][i], letter)]]
<1>0. t \in Translators
  BY DEF TranslatorInv
<1>1. Holds(t, i, TypeOf(kind))
  BY <1>0 DEF Delta, Fails, Translators, Known, Holds
<1>2. u = [t EXCEPT !.heard = heard_, !.says = told_]
  BY <1>0, <1>1 DEF Delta, Holds, Known, Translators
<1>3. kind \in Kinds \cup {"args"}
  BY DEF Deltas, Kinds
<1>4. Append(t.heard[kind][i], letter) \in Texts
  BY <1>0 DEF Translators, Texts
<1>5. heard_ \in [Deltas -> [Index -> Texts]]
  <2>1. t.heard \in [Deltas -> [Index -> Texts]]
    BY <1>0 DEF Translators
  <2>. QED BY <2>1, <1>4
<1>6. told_ \in Seq(Events)
  <2>1. <<letter>> \in Texts
    BY DEF Texts
  <2>2. kind \in Kinds => Says(kind, i, <<letter>>) \in Events
    BY <2>1 DEF Says, Events
  <2>3. kind \in Kinds => <<Says(kind, i, <<letter>>)>> \in Seq(Events)
    BY <2>2
  <2>. QED BY <2>3, <1>3, EmptySeq
<1>. HIDE DEF heard_, told_
<1>7. u \in Translators /\ ~t.failed
  <2>. HIDE DEF u
  <2>1. ~u.failed
    BY DEF u
  <2>. QED BY <1>0, <1>2, <1>5, <1>6, <2>1 DEF Translators
<1>8. u.items = t.items /\ u.calls = t.calls /\ u.done = t.done /\ u.heard = heard_
  <2>. HIDE DEF u
  <2>. QED BY <1>0, <1>2 DEF Translators
<1>9. ASSUME NEW j \in Index
      PROVE  /\ j \in u.calls => j \in u.done /\ Holds(u, j, "function_call")
             /\ \A k \in Kinds : u.heard[k][j] # <<>> => Holds(u, j, TypeOf(k))
  <2>. HIDE DEF u
  <2>1. \A k \in Kinds : k # kind \/ j # i => u.heard[k][j] = t.heard[k][j]
    BY <1>0, <1>8 DEF heard_, Translators, Kinds, Deltas
  <2>. QED BY <1>1, <1>8, <2>1 DEF TranslatorInv, Holds
<1>. QED BY <1>7, <1>8, <1>9 DEF TranslatorInv

(* The output of a terminal event, or of the items when that has none.        *)
LEMMA TerminalIs ==
  ASSUME NEW t, TranslatorInv(t), NEW output \in Outputs, NEW status \in Statuses,
         MayFinish(t, output, status)
  PROVE  /\ Terminal(t, output) \in Seq(KnownItems) /\ DOMAIN Terminal(t, output) \subseteq Index
<1>0. t \in Translators /\ Index = 1..MaxItems /\ MaxItems \in Nat
  BY IndexIsFinite DEF TranslatorInv
<1>1. CASE output = <<>>
  <2>1. \E n \in 0..MaxItems : Known(t) = 1..n
    <3>1. CASE Known(t) = {}
      <4>1. 0 \in 0..MaxItems /\ Known(t) = 1..0
        BY <1>0, <3>1
      <4>. QED BY <4>1
    <3>2. CASE Known(t) # {}
      <4>1. ItemsAreDone(t, status)
        BY <1>1, <3>2 DEF MayFinish
      <4>. QED BY <1>0, <4>1 DEF ItemsAreDone
    <3>. QED BY <3>1, <3>2
  <2>2. PICK n \in 0..MaxItems : Known(t) = 1..n
    BY <2>1
  <2>3. \A i \in 1..n : t.items[i] \in KnownItems
    BY <1>0, <2>2 DEF Translators, Known
  <2>4. Terminal(t, output) = [i \in 1..n |-> t.items[i]]
    BY <1>1, <2>2 DEF Terminal
  <2>. QED BY <1>0, <2>3, <2>4
<1>2. CASE output # <<>>
  <2>1. PICK n \in 0..MaxItems : output \in [1..n -> Items]
    BY DEF Outputs
  <2>2. \A i \in 1..n : output[i] \in KnownItems
    BY <2>1 DEF KnownItems
  <2>3. Terminal(t, output) = output
    BY <1>2 DEF Terminal
  <2>. QED BY <1>0, <2>1, <2>2, <2>3
<1>. QED BY <1>1, <1>2

(* What is told of a text is what comes after what was told.                  *)
LEMMA RemainderIs ==
  ASSUME NEW kind \in Kinds, NEW i \in Index, NEW whole \in Texts, NEW prior \in Texts
  PROVE  /\ Remainder(kind, i, whole, prior) \in Seq(Events)
         /\ IsPrefix(prior, whole) =>
              /\ whole = prior \o SubSeq(whole, Len(prior) + 1, Len(whole))
              /\ Len(prior) <= Len(whole)
         /\ SubSeq(whole, Len(prior) + 1, Len(whole)) \in Texts
<1>. DEFINE rest == SubSeq(whole, Len(prior) + 1, Len(whole))
<1>1. rest \in Texts
  BY DEF Texts
<1>2. Says(kind, i, rest) \in Events
  BY <1>1 DEF Says, Events
<1>3. Remainder(kind, i, whole, prior) \in Seq(Events)
  <2>. HIDE DEF rest
  <2>1. Remainder(kind, i, whole, prior) \in {<<>>, <<Says(kind, i, rest)>>}
    BY DEF Remainder, rest
  <2>2. <<Says(kind, i, rest)>> \in Seq(Events)
    BY <1>2
  <2>3. <<>> \in Seq(Events)
    BY EmptySeq
  <2>. QED BY <2>1, <2>2, <2>3, Zenon
<1>4. ASSUME IsPrefix(prior, whole) PROVE whole = prior \o rest /\ Len(prior) <= Len(whole)
  <2>1. Len(prior) \in 0..Len(whole) /\ SubSeq(prior, 1, Len(prior)) = SubSeq(whole, 1, Len(prior))
    BY <1>4 DEF IsPrefix, Texts
  <2>2. SubSeq(prior, 1, Len(prior)) = prior /\ SubSeq(whole, 1, Len(whole)) = whole
    BY SubSeqFull DEF Texts
  <2>3. SubSeq(whole, 1, Len(prior)) \o rest = SubSeq(whole, 1, Len(whole))
    <3>1. 1 \in 1..Len(whole) + 1 /\ Len(prior) \in 1 - 1..Len(whole) /\ Len(whole) \in Len(prior)..Len(whole)
      BY <2>1 DEF Texts
    <3>. QED BY <3>1, ConcatAdjacentSubSeq DEF Texts
  <2>4. prior = SubSeq(whole, 1, Len(prior))
    BY <2>1, <2>2, Zenon
  <2>5. prior \o rest = whole
    <3>. HIDE DEF rest
    <3>. QED BY <2>2, <2>3, <2>4, Zenon
  <2>. QED BY <2>1, <2>5
<1>. QED BY <1>1, <1>3, <1>4

LEMMA AddsIsTyped ==
  ASSUME NEW t, TranslatorInv(t), NEW i \in Index, NEW item \in KnownItems
  PROVE  Adds(t, i, item) \in Seq(Events)
<1>0. t.heard \in [Deltas -> [Index -> Texts]] /\ {"text", "refusal", "summary"} \subseteq Deltas
  BY DEF TranslatorInv, Translators, Deltas
<1>1. WellFormed(item) /\ item.type \in {"message", "function_call", "reasoning"}
  BY KnownAreWellFormed
<1>5. /\ "text" \in Kinds /\ "refusal" \in Kinds /\ "summary" \in Kinds
      /\ t.heard["text"][i] \in Texts /\ t.heard["refusal"][i] \in Texts /\ t.heard["summary"][i] \in Texts
  <2>1. t.heard["text"] \in [Index -> Texts] /\ t.heard["refusal"] \in [Index -> Texts]
        /\ t.heard["summary"] \in [Index -> Texts]
    BY <1>0
  <2>2. "text" \in Kinds /\ "refusal" \in Kinds /\ "summary" \in Kinds
    BY DEF Kinds
  <2>. QED BY <2>1, <2>2
<1>2. CASE item.type = "message"
  <2>1. item.text \in Texts /\ item.refusal \in Texts
    BY <1>1, <1>2 DEF WellFormed, Texts
  <2>2. Remainder("text", i, item.text, t.heard["text"][i]) \in Seq(Events)
    BY <1>5, <2>1, RemainderIs, Zenon
  <2>3. Remainder("refusal", i, item.refusal, t.heard["refusal"][i]) \in Seq(Events)
    BY <1>5, <2>1, RemainderIs, Zenon
  <2>4. Adds(t, i, item) = Remainder("text", i, item.text, t.heard["text"][i])
                             \o Remainder("refusal", i, item.refusal, t.heard["refusal"][i])
    BY <1>2 DEF Adds
  <2>. QED BY <2>2, <2>3, <2>4
<1>3. CASE item.type = "function_call"
  <2>1. Says("call", i, [call |-> item.call, args |-> item.args]) \in Events
    BY <1>3 DEF Says, Events, CallBlocks
  <2>2. Adds(t, i, item) = TellsCall(t, i, item)
    BY <1>3 DEF Adds
  <2>. QED BY <2>1, <2>2 DEF TellsCall
<1>4. CASE item.type = "reasoning"
  <2>1. item.summary \in Texts
    BY <1>1, <1>4 DEF WellFormed, Texts
  <2>2. Remainder("summary", i, item.summary, t.heard["summary"][i]) \in Seq(Events)
    BY <1>5, <2>1, RemainderIs, Zenon
  <2>3. Adds(t, i, item) = Remainder("summary", i, item.summary, t.heard["summary"][i])
    BY <1>4 DEF Adds
  <2>. QED BY <2>2, <2>3
<1>. QED BY <1>1, <1>2, <1>3, <1>4

(* The terminal event.                                                        *)
LEMMA FinishIs ==
  ASSUME NEW t, TranslatorInv(t), ~t.failed, NEW output \in Outputs, NEW status \in Statuses,
         ~Finish(t, output, status).failed
  PROVE  LET u == Finish(t, output, status)
             out == Terminal(t, output)
         IN /\ MayFinish(t, output, status)
            /\ u \in Translators /\ u.finished
            /\ u.items = t.items /\ u.output = [i \in DOMAIN out |-> WithCipher(out[i], t.items[i])]
            /\ u.reason = StopReason(out, status)
            /\ u.says = FlattenSeq([i \in DOMAIN out |-> Adds(t, i, out[i])])
            /\ out \in Seq(KnownItems) /\ DOMAIN out \subseteq Index
            /\ [i \in DOMAIN out |-> Adds(t, i, out[i])] \in Seq(Seq(Events))
<1>. DEFINE u == Finish(t, output, status)
            out == Terminal(t, output)
            final == [i \in DOMAIN out |-> WithCipher(out[i], t.items[i])]
            added == [i \in DOMAIN out |-> Adds(t, i, out[i])]
            calls == {i \in DOMAIN out : out[i].type = "function_call"}
            Q == Seq(Events)
<1>0. t \in Translators
  BY DEF TranslatorInv
<1>1. MayFinish(t, output, status)
  <2>1. ~MayFinish(t, output, status) => u.failed
    BY <1>0 DEF Finish, Fails, Translators
  <2>. QED BY <2>1
<1>2. out \in Seq(KnownItems) /\ DOMAIN out \subseteq Index
  BY <1>1, TerminalIs
<1>3. u = [t EXCEPT !.output = final, !.calls = calls, !.finished = TRUE,
                    !.cacheable = (status = "completed"), !.reason = StopReason(out, status),
                    !.says = FlattenSeq(added)]
  BY <1>1 DEF Finish
<1>. HIDE DEF out
<1>4. final \in Seq(KnownItems)
  <2>1. \A i \in DOMAIN out : WithCipher(out[i], t.items[i]) \in KnownItems
    <3>1. \A i \in DOMAIN out : out[i] \in KnownItems /\ t.items[i] \in KnownItems \cup {NoItem}
      BY <1>0, <1>2 DEF Translators
    <3>. QED BY <3>1, WithCipherIs
  <2>. QED BY <1>2, <2>1
<1>5. added \in Seq(Q)
  <2>1. \A i \in DOMAIN out : Adds(t, i, out[i]) \in Q
    <3>1. \A i \in DOMAIN out : out[i] \in KnownItems /\ i \in Index
      BY <1>2
    <3>. QED BY <3>1, AddsIsTyped
  <2>. HIDE DEF Q
  <2>. QED BY <1>2, <2>1
<1>6. FlattenSeq(added) \in Seq(Events)
  <2>. HIDE DEF added
  <2>. QED BY <1>5, FlattenIsSeq
<1>7. calls \subseteq Index /\ StopReason(out, status) \in Reasons
  BY <1>2 DEF StopReason, Reasons
<1>. HIDE DEF final, added, calls, Q, u
<1>8. u \in Translators
  BY <1>0, <1>3, <1>4, <1>6, <1>7 DEF Translators
<1>9. u.finished /\ u.items = t.items /\ u.output = final /\ u.reason = StopReason(out, status)
      /\ u.says = FlattenSeq(added)
  BY <1>0, <1>3 DEF Translators
<1>. QED BY <1>1, <1>2, <1>5, <1>8, <1>9 DEF out, u, final, added, Q

-----------------------------------------------------------------------------
(* What the client was told, item by item.                                    *)
LEMMA JoinByOne ==
  ASSUME NEW E, NEW X, NEW g \in [E -> Seq(X)], NEW e \in E
  PROVE  JoinBy(g, <<e>>) = g[e]
<1>1. <<>> \in Seq(E) /\ g[e] \in Seq(X)
  BY EmptySeq
<1>2. JoinBy(g, Append(<<>>, e)) = JoinBy(g, <<>>) \o g[e]
  BY <1>1, JoinByAppend, Zenon
<1>3. <<>> \o g[e] = g[e]
  BY <1>1, ConcatEmptySeq, Zenon
<1>4. Append(<<>>, e) = <<e>>
  OBVIOUS
<1>. QED BY <1>2, <1>3, <1>4, JoinByEmpty, Zenon

(* Of pieces all but one of which come to nothing.                            *)
LEMMA JoinByPieces ==
  ASSUME NEW E, NEW X, NEW g \in [E -> Seq(X)], NEW i \in Nat, NEW p \in Seq(Seq(E)),
         \A j \in DOMAIN p : j # i => JoinBy(g, p[j]) = <<>>
  PROVE  /\ i \in DOMAIN p => JoinBy(g, FlattenSeq(p)) = JoinBy(g, p[i])
         /\ i \notin DOMAIN p => JoinBy(g, FlattenSeq(p)) = <<>>
<1>. DEFINE Q == Seq(E)
            Quiet(q) == \A j \in DOMAIN q : j # i => JoinBy(g, q[j]) = <<>>
            Is(q) == /\ i \in DOMAIN q => JoinBy(g, FlattenSeq(q)) = JoinBy(g, q[i])
                     /\ i \notin DOMAIN q => JoinBy(g, FlattenSeq(q)) = <<>>
            T == {q \in Seq(Q) : Quiet(q) => Is(q)}
<1>1. <<>> \in T
  <2>1. <<>> \in Seq(Q) /\ DOMAIN <<>> = {}
    OBVIOUS
  <2>2. Is(<<>>)
    BY <2>1, FlattenEmpty, JoinByEmpty
  <2>. QED BY <2>1, <2>2
<1>2. ASSUME NEW q \in Seq(Q), q \in T, NEW x \in Q PROVE Append(q, x) \in T
  <2>. DEFINE w == Append(q, x)
  <2>0. w \in Seq(Q) /\ DOMAIN w = 1..Len(q) + 1 /\ w[Len(q) + 1] = x
        /\ DOMAIN q = 1..Len(q) /\ \A j \in 1..Len(q) : w[j] = q[j]
    <3>. HIDE DEF Q
    <3>. QED OBVIOUS
  <2>1. FlattenSeq(w) = FlattenSeq(q) \o x /\ FlattenSeq(q) \in Seq(E)
    BY FlattenOne, FlattenIsSeq, Zenon
  <2>2. JoinBy(g, FlattenSeq(w)) = JoinBy(g, FlattenSeq(q)) \o JoinBy(g, x)
    <3>1. FlattenSeq(q) \in Seq(E) /\ x \in Seq(E)
      BY <2>1
    <3>2. JoinBy(g, FlattenSeq(q) \o x) = JoinBy(g, FlattenSeq(q)) \o JoinBy(g, x)
      <4>1. Splits(g, E)
        BY JoinByJoins, Zenon
      <4>. QED BY <3>1, <4>1 DEF Splits
    <3>. QED BY <2>1, <3>2, Zenon
  <2>3. JoinBy(g, x) \in Seq(X) /\ JoinBy(g, FlattenSeq(q)) \in Seq(X)
    BY <2>1, JoinByIsSeq, Zenon
  <2>. HIDE DEF w, Q
  <2>4. SUFFICES ASSUME Quiet(w) PROVE Is(w)
    BY <2>0 DEF w
  <2>5. Quiet(q)
    BY <2>0, <2>4
  <2>6. Is(q)
    BY <1>2, <2>5
  <2>7. CASE i = Len(q) + 1
    <3>1. i \notin DOMAIN q /\ i \in DOMAIN w /\ w[i] = x
      BY <2>0, <2>7
    <3>2. <<>> \o JoinBy(g, x) = JoinBy(g, x)
      BY <2>3, ConcatEmptySeq, Zenon
    <3>. QED BY <2>2, <2>6, <3>1, <3>2, Zenon
  <2>8. CASE i # Len(q) + 1
    <3>1. (i \in DOMAIN q <=> i \in DOMAIN w) /\ (i \in DOMAIN q => w[i] = q[i])
      BY <2>0, <2>8
    <3>2. JoinBy(g, x) = <<>>
      <4>1. Len(q) + 1 \in DOMAIN w
        BY <2>0
      <4>. QED BY <4>1, <2>0, <2>4, <2>8
    <3>3. JoinBy(g, FlattenSeq(q)) \o <<>> = JoinBy(g, FlattenSeq(q))
      BY <2>3, ConcatEmptySeq, Zenon
    <3>. QED BY <2>2, <2>6, <3>1, <3>2, <3>3, Zenon
  <2>. QED BY <2>7, <2>8
<1>3. Seq(Q) \subseteq T
  <2>. HIDE DEF T, Q
  <2>. QED BY <1>1, <1>2, SequenceInduction
<1>. QED BY <1>3

(* What an event adds to the text of an item, or to its calls.                *)
TextBy(kind, i) ==
  [e \in Events |-> IF e.kind = kind /\ e.index = i THEN e.what ELSE <<>>]
CallBy(i) == [e \in Events |-> IF e.kind = "call" /\ e.index = i THEN <<e.what>> ELSE <<>>]
Block(item) == [call |-> item.call, args |-> item.args]
CallsSoFar(t, i) == IF i \in t.calls THEN <<Block(t.items[i])>> ELSE <<>>

(* What was said so far are the deltas, and the calls that are done.          *)
SaidIs(t, said) ==
  \A i \in Index :
    /\ \A kind \in Kinds : JoinBy(TextBy(kind, i), said) = t.heard[kind][i]
    /\ JoinBy(CallBy(i), said) = CallsSoFar(t, i)

(* The parts of an event.                                                     *)
LEMMA EventParts ==
  ASSUME NEW e \in Events
  PROVE  /\ e.kind \in Kinds \cup {"call"} /\ e.index \in Index
         /\ e.kind = "call" => e.what \in CallBlocks
         /\ e.kind \in Kinds => e.what \in Texts
BY DEF Events, Kinds

LEMMA TextByIs ==
  ASSUME NEW kind \in Kinds, NEW i
  PROVE  TextBy(kind, i) \in [Events -> Seq(Letters)]
<1>1. <<>> \in Texts
  BY EmptySeq DEF Texts
<1>2. ASSUME NEW e \in Events
      PROVE  (IF e.kind = kind /\ e.index = i THEN e.what ELSE <<>>) \in Texts
  BY <1>1, EventParts
<1>. QED BY <1>2 DEF TextBy, Texts

LEMMA CallByIs ==
  ASSUME NEW i
  PROVE  CallBy(i) \in [Events -> Seq(CallBlocks)]
<1>1. <<>> \in Seq(CallBlocks)
  BY EmptySeq
<1>2. ASSUME NEW e \in Events
      PROVE  (IF e.kind = "call" /\ e.index = i THEN <<e.what>> ELSE <<>>) \in Seq(CallBlocks)
  <2>1. e.kind = "call" => <<e.what>> \in Seq(CallBlocks)
    BY EventParts
  <2>. QED BY <1>1, <2>1
<1>. QED BY <1>2 DEF CallBy

LEMMA TextOfOne ==
  ASSUME NEW kind \in Kinds, NEW i, NEW e \in Events
  PROVE  JoinBy(TextBy(kind, i), <<e>>) = IF e.kind = kind /\ e.index = i THEN e.what ELSE <<>>
<1>1. JoinBy(TextBy(kind, i), <<e>>) = TextBy(kind, i)[e]
  BY TextByIs, JoinByOne, Zenon
<1>. QED BY <1>1, Zenon DEF TextBy

LEMMA CallOfOne ==
  ASSUME NEW i, NEW e \in Events
  PROVE  JoinBy(CallBy(i), <<e>>) = IF e.kind = "call" /\ e.index = i THEN <<e.what>> ELSE <<>>
<1>1. JoinBy(CallBy(i), <<e>>) = CallBy(i)[e]
  BY CallByIs, JoinByOne, Zenon
<1>. QED BY <1>1, Zenon DEF CallBy

(* What is said in turn is said together.                                     *)
LEMMA SaidJoins ==
  ASSUME NEW i, NEW s \in Seq(Events), NEW u \in Seq(Events)
  PROVE  /\ \A kind \in Kinds :
              JoinBy(TextBy(kind, i), s \o u) = JoinBy(TextBy(kind, i), s) \o JoinBy(TextBy(kind, i), u)
         /\ JoinBy(CallBy(i), s \o u) = JoinBy(CallBy(i), s) \o JoinBy(CallBy(i), u)
<1>1. ASSUME NEW kind \in Kinds
      PROVE  JoinBy(TextBy(kind, i), s \o u) = JoinBy(TextBy(kind, i), s) \o JoinBy(TextBy(kind, i), u)
  <2>1. Splits(TextBy(kind, i), Events)
    BY TextByIs, JoinByJoins, Zenon
  <2>. QED BY <2>1 DEF Splits
<1>2. Splits(CallBy(i), Events)
  BY CallByIs, JoinByJoins, Zenon
<1>. QED BY <1>1, <1>2 DEF Splits

(* Nothing said, or one event.                                                *)
LEMMA SaidNothing ==
  ASSUME NEW said \in Seq(Events), NEW t, SaidIs(t, said), NEW u,
         u.heard = t.heard, \A i \in Index : CallsSoFar(u, i) = CallsSoFar(t, i)
  PROVE  SaidIs(u, said \o <<>>)
<1>1. said \o <<>> = said
  BY ConcatEmptySeq, Zenon
<1>. QED BY <1>1, Zenon DEF SaidIs

LEMMA SaidOne ==
  ASSUME NEW said \in Seq(Events), NEW t, SaidIs(t, said), NEW u, NEW e \in Events,
         \A i \in Index, kind \in Kinds :
           u.heard[kind][i] = IF e.kind = kind /\ e.index = i THEN t.heard[kind][i] \o e.what
                              ELSE t.heard[kind][i],
         \A kind \in Kinds : t.heard[kind] \in [Index -> Texts],
         \A i \in Index :
           CallsSoFar(u, i) = IF e.kind = "call" /\ e.index = i THEN <<e.what>> ELSE CallsSoFar(t, i),
         e.kind = "call" => CallsSoFar(t, e.index) = <<>>
  PROVE  SaidIs(u, said \o <<e>>)
<1>0. <<e>> \in Seq(Events)
  OBVIOUS
<1>1. ASSUME NEW i \in Index, NEW kind \in Kinds
      PROVE  JoinBy(TextBy(kind, i), said \o <<e>>) = u.heard[kind][i]
  <2>1. JoinBy(TextBy(kind, i), said \o <<e>>)
          = JoinBy(TextBy(kind, i), said) \o JoinBy(TextBy(kind, i), <<e>>)
    BY <1>0, SaidJoins
  <2>2. JoinBy(TextBy(kind, i), said) = t.heard[kind][i]
    BY DEF SaidIs
  <2>3. t.heard[kind][i] \o <<>> = t.heard[kind][i]
    <3>1. t.heard[kind][i] \in Texts
      OBVIOUS
    <3>. QED BY <3>1, ConcatEmptySeq, Zenon DEF Texts
  <2>4. CASE e.kind = kind /\ e.index = i
    BY <2>1, <2>2, <2>4, TextOfOne, Zenon
  <2>5. CASE ~(e.kind = kind /\ e.index = i)
    <3>1. JoinBy(TextBy(kind, i), <<e>>) = <<>>
      <4>1. JoinBy(TextBy(kind, i), <<e>>) = IF e.kind = kind /\ e.index = i THEN e.what ELSE <<>>
        BY TextOfOne
      <4>. QED BY <2>5, <4>1, Zenon
    <3>2. u.heard[kind][i] = t.heard[kind][i]
      BY <2>5, Zenon
    <3>. QED BY <2>1, <2>2, <2>3, <3>1, <3>2, Zenon
  <2>. QED BY <2>4, <2>5
<1>2. ASSUME NEW i \in Index
      PROVE  JoinBy(CallBy(i), said \o <<e>>) = CallsSoFar(u, i)
  <2>1. JoinBy(CallBy(i), said \o <<e>>) = JoinBy(CallBy(i), said) \o JoinBy(CallBy(i), <<e>>)
    BY <1>0, SaidJoins
  <2>2. JoinBy(CallBy(i), said) = CallsSoFar(t, i) /\ JoinBy(CallBy(i), said) \in Seq(CallBlocks)
    BY CallByIs, JoinByIsSeq, Zenon DEF SaidIs
  <2>4. CASE e.kind = "call" /\ e.index = i
    <3>1. <<>> \o <<e.what>> = <<e.what>>
      OBVIOUS
    <3>. QED BY <2>1, <2>2, <2>4, <3>1, CallOfOne, Zenon
  <2>5. CASE ~(e.kind = "call" /\ e.index = i)
    <3>1. CallsSoFar(t, i) \o <<>> = CallsSoFar(t, i)
      BY <2>2, ConcatEmptySeq, Zenon
    <3>. QED BY <2>1, <2>2, <2>5, <3>1, CallOfOne, Zenon
  <2>. QED BY <2>4, <2>5
<1>. QED BY <1>1, <1>2 DEF SaidIs

-----------------------------------------------------------------------------
(* Each event before the terminal one adds what it says, and no more.         *)
LEMMA SaidAdded ==
  ASSUME NEW t, TranslatorInv(t), NEW i \in Index, NEW item \in Items, ~Added(t, i, item).failed,
         NEW said \in Seq(Events), SaidIs(t, said)
  PROVE  SaidIs(Added(t, i, item), said \o Added(t, i, item).says)
<1>. DEFINE u == Added(t, i, item)
<1>1. i \notin Known(t) /\ t.items[i] = NoItem
  BY DEF Added, Fails, Known, TranslatorInv, Translators
<1>2. u = [t EXCEPT !.items[i] = item, !.says = <<>>]
  BY <1>1 DEF Added
<1>3. i \notin t.calls
  BY <1>1 DEF TranslatorInv, Holds
<1>. HIDE DEF u
<1>4. u.says = <<>> /\ u.heard = t.heard /\ u.calls = t.calls
      /\ \A j \in Index : j # i => u.items[j] = t.items[j]
  BY <1>2 DEF TranslatorInv, Translators
<1>5. \A j \in Index : CallsSoFar(u, j) = CallsSoFar(t, j)
  BY <1>3, <1>4 DEF CallsSoFar
<1>. QED BY <1>4, <1>5, SaidNothing DEF u

LEMMA SaidDone ==
  ASSUME NEW t, TranslatorInv(t), NEW i \in Index, NEW item \in Items, ~Done(t, i, item).failed,
         item.type = "function_call" => i \notin t.done,
         NEW said \in Seq(Events), SaidIs(t, said)
  PROVE  SaidIs(Done(t, i, item), said \o Done(t, i, item).says)
<1>. DEFINE u == Done(t, i, item)
            e == Says("call", i, Block(item))
<1>0. t \in Translators /\ item \in KnownItems
  BY DEF TranslatorInv, KnownItems
<1>1. MayBeDone(t, i, item)
  BY <1>0 DEF Done, Fails, Translators
<1>2. u = [t EXCEPT !.items = [@ EXCEPT ![i] = WithCipher(item, t.items[i])], !.done = @ \cup {i},
                    !.calls = IF item.type = "function_call" THEN @ \cup {i} ELSE @,
                    !.says = IF item.type = "function_call" THEN TellsCall(t, i, item) ELSE <<>>]
  BY <1>0, <1>1 DEF Done, Translators
<1>3. /\ u.heard = t.heard
      /\ u.calls = IF item.type = "function_call" THEN t.calls \cup {i} ELSE t.calls
      /\ u.says = IF item.type = "function_call" THEN TellsCall(t, i, item) ELSE <<>>
      /\ u.items[i] = WithCipher(item, t.items[i])
      /\ \A j \in Index : j # i => u.items[j] = t.items[j]
  <2>. HIDE DEF u
  <2>. QED BY <1>0, <1>2 DEF Translators
<1>4. t.items[i] # NoItem => t.items[i].type = item.type
  BY <1>0, <1>1 DEF MayBeDone, SameItem, Known, Translators
<1>5. t.items[i] \in KnownItems \cup {NoItem}
  BY <1>0 DEF Translators
<1>. HIDE DEF u
<1>6. CASE item.type = "function_call"
  <2>1. i \notin t.calls
    BY <1>6 DEF TranslatorInv
  <2>2. u.says = <<e>> /\ u.calls = t.calls \cup {i} /\ u.items[i] = item
    <3>1. WithCipher(item, t.items[i]) = item
      BY <1>0, <1>5, <1>6, WithCipherIs
    <3>. QED BY <1>3, <1>6, <2>1, <3>1 DEF TellsCall, Block
  <2>3. e \in Events /\ e.kind = "call" /\ e.index = i /\ e.what = Block(item)
    BY <1>0, <1>6 DEF Says, Events, CallBlocks, Block
  <2>. HIDE DEF e
  <2>4. \A j \in Index :
          CallsSoFar(u, j) = IF e.kind = "call" /\ e.index = j THEN <<e.what>> ELSE CallsSoFar(t, j)
    BY <1>3, <2>1, <2>2, <2>3 DEF CallsSoFar
  <2>5. CallsSoFar(t, e.index) = <<>>
    BY <2>1, <2>3 DEF CallsSoFar
  <2>6. \A j \in Index, kind \in Kinds :
          u.heard[kind][j] = IF e.kind = kind /\ e.index = j THEN t.heard[kind][j] \o e.what
                             ELSE t.heard[kind][j]
    <3>1. \A kind \in Kinds : e.kind # kind
      BY <2>3 DEF Kinds
    <3>. QED BY <1>3, <3>1, Zenon
  <2>7. \A kind \in Kinds : t.heard[kind] \in [Index -> Texts]
    BY <1>0 DEF Translators, Kinds, Deltas
  <2>8. SaidIs(u, said \o <<e>>)
    BY <2>3, <2>4, <2>5, <2>6, <2>7, SaidOne, Zenon
  <2>. QED BY <2>2, <2>8, Zenon DEF u
<1>7. CASE item.type # "function_call"
  <2>1. i \notin t.calls
    BY <1>4, <1>7 DEF TranslatorInv, Holds
  <2>2. u.says = <<>> /\ u.heard = t.heard /\ u.calls = t.calls
    BY <1>3, <1>7
  <2>3. \A j \in Index : CallsSoFar(u, j) = CallsSoFar(t, j)
    BY <1>3, <2>1, <2>2 DEF CallsSoFar
  <2>. QED BY <2>2, <2>3, SaidNothing DEF u
<1>. QED BY <1>6, <1>7

LEMMA SaidDelta ==
  ASSUME NEW t, TranslatorInv(t), NEW kind \in Deltas, NEW i \in Index, NEW letter \in Letters,
         ~Delta(t, kind, i, letter).failed, NEW said \in Seq(Events), SaidIs(t, said)
  PROVE  SaidIs(Delta(t, kind, i, letter), said \o Delta(t, kind, i, letter).says)
<1>. DEFINE u == Delta(t, kind, i, letter)
            told_ == IF kind = "args" THEN <<>> ELSE <<Says(kind, i, <<letter>>)>>
            heard_ == [t.heard EXCEPT ![kind] =
                         [t.heard[kind] EXCEPT ![i] = Append(t.heard[kind][i], letter)]]
<1>0. t \in Translators
  BY DEF TranslatorInv
<1>1. i \in Known(t) /\ t.items[i].type = TypeOf(kind)
  BY <1>0 DEF Delta, Fails, Translators
<1>2. u = [t EXCEPT !.heard = heard_, !.says = told_]
  BY <1>0, <1>1 DEF Delta, Translators
<1>3. kind \in Kinds \cup {"args"}
  BY DEF Deltas, Kinds
<1>4. Append(t.heard[kind][i], letter) \in Texts /\ t.heard \in [Deltas -> [Index -> Texts]]
  BY <1>0 DEF Translators, Texts
<1>5. /\ \A k \in Deltas, j \in Index :
           heard_[k][j] = IF k = kind /\ j = i THEN Append(t.heard[k][j], letter) ELSE t.heard[k][j]
  BY <1>4
<1>. HIDE DEF u, heard_, told_
<1>6. u.says = told_ /\ u.heard = heard_ /\ u.calls = t.calls /\ u.items = t.items
  BY <1>0, <1>2 DEF Translators
<1>7. \A j \in Index : CallsSoFar(u, j) = CallsSoFar(t, j)
  BY <1>6, Zenon DEF CallsSoFar
<1>8. Kinds \subseteq Deltas
  BY DEF Kinds, Deltas
<1>9. CASE kind \in Kinds
  <2>. DEFINE e == Says(kind, i, <<letter>>)
  <2>1. told_ = <<e>>
    BY <1>9 DEF told_, Kinds
  <2>2. e \in Events /\ e.kind = kind /\ e.index = i /\ e.what = <<letter>> /\ e.kind # "call"
    <3>1. <<letter>> \in Texts
      BY DEF Texts
    <3>. QED BY <1>9, <3>1 DEF Says, Events, Kinds
  <2>. HIDE DEF e
  <2>3. \A j \in Index, k \in Kinds :
          u.heard[k][j] = IF e.kind = k /\ e.index = j THEN t.heard[k][j] \o e.what
                          ELSE t.heard[k][j]
    <3>. SUFFICES ASSUME NEW j \in Index, NEW k \in Kinds
                  PROVE  u.heard[k][j] = IF e.kind = k /\ e.index = j THEN t.heard[k][j] \o e.what
                                         ELSE t.heard[k][j]
      OBVIOUS
    <3>1. CASE k = kind /\ j = i
      <4>1. t.heard[k][j] \in Seq(Letters)
        BY <1>4, <1>8 DEF Texts
      <4>2. \A s \in Seq(Letters) : Append(s, letter) = s \o <<letter>>
        OBVIOUS
      <4>3. u.heard[k][j] = Append(t.heard[k][j], letter)
        BY <1>5, <1>6, <1>8, <3>1
      <4>. QED BY <2>2, <3>1, <4>1, <4>2, <4>3, Zenon
    <3>2. CASE ~(k = kind /\ j = i)
      <4>1. u.heard[k][j] = t.heard[k][j]
        BY <1>5, <1>6, <1>8, <3>2
      <4>. QED BY <2>2, <3>2, <4>1, Zenon
    <3>. QED BY <3>1, <3>2
  <2>4. \A k \in Kinds : t.heard[k] \in [Index -> Texts]
    BY <1>4, <1>8
  <2>5. \A j \in Index :
          CallsSoFar(u, j) = IF e.kind = "call" /\ e.index = j THEN <<e.what>> ELSE CallsSoFar(t, j)
    BY <1>7, <2>2, Zenon
  <2>6. e.kind = "call" => CallsSoFar(t, e.index) = <<>>
    BY <2>2
  <2>7. e \in Events
    BY <2>2
  <2>8. SaidIs(u, said \o <<e>>)
    BY <2>3, <2>4, <2>5, <2>6, <2>7, SaidOne, Zenon
  <2>. QED BY <1>6, <2>1, <2>8, Zenon DEF u
<1>10. CASE kind = "args"
  <2>1. told_ = <<>>
    BY <1>10 DEF told_
  <2>2. \A k \in Kinds, j \in Index : u.heard[k][j] = t.heard[k][j]
    <3>1. \A k \in Kinds : k # kind /\ k \in Deltas
      BY <1>8, <1>10 DEF Kinds
    <3>. QED BY <1>5, <1>6, <3>1
  <2>3. SaidIs(u, said)
    BY <1>7, <2>2, Zenon DEF SaidIs
  <2>4. said \o <<>> = said
    BY ConcatEmptySeq, Zenon
  <2>. QED BY <1>6, <2>1, <2>3, <2>4, Zenon DEF u
<1>. QED BY <1>3, <1>9, <1>10

-----------------------------------------------------------------------------
(* What the terminal event adds of an item is what has not been told of it.   *)
(* What is to be told of an item in the end, and what of it is left to tell.  *)
Whole(kind, item) ==
  IF kind = "text" /\ item.type = "message" THEN item.text
  ELSE IF kind = "refusal" /\ item.type = "message" THEN item.refusal
  ELSE IF kind = "summary" /\ item.type = "reasoning" THEN item.summary
  ELSE <<>>
CallsIn(item) == IF item.type = "function_call" THEN <<Block(item)>> ELSE <<>>
Rest(whole, prior) == SubSeq(whole, Len(prior) + 1, Len(whole))

(* Events that tell one text of one item.                                     *)
SaysOnly(said, kind, i, text) ==
  /\ said \in Seq(Events)
  /\ \A k \in Kinds, j \in Index :
       JoinBy(TextBy(k, j), said) = IF k = kind /\ j = i THEN text ELSE <<>>
  /\ \A j \in Index : JoinBy(CallBy(j), said) = <<>>

(* The remainder of a text is all that is said with it.                       *)
LEMMA RemainderSays ==
  ASSUME NEW kind \in Kinds, NEW i \in Index, NEW whole \in Texts, NEW prior \in Texts
  PROVE  SaysOnly(Remainder(kind, i, whole, prior), kind, i, Rest(whole, prior))
<1>. DEFINE rest == Rest(whole, prior)
            e == Says(kind, i, rest)
<1>1. Remainder(kind, i, whole, prior) = IF rest = <<>> THEN <<>> ELSE <<e>>
  BY DEF Remainder, Rest
<1>2. rest \in Texts
  BY RemainderIs DEF Rest
<1>3. e \in Events /\ e.kind = kind /\ e.index = i /\ e.what = rest /\ e.kind # "call"
  BY <1>2 DEF Says, Events, Kinds
<1>. HIDE DEF rest, e
<1>4. CASE rest = <<>>
  <2>1. Remainder(kind, i, whole, prior) = <<>>
    BY <1>1, <1>4, Zenon
  <2>. QED BY <1>4, <2>1, RemainderIs, JoinByEmpty, Zenon DEF SaysOnly, rest
<1>5. CASE rest # <<>>
  <2>1. Remainder(kind, i, whole, prior) = <<e>>
    BY <1>1, <1>5, Zenon
  <2>2. \A k \in Kinds, j \in Index :
          JoinBy(TextBy(k, j), <<e>>) = IF k = kind /\ j = i THEN rest ELSE <<>>
    <3>. SUFFICES ASSUME NEW k \in Kinds, NEW j \in Index
                  PROVE  JoinBy(TextBy(k, j), <<e>>) = IF k = kind /\ j = i THEN rest ELSE <<>>
      OBVIOUS
    <3>1. JoinBy(TextBy(k, j), <<e>>) = IF e.kind = k /\ e.index = j THEN e.what ELSE <<>>
      BY <1>3, TextOfOne
    <3>. QED BY <1>3, <3>1, Zenon
  <2>3. \A j \in Index : JoinBy(CallBy(j), <<e>>) = <<>>
    <3>. SUFFICES ASSUME NEW j \in Index PROVE JoinBy(CallBy(j), <<e>>) = <<>>
      OBVIOUS
    <3>1. JoinBy(CallBy(j), <<e>>) = IF e.kind = "call" /\ e.index = j THEN <<e.what>> ELSE <<>>
      BY <1>3, CallOfOne
    <3>. QED BY <1>3, <3>1, Zenon
  <2>. QED BY <2>1, <2>2, <2>3, RemainderIs, Zenon DEF SaysOnly, rest
<1>. QED BY <1>4, <1>5

LEMMA NothingAdded ==
  ASSUME NEW a, a \in Texts PROVE a \o <<>> = a /\ <<>> \o a = a
BY ConcatEmptySeq, Zenon DEF Texts

(* A text is what was told of it, and the rest.                               *)
LEMMA TextAdded ==
  ASSUME NEW whole \in Texts, NEW prior \in Texts, IsPrefix(prior, whole)
  PROVE  prior \o Rest(whole, prior) = whole
<1>1. "text" \in Kinds /\ (Index # {} => \E i : i \in Index)
  BY DEF Kinds
<1>2. Len(prior) \in 0..Len(whole) /\ SubSeq(prior, 1, Len(prior)) = SubSeq(whole, 1, Len(prior))
  BY DEF IsPrefix, Texts
<1>3. SubSeq(prior, 1, Len(prior)) = prior /\ SubSeq(whole, 1, Len(whole)) = whole
  BY SubSeqFull DEF Texts
<1>4. SubSeq(whole, 1, Len(prior)) \o Rest(whole, prior) = SubSeq(whole, 1, Len(whole))
  <2>1. 1 \in 1..Len(whole) + 1 /\ Len(prior) \in 1 - 1..Len(whole) /\ Len(whole) \in Len(prior)..Len(whole)
    BY <1>2 DEF Texts
  <2>. QED BY <2>1, ConcatAdjacentSubSeq DEF Texts, Rest
<1>5. prior = SubSeq(whole, 1, Len(prior))
  BY <1>2, <1>3, Zenon
<1>. QED BY <1>3, <1>4, <1>5, Zenon

(* What is not known yet was not told; what is known has the type of the item.*)
LEMMA HeardBefore ==
  ASSUME NEW t, TranslatorInv(t), NEW i \in Index, NEW item, i \in Known(t) => t.items[i].type = item.type
  PROVE  /\ \A kind \in Kinds : TypeOf(kind) # item.type => t.heard[kind][i] = <<>>
         /\ item.type # "function_call" => i \notin t.calls
BY DEF TranslatorInv, Holds, Known

LEMMA TypesOfKinds ==
  TypeOf("text") = "message" /\ TypeOf("refusal") = "message" /\ TypeOf("summary") = "reasoning"
BY DEF TypeOf

(* What the terminal event adds of an item completes what was told of it.     *)
AddsAre(t, i, item) ==
  LET a == Adds(t, i, item)
  IN /\ a \in Seq(Events)
     /\ \A kind \in Kinds : t.heard[kind][i] \o JoinBy(TextBy(kind, i), a) = Whole(kind, item)
     /\ CallsSoFar(t, i) \o JoinBy(CallBy(i), a) = CallsIn(item)
     /\ \A j \in Index : j # i =>
          (\A kind \in Kinds : JoinBy(TextBy(kind, j), a) = <<>>) /\ JoinBy(CallBy(j), a) = <<>>

(* So is what the terminal event adds of each item.                           *)
LEMMA AddsSays ==
  ASSUME NEW t, TranslatorInv(t), NEW i \in Index, NEW item \in KnownItems, Agrees(t, i, item)
  PROVE  AddsAre(t, i, item)
<1>. DEFINE a == Adds(t, i, item)
<1>0. t.heard \in [Deltas -> [Index -> Texts]] /\ Kinds \subseteq Deltas
      /\ Kinds = {"text", "refusal", "summary"}
      /\ "text" \in Kinds /\ "refusal" \in Kinds /\ "summary" \in Kinds
  BY DEF TranslatorInv, Translators, Deltas, Kinds
<1>1. WellFormed(item) /\ item.type \in {"message", "function_call", "reasoning"}
  BY KnownAreWellFormed
<1>2. i \in Known(t) => t.items[i].type = item.type
  BY DEF Agrees
<1>3. /\ \A kind \in Kinds : TypeOf(kind) # item.type => t.heard[kind][i] = <<>>
      /\ item.type # "function_call" => i \notin t.calls
  BY <1>2, HeardBefore, Zenon
<1>4. <<>> \o <<>> = <<>> /\ <<>> \in Texts
  BY EmptySeq, NothingAdded, Zenon DEF Texts
<1>5. a \in Seq(Events)
  BY AddsIsTyped
<1>6. CASE item.type = "message"
  <2>. DEFINE x == t.heard["text"][i]
              y == t.heard["refusal"][i]
              p == Remainder("text", i, item.text, x)
              q == Remainder("refusal", i, item.refusal, y)
  <2>1. item.text \in Texts /\ item.refusal \in Texts /\ x \in Texts /\ y \in Texts
    BY <1>0, <1>1, <1>6 DEF WellFormed, Texts
  <2>2. IsPrefix(x, item.text) /\ IsPrefix(y, item.refusal)
    BY <1>6 DEF Agrees
  <2>3. a = p \o q
    BY <1>6 DEF Adds
  <2>. HIDE DEF x, y
  <2>4. /\ p \in Seq(Events)
        /\ \A k \in Kinds, j \in Index :
             JoinBy(TextBy(k, j), p) = IF k = "text" /\ j = i THEN Rest(item.text, x) ELSE <<>>
        /\ \A j \in Index : JoinBy(CallBy(j), p) = <<>>
    <3>1. SaysOnly(p, "text", i, Rest(item.text, x))
      BY <1>0, <2>1, RemainderSays, Zenon
    <3>. QED BY <3>1 DEF SaysOnly
  <2>5. /\ q \in Seq(Events)
        /\ \A k \in Kinds, j \in Index :
             JoinBy(TextBy(k, j), q) = IF k = "refusal" /\ j = i THEN Rest(item.refusal, y) ELSE <<>>
        /\ \A j \in Index : JoinBy(CallBy(j), q) = <<>>
    <3>1. SaysOnly(q, "refusal", i, Rest(item.refusal, y))
      BY <1>0, <2>1, RemainderSays, Zenon
    <3>. QED BY <3>1 DEF SaysOnly
  <2>. HIDE DEF p, q, a
  <2>6. ASSUME NEW j \in Index
        PROVE  /\ \A k \in Kinds : JoinBy(TextBy(k, j), a) = JoinBy(TextBy(k, j), p) \o JoinBy(TextBy(k, j), q)
               /\ JoinBy(CallBy(j), a) = JoinBy(CallBy(j), p) \o JoinBy(CallBy(j), q)
    BY <2>3, <2>4, <2>5, SaidJoins
  <2>7. Rest(item.text, x) \in Texts /\ Rest(item.refusal, y) \in Texts
    BY <2>1, <1>0, RemainderIs DEF Rest
  <2>8. JoinBy(TextBy("text", i), a) = Rest(item.text, x)
    <3>1. JoinBy(TextBy("text", i), p) = Rest(item.text, x) /\ JoinBy(TextBy("text", i), q) = <<>>
      BY <1>0, <2>4, <2>5
    <3>2. JoinBy(TextBy("text", i), a) = JoinBy(TextBy("text", i), p) \o JoinBy(TextBy("text", i), q)
      BY <1>0, <2>6
    <3>. QED BY <2>7, <3>1, <3>2, NothingAdded, Zenon
  <2>9. JoinBy(TextBy("refusal", i), a) = Rest(item.refusal, y)
    <3>1. JoinBy(TextBy("refusal", i), q) = Rest(item.refusal, y) /\ JoinBy(TextBy("refusal", i), p) = <<>>
      BY <1>0, <2>4, <2>5
    <3>2. JoinBy(TextBy("refusal", i), a) = JoinBy(TextBy("refusal", i), p) \o JoinBy(TextBy("refusal", i), q)
      BY <1>0, <2>6
    <3>. QED BY <2>7, <3>1, <3>2, NothingAdded, Zenon
  <2>10. \A j \in Index, k \in Kinds : j # i \/ k = "summary" => JoinBy(TextBy(k, j), a) = <<>>
    <3>. SUFFICES ASSUME NEW j \in Index, NEW k \in Kinds, j # i \/ k = "summary"
                  PROVE  JoinBy(TextBy(k, j), a) = <<>>
      OBVIOUS
    <3>1. JoinBy(TextBy(k, j), p) = <<>> /\ JoinBy(TextBy(k, j), q) = <<>>
      BY <2>4, <2>5
    <3>2. JoinBy(TextBy(k, j), a) = JoinBy(TextBy(k, j), p) \o JoinBy(TextBy(k, j), q)
      BY <2>6
    <3>. QED BY <1>4, <3>1, <3>2, Zenon
  <2>11. \A j \in Index : JoinBy(CallBy(j), a) = <<>>
    BY <1>4, <2>4, <2>5, <2>6, Zenon
  <2>12. x \o Rest(item.text, x) = item.text /\ y \o Rest(item.refusal, y) = item.refusal
    BY <2>1, <2>2, TextAdded
  <2>13. t.heard["summary"][i] = <<>> /\ CallsSoFar(t, i) = <<>> /\ CallsIn(item) = <<>>
    BY <1>0, <1>3, <1>6, TypesOfKinds DEF CallsSoFar, CallsIn
  <2>14. Whole("text", item) = item.text /\ Whole("refusal", item) = item.refusal
         /\ Whole("summary", item) = <<>>
    BY <1>6 DEF Whole
  <2>15. \A kind \in Kinds : t.heard[kind][i] \o JoinBy(TextBy(kind, i), a) = Whole(kind, item)
    <3>1. t.heard["text"][i] \o JoinBy(TextBy("text", i), a) = Whole("text", item)
      BY <2>8, <2>12, <2>14, Zenon DEF x
    <3>2. t.heard["refusal"][i] \o JoinBy(TextBy("refusal", i), a) = Whole("refusal", item)
      BY <2>9, <2>12, <2>14, Zenon DEF y
    <3>3. t.heard["summary"][i] \o JoinBy(TextBy("summary", i), a) = Whole("summary", item)
      <4>1. JoinBy(TextBy("summary", i), a) = <<>>
        BY <1>0, <2>10
      <4>. QED BY <1>4, <2>13, <2>14, <4>1, Zenon
    <3>4. ASSUME NEW kind \in Kinds PROVE kind = "text" \/ kind = "refusal" \/ kind = "summary"
      BY DEF Kinds
    <3>. QED BY <3>1, <3>2, <3>3, <3>4, Zenon
  <2>16. CallsSoFar(t, i) \o JoinBy(CallBy(i), a) = CallsIn(item)
    BY <1>4, <2>11, <2>13, Zenon
  <2>. QED BY <1>5, <2>10, <2>11, <2>15, <2>16, Zenon DEF AddsAre, a
<1>7. CASE item.type = "reasoning"
  <2>. DEFINE x == t.heard["summary"][i]
  <2>1. item.summary \in Texts /\ x \in Texts
    BY <1>0, <1>1, <1>7 DEF WellFormed, Texts
  <2>2. IsPrefix(x, item.summary)
    BY <1>7 DEF Agrees
  <2>3. a = Remainder("summary", i, item.summary, x)
    BY <1>7 DEF Adds
  <2>. HIDE DEF x, a
  <2>4. /\ \A k \in Kinds, j \in Index :
             JoinBy(TextBy(k, j), a) = IF k = "summary" /\ j = i THEN Rest(item.summary, x) ELSE <<>>
        /\ \A j \in Index : JoinBy(CallBy(j), a) = <<>>
    <3>1. SaysOnly(a, "summary", i, Rest(item.summary, x))
      BY <1>0, <2>1, <2>3, RemainderSays, Zenon
    <3>. QED BY <3>1 DEF SaysOnly
  <2>5. x \o Rest(item.summary, x) = item.summary
    BY <2>1, <2>2, TextAdded
  <2>6. t.heard["text"][i] = <<>> /\ t.heard["refusal"][i] = <<>> /\ CallsSoFar(t, i) = <<>> /\ CallsIn(item) = <<>>
    BY <1>0, <1>3, <1>7, TypesOfKinds DEF CallsSoFar, CallsIn
  <2>7. Whole("summary", item) = item.summary /\ Whole("text", item) = <<>> /\ Whole("refusal", item) = <<>>
    BY <1>7 DEF Whole
  <2>8. \A kind \in Kinds : t.heard[kind][i] \o JoinBy(TextBy(kind, i), a) = Whole(kind, item)
    <3>1. JoinBy(TextBy("summary", i), a) = Rest(item.summary, x)
          /\ JoinBy(TextBy("text", i), a) = <<>> /\ JoinBy(TextBy("refusal", i), a) = <<>>
      BY <1>0, <2>4
    <3>2. t.heard["summary"][i] \o JoinBy(TextBy("summary", i), a) = Whole("summary", item)
      BY <2>5, <2>7, <3>1, Zenon DEF x
    <3>3. t.heard["text"][i] \o JoinBy(TextBy("text", i), a) = Whole("text", item)
          /\ t.heard["refusal"][i] \o JoinBy(TextBy("refusal", i), a) = Whole("refusal", item)
      BY <1>4, <2>6, <2>7, <3>1, Zenon
    <3>4. ASSUME NEW kind \in Kinds PROVE kind = "text" \/ kind = "refusal" \/ kind = "summary"
      BY DEF Kinds
    <3>. QED BY <3>2, <3>3, <3>4, Zenon
  <2>9. CallsSoFar(t, i) \o JoinBy(CallBy(i), a) = CallsIn(item)
    BY <1>4, <2>4, <2>6, Zenon
  <2>10. \A j \in Index : j # i => \A k \in Kinds : JoinBy(TextBy(k, j), a) = <<>>
    BY <2>4
  <2>. QED BY <1>5, <2>4, <2>8, <2>9, <2>10, Zenon DEF AddsAre, a
<1>8. CASE item.type = "function_call"
  <2>. DEFINE e == Says("call", i, Block(item))
  <2>1. a = IF i \in t.calls THEN <<>> ELSE <<e>>
    BY <1>8 DEF Adds, TellsCall, Block
  <2>2. e \in Events /\ e.kind = "call" /\ e.index = i /\ e.what = Block(item)
    BY <1>8 DEF Says, Events, CallBlocks, Block
  <2>. HIDE DEF e, a
  <2>3. \A j \in Index, k \in Kinds : JoinBy(TextBy(k, j), a) = <<>>
    <3>. SUFFICES ASSUME NEW j \in Index, NEW k \in Kinds PROVE JoinBy(TextBy(k, j), a) = <<>>
      OBVIOUS
    <3>1. JoinBy(TextBy(k, j), <<e>>) = IF e.kind = k /\ e.index = j THEN e.what ELSE <<>>
      BY <2>2, TextOfOne
    <3>2. e.kind # k
      BY <2>2 DEF Kinds
    <3>3. a = <<>> \/ a = <<e>>
      BY <2>1, Zenon
    <3>. QED BY <3>1, <3>2, <3>3, JoinByEmpty, Zenon
  <2>4. \A j \in Index : JoinBy(CallBy(j), a) = IF j = i /\ i \notin t.calls THEN <<Block(item)>> ELSE <<>>
    <3>. SUFFICES ASSUME NEW j \in Index
                  PROVE  JoinBy(CallBy(j), a) = IF j = i /\ i \notin t.calls THEN <<Block(item)>> ELSE <<>>
      OBVIOUS
    <3>1. JoinBy(CallBy(j), <<e>>) = IF e.kind = "call" /\ e.index = j THEN <<e.what>> ELSE <<>>
      BY <2>2, CallOfOne
    <3>2. CASE i \in t.calls
      BY <2>1, <3>2, JoinByEmpty, Zenon
    <3>3. CASE i \notin t.calls
      BY <2>1, <2>2, <3>1, <3>3, Zenon
    <3>. QED BY <3>2, <3>3
  <2>5. CallsIn(item) = <<Block(item)>> /\ <<Block(item)>> \o <<>> = <<Block(item)>>
        /\ <<>> \o <<Block(item)>> = <<Block(item)>>
    BY <1>8 DEF CallsIn
  <2>6. CallsSoFar(t, i) \o JoinBy(CallBy(i), a) = CallsIn(item)
    <3>1. CASE i \in t.calls
      <4>1. t.items[i] = item
        BY <1>8, <3>1 DEF Agrees
      <4>2. CallsSoFar(t, i) = <<Block(item)>>
        BY <3>1, <4>1 DEF CallsSoFar
      <4>. QED BY <2>4, <2>5, <3>1, <4>2, Zenon
    <3>2. CASE i \notin t.calls
      BY <2>4, <2>5, <3>2, Zenon DEF CallsSoFar
    <3>. QED BY <3>1, <3>2
  <2>7. \A kind \in Kinds : t.heard[kind][i] = <<>> /\ Whole(kind, item) = <<>>
    <3>. SUFFICES ASSUME NEW kind \in Kinds PROVE t.heard[kind][i] = <<>> /\ Whole(kind, item) = <<>>
      OBVIOUS
    <3>1. TypeOf(kind) # item.type
      BY <1>0, <1>8, TypesOfKinds
    <3>. QED BY <1>3, <1>8, <3>1 DEF Whole
  <2>8. \A kind \in Kinds : t.heard[kind][i] \o JoinBy(TextBy(kind, i), a) = Whole(kind, item)
    BY <1>4, <2>3, <2>7, Zenon
  <2>. QED BY <1>5, <2>3, <2>4, <2>6, <2>8, Zenon DEF AddsAre, a
<1>. QED BY <1>1, <1>6, <1>7, <1>8

-----------------------------------------------------------------------------
(* The terminal event: afterwards what was told is the output.                *)
(* What was said is the output, item by item; the reason fits the output.     *)
OutputSaid(u, said) ==
  \A i \in Index :
    /\ i \in DOMAIN u.output =>
         /\ \A kind \in Kinds : JoinBy(TextBy(kind, i), said) = Whole(kind, u.output[i])
         /\ JoinBy(CallBy(i), said) = CallsIn(u.output[i])
    /\ i \notin DOMAIN u.output =>
         /\ \A kind \in Kinds : JoinBy(TextBy(kind, i), said) = <<>>
         /\ JoinBy(CallBy(i), said) = <<>>
ReasonFits(u) ==
  /\ u.reason = "tool_use" => \E i \in DOMAIN u.output : u.output[i].type = "function_call"
  /\ u.reason = "end_turn" => \A i \in DOMAIN u.output :
       u.output[i].type # "function_call" /\ Whole("refusal", u.output[i]) = <<>>

LEMMA WholeOfFinal ==
  ASSUME NEW item \in KnownItems, NEW before \in KnownItems \cup {NoItem}
  PROVE  /\ \A kind \in Kinds : Whole(kind, WithCipher(item, before)) = Whole(kind, item)
         /\ CallsIn(WithCipher(item, before)) = CallsIn(item)
<1>1. CASE item.type = "reasoning"
  <2>1. WithCipher(item, before).type = "reasoning" /\ WithCipher(item, before).summary = item.summary
    BY <1>1, WithCipherIs
  <2>. QED BY <1>1, <2>1 DEF Whole, CallsIn
<1>2. CASE item.type # "reasoning"
  BY <1>2, WithCipherIs
<1>. QED BY <1>1, <1>2

(* The pieces of a finish, one for each item of the output.                   *)
SaysNothing(said, i) ==
  (\A kind \in Kinds : JoinBy(TextBy(kind, i), said) = <<>>) /\ JoinBy(CallBy(i), said) = <<>>

TogetherSay(p, i) ==
  /\ i \in DOMAIN p =>
       /\ \A kind \in Kinds : JoinBy(TextBy(kind, i), FlattenSeq(p)) = JoinBy(TextBy(kind, i), p[i])
       /\ JoinBy(CallBy(i), FlattenSeq(p)) = JoinBy(CallBy(i), p[i])
  /\ i \notin DOMAIN p => SaysNothing(FlattenSeq(p), i)

(* Pieces that each tell of their own item, together.                         *)
LEMMA AddedSays ==
  ASSUME NEW p \in Seq(Seq(Events)), NEW i \in Index,
         \A j \in DOMAIN p : j # i => SaysNothing(p[j], i)
  PROVE  TogetherSay(p, i)
<1>0. i \in Nat
  BY IndexIsFinite
<1>1. ASSUME NEW kind \in Kinds
      PROVE  /\ i \in DOMAIN p => JoinBy(TextBy(kind, i), FlattenSeq(p)) = JoinBy(TextBy(kind, i), p[i])
             /\ i \notin DOMAIN p => JoinBy(TextBy(kind, i), FlattenSeq(p)) = <<>>
  <2>1. \A j \in DOMAIN p : j # i => JoinBy(TextBy(kind, i), p[j]) = <<>>
    BY Zenon DEF SaysNothing
  <2>2. TextBy(kind, i) \in [Events -> Seq(Letters)]
    BY TextByIs
  <2>. QED BY <1>0, <2>1, <2>2, JoinByPieces, ZenonT(60)
<1>2. /\ i \in DOMAIN p => JoinBy(CallBy(i), FlattenSeq(p)) = JoinBy(CallBy(i), p[i])
      /\ i \notin DOMAIN p => JoinBy(CallBy(i), FlattenSeq(p)) = <<>>
  <2>1. \A j \in DOMAIN p : j # i => JoinBy(CallBy(i), p[j]) = <<>>
    BY Zenon DEF SaysNothing
  <2>. QED BY <1>0, <2>1, CallByIs, JoinByPieces, ZenonT(60)
<1>. QED BY <1>1, <1>2, Zenon DEF TogetherSay, SaysNothing

(* After the terminal event, what was told is the output, and the reason fits *)
(* it.                                                                        *)
LEMMA FinishSays ==
  ASSUME NEW t, TranslatorInv(t), ~t.failed, NEW output \in Outputs, NEW status \in Statuses,
         ~Finish(t, output, status).failed, NEW said \in Seq(Events), SaidIs(t, said)
  PROVE  /\ said \o Finish(t, output, status).says \in Seq(Events)
         /\ OutputSaid(Finish(t, output, status), said \o Finish(t, output, status).says)
         /\ ReasonFits(Finish(t, output, status))
         /\ DOMAIN Finish(t, output, status).output \subseteq Index
<1>. DEFINE u == Finish(t, output, status)
            out == Terminal(t, output)
            p == [i \in DOMAIN out |-> Adds(t, i, out[i])]
<1>0. t \in Translators
  BY DEF TranslatorInv
<1>1. /\ MayFinish(t, output, status) /\ u \in Translators
      /\ u.output = [i \in DOMAIN out |-> WithCipher(out[i], t.items[i])]
      /\ u.reason = StopReason(out, status) /\ u.says = FlattenSeq(p)
      /\ out \in Seq(KnownItems) /\ DOMAIN out \subseteq Index /\ p \in Seq(Seq(Events))
  BY FinishIs, Zenon
<1>2. Known(t) \subseteq DOMAIN out /\ \A i \in DOMAIN out : Agrees(t, i, out[i])
  BY <1>1 DEF MayFinish
<1>. HIDE DEF u, out
<1>3. u.says \in Seq(Events)
  BY <1>1, FlattenIsSeq
<1>4. said \o u.says \in Seq(Events)
  BY <1>3
<1>5. \A i \in DOMAIN out : out[i] \in KnownItems /\ i \in Index
  BY <1>1
<1>6. DOMAIN p = DOMAIN out /\ \A i \in DOMAIN out : p[i] = Adds(t, i, out[i])
  OBVIOUS
<1>. HIDE DEF p
<1>7. ASSUME NEW i \in Index
      PROVE  /\ i \in DOMAIN out =>
                  /\ \A kind \in Kinds : JoinBy(TextBy(kind, i), said \o u.says) = Whole(kind, out[i])
                  /\ JoinBy(CallBy(i), said \o u.says) = CallsIn(out[i])
             /\ i \notin DOMAIN out =>
                  /\ \A kind \in Kinds : JoinBy(TextBy(kind, i), said \o u.says) = <<>>
                  /\ JoinBy(CallBy(i), said \o u.says) = <<>>
  <2>1. ASSUME NEW j \in DOMAIN p, j # i
        PROVE  SaysNothing(p[j], i)
    <3>1. j \in DOMAIN out /\ j \in Index /\ out[j] \in KnownItems /\ Agrees(t, j, out[j])
      BY <1>2, <1>5, <1>6
    <3>2. AddsAre(t, j, out[j])
      BY <3>1, AddsSays
    <3>. QED BY <1>6, <2>1, <3>1, <3>2, Zenon DEF AddsAre, SaysNothing
  <2>2. /\ i \in DOMAIN p =>
             /\ \A kind \in Kinds : JoinBy(TextBy(kind, i), u.says) = JoinBy(TextBy(kind, i), p[i])
             /\ JoinBy(CallBy(i), u.says) = JoinBy(CallBy(i), p[i])
        /\ i \notin DOMAIN p =>
             /\ \A kind \in Kinds : JoinBy(TextBy(kind, i), u.says) = <<>>
             /\ JoinBy(CallBy(i), u.says) = <<>>
    <3>1. TogetherSay(p, i)
      BY <1>1, <2>1, AddedSays, Zenon
    <3>. QED BY <1>1, <3>1, Zenon DEF TogetherSay, SaysNothing
  <2>3. /\ \A kind \in Kinds : JoinBy(TextBy(kind, i), said \o u.says)
                                 = t.heard[kind][i] \o JoinBy(TextBy(kind, i), u.says)
        /\ JoinBy(CallBy(i), said \o u.says) = CallsSoFar(t, i) \o JoinBy(CallBy(i), u.says)
    <3>1. /\ \A kind \in Kinds : JoinBy(TextBy(kind, i), said) = t.heard[kind][i]
          /\ JoinBy(CallBy(i), said) = CallsSoFar(t, i)
      BY DEF SaidIs
    <3>2. /\ \A kind \in Kinds :
               JoinBy(TextBy(kind, i), said \o u.says)
                 = JoinBy(TextBy(kind, i), said) \o JoinBy(TextBy(kind, i), u.says)
          /\ JoinBy(CallBy(i), said \o u.says) = JoinBy(CallBy(i), said) \o JoinBy(CallBy(i), u.says)
      BY <1>3, SaidJoins
    <3>. QED BY <3>1, <3>2, Zenon
  <2>4. CASE i \in DOMAIN out
    <3>1. /\ \A kind \in Kinds : t.heard[kind][i] \o JoinBy(TextBy(kind, i), Adds(t, i, out[i])) = Whole(kind, out[i])
          /\ CallsSoFar(t, i) \o JoinBy(CallBy(i), Adds(t, i, out[i])) = CallsIn(out[i])
      <4>1. AddsAre(t, i, out[i])
        BY <1>2, <1>5, <2>4, AddsSays
      <4>. QED BY <4>1, Zenon DEF AddsAre
    <3>. QED BY <1>6, <2>2, <2>3, <2>4, <3>1, Zenon
  <2>5. CASE i \notin DOMAIN out
    <3>1. i \notin Known(t)
      BY <1>2, <2>5
    <3>2. (\A kind \in Kinds : t.heard[kind][i] = <<>>) /\ CallsSoFar(t, i) = <<>>
      BY <3>1 DEF TranslatorInv, Known, Holds, CallsSoFar
    <3>3. <<>> \o <<>> = <<>>
      BY EmptySeq, NothingAdded, Zenon DEF Texts
    <3>. QED BY <1>6, <2>2, <2>3, <2>5, <3>2, <3>3, Zenon
  <2>. QED BY <2>4, <2>5
<1>8. /\ DOMAIN u.output = DOMAIN out
      /\ \A i \in DOMAIN out : u.output[i] = WithCipher(out[i], t.items[i])
                              /\ t.items[i] \in KnownItems \cup {NoItem}
  BY <1>0, <1>1, <1>5 DEF Translators
<1>9. \A i \in DOMAIN out :
        /\ \A kind \in Kinds : Whole(kind, u.output[i]) = Whole(kind, out[i])
        /\ CallsIn(u.output[i]) = CallsIn(out[i])
        /\ u.output[i].type = out[i].type
  <2>. SUFFICES ASSUME NEW i \in DOMAIN out
                PROVE  /\ \A kind \in Kinds : Whole(kind, u.output[i]) = Whole(kind, out[i])
                       /\ CallsIn(u.output[i]) = CallsIn(out[i])
                       /\ u.output[i].type = out[i].type
    OBVIOUS
  <2>1. WithCipher(out[i], t.items[i]).type = out[i].type
    BY <1>5, <1>8, WithCipherIs
  <2>2. out[i] \in KnownItems /\ t.items[i] \in KnownItems \cup {NoItem}
        /\ u.output[i] = WithCipher(out[i], t.items[i])
    BY <1>5, <1>8
  <2>3. /\ \A kind \in Kinds : Whole(kind, WithCipher(out[i], t.items[i])) = Whole(kind, out[i])
        /\ CallsIn(WithCipher(out[i], t.items[i])) = CallsIn(out[i])
    BY <2>2, WholeOfFinal
  <2>. QED BY <2>1, <2>2, <2>3, Zenon
<1>10. OutputSaid(u, said \o u.says)
  BY <1>7, <1>8, <1>9, Zenon DEF OutputSaid
<1>11. ReasonFits(u)
  <2>1. u.reason = "tool_use" => \E i \in DOMAIN out : out[i].type = "function_call"
    BY <1>1 DEF StopReason
  <2>2. u.reason = "end_turn" => \A i \in DOMAIN out : out[i].type # "function_call"
                                   /\ ~(out[i].type = "message" /\ out[i].refusal # <<>>)
    BY <1>1 DEF StopReason
  <2>3. \A i \in DOMAIN out : ~(out[i].type = "message" /\ out[i].refusal # <<>>)
                                => Whole("refusal", out[i]) = <<>>
    BY DEF Whole
  <2>4. "refusal" \in Kinds
    BY DEF Kinds
  <2>. QED BY <1>8, <1>9, <2>1, <2>2, <2>3, <2>4, Zenon DEF ReasonFits
<1>. QED BY <1>1, <1>4, <1>8, <1>10, <1>11 DEF u

LEMMA JoinedIsJoinBy ==
  told \in Seq(Events) =>
    \A i \in Index :
      /\ \A kind \in Kinds : ToldOfItem(kind, i) = JoinBy(TextBy(kind, i), told)
      /\ CallsOfItem(i) = JoinBy(CallBy(i), told)
<1>. SUFFICES ASSUME told \in Seq(Events), NEW i \in Index
              PROVE  /\ \A kind \in Kinds : ToldOfItem(kind, i) = JoinBy(TextBy(kind, i), told)
                     /\ CallsOfItem(i) = JoinBy(CallBy(i), told)
  OBVIOUS
<1>0. \A j \in DOMAIN told : told[j] \in Events
  OBVIOUS
<1>1. ASSUME NEW kind \in Kinds PROVE ToldOfItem(kind, i) = JoinBy(TextBy(kind, i), told)
  <2>1. [j \in DOMAIN told |-> TextBy(kind, i)[told[j]]]
          = [j \in DOMAIN told |-> IF told[j].kind = kind /\ told[j].index = i THEN told[j].what ELSE <<>>]
    BY <1>0, Zenon DEF TextBy
  <2>. QED BY <2>1, Zenon DEF ToldOfItem, Joined, JoinBy
<1>2. CallsOfItem(i) = JoinBy(CallBy(i), told)
  <2>1. [j \in DOMAIN told |-> CallBy(i)[told[j]]]
          = [j \in DOMAIN told |-> IF told[j].kind = "call" /\ told[j].index = i THEN <<told[j].what>> ELSE <<>>]
    BY <1>0, Zenon DEF CallBy
  <2>. QED BY <2>1, Zenon DEF CallsOfItem, Joined, JoinBy
<1>. QED BY <1>1, <1>2

(* What an event adds to what is told of all items.                           *)
AllText(kind) == [e \in Events |-> IF e.kind = kind THEN e.what ELSE <<>>]
AllCalls == [e \in Events |-> IF e.kind = "call" THEN <<e.what>> ELSE <<>>]

LEMMA AllAreByItem ==
  told \in Seq(Events) =>
    /\ CallsOf(told) = <<>> <=> \A i \in Index : JoinBy(CallBy(i), told) = <<>>
    /\ \A kind \in Kinds :
         ToldOf(kind, told) = <<>> <=> \A i \in Index : JoinBy(TextBy(kind, i), told) = <<>>
<1>. SUFFICES ASSUME told \in Seq(Events)
              PROVE  /\ CallsOf(told) = <<>> <=> \A i \in Index : JoinBy(CallBy(i), told) = <<>>
                     /\ \A kind \in Kinds : ToldOf(kind, told) = <<>> <=>
                          \A i \in Index : JoinBy(TextBy(kind, i), told) = <<>>
  OBVIOUS
<1>0. \A j \in DOMAIN told : told[j] \in Events /\ told[j].index \in Index
  <2>1. \A j \in DOMAIN told : told[j] \in Events
    OBVIOUS
  <2>. QED BY <2>1, EventParts
<1>1. CallsOf(told) = <<>> <=> \A i \in Index : JoinBy(CallBy(i), told) = <<>>
  <2>1. AllCalls \in [Events -> Seq(CallBlocks)]
    <3>1. ASSUME NEW e \in Events
          PROVE  (IF e.kind = "call" THEN <<e.what>> ELSE <<>>) \in Seq(CallBlocks)
      <4>1. e.kind = "call" => <<e.what>> \in Seq(CallBlocks)
        BY EventParts
      <4>. QED BY <4>1, EmptySeq
    <3>. QED BY <3>1 DEF AllCalls
  <2>2. CallsOf(told) = JoinBy(AllCalls, told)
    <3>1. [j \in DOMAIN told |-> AllCalls[told[j]]]
            = [j \in DOMAIN told |-> IF told[j].kind = "call" THEN <<told[j].what>> ELSE <<>>]
      BY <1>0, Zenon DEF AllCalls
    <3>. QED BY <3>1, Zenon DEF CallsOf, Joined, JoinBy
  <2>3. JoinBy(AllCalls, told) = <<>> <=> \A j \in DOMAIN told : AllCalls[told[j]] = <<>>
    <3>1. NothingIs(AllCalls, told)
      BY <2>1, JoinByNothing, Zenon
    <3>. QED BY <3>1, Zenon DEF NothingIs
  <2>4. \A i \in Index : JoinBy(CallBy(i), told) = <<>> <=> \A j \in DOMAIN told : CallBy(i)[told[j]] = <<>>
    <3>1. \A i \in Index : NothingIs(CallBy(i), told)
      BY CallByIs, JoinByNothing, Zenon
    <3>. QED BY <3>1, Zenon DEF NothingIs
  <2>5. \A j \in DOMAIN told : AllCalls[told[j]] = <<>> <=> told[j].kind # "call"
    BY <1>0 DEF AllCalls
  <2>6. \A j \in DOMAIN told, i \in Index :
          CallBy(i)[told[j]] = <<>> <=> ~(told[j].kind = "call" /\ told[j].index = i)
    BY <1>0 DEF CallBy
  <2>. QED BY <1>0, <2>2, <2>3, <2>4, <2>5, <2>6, Zenon
<1>2. ASSUME NEW kind \in Kinds
      PROVE  ToldOf(kind, told) = <<>> <=> \A i \in Index : JoinBy(TextBy(kind, i), told) = <<>>
  <2>1. AllText(kind) \in [Events -> Seq(Letters)]
    <3>1. ASSUME NEW e \in Events
          PROVE  (IF e.kind = kind THEN e.what ELSE <<>>) \in Seq(Letters)
      <4>1. e.kind = kind => e.what \in Seq(Letters)
        BY EventParts DEF Texts
      <4>. QED BY <4>1, EmptySeq
    <3>. QED BY <3>1 DEF AllText
  <2>2. ToldOf(kind, told) = JoinBy(AllText(kind), told)
    <3>1. [j \in DOMAIN told |-> AllText(kind)[told[j]]]
            = [j \in DOMAIN told |-> IF told[j].kind = kind THEN told[j].what ELSE <<>>]
      BY <1>0, Zenon DEF AllText
    <3>. QED BY <3>1, Zenon DEF ToldOf, Joined, JoinBy
  <2>3. JoinBy(AllText(kind), told) = <<>> <=> \A j \in DOMAIN told : AllText(kind)[told[j]] = <<>>
    <3>1. NothingIs(AllText(kind), told)
      BY <2>1, JoinByNothing, Zenon
    <3>. QED BY <3>1, Zenon DEF NothingIs
  <2>4. \A i \in Index :
          JoinBy(TextBy(kind, i), told) = <<>> <=> \A j \in DOMAIN told : TextBy(kind, i)[told[j]] = <<>>
    <3>1. \A i \in Index : NothingIs(TextBy(kind, i), told)
      BY TextByIs, JoinByNothing, Zenon
    <3>. QED BY <3>1, Zenon DEF NothingIs
  <2>5. \A j \in DOMAIN told :
          AllText(kind)[told[j]] = <<>> <=> (told[j].kind = kind => told[j].what = <<>>)
    BY <1>0, Zenon DEF AllText
  <2>6. \A j \in DOMAIN told, i \in Index :
          TextBy(kind, i)[told[j]] = <<>> <=> (told[j].kind = kind /\ told[j].index = i => told[j].what = <<>>)
    BY <1>0, Zenon DEF TextBy
  <2>. QED BY <1>0, <2>2, <2>3, <2>4, <2>5, <2>6, Zenon
<1>. QED BY <1>1, <1>2

(* This is what ToldIsTheOutput says.                                         *)
LEMMA OutputSaidIsTold ==
  tr \in Translators /\ told \in Seq(Events) /\ DOMAIN tr.output \subseteq Index
  /\ OutputSaid(tr, told) /\ ReasonFits(tr) => ToldIsTheOutput
<1>. SUFFICES ASSUME tr \in Translators, told \in Seq(Events), DOMAIN tr.output \subseteq Index,
                     OutputSaid(tr, told), ReasonFits(tr)
              PROVE  ToldIsTheOutput
  OBVIOUS
<1>0. \A i \in DOMAIN tr.output : tr.output[i] \in KnownItems /\ tr.output[i] # NoItem
  <2>1. \A i \in DOMAIN tr.output : tr.output[i] \in KnownItems
    BY DEF Translators
  <2>. QED BY <2>1, KnownAreWellFormed
<1>1. "text" \in Kinds /\ "refusal" \in Kinds /\ "summary" \in Kinds
  BY DEF Kinds
<1>2. \A i \in Index :
        /\ ToldOfItem("text", i) = JoinBy(TextBy("text", i), told)
        /\ ToldOfItem("refusal", i) = JoinBy(TextBy("refusal", i), told)
        /\ ToldOfItem("summary", i) = JoinBy(TextBy("summary", i), told)
        /\ CallsOfItem(i) = JoinBy(CallBy(i), told)
  BY <1>1, JoinedIsJoinBy, Zenon
<1>3. tr.reason = "tool_use" => CallsOf(told) # <<>>
  <2>. SUFFICES ASSUME tr.reason = "tool_use" PROVE CallsOf(told) # <<>>
    OBVIOUS
  <2>1. PICK i \in DOMAIN tr.output : tr.output[i].type = "function_call"
    BY DEF ReasonFits
  <2>2. i \in Index
    OBVIOUS
  <2>3. JoinBy(CallBy(i), told) = CallsIn(tr.output[i])
    BY <2>2 DEF OutputSaid
  <2>4. CallsIn(tr.output[i]) # <<>>
    BY <2>1 DEF CallsIn
  <2>. QED BY <2>2, <2>3, <2>4, AllAreByItem, Zenon
<1>4. tr.reason = "end_turn" => CallsOf(told) = <<>> /\ ToldOf("refusal", told) = <<>>
  <2>. SUFFICES ASSUME tr.reason = "end_turn"
                PROVE  CallsOf(told) = <<>> /\ ToldOf("refusal", told) = <<>>
    OBVIOUS
  <2>1. \A i \in DOMAIN tr.output : CallsIn(tr.output[i]) = <<>> /\ Whole("refusal", tr.output[i]) = <<>>
    BY DEF ReasonFits, CallsIn
  <2>2. \A i \in Index : JoinBy(CallBy(i), told) = <<>> /\ JoinBy(TextBy("refusal", i), told) = <<>>
    BY <1>1, <2>1, Zenon DEF OutputSaid
  <2>. QED BY <1>1, <2>2, AllAreByItem, Zenon
<1>5. ASSUME NEW i \in Index
      PROVE  LET item == IF i \in DOMAIN tr.output THEN tr.output[i] ELSE NoItem
                 Is(type) == item # NoItem /\ item.type = type
             IN /\ JoinBy(TextBy("text", i), told) = IF Is("message") THEN item.text ELSE <<>>
                /\ JoinBy(TextBy("refusal", i), told) = IF Is("message") THEN item.refusal ELSE <<>>
                /\ JoinBy(TextBy("summary", i), told) = IF Is("reasoning") THEN item.summary ELSE <<>>
                /\ JoinBy(CallBy(i), told)
                     = IF Is("function_call") THEN <<[call |-> item.call, args |-> item.args]>> ELSE <<>>
  <2>1. CASE i \in DOMAIN tr.output
    <3>1. /\ Whole("text", tr.output[i]) = IF tr.output[i].type = "message" THEN tr.output[i].text ELSE <<>>
          /\ Whole("refusal", tr.output[i]) = IF tr.output[i].type = "message" THEN tr.output[i].refusal ELSE <<>>
          /\ Whole("summary", tr.output[i]) = IF tr.output[i].type = "reasoning" THEN tr.output[i].summary ELSE <<>>
      BY DEF Whole
    <3>2. /\ JoinBy(TextBy("text", i), told) = Whole("text", tr.output[i])
          /\ JoinBy(TextBy("refusal", i), told) = Whole("refusal", tr.output[i])
          /\ JoinBy(TextBy("summary", i), told) = Whole("summary", tr.output[i])
          /\ JoinBy(CallBy(i), told) = CallsIn(tr.output[i])
      BY <1>1, <2>1, Zenon DEF OutputSaid
    <3>3. tr.output[i] # NoItem
      BY <1>0, <2>1
    <3>. QED BY <2>1, <3>1, <3>2, <3>3, Zenon DEF CallsIn, Block
  <2>2. CASE i \notin DOMAIN tr.output
    BY <1>1, <2>2, Zenon DEF OutputSaid
  <2>. QED BY <2>1, <2>2
<1>. QED BY <1>2, <1>3, <1>4, <1>5, Zenon DEF ToldIsTheOutput

(* The inductive invariant of the translation: while a turn is read, what the *)
(* client was told are the deltas and the calls that are done; of a turn that *)
(* has ended, it is the output.                                               *)
TranslationInv ==
  /\ stage \in {"idle", "reading"} /\ tr \in Translators /\ told \in Seq(Events)
  /\ stage = "reading" => TranslatorInv(tr) /\ ~tr.failed /\ ~tr.finished /\ SaidIs(tr, told)
  /\ stage = "idle" /\ tr.finished =>
       DOMAIN tr.output \subseteq Index /\ OutputSaid(tr, told) /\ ReasonFits(tr)

LEMMA Quieted ==
  ASSUME NEW t \in Translators
  PROVE  LET u == [t EXCEPT !.says = <<>>]
         IN /\ u \in Translators /\ u.items = t.items /\ u.done = t.done /\ u.calls = t.calls
            /\ u.heard = t.heard /\ u.output = t.output /\ u.finished = t.finished
            /\ u.failed = t.failed /\ u.reason = t.reason /\ u.cacheable = t.cacheable
<1>1. <<>> \in Seq(Events)
  BY EmptySeq
<1>. QED BY <1>1 DEF Translators

LEMMA QuietedInv ==
  ASSUME NEW t, TranslatorInv(t), NEW said, SaidIs(t, said)
  PROVE  /\ TranslatorInv([t EXCEPT !.says = <<>>]) /\ SaidIs([t EXCEPT !.says = <<>>], said)
<1>. DEFINE u == [t EXCEPT !.says = <<>>]
<1>1. /\ u \in Translators /\ u.items = t.items /\ u.done = t.done /\ u.calls = t.calls
      /\ u.heard = t.heard
  BY Quieted DEF TranslatorInv
<1>. HIDE DEF u
<1>2. TranslatorInv(u)
  BY <1>1 DEF TranslatorInv, Holds
<1>3. SaidIs(u, said)
  BY <1>1, Zenon DEF SaidIs, CallsSoFar
<1>. QED BY <1>2, <1>3 DEF u

LEMMA NewTranslatorIs ==
  /\ NewTranslator \in Translators /\ ~NewTranslator.finished /\ ~NewTranslator.failed
  /\ SaidIs(NewTranslator, <<>>)
<1>1. NewTranslator \in Translators
  BY NewTranslatorInv DEF TranslatorInv
<1>2. ~NewTranslator.finished /\ ~NewTranslator.failed /\ NewTranslator.calls = {}
      /\ NewTranslator.heard = [kind \in Deltas |-> [i \in Index |-> <<>>]]
  BY DEF NewTranslator
<1>3. \A kind \in Kinds, i \in Index : NewTranslator.heard[kind][i] = <<>>
  BY <1>2 DEF Kinds, Deltas
<1>4. \A i \in Index : CallsSoFar(NewTranslator, i) = <<>>
  BY <1>2 DEF CallsSoFar
<1>. QED BY <1>1, <1>2, <1>3, <1>4, JoinByEmpty, Zenon DEF SaidIs

(* What one event makes of a translator, but for what it says.                *)
GoesOn(t, u) ==
  /\ u.finished = t.finished /\ u.output = t.output
  /\ \A i \in Index : HasCipher(t.items[i]) => HasCipher(u.items[i])

LEMMA AddedKeeps ==
  ASSUME NEW t, TranslatorInv(t), NEW i \in Index, NEW item \in Items, ~Added(t, i, item).failed
  PROVE  GoesOn(t, Added(t, i, item)) /\ Added(t, i, item).says \in Seq(Events)
<1>1. i \notin Known(t) /\ t.items[i] = NoItem
  BY DEF Added, Fails, Known, TranslatorInv, Translators
<1>2. Added(t, i, item) = [t EXCEPT !.items[i] = item, !.says = <<>>]
  BY <1>1 DEF Added
<1>3. Added(t, i, item).says \in Seq(Events)
  BY AddedInv DEF TranslatorInv, Translators
<1>. QED BY <1>1, <1>2, <1>3 DEF GoesOn, HasCipher, TranslatorInv, Translators

LEMMA DoneKeeps ==
  ASSUME NEW t, TranslatorInv(t), NEW i \in Index, NEW item \in Items, ~Done(t, i, item).failed
  PROVE  GoesOn(t, Done(t, i, item)) /\ Done(t, i, item).says \in Seq(Events)
<1>. DEFINE u == Done(t, i, item)
<1>0. t \in Translators /\ item \in KnownItems
  BY DEF TranslatorInv, KnownItems
<1>1. MayBeDone(t, i, item)
  BY <1>0 DEF Done, Fails, Translators
<1>2. u = [t EXCEPT !.items = [@ EXCEPT ![i] = WithCipher(item, t.items[i])], !.done = @ \cup {i},
                    !.calls = IF item.type = "function_call" THEN @ \cup {i} ELSE @,
                    !.says = IF item.type = "function_call" THEN TellsCall(t, i, item) ELSE <<>>]
  BY <1>0, <1>1 DEF Done, Translators
<1>3. u.says \in Seq(Events)
  BY DoneInv DEF TranslatorInv, Translators
<1>4. t.items[i] # NoItem => t.items[i].type = item.type
  BY DoneInv
<1>. HIDE DEF u
<1>5. /\ u.finished = t.finished /\ u.output = t.output
      /\ u.items[i] = WithCipher(item, t.items[i])
      /\ \A j \in Index : j # i => u.items[j] = t.items[j]
  BY <1>0, <1>2 DEF Translators
<1>6. HasCipher(t.items[i]) => HasCipher(WithCipher(item, t.items[i]))
  <2>. SUFFICES ASSUME HasCipher(t.items[i]) PROVE HasCipher(WithCipher(item, t.items[i]))
    OBVIOUS
  <2>1. item.type = "reasoning" /\ t.items[i] \in KnownItems \cup {NoItem}
    BY <1>0, <1>4 DEF HasCipher, Translators
  <2>. QED BY <1>0, <2>1, WithCipherIs
<1>7. GoesOn(t, u)
  BY <1>5, <1>6, Zenon DEF GoesOn
<1>. QED BY <1>3, <1>7 DEF u

LEMMA DeltaKeeps ==
  ASSUME NEW t, TranslatorInv(t), NEW kind \in Deltas, NEW i \in Index, NEW letter \in Letters,
         ~Delta(t, kind, i, letter).failed
  PROVE  GoesOn(t, Delta(t, kind, i, letter)) /\ Delta(t, kind, i, letter).says \in Seq(Events)
<1>. DEFINE u == Delta(t, kind, i, letter)
<1>0. t \in Translators
  BY DEF TranslatorInv
<1>1. i \in Known(t) /\ t.items[i].type = TypeOf(kind)
  BY <1>0 DEF Delta, Fails, Translators
<1>2. u = [t EXCEPT !.heard[kind][i] = Append(@, letter),
                 !.says = IF kind = "args" THEN <<>> ELSE <<Says(kind, i, <<letter>>)>>]
  BY <1>0, <1>1 DEF Delta, Translators
<1>3. u.says \in Seq(Events) /\ u.items = t.items
  BY DeltaInv DEF TranslatorInv, Translators
<1>. HIDE DEF u
<1>4. u.finished = t.finished /\ u.output = t.output
  BY <1>0, <1>2 DEF Translators
<1>. QED BY <1>3, <1>4 DEF GoesOn, u

(* One event of a turn: Consumes of what it makes of the translator.          *)
Heard(t, u) ==
  TranslatorInv(u) /\ u.says \in Seq(Events) /\ GoesOn(t, u) /\ SaidIs(u, told \o u.says)

(* What an event before the terminal one does.                                *)
LEMMA HearsIs ==
  TranslationInv /\ Hears =>
    /\ stage = "reading"
    /\ \E u : Consumes(u) /\ (~u.failed => Heard(tr, u))
<1>. SUFFICES ASSUME TranslationInv, Hears
              PROVE  \E u : Consumes(u) /\ (~u.failed => Heard(tr, u))
  BY DEF Hears
<1>0. TranslatorInv(tr) /\ SaidIs(tr, told) /\ told \in Seq(Events)
  BY DEF TranslationInv, Hears
<1>1. ASSUME NEW i \in Index, NEW item \in Items, Consumes(Added(tr, i, item))
      PROVE  ~Added(tr, i, item).failed => Heard(tr, Added(tr, i, item))
  <2>. SUFFICES ASSUME ~Added(tr, i, item).failed PROVE Heard(tr, Added(tr, i, item))
    OBVIOUS
  <2>1. TranslatorInv(Added(tr, i, item))
    BY <1>0, AddedInv, Zenon
  <2>2. GoesOn(tr, Added(tr, i, item)) /\ Added(tr, i, item).says \in Seq(Events)
    BY <1>0, AddedKeeps, Zenon
  <2>3. SaidIs(Added(tr, i, item), told \o Added(tr, i, item).says)
    BY <1>0, SaidAdded, Zenon
  <2>. QED BY <2>1, <2>2, <2>3, Zenon DEF Heard
<1>2. ASSUME NEW i \in Index, NEW item \in Items, item.type = "function_call" => i \notin tr.done,
             Consumes(Done(tr, i, item))
      PROVE  ~Done(tr, i, item).failed => Heard(tr, Done(tr, i, item))
  <2>. SUFFICES ASSUME ~Done(tr, i, item).failed PROVE Heard(tr, Done(tr, i, item))
    OBVIOUS
  <2>1. TranslatorInv(Done(tr, i, item))
    BY <1>0, DoneInv, Zenon
  <2>2. GoesOn(tr, Done(tr, i, item)) /\ Done(tr, i, item).says \in Seq(Events)
    BY <1>0, DoneKeeps, Zenon
  <2>3. SaidIs(Done(tr, i, item), told \o Done(tr, i, item).says)
    BY <1>0, <1>2, SaidDone, Zenon
  <2>. QED BY <2>1, <2>2, <2>3, Zenon DEF Heard
<1>3. ASSUME NEW kind \in Deltas, NEW i \in Index, NEW letter \in Letters,
             Consumes(Delta(tr, kind, i, letter))
      PROVE  ~Delta(tr, kind, i, letter).failed => Heard(tr, Delta(tr, kind, i, letter))
  <2>. SUFFICES ASSUME ~Delta(tr, kind, i, letter).failed PROVE Heard(tr, Delta(tr, kind, i, letter))
    OBVIOUS
  <2>1. TranslatorInv(Delta(tr, kind, i, letter))
    BY <1>0, DeltaInv, Zenon
  <2>2. GoesOn(tr, Delta(tr, kind, i, letter)) /\ Delta(tr, kind, i, letter).says \in Seq(Events)
    BY <1>0, DeltaKeeps, Zenon
  <2>3. SaidIs(Delta(tr, kind, i, letter), told \o Delta(tr, kind, i, letter).says)
    BY <1>0, SaidDelta, Zenon
  <2>. QED BY <2>1, <2>2, <2>3, Zenon DEF Heard
<1>. QED BY <1>1, <1>2, <1>3, Zenon DEF Hears

(* The invariant of the translation holds.                                    *)
LEMMA TranslationHolds == ReplaySpec => []TranslationInv
<1>1. ReplayInit => TranslationInv
  BY NewTranslatorIs, EmptySeq DEF ReplayInit, TranslationInv
<1>2. TranslationInv /\ [ReplayNext]_replayVars => TranslationInv'
  <2>. SUFFICES ASSUME TranslationInv, [ReplayNext]_replayVars PROVE TranslationInv'
    OBVIOUS
  <2>1. CASE Asks
    <3>1. stage' = "reading" /\ tr' = NewTranslator /\ told' = <<>>
      BY <2>1 DEF Asks
    <3>. QED BY <3>1, NewTranslatorInv, NewTranslatorIs, EmptySeq DEF TranslationInv
  <2>2. CASE Hears
    <3>1. stage = "reading" /\ ~tr.finished /\ told \in Seq(Events)
      BY <2>2, HearsIs DEF TranslationInv
    <3>2. PICK u : Consumes(u) /\ (~u.failed => Heard(tr, u))
      BY <2>2, HearsIs
    <3>3. CASE u.failed
      <4>1. stage' = "idle" /\ tr' = NewTranslator /\ told' = <<>>
        BY <3>2, <3>3 DEF Consumes, Ends
      <4>. QED BY <4>1, NewTranslatorIs, EmptySeq DEF TranslationInv
    <3>4. CASE ~u.failed
      <4>1. stage' = stage /\ tr' = [u EXCEPT !.says = <<>>] /\ told' = told \o u.says
        BY <3>2, <3>4 DEF Consumes
      <4>2. TranslatorInv(u) /\ u.says \in Seq(Events) /\ SaidIs(u, told \o u.says) /\ ~u.finished
            /\ u \in Translators
        BY <3>1, <3>2, <3>4 DEF Heard, GoesOn, TranslatorInv
      <4>3. TranslatorInv(tr') /\ SaidIs(tr', told')
        BY <4>1, <4>2, QuietedInv, Zenon
      <4>4. ~tr'.finished /\ ~tr'.failed /\ tr' \in Translators
        BY <3>4, <4>1, <4>2, Quieted
      <4>5. told' \in Seq(Events)
        BY <3>1, <4>1, <4>2
      <4>. QED BY <3>1, <4>1, <4>3, <4>4, <4>5 DEF TranslationInv
    <3>. QED BY <3>3, <3>4
  <2>3. CASE Completes
    <3>1. PICK output \in Outputs, status \in Statuses :
            LET u == Finish(tr, output, status)
            IN /\ u.failed => tr' = NewTranslator /\ told' = <<>>
               /\ ~u.failed => tr' = [u EXCEPT !.says = <<>>] /\ told' = told \o u.says
      BY <2>3, Zenon DEF Completes
    <3>. DEFINE u == Finish(tr, output, status)
    <3>2. stage' = "idle" /\ TranslatorInv(tr) /\ ~tr.failed /\ SaidIs(tr, told) /\ told \in Seq(Events)
      BY <2>3 DEF Completes, Ends, TranslationInv
    <3>3. CASE u.failed
      <4>1. tr' = NewTranslator /\ told' = <<>>
        BY <3>1, <3>3
      <4>. QED BY <3>2, <4>1, NewTranslatorIs, EmptySeq DEF TranslationInv
    <3>4. CASE ~u.failed
      <4>1. tr' = [u EXCEPT !.says = <<>>] /\ told' = told \o u.says
        BY <3>1, <3>4
      <4>2. /\ told \o u.says \in Seq(Events) /\ OutputSaid(u, told \o u.says) /\ ReasonFits(u)
            /\ DOMAIN u.output \subseteq Index
        BY <3>2, <3>4, FinishSays, Zenon
      <4>3. u \in Translators
        BY <3>2, <3>4, FinishIs, Zenon
      <4>. HIDE DEF u
      <4>4. tr' \in Translators /\ tr'.output = u.output /\ tr'.reason = u.reason
        BY <4>1, <4>3, Quieted
      <4>5. OutputSaid(tr', told') /\ ReasonFits(tr') /\ DOMAIN tr'.output \subseteq Index
        BY <4>1, <4>2, <4>4, Zenon DEF OutputSaid, ReasonFits
      <4>. QED BY <3>2, <4>1, <4>2, <4>4, <4>5 DEF TranslationInv
    <3>. QED BY <3>3, <3>4
  <2>4. CASE Edits
    <3>1. stage' = stage /\ stage = "idle" /\ tr' = NewTranslator /\ told' = <<>>
      BY <2>4 DEF Edits
    <3>. QED BY <3>1, NewTranslatorIs, EmptySeq DEF TranslationInv
  <2>5. CASE UNCHANGED replayVars
    BY <2>5 DEF replayVars, TranslationInv, OutputSaid, ReasonFits
  <2>. QED BY <2>1, <2>2, <2>3, <2>4, <2>5 DEF ReplayNext
<1>. QED BY <1>1, <1>2, PTL DEF ReplaySpec

(* When a turn has ended, what the client was told is the terminal output,    *)
(* item by item: nothing twice, nothing missing, in whatever order the events *)
(* of the turn came, for any items, texts and number of events.               *)
THEOREM ToldIsExact == ReplaySpec => []ToldIsTheOutput
<1>1. TranslationInv => ToldIsTheOutput
  <2>. SUFFICES ASSUME TranslationInv, tr.finished PROVE ToldIsTheOutput
    BY DEF ToldIsTheOutput
  <2>1. stage = "idle"
    BY DEF TranslationInv
  <2>. QED BY <2>1, OutputSaidIsTold DEF TranslationInv
<1>. QED BY <1>1, TranslationHolds, PTL

(* The ciphertext of a reasoning item is not lost when a later event of the   *)
(* item, or the terminal one, comes without it.                               *)
THEOREM CipherIsNotLost == ReplaySpec => CipherIsKept
<1>1. TranslationInv /\ [ReplayNext]_replayVars =>
        [\A i \in Index :
           HasCipher(tr.items[i]) /\ tr' # NewTranslator =>
             HasCipher(tr'.items[i]) /\ (tr'.finished => HasCipher(tr'.output[i]))]_replayVars
  <2>. SUFFICES ASSUME TranslationInv, ReplayNext, NEW i \in Index, HasCipher(tr.items[i]),
                       tr' # NewTranslator
                PROVE  HasCipher(tr'.items[i]) /\ (tr'.finished => HasCipher(tr'.output[i]))
    OBVIOUS
  <2>1. CASE Asks \/ Edits
    BY <2>1 DEF Asks, Edits
  <2>2. CASE Hears
    <3>1. PICK u : Consumes(u) /\ (~u.failed => Heard(tr, u))
      BY <2>2, HearsIs
    <3>2. ~u.failed /\ tr' = [u EXCEPT !.says = <<>>]
      BY <3>1 DEF Consumes
    <3>3. u \in Translators /\ GoesOn(tr, u) /\ ~tr.finished
      BY <2>2, <3>1, <3>2, HearsIs DEF Heard, TranslatorInv, TranslationInv
    <3>4. tr'.items = u.items /\ tr'.finished = u.finished
      BY <3>2, <3>3, Quieted
    <3>. QED BY <3>3, <3>4 DEF GoesOn
  <2>3. CASE Completes
    <3>1. PICK output \in Outputs, status \in Statuses :
            LET u == Finish(tr, output, status)
            IN ~u.failed /\ tr' = [u EXCEPT !.says = <<>>]
      BY <2>3, Zenon DEF Completes
    <3>. DEFINE u == Finish(tr, output, status)
                out == Terminal(tr, output)
    <3>2. TranslatorInv(tr) /\ ~tr.failed /\ tr \in Translators
      BY <2>3 DEF Completes, TranslationInv, TranslatorInv
    <3>3. /\ MayFinish(tr, output, status) /\ u \in Translators /\ u.items = tr.items
          /\ u.output = [j \in DOMAIN out |-> WithCipher(out[j], tr.items[j])]
          /\ out \in Seq(KnownItems)
      <4>. ~Finish(tr, output, status).failed
        BY <3>1
      <4>. QED BY <3>2, FinishIs
    <3>4. i \in Known(tr)
      BY DEF HasCipher, Known
    <3>5. i \in DOMAIN out /\ Agrees(tr, i, out[i]) /\ out[i] \in KnownItems
      BY <3>3, <3>4 DEF MayFinish
    <3>6. out[i].type = "reasoning"
      BY <3>4, <3>5 DEF Agrees, HasCipher
    <3>7. HasCipher(WithCipher(out[i], tr.items[i]))
      BY <3>2, <3>5, <3>6, WithCipherIs DEF Translators
    <3>. HIDE DEF u, out
    <3>8. tr' = [u EXCEPT !.says = <<>>]
      BY <3>1 DEF u
    <3>9. tr'.items = u.items /\ tr'.output = u.output
      BY <3>3, <3>8, Quieted
    <3>10. u.output[i] = WithCipher(out[i], tr.items[i])
      BY <3>3, <3>5
    <3>. QED BY <3>3, <3>7, <3>9, <3>10, Zenon
  <2>. QED BY <2>1, <2>2, <2>3 DEF ReplayNext
<1>. QED BY <1>1, TranslationHolds, PTL DEF ReplaySpec, CipherIsKept

-----------------------------------------------------------------------------
(* Messages, keys and items.                                                  *)
(* What a client can present and a cache or an envelope contain.              *)
Users == [role : {"user"}, prompt : Prompts]
Shapes == Users \cup [role : {"assistant"}, text : Texts, calls : Seq(CallBlocks)]
FullShapes ==
  Users \cup [role : {"assistant"}, text : Texts, calls : Seq(CallBlocks), summaries : Seq(Texts)]
Keys == [account : Accounts, model : Models, visible : Seq(Shapes)]
Scopes == [account : Accounts, model : Models, visible : Seq(FullShapes)]
PlainItems == {PlainText(x) : x \in Texts} \cup {Call(NoItem, c.call, c.args) : c \in CallBlocks}
OutputItems == KnownItems \cup PlainItems
ReasoningItems == {item \in KnownItems : item.type = "reasoning"}
PromptItems == {Prompt(p) : p \in Prompts}
InputItems == OutputItems \cup PromptItems

(* Of what was issued: the items that may go to an account and a model, the   *)
(* envelopes that hold them, and the messages that carry those.               *)
Own(iss, account, model) ==
  {item \in InputItems :
     item.type = "reasoning" => [account |-> account, model |-> model, item |-> item] \in iss}
Envelopes(contents) == [account : Accounts, model : Models, scope : Scopes, what : contents]
SealedOf(iss) == {e \in Envelopes(ReasoningItems) : e.what \in Own(iss, e.account, e.model)}
CarriersOf(iss) ==
  {e \in Envelopes(Seq(KnownItems)) : e.what \in Seq(Own(iss, e.account, e.model))}
AnswersOf(iss) ==
  [role : {"assistant"}, text : Texts, calls : Seq(CallBlocks), summaries : Seq(Texts),
   sealed : Seq(SealedOf(iss)), carriers : Seq(CarriersOf(iss))]
MessagesOf(iss) == Users \cup AnswersOf(iss)
RequestsOf(iss) == [account : Accounts, model : Models, messages : Seq(MessagesOf(iss))]

LEMMA BlocksAre ==
  ASSUME NEW c \in CallBlocks
  PROVE  /\ c = [call |-> c.call, args |-> c.args]
         /\ \E k \in KnownItems : k.type = "function_call" /\ c.call = k.call /\ c.args = k.args
BY DEF CallBlocks

LEMMA OutputItemsAre ==
  ASSUME NEW item \in OutputItems
  PROVE  /\ item.type \in {"message", "function_call", "reasoning"}
         /\ item.type = "message" => item.text \in Texts /\ item.refusal \in Texts
         /\ item.type = "function_call" => [call |-> item.call, args |-> item.args] \in CallBlocks
         /\ item.type = "reasoning" => item.summary \in Texts /\ item \in KnownItems
<1>1. CASE item \in KnownItems
  <2>1. WellFormed(item) /\ item.type \in {"message", "function_call", "reasoning"}
    BY <1>1, KnownAreWellFormed
  <2>2. item.type = "message" => item.text \in Texts /\ item.refusal \in Texts
    BY <2>1 DEF WellFormed, Texts
  <2>3. item.type = "reasoning" => item.summary \in Texts
    BY <2>1 DEF WellFormed, Texts
  <2>4. item.type = "function_call" => [call |-> item.call, args |-> item.args] \in CallBlocks
    BY <1>1 DEF CallBlocks
  <2>. QED BY <1>1, <2>1, <2>2, <2>3, <2>4
<1>2. CASE item \in {PlainText(x) : x \in Texts}
  <2>1. <<>> \in Texts
    BY EmptySeq DEF Texts
  <2>. QED BY <1>2, <2>1 DEF PlainText, Message
<1>3. CASE item \in {Call(NoItem, c.call, c.args) : c \in CallBlocks}
  <2>1. PICK c \in CallBlocks : item = Call(NoItem, c.call, c.args)
    BY <1>3
  <2>2. item.type = "function_call" /\ item.call = c.call /\ item.args = c.args
    BY <2>1 DEF Call
  <2>3. c = [call |-> c.call, args |-> c.args]
    BY BlocksAre
  <2>. QED BY <2>2, <2>3
<1>. QED BY <1>1, <1>2, <1>3 DEF OutputItems, PlainItems

(* What an item adds to the text, the calls and the summaries of its message. *)
TextPart == [m \in OutputItems |-> IF IsMessage(m) THEN m.text ELSE <<>>]
RefusalPart == [m \in OutputItems |-> IF IsMessage(m) THEN m.refusal ELSE <<>>]
CallPart == [c \in OutputItems |-> IF IsFunctionCall(c) THEN <<[call |-> c.call, args |-> c.args]>> ELSE <<>>]
SummaryPart == [r \in OutputItems |-> IF IsReasoning(r) THEN <<r.summary>> ELSE <<>>]

LEMMA PartsAre ==
  /\ TextPart \in [OutputItems -> Seq(Letters)] /\ RefusalPart \in [OutputItems -> Seq(Letters)]
  /\ CallPart \in [OutputItems -> Seq(CallBlocks)] /\ SummaryPart \in [OutputItems -> Seq(Texts)]
<1>0. <<>> \in Texts /\ <<>> \in Seq(CallBlocks) /\ <<>> \in Seq(Texts)
  BY EmptySeq DEF Texts
<1>1. ASSUME NEW m \in OutputItems
      PROVE  (IF IsMessage(m) THEN m.text ELSE <<>>) \in Texts
  BY <1>0, OutputItemsAre DEF IsMessage
<1>2. ASSUME NEW m \in OutputItems
      PROVE  (IF IsMessage(m) THEN m.refusal ELSE <<>>) \in Texts
  BY <1>0, OutputItemsAre DEF IsMessage
<1>3. ASSUME NEW c \in OutputItems
      PROVE  (IF IsFunctionCall(c) THEN <<[call |-> c.call, args |-> c.args]>> ELSE <<>>) \in Seq(CallBlocks)
  <2>1. IsFunctionCall(c) => <<[call |-> c.call, args |-> c.args]>> \in Seq(CallBlocks)
    <3>1. IsFunctionCall(c) => [call |-> c.call, args |-> c.args] \in CallBlocks
      BY OutputItemsAre DEF IsFunctionCall
    <3>2. \A b \in CallBlocks : <<b>> \in Seq(CallBlocks)
      OBVIOUS
    <3>. QED BY <3>1, <3>2, Zenon
  <2>. QED BY <1>0, <2>1, Zenon
<1>4. ASSUME NEW r \in OutputItems
      PROVE  (IF IsReasoning(r) THEN <<r.summary>> ELSE <<>>) \in Seq(Texts)
  <2>1. IsReasoning(r) => r.summary \in Texts
    BY OutputItemsAre DEF IsReasoning
  <2>2. \A b \in Texts : <<b>> \in Seq(Texts)
    OBVIOUS
  <2>. QED BY <1>0, <2>1, <2>2, Zenon
<1>5. TextPart \in [OutputItems -> Seq(Letters)]
  BY <1>1 DEF TextPart, Texts
<1>6. RefusalPart \in [OutputItems -> Seq(Letters)]
  BY <1>2 DEF RefusalPart, Texts
<1>7. CallPart \in [OutputItems -> Seq(CallBlocks)]
  BY <1>3 DEF CallPart
<1>8. SummaryPart \in [OutputItems -> Seq(Texts)]
  BY <1>4 DEF SummaryPart
<1>. QED BY <1>5, <1>6, <1>7, <1>8

TextOf(s) == JoinBy(TextPart, s) \o JoinBy(RefusalPart, s)

(* A message made of items has their text, their calls and their summaries.   *)
LEMMA NativeIs ==
  ASSUME NEW s \in Seq(OutputItems)
  PROVE  /\ NativeAssistant(s)
              = Assistant(TextOf(s), JoinBy(CallPart, s), JoinBy(SummaryPart, s), <<>>, <<>>)
         /\ TextOf(s) \in Texts /\ JoinBy(CallPart, s) \in Seq(CallBlocks)
         /\ JoinBy(SummaryPart, s) \in Seq(Texts)
<1>0. \A i \in DOMAIN s : s[i] \in OutputItems
  OBVIOUS
<1>1. Joined(s, IsMessage, LAMBDA m : m.text) = JoinBy(TextPart, s)
  <2>1. [i \in DOMAIN s |-> TextPart[s[i]]] = [i \in DOMAIN s |-> IF IsMessage(s[i]) THEN s[i].text ELSE <<>>]
    BY <1>0, Zenon DEF TextPart
  <2>. QED BY <2>1, Zenon DEF Joined, JoinBy
<1>2. Joined(s, IsMessage, LAMBDA m : m.refusal) = JoinBy(RefusalPart, s)
  <2>1. [i \in DOMAIN s |-> RefusalPart[s[i]]] = [i \in DOMAIN s |-> IF IsMessage(s[i]) THEN s[i].refusal ELSE <<>>]
    BY <1>0, Zenon DEF RefusalPart
  <2>. QED BY <2>1, Zenon DEF Joined, JoinBy
<1>3. Joined(s, IsFunctionCall, LAMBDA c : <<[call |-> c.call, args |-> c.args]>>) = JoinBy(CallPart, s)
  <2>1. [i \in DOMAIN s |-> CallPart[s[i]]]
          = [i \in DOMAIN s |-> IF IsFunctionCall(s[i]) THEN <<[call |-> s[i].call, args |-> s[i].args]>> ELSE <<>>]
    BY <1>0, Zenon DEF CallPart
  <2>. QED BY <2>1, Zenon DEF Joined, JoinBy
<1>4. Joined(s, IsReasoning, LAMBDA r : <<r.summary>>) = JoinBy(SummaryPart, s)
  <2>1. [i \in DOMAIN s |-> SummaryPart[s[i]]]
          = [i \in DOMAIN s |-> IF IsReasoning(s[i]) THEN <<s[i].summary>> ELSE <<>>]
    BY <1>0, Zenon DEF SummaryPart
  <2>. QED BY <2>1, Zenon DEF Joined, JoinBy
<1>5. JoinBy(TextPart, s) \in Seq(Letters) /\ JoinBy(RefusalPart, s) \in Seq(Letters)
  BY PartsAre, JoinByIsSeq, Zenon
<1>6. JoinBy(CallPart, s) \in Seq(CallBlocks)
  BY PartsAre, JoinByIsSeq, Zenon
<1>7. JoinBy(SummaryPart, s) \in Seq(Texts)
  BY PartsAre, JoinByIsSeq, Zenon
<1>8. TextOf(s) \in Texts
  BY <1>5 DEF TextOf, Texts
<1>. QED BY <1>1, <1>2, <1>3, <1>4, <1>6, <1>7, <1>8, Zenon DEF NativeAssistant, TextOf

(* An answer of the client, whatever it has kept of it.                       *)
LEMMA AnswerIs ==
  ASSUME NEW text \in Texts, NEW calls \in Seq(CallBlocks), NEW summaries \in Seq(Texts),
         NEW iss, NEW sealed \in Seq(SealedOf(iss)), NEW carriers \in Seq(CarriersOf(iss))
  PROVE  Assistant(text, calls, summaries, sealed, carriers) \in AnswersOf(iss)
BY DEF Assistant, AnswersOf

LEMMA NoEnvelopes ==
  ASSUME NEW iss
  PROVE  <<>> \in Seq(SealedOf(iss)) /\ <<>> \in Seq(CarriersOf(iss))
BY EmptySeq

LEMMA NativeIsMessage ==
  ASSUME NEW iss, NEW s \in Seq(OutputItems)
  PROVE  NativeAssistant(s) \in MessagesOf(iss) /\ NativeAssistant(s) \in AnswersOf(iss)
<1>1. NativeAssistant(s) \in AnswersOf(iss)
  <2>1. Assistant(TextOf(s), JoinBy(CallPart, s), JoinBy(SummaryPart, s), <<>>, <<>>) \in AnswersOf(iss)
    BY NativeIs, NoEnvelopes, AnswerIs, Zenon
  <2>. QED BY <2>1, NativeIs, Zenon
<1>. QED BY <1>1 DEF MessagesOf

LEMMA MessageIs ==
  ASSUME NEW iss, NEW m \in MessagesOf(iss)
  PROVE  /\ m.role = "user" <=> m \in Users
         /\ m.role # "user" => m \in AnswersOf(iss) /\ m.role = "assistant"
BY DEF MessagesOf, Users, AnswersOf

LEMMA VisibleIs ==
  ASSUME NEW iss, NEW m \in MessagesOf(iss)
  PROVE  Visible(m) \in Shapes /\ WithSummaries(m) \in FullShapes
<1>1. CASE m \in Users
  BY <1>1, MessageIs DEF Visible, WithSummaries, Shapes, FullShapes
<1>2. CASE m \notin Users
  <2>1. m \in AnswersOf(iss) /\ m.role = "assistant" /\ m.role # "user"
    BY <1>2, MessageIs
  <2>2. Visible(m) = [role |-> "assistant", text |-> m.text, calls |-> m.calls]
    BY <2>1 DEF Visible
  <2>3. WithSummaries(m) = [role |-> "assistant", text |-> m.text, calls |-> m.calls, summaries |-> m.summaries]
    BY <2>1 DEF WithSummaries
  <2>4. m.text \in Texts /\ m.calls \in Seq(CallBlocks) /\ m.summaries \in Seq(Texts)
    BY <2>1 DEF AnswersOf
  <2>. QED BY <2>2, <2>3, <2>4 DEF Shapes, FullShapes
<1>. QED BY <1>1, <1>2

(* Keys and scopes.                                                           *)
LEMMA KeyIs ==
  ASSUME NEW iss, NEW req \in RequestsOf(iss), NEW messages \in Seq(MessagesOf(iss))
  PROVE  Key(req, messages) \in Keys /\ EnvelopeScope(req, messages) \in Scopes
<1>0. \A i \in DOMAIN messages : messages[i] \in MessagesOf(iss)
  OBVIOUS
<1>1. \A i \in DOMAIN messages :
        Visible(messages[i]) \in Shapes /\ WithSummaries(messages[i]) \in FullShapes
  BY <1>0, VisibleIs
<1>2. [i \in DOMAIN messages |-> Visible(messages[i])] \in Seq(Shapes)
  BY <1>1
<1>3. [i \in DOMAIN messages |-> WithSummaries(messages[i])] \in Seq(FullShapes)
  BY <1>1
<1>4. req.account \in Accounts /\ req.model \in Models
  BY DEF RequestsOf
<1>. QED BY <1>2, <1>3, <1>4 DEF Key, Keys, EnvelopeScope, Scopes

-----------------------------------------------------------------------------
(* What items show: their text and their calls.                               *)
(* The items of one message, and what they show.                              *)
ShowsMessage(items, m) ==
  /\ items \in Seq(OutputItems) /\ TextOf(items) = m.text /\ JoinBy(CallPart, items) = m.calls

LEMMA NoText == <<>> \in Texts /\ <<>> \o <<>> = <<>>
BY EmptySeq, NothingAdded, Zenon DEF Texts

LEMMA ShowsNothing ==
  /\ <<>> \in Seq(OutputItems) /\ TextOf(<<>>) = <<>> /\ JoinBy(CallPart, <<>>) = <<>>
BY EmptySeq, JoinByEmpty, NoText, Zenon DEF TextOf

LEMMA PartsSplit ==
  ASSUME NEW s \in Seq(OutputItems), NEW u \in Seq(OutputItems)
  PROVE  /\ JoinBy(TextPart, s \o u) = JoinBy(TextPart, s) \o JoinBy(TextPart, u)
         /\ JoinBy(RefusalPart, s \o u) = JoinBy(RefusalPart, s) \o JoinBy(RefusalPart, u)
         /\ JoinBy(CallPart, s \o u) = JoinBy(CallPart, s) \o JoinBy(CallPart, u)
<1>1. Splits(TextPart, OutputItems)
  BY PartsAre, JoinByJoins, Zenon
<1>2. Splits(RefusalPart, OutputItems)
  BY PartsAre, JoinByJoins, Zenon
<1>3. Splits(CallPart, OutputItems)
  BY PartsAre, JoinByJoins, Zenon
<1>. QED BY <1>1, <1>2, <1>3 DEF Splits

(* Items none of which is a message, or a call.                               *)
LEMMA PartsOfOthers ==
  ASSUME NEW s \in Seq(OutputItems)
  PROVE  /\ (\A i \in DOMAIN s : s[i].type # "message") => TextOf(s) = <<>>
              /\ JoinBy(TextPart, s) = <<>> /\ JoinBy(RefusalPart, s) = <<>>
         /\ (\A i \in DOMAIN s : s[i].type # "function_call") => JoinBy(CallPart, s) = <<>>
<1>0. \A i \in DOMAIN s : s[i] \in OutputItems
  OBVIOUS
<1>1. NothingIs(TextPart, s)
  BY PartsAre, JoinByNothing, Zenon
<1>2. NothingIs(RefusalPart, s)
  BY PartsAre, JoinByNothing, Zenon
<1>3. NothingIs(CallPart, s)
  BY PartsAre, JoinByNothing, Zenon
<1>4. ASSUME \A i \in DOMAIN s : s[i].type # "message"
      PROVE  JoinBy(TextPart, s) = <<>> /\ JoinBy(RefusalPart, s) = <<>>
  <2>1. \A i \in DOMAIN s : TextPart[s[i]] = <<>> /\ RefusalPart[s[i]] = <<>>
    BY <1>0, <1>4, Zenon DEF TextPart, RefusalPart, IsMessage
  <2>. QED BY <1>1, <1>2, <2>1, Zenon DEF NothingIs
<1>5. ASSUME \A i \in DOMAIN s : s[i].type # "function_call"
      PROVE  JoinBy(CallPart, s) = <<>>
  <2>1. \A i \in DOMAIN s : CallPart[s[i]] = <<>>
    BY <1>0, <1>5, Zenon DEF CallPart, IsFunctionCall
  <2>. QED BY <1>3, <2>1, Zenon DEF NothingIs
<1>. QED BY <1>4, <1>5, NoText, Zenon DEF TextOf

(* A call of a message, as an item.                                           *)
CallItem == [c \in CallBlocks |-> Call(NoItem, c.call, c.args)]

LEMMA CallItemIs ==
  ASSUME NEW c \in CallBlocks
  PROVE  CallItem[c] \in OutputItems /\ CallItem[c].type = "function_call" /\ CallPart[CallItem[c]] = <<c>>
<1>1. CallItem[c] = Call(NoItem, c.call, c.args) /\ CallItem[c] \in OutputItems
  BY DEF CallItem, OutputItems, PlainItems
<1>2. CallItem[c].type = "function_call" /\ CallItem[c].call = c.call /\ CallItem[c].args = c.args
  BY <1>1 DEF Call
<1>3. [call |-> CallItem[c].call, args |-> CallItem[c].args] = c
  <2>1. c = [call |-> c.call, args |-> c.args]
    BY BlocksAre
  <2>. QED BY <1>2, <2>1, Zenon
<1>4. CallPart[CallItem[c]] = <<[call |-> CallItem[c].call, args |-> CallItem[c].args]>>
  BY <1>1, <1>2, Zenon DEF CallPart, IsFunctionCall
<1>. QED BY <1>1, <1>2, <1>3, <1>4, Zenon

LEMMA CallsAreShown ==
  ASSUME NEW calls \in Seq(CallBlocks)
  PROVE  LET items == [i \in DOMAIN calls |-> Call(NoItem, calls[i].call, calls[i].args)]
         IN /\ items \in Seq(OutputItems) /\ TextOf(items) = <<>>
            /\ JoinBy(TextPart, items) = <<>> /\ JoinBy(RefusalPart, items) = <<>>
            /\ JoinBy(CallPart, items) = calls
            /\ \A i \in DOMAIN items : items[i].type = "function_call"
<1>. DEFINE ItemsOf(s) == [i \in DOMAIN s |-> CallItem[s[i]]]
            T == {s \in Seq(CallBlocks) : JoinBy(CallPart, ItemsOf(s)) = s}
<1>1. CallItem \in [CallBlocks -> OutputItems]
  <2>1. \A c \in CallBlocks : CallItem[c] \in OutputItems
    BY CallItemIs
  <2>. QED BY <2>1 DEF CallItem
<1>2. <<>> \in T
  <2>1. ItemsOf(<<>>) = <<>> /\ <<>> \in Seq(CallBlocks)
    OBVIOUS
  <2>. QED BY <2>1, JoinByEmpty
<1>3. ASSUME NEW s \in Seq(CallBlocks), s \in T, NEW c \in CallBlocks PROVE Append(s, c) \in T
  <2>1. ItemsOf(Append(s, c)) = Append(ItemsOf(s), CallItem[c])
    BY <1>1, PiecesAppend
  <2>2. ItemsOf(s) \in Seq(OutputItems) /\ CallItem[c] \in OutputItems
    BY <1>1, PiecesOf
  <2>3. JoinBy(CallPart, Append(ItemsOf(s), CallItem[c])) = JoinBy(CallPart, ItemsOf(s)) \o CallPart[CallItem[c]]
    <3>. HIDE DEF ItemsOf
    <3>. QED BY <2>2, PartsAre, JoinByAppend, ZenonT(60)
  <2>4. CallPart[CallItem[c]] = <<c>>
    BY CallItemIs
  <2>5. s \o <<c>> = Append(s, c) /\ Append(s, c) \in Seq(CallBlocks)
    OBVIOUS
  <2>. HIDE DEF ItemsOf
  <2>. QED BY <1>3, <2>1, <2>3, <2>4, <2>5
<1>4. Seq(CallBlocks) \subseteq T
  <2>. HIDE DEF T
  <2>. QED BY <1>2, <1>3, SequenceInduction
<1>. DEFINE items == ItemsOf(calls)
<1>5. items \in Seq(OutputItems) /\ JoinBy(CallPart, items) = calls
  <2>1. items \in Seq(OutputItems)
    BY <1>1, PiecesOf
  <2>2. calls \in T
    <3>. HIDE DEF T
    <3>. QED BY <1>4
  <2>. QED BY <2>1, <2>2
<1>6. \A i \in DOMAIN items : items[i].type = "function_call"
  BY CallItemIs
<1>7. [i \in DOMAIN calls |-> Call(NoItem, calls[i].call, calls[i].args)] = items
  BY DEF CallItem
<1>. HIDE DEF items
<1>8. TextOf(items) = <<>> /\ JoinBy(TextPart, items) = <<>> /\ JoinBy(RefusalPart, items) = <<>>
  <2>1. \A i \in DOMAIN items : items[i].type # "message"
    BY <1>6
  <2>. QED BY <1>5, <2>1, PartsOfOthers, Zenon
<1>. QED BY <1>5, <1>6, <1>7, <1>8

(* The text of a message, as an item if there is any.                         *)
LEMMA TextIsShown ==
  ASSUME NEW text \in Texts
  PROVE  LET items == IF text = <<>> THEN <<>> ELSE <<PlainText(text)>>
         IN /\ items \in Seq(OutputItems) /\ JoinBy(TextPart, items) = text
            /\ JoinBy(RefusalPart, items) = <<>> /\ JoinBy(CallPart, items) = <<>>
            /\ \A i \in DOMAIN items : items[i].type = "message"
<1>1. CASE text = <<>>
  BY <1>1, EmptySeq, JoinByEmpty
<1>2. CASE text # <<>>
  <2>. DEFINE p == PlainText(text)
  <2>1. p \in OutputItems
    BY DEF OutputItems, PlainItems
  <2>2. p.type = "message" /\ p.text = text /\ p.refusal = <<>>
    BY DEF PlainText, Message
  <2>. HIDE DEF p
  <2>3. TextPart[p] = text /\ RefusalPart[p] = <<>>
    BY <2>1, <2>2, Zenon DEF TextPart, RefusalPart, IsMessage
  <2>4. <<p>> \in Seq(OutputItems) /\ (\A i \in DOMAIN <<p>> : <<p>>[i].type = "message")
    BY <2>1, <2>2
  <2>5. JoinBy(TextPart, <<p>>) = TextPart[p] /\ JoinBy(RefusalPart, <<p>>) = RefusalPart[p]
    BY <2>1, PartsAre, JoinByOne, Zenon
  <2>6. JoinBy(CallPart, <<p>>) = <<>>
    <3>1. \A i \in DOMAIN <<p>> : <<p>>[i].type # "function_call"
      BY <2>4
    <3>. QED BY <2>4, <3>1, PartsOfOthers, Zenon
  <2>. QED BY <1>2, <2>3, <2>4, <2>5, <2>6, Zenon DEF p
<1>. QED BY <1>1, <1>2

(* The reasoning, the text and the calls of a message, one after the other.   *)
LEMMA ThreeParts ==
  ASSUME NEW a \in Seq(OutputItems), NEW b \in Seq(OutputItems), NEW c \in Seq(OutputItems),
         NEW text \in Texts, NEW calls \in Seq(CallBlocks),
         JoinBy(TextPart, a) = <<>>, JoinBy(RefusalPart, a) = <<>>, JoinBy(CallPart, a) = <<>>,
         JoinBy(TextPart, b) = text, JoinBy(RefusalPart, b) = <<>>, JoinBy(CallPart, b) = <<>>,
         JoinBy(TextPart, c) = <<>>, JoinBy(RefusalPart, c) = <<>>, JoinBy(CallPart, c) = calls
  PROVE  /\ a \o b \o c \in Seq(OutputItems) /\ TextOf(a \o b \o c) = text
         /\ JoinBy(CallPart, a \o b \o c) = calls
<1>. DEFINE d == a \o b
<1>1. d \in Seq(OutputItems) /\ d \o c \in Seq(OutputItems)
  OBVIOUS
<1>2. <<>> \o <<>> = <<>> /\ <<>> \o text = text /\ text \o <<>> = text
  BY NothingAdded, NoText, Zenon
<1>3. <<>> \o calls = calls
  BY ConcatEmptySeq, Zenon
<1>4. JoinBy(TextPart, d) = text /\ JoinBy(RefusalPart, d) = <<>> /\ JoinBy(CallPart, d) = <<>>
  <2>1. /\ JoinBy(TextPart, a \o b) = JoinBy(TextPart, a) \o JoinBy(TextPart, b)
        /\ JoinBy(RefusalPart, a \o b) = JoinBy(RefusalPart, a) \o JoinBy(RefusalPart, b)
        /\ JoinBy(CallPart, a \o b) = JoinBy(CallPart, a) \o JoinBy(CallPart, b)
    BY PartsSplit
  <2>. QED BY <1>2, <2>1, Zenon
<1>. HIDE DEF d
<1>5. /\ JoinBy(TextPart, d \o c) = JoinBy(TextPart, d) \o JoinBy(TextPart, c)
      /\ JoinBy(RefusalPart, d \o c) = JoinBy(RefusalPart, d) \o JoinBy(RefusalPart, c)
      /\ JoinBy(CallPart, d \o c) = JoinBy(CallPart, d) \o JoinBy(CallPart, c)
  BY <1>1, PartsSplit
<1>6. TextOf(d \o c) = text /\ JoinBy(CallPart, d \o c) = calls
  BY <1>2, <1>3, <1>4, <1>5, Zenon DEF TextOf
<1>. QED BY <1>1, <1>6 DEF d

LEMMA OwnIs ==
  ASSUME NEW iss, NEW account, NEW model, NEW item \in OutputItems, item.type # "reasoning"
  PROVE  item \in Own(iss, account, model)
BY DEF Own, InputItems

LEMMA OwnSeqs ==
  ASSUME NEW iss, NEW account, NEW model, NEW s \in Seq(OutputItems),
         \A i \in DOMAIN s : s[i].type # "reasoning"
  PROVE  s \in Seq(Own(iss, account, model))
<1>1. \A i \in DOMAIN s : s[i] \in Own(iss, account, model)
  <2>1. \A i \in DOMAIN s : s[i] \in OutputItems
    OBVIOUS
  <2>. QED BY <2>1, OwnIs
<1>. QED BY <1>1

(* The reasoning in the envelopes that open: it is the account's own.         *)
Opened(s, req, boundary) == Joined(s, LAMBDA e : Opens(e, req, boundary), LAMBDA e : <<e.what>>)

LEMMA OpenedIs ==
  ASSUME NEW iss, NEW req, NEW boundary, NEW s \in Seq(SealedOf(iss))
  PROVE  LET items == Opened(s, req, boundary)
         IN /\ items \in Seq(OutputItems) /\ items \in Seq(Own(iss, req.account, req.model))
            /\ JoinBy(TextPart, items) = <<>> /\ JoinBy(RefusalPart, items) = <<>>
            /\ JoinBy(CallPart, items) = <<>>
<1>. DEFINE X == {item \in ReasoningItems : item \in Own(iss, req.account, req.model)}
            g == [e \in SealedOf(iss) |-> IF Opens(e, req, boundary) THEN <<e.what>> ELSE <<>>]
            items == JoinBy(g, s)
<1>1. g \in [SealedOf(iss) -> Seq(X)]
  <2>1. ASSUME NEW e \in SealedOf(iss)
        PROVE  (IF Opens(e, req, boundary) THEN <<e.what>> ELSE <<>>) \in Seq(X)
    <3>1. Opens(e, req, boundary) => e.what \in X
      BY DEF Opens, SealedOf, Envelopes
    <3>2. Opens(e, req, boundary) => <<e.what>> \in Seq(X)
      <4>. HIDE DEF X
      <4>. QED BY <3>1
    <3>3. <<>> \in Seq(X)
      BY EmptySeq
    <3>. QED BY <3>2, <3>3, Zenon
  <2>. QED BY <2>1
<1>2. items \in Seq(X)
  <2>. HIDE DEF g, X
  <2>. QED BY <1>1, JoinByIsSeq, Zenon
<1>3. items = Opened(s, req, boundary)
  <2>1. [i \in DOMAIN s |-> g[s[i]]] = [i \in DOMAIN s |-> IF Opens(s[i], req, boundary) THEN <<s[i].what>> ELSE <<>>]
    <3>1. \A i \in DOMAIN s : s[i] \in SealedOf(iss)
      OBVIOUS
    <3>. QED BY <3>1, Zenon
  <2>. QED BY <2>1, Zenon DEF Opened, Joined, JoinBy
<1>. HIDE DEF items
<1>4. \A x \in X : x \in OutputItems /\ x \in Own(iss, req.account, req.model) /\ x.type = "reasoning"
  BY DEF ReasoningItems, OutputItems
<1>5. items \in Seq(OutputItems) /\ items \in Seq(Own(iss, req.account, req.model))
  <2>. HIDE DEF X
  <2>1. \A i \in DOMAIN items : items[i] \in X
    BY <1>2
  <2>. QED BY <1>2, <1>4, <2>1
<1>6. \A i \in DOMAIN items : items[i].type = "reasoning"
  <2>. HIDE DEF X
  <2>. QED BY <1>2, <1>4
<1>7. (\A i \in DOMAIN items : items[i].type # "message") /\ (\A i \in DOMAIN items : items[i].type # "function_call")
  BY <1>6
<1>8. JoinBy(TextPart, items) = <<>> /\ JoinBy(RefusalPart, items) = <<>> /\ JoinBy(CallPart, items) = <<>>
  BY <1>5, <1>7, PartsOfOthers, Zenon
<1>. QED BY <1>3, <1>5, <1>8, Zenon

-----------------------------------------------------------------------------
(* A message, translated, shows what it did, whether it comes from its        *)
(* carrier or from its blocks, and the reasoning in it is the account's own.  *)
LEMMA MessageOf ==
  ASSUME NEW iss, NEW boundary \in Seq(MessagesOf(iss)), boundary # <<>>
  PROVE  /\ Last(boundary) \in MessagesOf(iss)
         /\ Front(boundary) \in Seq(MessagesOf(iss)) /\ boundary = Append(Front(boundary), Last(boundary))
         /\ Len(Front(boundary)) = Len(boundary) - 1
<1>1. PICK s \in Seq(MessagesOf(iss)), m \in MessagesOf(iss) : boundary = Append(s, m)
  BY SequenceEmptyOrAppend
<1>2. Len(boundary) = Len(s) + 1 /\ boundary[Len(boundary)] = m
  BY <1>1
<1>3. SubSeq(boundary, 1, Len(boundary) - 1) = s
  BY <1>1, <1>2
<1>. QED BY <1>1, <1>2, <1>3 DEF Last, Front

(* A carrier that holds shows the text and the calls of its message.          *)
LEMMA CarrierShows ==
  ASSUME NEW iss, NEW boundary \in Seq(MessagesOf(iss)), boundary # <<>>, NEW req,
         Last(boundary).role # "user", NEW carrier \in CarriersOf(iss),
         CarrierHolds(carrier, req, boundary)
  PROVE  /\ ShowsMessage(carrier.what, Last(boundary))
         /\ carrier.what \in Seq(Own(iss, req.account, req.model))
<1>. DEFINE m == Last(boundary)
            f == Front(boundary)
            n == NativeAssistant(carrier.what)
<1>1. m \in MessagesOf(iss) /\ f \in Seq(MessagesOf(iss)) /\ boundary = Append(f, m)
  BY MessageOf
<1>2. carrier.what \in Seq(OutputItems) /\ carrier.what \in Seq(Own(iss, carrier.account, carrier.model))
  BY DEF CarriersOf, Envelopes, OutputItems
<1>3. carrier.account = req.account /\ carrier.model = req.model
      /\ EnvelopeScope(req, Append(f, n)) = EnvelopeScope(req, boundary)
  BY DEF CarrierHolds, Opens
<1>4. n \in MessagesOf(iss)
        /\ n = Assistant(TextOf(carrier.what), JoinBy(CallPart, carrier.what),
                         JoinBy(SummaryPart, carrier.what), <<>>, <<>>)
  BY <1>2, NativeIsMessage, NativeIs, Zenon
<1>. HIDE DEF m, f, n
<1>5. [i \in DOMAIN Append(f, n) |-> WithSummaries(Append(f, n)[i])]
        = [i \in DOMAIN Append(f, m) |-> WithSummaries(Append(f, m)[i])]
  BY <1>1, <1>3 DEF EnvelopeScope
<1>6. WithSummaries(n) = WithSummaries(m)
  <2>1. /\ Len(f) + 1 \in DOMAIN Append(f, n) /\ Append(f, n)[Len(f) + 1] = n
        /\ Len(f) + 1 \in DOMAIN Append(f, m) /\ Append(f, m)[Len(f) + 1] = m
    BY <1>1, <1>4
  <2>. QED BY <1>5, <2>1
<1>7. n.role = "assistant" /\ n.text = TextOf(carrier.what) /\ n.calls = JoinBy(CallPart, carrier.what)
  BY <1>4 DEF Assistant
<1>8. m.role # "user"
  BY DEF m
<1>9. m.text = n.text /\ m.calls = n.calls
  BY <1>6, <1>7, <1>8 DEF WithSummaries
<1>. QED BY <1>2, <1>3, <1>7, <1>9, Zenon DEF ShowsMessage, m

(* An answer, translated, shows its text and its calls.                       *)
LEMMA AnswerShows ==
  ASSUME NEW iss, NEW boundary \in Seq(MessagesOf(iss)), boundary # <<>>, NEW req,
         Last(boundary).role # "user"
  PROVE  /\ ShowsMessage(Translated(req, boundary), Last(boundary))
         /\ Translated(req, boundary) \in Seq(Own(iss, req.account, req.model))
<1>. DEFINE m == Last(boundary)
            sealedItems == Opened(m.sealed, req, boundary)
            textItems == IF m.text = <<>> THEN <<>> ELSE <<PlainText(m.text)>>
            callItems == [i \in DOMAIN m.calls |-> Call(NoItem, m.calls[i].call, m.calls[i].args)]
<1>1. m \in AnswersOf(iss)
  BY MessageOf, MessageIs
<1>2. m.text \in Texts /\ m.calls \in Seq(CallBlocks) /\ m.sealed \in Seq(SealedOf(iss))
      /\ m.carriers \in Seq(CarriersOf(iss)) /\ m.role # "user"
  BY <1>1 DEF AnswersOf
<1>3. CASE Len(m.carriers) = 1 /\ CarrierHolds(m.carriers[1], req, boundary)
  <2>1. Translated(req, boundary) = m.carriers[1].what
    BY <1>2, <1>3 DEF Translated
  <2>2. m.carriers[1] \in CarriersOf(iss)
    <3>. HIDE DEF m
    <3>. QED BY <1>2, <1>3
  <2>. QED BY <1>2, <1>3, <2>1, <2>2, CarrierShows
<1>4. CASE ~(Len(m.carriers) = 1 /\ CarrierHolds(m.carriers[1], req, boundary))
  <2>1. Translated(req, boundary) = sealedItems \o textItems \o callItems
    BY <1>2, <1>4, Zenon DEF Translated, Opened
  <2>2. /\ sealedItems \in Seq(OutputItems) /\ sealedItems \in Seq(Own(iss, req.account, req.model))
        /\ JoinBy(TextPart, sealedItems) = <<>> /\ JoinBy(RefusalPart, sealedItems) = <<>>
        /\ JoinBy(CallPart, sealedItems) = <<>>
    BY <1>2, OpenedIs, Zenon
  <2>3. /\ textItems \in Seq(OutputItems) /\ JoinBy(TextPart, textItems) = m.text
        /\ JoinBy(RefusalPart, textItems) = <<>> /\ JoinBy(CallPart, textItems) = <<>>
        /\ \A i \in DOMAIN textItems : textItems[i].type = "message"
    BY <1>2, TextIsShown, Zenon
  <2>4. /\ callItems \in Seq(OutputItems) /\ JoinBy(TextPart, callItems) = <<>>
        /\ JoinBy(RefusalPart, callItems) = <<>> /\ JoinBy(CallPart, callItems) = m.calls
        /\ \A i \in DOMAIN callItems : callItems[i].type = "function_call"
    BY <1>2, CallsAreShown, Zenon
  <2>. HIDE DEF sealedItems, textItems, callItems, m
  <2>5. ShowsMessage(sealedItems \o textItems \o callItems, m)
    <3>1. /\ sealedItems \o textItems \o callItems \in Seq(OutputItems)
          /\ TextOf(sealedItems \o textItems \o callItems) = m.text
          /\ JoinBy(CallPart, sealedItems \o textItems \o callItems) = m.calls
      BY <1>2, <2>2, <2>3, <2>4, ThreeParts
    <3>. QED BY <3>1 DEF ShowsMessage
  <2>6. textItems \in Seq(Own(iss, req.account, req.model)) /\ callItems \in Seq(Own(iss, req.account, req.model))
    BY <2>3, <2>4, OwnSeqs
  <2>7. sealedItems \o textItems \o callItems \in Seq(Own(iss, req.account, req.model))
    BY <2>2, <2>6, ConcatProperties, Zenon
  <2>. QED BY <2>1, <2>5, <2>7 DEF m
<1>. QED BY <1>3, <1>4

(* A prompt, translated, is itself.                                           *)
LEMMA PromptShows ==
  ASSUME NEW iss, NEW boundary \in Seq(MessagesOf(iss)), boundary # <<>>, NEW req,
         Last(boundary).role = "user"
  PROVE  /\ Translated(req, boundary) = <<Prompt(Last(boundary).prompt)>>
         /\ Translated(req, boundary) \in Seq(Own(iss, req.account, req.model))
         /\ Last(boundary) = User(Last(boundary).prompt) /\ Last(boundary).prompt \in Prompts
<1>. DEFINE m == Last(boundary)
<1>1. m \in Users
  BY MessageOf, MessageIs
<1>2. m = User(m.prompt) /\ m.prompt \in Prompts
  BY <1>1 DEF Users, User
<1>3. Prompt(m.prompt) \in Own(iss, req.account, req.model)
  <2>1. Prompt(m.prompt) \in InputItems /\ Prompt(m.prompt).type = "input"
    BY <1>2 DEF InputItems, PromptItems, Prompt
  <2>. QED BY <2>1 DEF Own
<1>4. Translated(req, boundary) = <<Prompt(m.prompt)>>
  BY DEF Translated
<1>. QED BY <1>2, <1>3, <1>4

LEMMA PrefixesAre ==
  ASSUME NEW iss, NEW req \in RequestsOf(iss), NEW i \in DOMAIN req.messages
  PROVE  /\ SubSeq(req.messages, 1, i) \in Seq(MessagesOf(iss)) /\ SubSeq(req.messages, 1, i) # <<>>
         /\ Last(SubSeq(req.messages, 1, i)) = req.messages[i]
<1>1. req.messages \in Seq(MessagesOf(iss))
  BY DEF RequestsOf
<1>2. i \in 1..Len(req.messages)
  BY <1>1
<1>. DEFINE ms == req.messages
<1>. HIDE DEF ms
<1>3. ms \in Seq(MessagesOf(iss)) /\ i \in 1..Len(ms)
  BY <1>1, <1>2 DEF ms
<1>4. SubSeq(ms, 1, i) \in Seq(MessagesOf(iss)) /\ Len(SubSeq(ms, 1, i)) = i
      /\ SubSeq(ms, 1, i)[i] = ms[i]
  BY <1>3
<1>5. SubSeq(ms, 1, i) # <<>>
  BY <1>3, <1>4
<1>. QED BY <1>4, <1>5 DEF Last, ms

(* Whatever a request is translated to may go to its account.                 *)
LEMMA TranslatedIsOwn ==
  ASSUME NEW iss, NEW req \in RequestsOf(iss)
  PROVE  /\ \A i \in DOMAIN req.messages :
              Translated(req, SubSeq(req.messages, 1, i)) \in Seq(Own(iss, req.account, req.model))
         /\ TranslateMessages(req) \in Seq(Own(iss, req.account, req.model))
         /\ req.messages # <<>> =>
              Translated(req, req.messages) \in Seq(Own(iss, req.account, req.model))
<1>. DEFINE O == Own(iss, req.account, req.model)
            Q == Seq(O)
<1>0. req.messages \in Seq(MessagesOf(iss))
  BY DEF RequestsOf
<1>. HIDE DEF O
<1>1. \A b \in Seq(MessagesOf(iss)) : b # <<>> => Translated(req, b) \in Q
  BY AnswerShows, PromptShows DEF O
<1>2. \A i \in DOMAIN req.messages : Translated(req, SubSeq(req.messages, 1, i)) \in Q
  BY <1>1, PrefixesAre
<1>3. [i \in DOMAIN req.messages |-> Translated(req, SubSeq(req.messages, 1, i))] \in Seq(Q)
  <2>. HIDE DEF Q
  <2>. QED BY <1>0, <1>2
<1>4. TranslateMessages(req) \in Seq(O)
  BY <1>3, FlattenIsSeq, Zenon DEF TranslateMessages
<1>. QED BY <1>0, <1>1, <1>2, <1>4 DEF O

-----------------------------------------------------------------------------
(* The cache, looked up and written: it stays sound.                          *)
LEMMA AppendDistinct ==
  ASSUME NEW E, NEW s \in Seq(E), Distinct(s), NEW e \in E, \A x \in EntriesOf(s) : x.key # e.key
  PROVE  Distinct(Append(s, e)) /\ EntriesOf(Append(s, e)) = EntriesOf(s) \cup {e}
<1>. DEFINE v == Append(s, e)
<1>1. v \in Seq(E) /\ DOMAIN v = 1..Len(s) + 1 /\ v[Len(s) + 1] = e
      /\ DOMAIN s = 1..Len(s) /\ \A i \in 1..Len(s) : v[i] = s[i]
  OBVIOUS
<1>. HIDE DEF v
<1>2. DOMAIN v = DOMAIN s \cup {Len(s) + 1} /\ Len(s) + 1 \notin DOMAIN s
  BY <1>1
<1>3. EntriesOf(v) = EntriesOf(s) \cup {e}
  <2>1. ASSUME NEW x \in EntriesOf(v) PROVE x \in EntriesOf(s) \cup {e}
    BY <1>1, <1>2 DEF EntriesOf
  <2>2. ASSUME NEW x \in EntriesOf(s) \cup {e} PROVE x \in EntriesOf(v)
    BY <1>1, <1>2 DEF EntriesOf
  <2>. QED BY <2>1, <2>2
<1>4. Distinct(v)
  <2>. SUFFICES ASSUME NEW i \in DOMAIN v, NEW j \in DOMAIN v, v[i].key = v[j].key PROVE i = j
    BY DEF Distinct
  <2>1. \A k \in DOMAIN s : v[k] = s[k] /\ v[k] \in EntriesOf(s)
    BY <1>1 DEF EntriesOf
  <2>2. \A k \in DOMAIN s : v[k].key # e.key
    BY <2>1
  <2>3. CASE i \in DOMAIN s /\ j \in DOMAIN s
    BY <2>1, <2>3 DEF Distinct
  <2>4. CASE i = Len(s) + 1 /\ j \in DOMAIN s
    BY <1>1, <2>2, <2>4
  <2>5. CASE j = Len(s) + 1 /\ i \in DOMAIN s
    BY <1>1, <2>2, <2>5
  <2>. QED BY <1>2, <2>3, <2>4, <2>5
<1>. QED BY <1>3, <1>4 DEF v

LEMMA SuffixDistinct ==
  ASSUME NEW E, NEW s \in Seq(E), Distinct(s), NEW n \in 0..Len(s)
  PROVE  LET u == SubSeq(s, n + 1, Len(s))
         IN u \in Seq(E) /\ Len(u) = Len(s) - n /\ Distinct(u) /\ EntriesOf(u) \subseteq EntriesOf(s)
<1>. DEFINE u == SubSeq(s, n + 1, Len(s))
<1>1. u \in Seq(E) /\ Len(u) = Len(s) - n /\ \A i \in 1..(Len(s) - n) : u[i] = s[i + n]
  OBVIOUS
<1>. HIDE DEF u
<1>2. \A i \in DOMAIN u : i \in 1..(Len(s) - n) /\ i + n \in DOMAIN s /\ u[i] = s[i + n]
  BY <1>1
<1>3. Distinct(u)
  <2>. SUFFICES ASSUME NEW i \in DOMAIN u, NEW j \in DOMAIN u, u[i].key = u[j].key PROVE i = j
    BY DEF Distinct
  <2>1. i + n = j + n
    BY <1>2 DEF Distinct
  <2>. QED BY <1>2, <2>1
<1>4. EntriesOf(u) \subseteq EntriesOf(s)
  BY <1>2 DEF EntriesOf
<1>. QED BY <1>1, <1>3, <1>4 DEF u

(* What the cache keeps under a key, and what is left without it.             *)
LEMMA PlaceIs ==
  ASSUME NEW key, Keeps(key) # {}
  PROVE  Place(key) \in DOMAIN cache /\ cache[Place(key)].key = key
BY DEF Place, Keeps

LEMMA WithoutIs ==
  ASSUME NEW E, NEW X, Storable(E, X), cache \in Seq(E), Distinct(cache), NEW key
  PROVE  /\ Without(key) \in Seq(E) /\ Distinct(Without(key)) /\ Len(Without(key)) <= Len(cache)
         /\ EntriesOf(Without(key)) = {e \in EntriesOf(cache) : e.key # key}
         /\ Bytes(Without(key)) \in Nat /\ Freed(key) \in Nat
         /\ Bytes(Without(key)) + Freed(key) = Bytes(cache)
         /\ Keeps(key) # {} =>
              /\ cache[Place(key)] \in E /\ cache[Place(key)] \in EntriesOf(cache)
              /\ cache[Place(key)].key = key /\ Len(Without(key)) = Len(cache) - 1
              /\ Freed(key) = SizeOf(cache[Place(key)])
<1>1. CASE Keeps(key) = {}
  <2>1. Without(key) = cache /\ Freed(key) = 0
    BY <1>1 DEF Without, Freed
  <2>2. Bytes(cache) \in Nat
    BY LaidOut
  <2>3. EntriesOf(cache) = {e \in EntriesOf(cache) : e.key # key}
    BY <1>1 DEF EntriesOf, Keeps
  <2>4. Len(cache) <= Len(cache) /\ 0 \in Nat
    OBVIOUS
  <2>. QED BY <1>1, <2>1, <2>2, <2>3, <2>4
<1>2. CASE Keeps(key) # {}
  <2>. DEFINE n == Place(key)
  <2>1. n \in DOMAIN cache /\ cache[n].key = key
    BY <1>2, PlaceIs
  <2>2. Without(key) = RemoveAt(cache, n) /\ Freed(key) = SizeOf(cache[n])
    BY <1>2 DEF Without, Freed
  <2>. HIDE DEF n
  <2>3. /\ RemoveAt(cache, n) \in Seq(E) /\ Len(RemoveAt(cache, n)) = Len(cache) - 1
        /\ Bytes(RemoveAt(cache, n)) + SizeOf(cache[n]) = Bytes(cache)
    BY <2>1, BytesRemove
  <2>4. /\ Distinct(RemoveAt(cache, n))
        /\ EntriesOf(RemoveAt(cache, n)) = {e \in EntriesOf(cache) : e.key # cache[n].key}
    BY <2>1, RemoveDistinct
  <2>5. Bytes(RemoveAt(cache, n)) \in Nat
    BY <2>3, LaidOut
  <2>6. cache[n] \in E /\ cache[n] \in EntriesOf(cache)
    BY <2>1 DEF EntriesOf
  <2>7. SizeOf(cache[n]) \in Nat
    BY <2>6, BytesOne
  <2>8. Len(cache) - 1 <= Len(cache)
    OBVIOUS
  <2>. QED BY <2>1, <2>2, <2>3, <2>4, <2>5, <2>6, <2>7, <2>8 DEF n
<1>. QED BY <1>1, <1>2

(* The entries of a cache that is sound: within its bounds, one for a key.    *)
Bounded(s, bytes) ==
  /\ Len(s) <= MaxEntries /\ bytes = Bytes(s) /\ bytes <= MaxBytes /\ Distinct(s)
NoGuess(s, results) ==
  \A e \in EntriesOf(s) : ~e.value.ambiguous =>
    {m.items : m \in {n \in results : n.key = e.key}} = {e.value.items}
InEntries(m, s) == \E i \in DOMAIN s : s[i].key = m.key
AllIn(s, results) == \A m \in results : InEntries(m, s)
Sound(s, bytes, results) == Bounded(s, bytes) /\ NoGuess(s, results) /\ AllIn(s, results)

(* A lookup moves an entry.                                                   *)
LEMMA GetsIs ==
  ASSUME NEW E, NEW X, Storable(E, X), cache \in Seq(E), Sound(cache, used, made), NEW key, Gets(key)
  PROVE  cache' \in Seq(E) /\ Sound(cache', used, made)
<1>0. Distinct(cache)
  BY DEF Sound, Bounded
<1>1. CASE Keeps(key) = {}
  <2>1. cache' = cache
    BY <1>1 DEF Gets
  <2>. QED BY <2>1, Zenon
<1>2. CASE Keeps(key) # {}
  <2>. DEFINE w == Without(key)
              e == cache[Place(key)]
  <2>1. cache' = Append(w, e)
    BY <1>2 DEF Gets
  <2>2. /\ w \in Seq(E) /\ Distinct(w) /\ Len(w) = Len(cache) - 1
        /\ EntriesOf(w) = {x \in EntriesOf(cache) : x.key # key}
        /\ Bytes(w) + SizeOf(e) = Bytes(cache)
        /\ e \in E /\ e \in EntriesOf(cache) /\ e.key = key
    BY <1>0, <1>2, WithoutIs
  <2>. HIDE DEF w, e
  <2>3. Distinct(Append(w, e)) /\ EntriesOf(Append(w, e)) = EntriesOf(w) \cup {e}
    BY <2>2, AppendDistinct
  <2>4. Bytes(Append(w, e)) = Bytes(cache)
    <3>1. Bytes(Append(w, e)) = Bytes(w) + SizeOf(e)
      BY <2>2, BytesAppend
    <3>. QED BY <2>2, <3>1
  <2>5. Append(w, e) \in Seq(E) /\ Len(Append(w, e)) = Len(cache)
    BY <2>2
  <2>6. EntriesOf(Append(w, e)) = EntriesOf(cache)
    <3>1. \A x \in EntriesOf(cache) : x.key = key => x = e
      BY <1>0, <2>2 DEF Distinct, EntriesOf
    <3>. QED BY <2>2, <2>3, <3>1
  <2>7. Bounded(Append(w, e), used)
    BY <2>3, <2>4, <2>5, Zenon DEF Sound, Bounded
  <2>8. NoGuess(Append(w, e), made)
    BY <2>6, Zenon DEF Sound, NoGuess
  <2>9. AllIn(Append(w, e), made)
    <3>. SUFFICES ASSUME NEW m \in made PROVE InEntries(m, Append(w, e))
      BY DEF AllIn
    <3>1. PICK i \in DOMAIN cache : cache[i].key = m.key
      BY DEF Sound, AllIn, InEntries
    <3>2. cache[i] \in EntriesOf(Append(w, e))
      BY <2>6 DEF EntriesOf
    <3>. QED BY <3>1, <3>2 DEF EntriesOf, InEntries
  <2>. QED BY <2>1, <2>5, <2>7, <2>8, <2>9, Zenon DEF Sound
<1>. QED BY <1>1, <1>2

(* What Puts stores under a key.                                              *)
PutValue(key, items) ==
  IF Keeps(key) = {} THEN Unambiguous(items) ELSE Merged(cache[Place(key)].value, items)
PutEntry(key, items) == [key |-> key, value |-> PutValue(key, items)]

LEMMA PutEntryIs ==
  ASSUME NEW key, NEW items
  PROVE  /\ PutEntry(key, items).key = key
         /\ PutEntry(key, items).value = PutValue(key, items)
         /\ PutValue(key, items) \in {Ambiguous, Unambiguous(items)}
         /\ Keeps(key) # {} /\ PutValue(key, items) # Ambiguous =>
              cache[Place(key)].value = Unambiguous(items)
BY DEF PutEntry, PutValue, Merged

LEMMA PutKeeps ==
  ASSUME NEW E, NEW X, Storable(E, X), cache \in Seq(E), Sound(cache, used, made), NEW key, NEW items,
         PutEntry(key, items) \in E, Puts(key, items)
  PROVE  /\ cache' \in Seq(E) /\ Bounded(cache', used')
         /\ EntriesOf(cache') \subseteq {x \in EntriesOf(cache) : x.key # key} \cup {PutEntry(key, items)}
         /\ made' = {m \in made \cup {[key |-> key, items |-> items]} : InEntries(m, cache')}
<1>. DEFINE w == Without(key)
            entry == PutEntry(key, items)
            room == used - Freed(key)
            s == Append(w, entry)
            big == SizeOf(entry) > MaxBytes \/ MaxEntries = 0
            kept == IF big THEN [entries |-> w, bytes |-> room]
                    ELSE Evicted(s, room + SizeOf(entry))
<1>0. Distinct(cache) /\ used = Bytes(cache) /\ Len(cache) <= MaxEntries /\ used <= MaxBytes
      /\ MaxEntries \in Nat /\ MaxBytes \in Nat
  BY CacheAssumption DEF Sound, Bounded
<1>1. /\ cache' = kept.entries /\ used' = kept.bytes
      /\ made' = {m \in made \cup {[key |-> key, items |-> items]} :
                    \E i \in DOMAIN kept.entries : kept.entries[i].key = m.key}
  BY DEF Puts, PutEntry, PutValue
<1>2. /\ w \in Seq(E) /\ Distinct(w) /\ Len(w) <= Len(cache)
      /\ EntriesOf(w) = {x \in EntriesOf(cache) : x.key # key}
      /\ Bytes(w) \in Nat /\ Freed(key) \in Nat /\ Bytes(w) + Freed(key) = Bytes(cache)
  BY <1>0, WithoutIs
<1>3. room = Bytes(w)
  BY <1>0, <1>2
<1>4. made' = {m \in made \cup {[key |-> key, items |-> items]} : InEntries(m, cache')}
  BY <1>1, Zenon DEF InEntries
<1>5. CASE big
  <2>1. cache' = w /\ used' = room
    BY <1>1, <1>5
  <2>2. Len(w) <= MaxEntries /\ Bytes(w) <= MaxBytes
    <3>. HIDE DEF w
    <3>1. Len(w) \in Nat /\ Len(cache) \in Nat
      BY <1>2
    <3>. QED BY <1>0, <1>2, <3>1
  <2>. HIDE DEF w, room, entry
  <2>3. Bounded(cache', used')
    BY <1>2, <1>3, <2>1, <2>2, Zenon DEF Bounded
  <2>. QED BY <1>2, <1>4, <2>1, <2>3 DEF entry
<1>6. CASE ~big
  <2>1. cache' = Evicted(s, room + SizeOf(entry)).entries /\ used' = Evicted(s, room + SizeOf(entry)).bytes
    BY <1>1, <1>6
  <2>2. entry \in E /\ entry.key = key
    BY PutEntryIs
  <2>3. Bytes(s) = room + SizeOf(entry)
    <3>1. Bytes(Append(w, entry)) = Bytes(w) + SizeOf(entry)
      <4>. HIDE DEF w, entry
      <4>. QED BY <1>2, <2>2, BytesAppend
    <3>. QED BY <1>3, <3>1, Zenon
  <2>4. s \in Seq(E) /\ Distinct(s) /\ EntriesOf(s) = EntriesOf(w) \cup {entry}
    <3>. HIDE DEF w, entry
    <3>1. \A x \in EntriesOf(w) : x.key # entry.key
      BY <1>2, <2>2
    <3>2. Append(w, entry) \in Seq(E)
      BY <1>2, <2>2
    <3>. QED BY <1>2, <2>2, <3>1, <3>2, AppendDistinct
  <2>. HIDE DEF s, w, entry, room
  <2>5. PICK n \in 0..Len(s) :
          /\ Evicted(s, Bytes(s)).entries = SubSeq(s, n + 1, Len(s))
          /\ Evicted(s, Bytes(s)).bytes = Bytes(SubSeq(s, n + 1, Len(s)))
          /\ Len(s) - n <= MaxEntries /\ Bytes(SubSeq(s, n + 1, Len(s))) <= MaxBytes
    BY <2>4, EvictedIs
  <2>. DEFINE u == SubSeq(s, n + 1, Len(s))
  <2>6. u \in Seq(E) /\ Len(u) = Len(s) - n /\ Distinct(u) /\ EntriesOf(u) \subseteq EntriesOf(s)
    BY <2>4, SuffixDistinct
  <2>7. cache' = u /\ used' = Bytes(u)
    BY <2>1, <2>3, <2>5, Zenon
  <2>8. Len(u) <= MaxEntries /\ Bytes(u) <= MaxBytes
    BY <2>5, <2>6
  <2>. HIDE DEF u
  <2>9. Bounded(cache', used')
    BY <2>6, <2>7, <2>8, Zenon DEF Bounded
  <2>10. EntriesOf(cache') \subseteq {x \in EntriesOf(cache) : x.key # key} \cup {entry}
    BY <1>2, <2>4, <2>6, <2>7
  <2>. QED BY <1>4, <2>6, <2>7, <2>9, <2>10 DEF entry
<1>. QED BY <1>5, <1>6

(* A result that is stored keeps the cache sound.                             *)
LEMMA PutsIs ==
  ASSUME NEW E, NEW X, Storable(E, X), cache \in Seq(E), Sound(cache, used, made), NEW key, NEW items,
         PutEntry(key, items) \in E, Puts(key, items)
  PROVE  cache' \in Seq(E) /\ Sound(cache', used', made')
<1>. DEFINE entry == PutEntry(key, items)
            new == [key |-> key, items |-> items]
<1>1. /\ cache' \in Seq(E) /\ Bounded(cache', used')
      /\ EntriesOf(cache') \subseteq {x \in EntriesOf(cache) : x.key # key} \cup {entry}
      /\ made' = {m \in made \cup {new} : InEntries(m, cache')}
  BY PutKeeps
<1>2. AllIn(cache', made')
  BY <1>1, Zenon DEF AllIn
<1>3. NoGuess(cache', made')
  <2>. SUFFICES ASSUME NEW e \in EntriesOf(cache'), ~e.value.ambiguous
                PROVE  {m.items : m \in {n \in made' : n.key = e.key}} = {e.value.items}
    BY DEF NoGuess
  <2>0. {n \in made' : n.key = e.key} = {n \in made \cup {new} : n.key = e.key}
    <3>1. \A n : n.key = e.key => InEntries(n, cache')
      BY DEF InEntries, EntriesOf
    <3>. QED BY <1>1, <3>1, Zenon
  <2>1. CASE e # entry
    <3>1. e \in EntriesOf(cache) /\ e.key # key
      BY <1>1, <2>1
    <3>2. {n \in made \cup {new} : n.key = e.key} = {n \in made : n.key = e.key}
      BY <3>1
    <3>3. {m.items : m \in {n \in made : n.key = e.key}} = {e.value.items}
      BY <3>1 DEF Sound, NoGuess
    <3>. QED BY <2>0, <3>2, <3>3, Zenon
  <2>2. CASE e = entry
    <3>1. e.key = key /\ e.value = PutValue(key, items)
          /\ PutValue(key, items) \in {Ambiguous, Unambiguous(items)}
      BY <2>2, PutEntryIs
    <3>2. e.value = Unambiguous(items) /\ e.value.items = items
      <4>1. Ambiguous.ambiguous /\ Unambiguous(items).items = items
        BY DEF Ambiguous, Unambiguous
      <4>. QED BY <3>1, <4>1
    <3>3. PutValue(key, items) # Ambiguous
      <4>1. Ambiguous.ambiguous
        BY DEF Ambiguous
      <4>. QED BY <3>1, <4>1
    <3>4. \A n \in made : n.key = key => n.items = items
      <4>1. CASE Keeps(key) = {}
        <5>1. \A n \in made : n.key # key
          BY <4>1 DEF Sound, AllIn, InEntries, Keeps
        <5>. QED BY <5>1
      <4>2. CASE Keeps(key) # {}
        <5>1. cache[Place(key)].value = Unambiguous(items)
          BY <3>3, <4>2, PutEntryIs
        <5>2. cache[Place(key)] \in EntriesOf(cache) /\ cache[Place(key)].key = key
          BY <4>2, PlaceIs DEF EntriesOf
        <5>3. ~cache[Place(key)].value.ambiguous /\ cache[Place(key)].value.items = items
          BY <5>1 DEF Unambiguous
        <5>4. {m.items : m \in {n \in made : n.key = key}} = {items}
          BY <5>2, <5>3, Zenon DEF Sound, NoGuess
        <5>. QED BY <5>4
      <4>. QED BY <4>1, <4>2
    <3>5. new \in {n \in made \cup {new} : n.key = key} /\ new.items = items
      OBVIOUS
    <3>6. \A m \in {n \in made \cup {new} : n.key = key} : m.items = items
      BY <3>4, <3>5
    <3>. HIDE DEF new
    <3>7. {m.items : m \in {n \in made \cup {new} : n.key = key}} = {items}
      BY <3>5, <3>6
    <3>. QED BY <2>0, <3>1, <3>2, <3>7, Zenon
  <2>. QED BY <2>1, <2>2
<1>. QED BY <1>1, <1>2, <1>3 DEF Sound

LEMMA SoundIs == Sound(cache, used, made) => CacheIsSound
BY DEF Sound, Bounded, NoGuess, CacheIsSound, CacheIsBounded, ReplayIsNoGuess, EntriesOf, Distinct

-----------------------------------------------------------------------------
(* The input: it consists of the account's own items, and so does all that it *)
(* can be made of.                                                            *)
(* Entries whose items may go to the account of their key.                    *)
Values == {Ambiguous} \cup {Unambiguous(s) : s \in Seq(InputItems)}
EntriesWith(iss) ==
  {e \in [key : Keys, value : Values] :
     ~e.value.ambiguous => e.value.items \in Seq(Own(iss, e.key.account, e.key.model))}
(* The inductive invariant of the input: all reasoning in a message, in an    *)
(* entry of the cache and in the input was issued to the account it would go  *)
(* to; the cache is sound.                                                    *)
InputInv ==
  /\ history \in Seq(MessagesOf(issued))
  /\ stage = "reading" =>
       /\ request \in RequestsOf(issued) /\ request.messages # <<>>
       /\ input \in Seq(Own(issued, request.account, request.model))
  /\ cache \in Seq(EntriesWith(issued)) /\ Sound(cache, used, made)

LEMMA SeqsGrow ==
  ASSUME NEW S, NEW T, S \subseteq T
  PROVE  Seq(S) \subseteq Seq(T)
<1>. SUFFICES ASSUME NEW s \in Seq(S) PROVE s \in Seq(T)
  OBVIOUS
<1>1. \A i \in 1..Len(s) : s[i] \in T
  OBVIOUS
<1>. QED BY <1>1

(* What is issued stays issued: items, messages and entries stay what they    *)
(* are.                                                                       *)
LEMMA IssuedGrows ==
  ASSUME NEW iss, NEW more, iss \subseteq more
  PROVE  /\ \A a, m : Seq(Own(iss, a, m)) \subseteq Seq(Own(more, a, m))
         /\ Seq(MessagesOf(iss)) \subseteq Seq(MessagesOf(more))
         /\ Seq(EntriesWith(iss)) \subseteq Seq(EntriesWith(more))
<1>0. \A a, m : Own(iss, a, m) \subseteq Own(more, a, m)
  BY DEF Own
<1>1. \A a, m : Seq(Own(iss, a, m)) \subseteq Seq(Own(more, a, m))
  BY <1>0, SeqsGrow
<1>2. SealedOf(iss) \subseteq SealedOf(more) /\ CarriersOf(iss) \subseteq CarriersOf(more)
  BY <1>0, <1>1, Zenon DEF SealedOf, CarriersOf
<1>3. Seq(SealedOf(iss)) \subseteq Seq(SealedOf(more)) /\ Seq(CarriersOf(iss)) \subseteq Seq(CarriersOf(more))
  BY <1>2, SeqsGrow
<1>4. MessagesOf(iss) \subseteq MessagesOf(more)
  BY <1>3 DEF MessagesOf, AnswersOf
<1>5. EntriesWith(iss) \subseteq EntriesWith(more)
  BY <1>1, Zenon DEF EntriesWith
<1>. QED BY <1>1, <1>4, <1>5, SeqsGrow

LEMMA EntryIsStorable ==
  ASSUME NEW e \in [key : Keys, value : Values]
  PROVE  Stored(e) \in Seq(Keys \cup InputItems)
<1>. DEFINE X == Keys \cup InputItems
<1>1. e.key \in Keys /\ e.value \in Values
  OBVIOUS
<1>2. <<e.key>> \in Seq(X)
  BY <1>1
<1>3. CASE e.value.ambiguous
  <2>1. Stored(e) = <<e.key>> \o <<>>
    BY <1>3 DEF Stored
  <2>. QED BY <1>2, <2>1, ConcatEmptySeq
<1>4. CASE ~e.value.ambiguous
  <2>1. PICK s \in Seq(InputItems) : e.value = Unambiguous(s)
    BY <1>1, <1>4 DEF Values, Ambiguous
  <2>2. e.value.items \in Seq(X)
    BY <2>1 DEF Unambiguous
  <2>3. Stored(e) = <<e.key>> \o e.value.items
    BY <1>4 DEF Stored
  <2>4. <<e.key>> \o e.value.items \in Seq(X)
    <3>. HIDE DEF X
    <3>. QED BY <1>2, <2>2, ConcatProperties, Zenon
  <2>. QED BY <2>3, <2>4
<1>. QED BY <1>3, <1>4

LEMMA EntriesAreStorable ==
  ASSUME NEW iss
  PROVE  Storable(EntriesWith(iss), Keys \cup InputItems)
BY EntryIsStorable DEF Storable, EntriesWith

LEMMA ToldIsText ==
  ASSUME NEW s \in Seq(Events)
  PROVE  /\ CallsOf(s) \in Seq(CallBlocks)
         /\ \A kind \in Kinds : ToldOf(kind, s) \in Texts
<1>0. \A j \in DOMAIN s : s[j] \in Events
  OBVIOUS
<1>1. CallsOf(s) \in Seq(CallBlocks)
  <2>1. AllCalls \in [Events -> Seq(CallBlocks)]
    <3>1. ASSUME NEW e \in Events
          PROVE  (IF e.kind = "call" THEN <<e.what>> ELSE <<>>) \in Seq(CallBlocks)
      <4>1. e.kind = "call" => <<e.what>> \in Seq(CallBlocks)
        BY EventParts
      <4>. QED BY <4>1, EmptySeq
    <3>. QED BY <3>1 DEF AllCalls
  <2>2. [j \in DOMAIN s |-> AllCalls[s[j]]]
          = [j \in DOMAIN s |-> IF s[j].kind = "call" THEN <<s[j].what>> ELSE <<>>]
    BY <1>0, Zenon DEF AllCalls
  <2>3. CallsOf(s) = JoinBy(AllCalls, s)
    BY <2>2, Zenon DEF CallsOf, Joined, JoinBy
  <2>. QED BY <2>1, <2>3, JoinByIsSeq
<1>2. ASSUME NEW kind \in Kinds PROVE ToldOf(kind, s) \in Texts
  <2>1. AllText(kind) \in [Events -> Seq(Letters)]
    <3>1. ASSUME NEW e \in Events
          PROVE  (IF e.kind = kind THEN e.what ELSE <<>>) \in Seq(Letters)
      <4>1. e.kind = kind => e.what \in Seq(Letters)
        BY EventParts DEF Texts
      <4>. QED BY <4>1, EmptySeq
    <3>. QED BY <3>1 DEF AllText
  <2>2. [j \in DOMAIN s |-> AllText(kind)[s[j]]]
          = [j \in DOMAIN s |-> IF s[j].kind = kind THEN s[j].what ELSE <<>>]
    BY <1>0, Zenon DEF AllText
  <2>3. ToldOf(kind, s) = JoinBy(AllText(kind), s)
    BY <2>2, Zenon DEF ToldOf, Joined, JoinBy
  <2>4. JoinBy(AllText(kind), s) \in Seq(Letters)
    BY <2>1, JoinByIsSeq, Zenon
  <2>. QED BY <2>3, <2>4 DEF Texts
<1>. QED BY <1>1, <1>2

LEMMA SummariesAre ==
  ASSUME NEW s \in Seq(OutputItems)
  PROVE  Joined(s, IsReasoning, LAMBDA r : <<r.summary>>) \in Seq(Texts)
<1>1. \A i \in DOMAIN s : s[i] \in OutputItems
  OBVIOUS
<1>2. [i \in DOMAIN s |-> SummaryPart[s[i]]]
        = [i \in DOMAIN s |-> IF IsReasoning(s[i]) THEN <<s[i].summary>> ELSE <<>>]
  BY <1>1, Zenon DEF SummaryPart
<1>3. Joined(s, IsReasoning, LAMBDA r : <<r.summary>>) = JoinBy(SummaryPart, s)
  BY <1>2, Zenon DEF Joined, JoinBy
<1>4. JoinBy(SummaryPart, s) \in Seq(Texts)
  BY PartsAre, JoinByIsSeq, Zenon
<1>. QED BY <1>3, <1>4, Zenon

(* The envelopes that a finished turn gives the client.                       *)
SealPart(req, scope, items) ==
  [r \in items |-> IF IsReasoning(r) THEN <<SealedReasoning(req, scope, r)>> ELSE <<>>]

(* The envelopes of a finished turn hold its own reasoning.                   *)
LEMMA SealedIs ==
  ASSUME NEW iss, NEW req \in RequestsOf(iss), NEW t \in Translators,
         t.output \in Seq(Own(iss, req.account, req.model))
  PROVE  /\ Sealed(t, req).reasoning \in Seq(SealedOf(iss))
         /\ Sealed(t, req).carriers \in Seq(CarriersOf(iss))
<1>. DEFINE O == Own(iss, req.account, req.model)
            scope == EnvelopeScope(req, Append(req.messages, NativeAssistant(t.output)))
            K == {item \in KnownItems : item \in O}
            g == SealPart(req, scope, K)
<1>1. t.output \in Seq(KnownItems) /\ t.output \in Seq(OutputItems)
  <2>1. t.output \in Seq(KnownItems)
    BY DEF Translators
  <2>2. KnownItems \subseteq OutputItems
    BY DEF OutputItems
  <2>. QED BY <2>1, <2>2, SeqsGrow
<1>2. scope \in Scopes
  <2>1. NativeAssistant(t.output) \in MessagesOf(iss) /\ req.messages \in Seq(MessagesOf(iss))
    BY <1>1, NativeIsMessage DEF RequestsOf
  <2>2. Append(req.messages, NativeAssistant(t.output)) \in Seq(MessagesOf(iss))
    BY <2>1, AppendProperties, Zenon
  <2>. QED BY <2>2, KeyIs, Zenon
<1>3. req.account \in Accounts /\ req.model \in Models
  BY DEF RequestsOf
<1>4. t.output \in Seq(K)
  <2>1. \A i \in 1..Len(t.output) : t.output[i] \in KnownItems /\ t.output[i] \in O
    BY <1>1
  <2>. HIDE DEF O
  <2>2. \A i \in 1..Len(t.output) : t.output[i] \in K
    BY <2>1
  <2>. HIDE DEF K
  <2>. QED BY <1>1, <2>2
<1>5. Sealed(t, req).reasoning = JoinBy(g, t.output)
  <2>1. \A i \in DOMAIN t.output : t.output[i] \in K
    <3>. HIDE DEF K
    <3>. QED BY <1>4
  <2>2. [i \in DOMAIN t.output |-> g[t.output[i]]]
          = [i \in DOMAIN t.output |->
               IF IsReasoning(t.output[i]) THEN <<SealedReasoning(req, scope, t.output[i])>> ELSE <<>>]
    <3>. HIDE DEF K, scope
    <3>. QED BY <2>1, Zenon DEF SealPart
  <2>3. Sealed(t, req).reasoning = Joined(t.output, IsReasoning, LAMBDA r : <<SealedReasoning(req, scope, r)>>)
    BY DEF Sealed
  <2>. HIDE DEF g, scope, K
  <2>. QED BY <2>2, <2>3, Zenon DEF Joined, JoinBy
<1>. HIDE DEF scope
<1>6. g \in [K -> Seq(SealedOf(iss))]
  <2>1. ASSUME NEW r \in K
        PROVE  (IF IsReasoning(r) THEN <<SealedReasoning(req, scope, r)>> ELSE <<>>) \in Seq(SealedOf(iss))
    <3>1. IsReasoning(r) => SealedReasoning(req, scope, r) \in SealedOf(iss)
      BY <1>2, <1>3 DEF IsReasoning, SealedReasoning, Envelope, SealedOf, Envelopes, ReasoningItems
    <3>2. IsReasoning(r) => <<SealedReasoning(req, scope, r)>> \in Seq(SealedOf(iss))
      BY <3>1
    <3>3. <<>> \in Seq(SealedOf(iss))
      BY NoEnvelopes
    <3>. QED BY <3>2, <3>3, Zenon
  <2>. HIDE DEF K
  <2>. QED BY <2>1 DEF SealPart
<1>7. Sealed(t, req).reasoning \in Seq(SealedOf(iss))
  <2>. HIDE DEF g, K
  <2>. QED BY <1>4, <1>5, <1>6, JoinByIsSeq
<1>8. Sealed(t, req).carriers \in Seq(CarriersOf(iss))
  <2>1. Envelope(req, scope, t.output) \in CarriersOf(iss)
    BY <1>1, <1>2, <1>3 DEF Envelope, CarriersOf, Envelopes
  <2>2. <<Envelope(req, scope, t.output)>> \in Seq(CarriersOf(iss))
    BY <2>1
  <2>3. Sealed(t, req).carriers = IF t.cacheable THEN <<Envelope(req, scope, t.output)>> ELSE <<>>
    BY DEF Sealed, scope
  <2>4. <<>> \in Seq(CarriersOf(iss))
    BY NoEnvelopes
  <2>. QED BY <2>2, <2>3, <2>4, Zenon
<1>. QED BY <1>7, <1>8

(* The answer that a client keeps.                                            *)
LEMMA KeptIs ==
  ASSUME NEW iss, request \in RequestsOf(iss), NEW t \in Translators,
         t.output \in Seq(Own(iss, request.account, request.model)),
         NEW sent \in Seq(Events), NEW refusal \in Texts
  PROVE  Kept(t, sent, refusal) \in MessagesOf(iss)
<1>. DEFINE text == ToldOf("text", sent) \o refusal
            summaries == Joined(t.output, IsReasoning, LAMBDA r : <<r.summary>>)
<1>1. text \in Texts /\ CallsOf(sent) \in Seq(CallBlocks)
  <2>1. ToldOf("text", sent) \in Texts /\ CallsOf(sent) \in Seq(CallBlocks)
    BY ToldIsText DEF Kinds
  <2>. QED BY <2>1 DEF Texts
<1>2. summaries \in Seq(Texts)
  <2>1. t.output \in Seq(KnownItems) /\ KnownItems \subseteq OutputItems
    BY DEF Translators, OutputItems
  <2>2. t.output \in Seq(OutputItems)
    BY <2>1, SeqsGrow
  <2>. QED BY <2>2, SummariesAre
<1>3. Sealed(t, request).reasoning \in Seq(SealedOf(iss)) /\ Sealed(t, request).carriers \in Seq(CarriersOf(iss))
  BY SealedIs
<1>4. <<>> \in Seq(SealedOf(iss)) /\ <<>> \in Seq(CarriersOf(iss)) /\ <<>> \in Seq(Texts)
  BY NoEnvelopes, EmptySeq
<1>5. Kept(t, sent, refusal)
        = IF dialect = "openai" THEN Assistant(text, CallsOf(sent), <<>>, <<>>, <<>>)
          ELSE Assistant(text, CallsOf(sent), summaries, Sealed(t, request).reasoning, Sealed(t, request).carriers)
  BY DEF Kept
<1>. HIDE DEF text, summaries
<1>6. Assistant(text, CallsOf(sent), <<>>, <<>>, <<>>) \in AnswersOf(iss)
  BY <1>1, <1>4, AnswerIs
<1>7. Assistant(text, CallsOf(sent), summaries, Sealed(t, request).reasoning, Sealed(t, request).carriers) \in AnswersOf(iss)
  BY <1>1, <1>2, <1>3, AnswerIs
<1>. QED BY <1>5, <1>6, <1>7, Zenon DEF MessagesOf

(* A replay is the value of the entry for its key.                            *)
LEMMA ReplayIs ==
  ASSUME InputInv, NEW key \in Keys
  PROVE  /\ Replay(key).ambiguous \in BOOLEAN
         /\ ~Replay(key).ambiguous =>
              /\ Replay(key).items \in Seq(Own(issued, key.account, key.model))
              /\ Keeps(key) # {} /\ Replay(key) = cache[Place(key)].value
<1>1. CASE Keeps(key) = {}
  BY <1>1 DEF Replay, Ambiguous
<1>2. CASE Keeps(key) # {}
  <2>1. Place(key) \in DOMAIN cache /\ cache[Place(key)].key = key
    BY <1>2, PlaceIs
  <2>2. cache[Place(key)] \in EntriesWith(issued)
    BY <2>1 DEF InputInv
  <2>3. Replay(key) = cache[Place(key)].value
    BY <1>2 DEF Replay
  <2>4. cache[Place(key)].value \in Values
    BY <2>2 DEF EntriesWith
  <2>. DEFINE v == cache[Place(key)].value
  <2>5. v.ambiguous \in BOOLEAN
    <3>1. v = Ambiguous \/ \E s \in Seq(InputItems) : v = Unambiguous(s)
      BY <2>4 DEF Values
    <3>. HIDE DEF v
    <3>2. CASE v = Ambiguous
      BY <3>2 DEF Ambiguous
    <3>3. CASE \E s \in Seq(InputItems) : v = Unambiguous(s)
      <4>1. PICK s \in Seq(InputItems) : v = Unambiguous(s)
        BY <3>3
      <4>. QED BY <4>1 DEF Unambiguous
    <3>. QED BY <3>1, <3>2, <3>3
  <2>. QED BY <1>2, <2>1, <2>2, <2>3, <2>5 DEF EntriesWith
<1>. QED BY <1>1, <1>2

(* What a turn begins with, with or without a replay.                         *)
LEMMA AsksIs ==
  ASSUME InputInv, NEW account \in Accounts, NEW model \in Models, NEW prompt \in Prompts
  PROVE  LET req == [account |-> account, model |-> model, messages |-> Append(history, User(prompt))]
             key == Key(req, history)
         IN /\ req \in RequestsOf(issued) /\ req.messages # <<>>
            /\ key \in Keys /\ key.account = req.account /\ key.model = req.model
            /\ Body(req, Ambiguous) \in Seq(Own(issued, req.account, req.model))
            /\ Body(req, Replay(key)) \in Seq(Own(issued, req.account, req.model))
<1>. DEFINE req == [account |-> account, model |-> model, messages |-> Append(history, User(prompt))]
            key == Key(req, history)
            O == Own(issued, req.account, req.model)
<1>1. User(prompt) \in MessagesOf(issued)
  BY DEF User, Users, MessagesOf
<1>2. history \in Seq(MessagesOf(issued))
  BY DEF InputInv
<1>3. Append(history, User(prompt)) \in Seq(MessagesOf(issued)) /\ Append(history, User(prompt)) # <<>>
  <2>. DEFINE M == MessagesOf(issued)
  <2>1. User(prompt) \in M /\ history \in Seq(M)
    BY <1>1, <1>2
  <2>. HIDE DEF M
  <2>2. Append(history, User(prompt)) \in Seq(M) /\ Append(history, User(prompt)) # <<>>
    <3>. DEFINE p == User(prompt)
    <3>1. p \in M
      BY <2>1
    <3>. HIDE DEF p
    <3>2. Append(history, p) \in Seq(M) /\ Len(Append(history, p)) = Len(history) + 1
      BY <2>1, <3>1, AppendProperties, Zenon
    <3>3. Len(history) \in Nat /\ Len(<<>>) = 0
      BY <2>1
    <3>4. Append(history, p) # <<>>
      BY <3>2, <3>3
    <3>. QED BY <3>2, <3>4 DEF p
  <2>. QED BY <2>2 DEF M
<1>4. req \in RequestsOf(issued) /\ req.messages # <<>>
  BY <1>3 DEF RequestsOf
<1>. HIDE DEF req
<1>5. key \in Keys /\ key.account = req.account /\ key.model = req.model
  BY <1>2, <1>4, KeyIs DEF Key
<1>6. TranslateMessages(req) \in Seq(O) /\ Translated(req, req.messages) \in Seq(O)
  BY <1>4, TranslatedIsOwn
<1>7. Body(req, Ambiguous) \in Seq(O)
  BY <1>6 DEF Body, Ambiguous
<1>. HIDE DEF key
<1>8. Body(req, Replay(key)) \in Seq(O)
  <2>1. CASE Replay(key).ambiguous
    BY <1>6, <2>1 DEF Body
  <2>2. CASE ~Replay(key).ambiguous
    <3>1. Replay(key).items \in Seq(O)
      BY <1>5, <2>2, ReplayIs
    <3>2. Body(req, Replay(key)) = Replay(key).items \o Translated(req, req.messages)
      BY <2>2 DEF Body
    <3>. HIDE DEF O
    <3>. QED BY <1>6, <3>1, <3>2, ConcatProperties, Zenon
  <2>. QED BY <2>1, <2>2
<1>. QED BY <1>4, <1>5, <1>7, <1>8 DEF key, req

(* A turn begins.                                                             *)
LEMMA AsksKeepsInput ==
  ASSUME InputInv, Asks PROVE InputInv'
<1>1. PICK account \in Accounts, model \in Models, prompt \in Prompts :
        LET req == [account |-> account, model |-> model, messages |-> Append(history, User(prompt))]
            key == Key(req, history)
            replay == IF dialect = "openai" THEN Replay(key) ELSE Ambiguous
        IN request' = req /\ input' = Body(req, replay)
           /\ IF dialect = "openai" THEN Gets(key) ELSE UNCHANGED cache
  BY DEF Asks
<1>. DEFINE req == [account |-> account, model |-> model, messages |-> Append(history, User(prompt))]
            key == Key(req, history)
<1>2. /\ req \in RequestsOf(issued) /\ req.messages # <<>>
      /\ Body(req, Ambiguous) \in Seq(Own(issued, req.account, req.model))
      /\ Body(req, Replay(key)) \in Seq(Own(issued, req.account, req.model))
  BY AsksIs
<1>3. UNCHANGED <<history, used, made, issued>>
  BY DEF Asks
<1>. HIDE DEF req, key
<1>4. request' = req /\ input' \in {Body(req, Ambiguous), Body(req, Replay(key))}
      /\ (Gets(key) \/ cache' = cache)
  BY <1>1 DEF req, key
<1>5. cache' \in Seq(EntriesWith(issued)) /\ Sound(cache', used, made)
  BY <1>4, EntriesAreStorable, GetsIs, Zenon DEF InputInv
<1>. QED BY <1>2, <1>3, <1>4, <1>5, Zenon DEF InputInv

(* The client edits its transcript.                                           *)
LEMMA EditsKeepsInput ==
  ASSUME InputInv, Edits PROVE InputInv'
<1>. DEFINE M == MessagesOf(issued)
<1>1. UNCHANGED <<request, input, cache, used, made, issued, stage>> /\ stage = "idle"
  BY DEF Edits
<1>2. history \in Seq(M)
  BY DEF InputInv
<1>3. ASSUME NEW i \in Answers
      PROVE  i \in DOMAIN history /\ history[i] \in AnswersOf(issued)
  <2>1. i \in DOMAIN history /\ history[i].role = "assistant"
    BY DEF Answers
  <2>2. history[i] \in M
    BY <1>2, <2>1
  <2>3. history[i].role # "user"
    BY <2>1
  <2>. QED BY <2>1, <2>2, <2>3, MessageIs
<1>4. ASSUME NEW i \in Answers, NEW m \in AnswersOf(issued)
      PROVE  [history EXCEPT ![i] = m] \in Seq(M)
  <2>1. m \in M /\ i \in DOMAIN history
    BY <1>3 DEF MessagesOf
  <2>. HIDE DEF M
  <2>. QED BY <1>2, <2>1
<1>5. CASE \E i \in Answers \cup {0} : i < Len(history) /\ history' = SubSeq(history, 1, i)
  <2>1. PICK i \in Answers \cup {0} : i < Len(history) /\ history' = SubSeq(history, 1, i)
    BY <1>5
  <2>2. i \in 0..Len(history)
    BY <1>2, <1>3, <2>1
  <2>. HIDE DEF M
  <2>3. history' \in Seq(M)
    BY <1>2, <2>1, <2>2
  <2>. QED BY <1>1, <2>3 DEF InputInv, M
<1>6. CASE \E i \in Answers, letter \in Letters : history' = [history EXCEPT ![i].text = Append(@, letter)]
  <2>1. PICK i \in Answers, letter \in Letters : history' = [history EXCEPT ![i].text = Append(@, letter)]
    BY <1>6
  <2>. DEFINE m == [history[i] EXCEPT !.text = Append(@, letter)]
  <2>2. history' = [history EXCEPT ![i] = m]
    BY <2>1
  <2>3. m \in AnswersOf(issued)
    <3>1. history[i] \in AnswersOf(issued)
      BY <1>3
    <3>2. Append(history[i].text, letter) \in Texts
      BY <3>1 DEF AnswersOf, Texts
    <3>. QED BY <3>1, <3>2 DEF AnswersOf
  <2>. HIDE DEF m
  <2>4. history' \in Seq(M)
    BY <1>4, <2>2, <2>3
  <2>. QED BY <1>1, <2>4 DEF InputInv
<1>7. CASE \E i \in Answers : history' = [history EXCEPT ![i].sealed = <<>>, ![i].carriers = <<>>]
  <2>1. PICK i \in Answers : history' = [history EXCEPT ![i].sealed = <<>>, ![i].carriers = <<>>]
    BY <1>7
  <2>. DEFINE m == [history[i] EXCEPT !.sealed = <<>>, !.carriers = <<>>]
  <2>0. i \in DOMAIN history /\ history[i] \in AnswersOf(issued)
    BY <1>3
  <2>2. history' = [history EXCEPT ![i] = m]
    <3>1. history \in Seq(M) /\ i \in DOMAIN history
      BY <1>2, <2>0
    <3>. QED BY <2>1, <3>1
  <2>3. m \in AnswersOf(issued)
    <3>2. <<>> \in Seq(SealedOf(issued)) /\ <<>> \in Seq(CarriersOf(issued))
      BY NoEnvelopes
    <3>. QED BY <2>0, <3>2 DEF AnswersOf
  <2>. HIDE DEF m
  <2>4. history' \in Seq(M)
    BY <1>4, <2>2, <2>3
  <2>. QED BY <1>1, <2>4 DEF InputInv
<1>8. CASE \E i \in Answers, item \in Items :
             /\ history[i].carriers # <<>> /\ item.type # "reasoning"
             /\ history' = [history EXCEPT ![i].carriers[1].what = <<item>>]
  <2>1. PICK i \in Answers, item \in Items :
          /\ history[i].carriers # <<>> /\ item.type # "reasoning"
          /\ history' = [history EXCEPT ![i].carriers[1].what = <<item>>]
    BY <1>8
  <2>2. history[i] \in AnswersOf(issued) /\ i \in DOMAIN history
    BY <1>3
  <2>. DEFINE cs == history[i].carriers
              c == [cs[1] EXCEPT !.what = <<item>>]
              m == [history[i] EXCEPT !.carriers = [cs EXCEPT ![1] = c]]
  <2>3. cs \in Seq(CarriersOf(issued)) /\ 1 \in DOMAIN cs
    BY <2>1, <2>2 DEF AnswersOf
  <2>4. cs[1] \in CarriersOf(issued)
    <3>. HIDE DEF cs
    <3>. QED BY <2>3
  <2>5. history' = [history EXCEPT ![i] = m]
    BY <1>2, <2>1, <2>2, <2>3
  <2>6. <<item>> \in Seq(KnownItems) /\ \A a, o : <<item>> \in Seq(Own(issued, a, o))
    <3>1. item \in KnownItems /\ item \in OutputItems
      BY DEF KnownItems, OutputItems
    <3>2. \A a, o : item \in Own(issued, a, o)
      BY <2>1, <3>1, OwnIs
    <3>. QED BY <3>1, <3>2
  <2>. HIDE DEF cs
  <2>7. c \in CarriersOf(issued)
    BY <2>4, <2>6 DEF CarriersOf, Envelopes
  <2>. HIDE DEF c
  <2>8. [cs EXCEPT ![1] = c] \in Seq(CarriersOf(issued))
    BY <2>3, <2>7
  <2>9. m \in AnswersOf(issued)
    BY <2>2, <2>8 DEF AnswersOf
  <2>. HIDE DEF m
  <2>10. history' \in Seq(M)
    BY <1>4, <2>5, <2>9
  <2>. QED BY <1>1, <2>10 DEF InputInv
<1>9. CASE \E i, j \in Answers : history' = [history EXCEPT ![i].carriers = history[j].carriers]
  <2>1. PICK i \in Answers, j \in Answers : history' = [history EXCEPT ![i].carriers = history[j].carriers]
    BY <1>9
  <2>. DEFINE m == [history[i] EXCEPT !.carriers = history[j].carriers]
  <2>2. history' = [history EXCEPT ![i] = m]
    BY <2>1
  <2>3. m \in AnswersOf(issued)
    <3>1. history[i] \in AnswersOf(issued) /\ history[j] \in AnswersOf(issued)
      BY <1>3
    <3>. QED BY <3>1 DEF AnswersOf
  <2>. HIDE DEF m
  <2>4. history' \in Seq(M)
    BY <1>4, <2>2, <2>3
  <2>. QED BY <1>1, <2>4 DEF InputInv
<1>. QED BY <1>5, <1>6, <1>7, <1>8, <1>9, Zenon DEF Edits

(* A turn ends.                                                               *)
LEMMA CompletesKeepsInput ==
  ASSUME TranslationInv, InputInv, Completes PROVE InputInv'
<1>1. PICK output \in Outputs, status \in Statuses :
        LET t == Finish(tr, output, status)
            sent == told \o t.says
            refusals == IF dialect = "openai" THEN {<<>>, ToldOf("refusal", sent)}
                        ELSE {ToldOf("refusal", sent)}
            Issued(r) == [account |-> request.account, model |-> request.model, item |-> r]
        IN IF t.failed
           THEN UNCHANGED <<history, cache, used, made, issued>>
           ELSE /\ \E refusal \in refusals :
                     history' = Append(request.messages, Kept(t, sent, refusal))
                /\ Stores(t)
                /\ issued' = issued \cup
                     {Issued(t.output[i]) : i \in {j \in DOMAIN t.output : IsReasoning(t.output[j])}}
  BY Zenon DEF Completes
<1>. DEFINE t == Finish(tr, output, status)
            sent == told \o t.says
<1>2. stage' = "idle" /\ stage = "reading"
  BY DEF Completes, Ends
<1>3. TranslatorInv(tr) /\ ~tr.failed /\ told \in Seq(Events) /\ SaidIs(tr, told)
  BY <1>2 DEF TranslationInv
<1>4. CASE t.failed
  <2>1. UNCHANGED <<history, cache, used, made, issued>>
    BY <1>1, <1>4
  <2>. QED BY <1>2, <2>1 DEF InputInv
<1>5. CASE ~t.failed
  <2>1. t \in Translators
    BY <1>3, <1>5, FinishIs, Zenon
  <2>2. sent \in Seq(Events)
    BY <1>3, <1>5, FinishSays, Zenon
  <2>3. /\ \E refusal \in {<<>>, ToldOf("refusal", sent)} :
             history' = Append(request.messages, Kept(t, sent, refusal))
        /\ Stores(t)
        /\ issued' = issued \cup
             {[account |-> request.account, model |-> request.model, item |-> t.output[i]] :
                i \in {j \in DOMAIN t.output : IsReasoning(t.output[j])}}
    <3>. HIDE DEF t
    <3>. QED BY <1>1, <1>5 DEF t
  <2>. HIDE DEF t, sent
  <2>4. issued \subseteq issued'
    BY <2>3
  <2>5. /\ request \in RequestsOf(issued) /\ request.messages # <<>>
        /\ input \in Seq(Own(issued, request.account, request.model))
        /\ cache \in Seq(EntriesWith(issued)) /\ Sound(cache, used, made)
    BY <1>2 DEF InputInv
  <2>. DEFINE O == Own(issued', request.account, request.model)
  <2>6. request \in RequestsOf(issued') /\ input \in Seq(O) /\ cache \in Seq(EntriesWith(issued'))
    <3>1. /\ \A a, m : Seq(Own(issued, a, m)) \subseteq Seq(Own(issued', a, m))
          /\ Seq(MessagesOf(issued)) \subseteq Seq(MessagesOf(issued'))
          /\ Seq(EntriesWith(issued)) \subseteq Seq(EntriesWith(issued'))
      BY <2>4, IssuedGrows
    <3>2. request \in RequestsOf(issued')
      BY <2>5, <3>1 DEF RequestsOf
    <3>. QED BY <2>5, <3>1, <3>2
  <2>7. t.output \in Seq(KnownItems) /\ t.output \in Seq(OutputItems) /\ t.output \in Seq(O)
    <3>1. t.output \in Seq(KnownItems) /\ KnownItems \subseteq OutputItems
      BY <2>1 DEF Translators, OutputItems
    <3>2. t.output \in Seq(OutputItems)
      BY <3>1, SeqsGrow
    <3>3. \A i \in 1..Len(t.output) : t.output[i] \in O
      <4>. SUFFICES ASSUME NEW i \in 1..Len(t.output) PROVE t.output[i] \in O
        OBVIOUS
      <4>1. t.output[i] \in InputItems /\ i \in DOMAIN t.output
        BY <3>2 DEF InputItems
      <4>2. t.output[i].type = "reasoning" =>
              [account |-> request.account, model |-> request.model, item |-> t.output[i]] \in issued'
        BY <2>3, <4>1 DEF IsReasoning
      <4>. QED BY <4>1, <4>2 DEF Own
    <3>. HIDE DEF O
    <3>. QED BY <3>1, <3>2, <3>3
  <2>8. history' \in Seq(MessagesOf(issued'))
    <3>1. PICK refusal \in {<<>>, ToldOf("refusal", sent)} :
            history' = Append(request.messages, Kept(t, sent, refusal))
      BY <2>3
    <3>2. refusal \in Texts
      <4>1. ToldOf("refusal", sent) \in Texts
        BY <2>2, ToldIsText DEF Kinds
      <4>. QED BY <3>1, <4>1, NoText
    <3>3. Kept(t, sent, refusal) \in MessagesOf(issued')
      BY <2>1, <2>2, <2>6, <2>7, <3>2, KeptIs
    <3>4. request.messages \in Seq(MessagesOf(issued'))
      BY <2>6 DEF RequestsOf
    <3>. QED BY <3>1, <3>3, <3>4, AppendProperties, Zenon
  <2>9. cache' \in Seq(EntriesWith(issued')) /\ Sound(cache', used', made')
    <3>1. CASE dialect = "openai" /\ t.cacheable
      <4>. DEFINE key == Key(request, Append(request.messages, NativeAssistant(t.output)))
                  items == input \o t.output
      <4>1. Puts(key, items)
        BY <2>3, <3>1 DEF Stores
      <4>2. key \in Keys /\ key.account = request.account /\ key.model = request.model
        <5>1. NativeAssistant(t.output) \in MessagesOf(issued')
          BY <2>7, NativeIsMessage
        <5>2. request.messages \in Seq(MessagesOf(issued'))
          BY <2>6 DEF RequestsOf
        <5>3. Append(request.messages, NativeAssistant(t.output)) \in Seq(MessagesOf(issued'))
          BY <5>1, <5>2, AppendProperties, Zenon
        <5>4. key \in Keys
          BY <2>6, <5>3, KeyIs, Zenon
        <5>. QED BY <5>4 DEF Key
      <4>3. items \in Seq(O) /\ items \in Seq(InputItems)
        <5>1. O \subseteq InputItems
          BY DEF Own
        <5>2. items \in Seq(O)
          <6>. HIDE DEF O
          <6>. QED BY <2>6, <2>7, ConcatProperties, Zenon
        <5>. QED BY <5>1, <5>2, SeqsGrow
      <4>. HIDE DEF key, items
      <4>4. PutEntry(key, items) \in EntriesWith(issued')
        <5>1. PutEntry(key, items) = [key |-> key, value |-> PutValue(key, items)]
          BY DEF PutEntry
        <5>2. PutValue(key, items) \in Values
          BY <4>3, PutEntryIs DEF Values
        <5>3. ~PutValue(key, items).ambiguous => PutValue(key, items).items = items
          <6>1. PutValue(key, items) = Ambiguous \/ PutValue(key, items) = Unambiguous(items)
            BY PutEntryIs, Zenon
          <6>2. Ambiguous.ambiguous /\ Unambiguous(items).items = items
            BY DEF Ambiguous, Unambiguous
          <6>. QED BY <6>1, <6>2, Zenon
        <5>. QED BY <4>2, <4>3, <5>1, <5>2, <5>3 DEF EntriesWith
      <4>. QED BY <2>5, <2>6, <4>1, <4>4, EntriesAreStorable, PutsIs, Zenon
    <3>2. CASE ~(dialect = "openai" /\ t.cacheable)
      <4>1. UNCHANGED <<cache, used, made>>
        BY <2>3, <3>2 DEF Stores
      <4>. QED BY <2>5, <2>6, <4>1
    <3>. QED BY <3>1, <3>2
  <2>. QED BY <1>2, <2>8, <2>9 DEF InputInv
<1>. QED BY <1>4, <1>5

(* The invariant of the input holds.                                          *)
LEMMA InputHolds == ReplaySpec => []InputInv
<1>1. ReplayInit => InputInv
  <2>. SUFFICES ASSUME ReplayInit PROVE InputInv
    OBVIOUS
  <2>1. cache = <<>> /\ used = 0 /\ made = {} /\ history = <<>> /\ stage = "idle"
    BY DEF ReplayInit
  <2>2. Bounded(<<>>, 0)
    <3>1. MaxEntries \in Nat /\ MaxBytes \in Nat /\ Len(<<>>) = 0 /\ DOMAIN <<>> = {}
      BY CacheAssumption
    <3>2. Distinct(<<>>)
      BY <3>1 DEF Distinct
    <3>. QED BY <3>1, <3>2, BytesEmpty DEF Bounded
  <2>3. EntriesOf(<<>>) = {}
    BY DEF EntriesOf
  <2>4. Sound(<<>>, 0, {})
    BY <2>2, <2>3 DEF Sound, NoGuess, AllIn
  <2>5. <<>> \in Seq(MessagesOf(issued)) /\ <<>> \in Seq(EntriesWith(issued))
    BY EmptySeq
  <2>. QED BY <2>1, <2>4, <2>5 DEF InputInv
<1>2. TranslationInv /\ InputInv /\ [ReplayNext]_replayVars => InputInv'
  <2>. SUFFICES ASSUME TranslationInv, InputInv, [ReplayNext]_replayVars PROVE InputInv'
    OBVIOUS
  <2>1. CASE Asks
    BY <2>1, AsksKeepsInput
  <2>2. CASE Hears
    <3>1. PICK u : Consumes(u)
      BY <2>2, HearsIs
    <3>2. UNCHANGED <<history, cache, used, made, issued>>
      BY <2>2 DEF Hears
    <3>3. stage' = "idle" \/ UNCHANGED <<request, input, stage>>
      BY <3>1 DEF Consumes, Ends
    <3>. QED BY <3>2, <3>3 DEF InputInv
  <2>3. CASE Completes
    BY <2>3, CompletesKeepsInput
  <2>4. CASE Edits
    BY <2>4, EditsKeepsInput
  <2>5. CASE UNCHANGED replayVars
    BY <2>5, Zenon DEF replayVars, InputInv
  <2>. QED BY <2>1, <2>2, <2>3, <2>4, <2>5 DEF ReplayNext
<1>. QED BY <1>1, <1>2, TranslationHolds, PTL DEF ReplaySpec

(* The cache is never a guess, and keeps its bounds and its count of bytes,   *)
(* for any bounds, keys and sizes of entries.                                 *)
THEOREM CacheStaysSound == ReplaySpec => []CacheIsSound
<1>1. InputInv => CacheIsSound
  BY SoundIs DEF InputInv
<1>. QED BY <1>1, InputHolds, PTL

(* Encrypted reasoning is sent only to the account and the model that it was  *)
(* issued for, whatever the client edits, moves or forgets.                   *)
THEOREM ReasoningStaysHome == ReplaySpec => []ReasoningGoesHome
<1>1. InputInv => ReasoningGoesHome
  <2>. SUFFICES ASSUME InputInv, stage = "reading", NEW i \in DOMAIN input, input[i].type = "reasoning"
                PROVE  [account |-> request.account, model |-> request.model, item |-> input[i]] \in issued
    BY DEF ReasoningGoesHome
  <2>1. input[i] \in Own(issued, request.account, request.model)
    BY DEF InputInv
  <2>. QED BY <2>1 DEF Own
<1>. QED BY <1>1, InputHolds, PTL

-----------------------------------------------------------------------------
(* The runs of a sequence of items.                                           *)
(* The function that Runs picks: runs[n] are the runs of the first n items.   *)
IsRuns(items, runs) ==
  runs = [n \in 0..Len(items) |-> IF n = 0 THEN <<>> ELSE WithItem(runs[n - 1], items[n])]

LEMMA RunsSteps ==
  ASSUME NEW items, NEW runs, IsRuns(items, runs), NEW n \in 0..Len(items)
  PROVE  /\ n = 0 => runs[n] = <<>>
         /\ n # 0 => runs[n] = WithItem(runs[n - 1], items[n])
<1>1. runs[n] = IF n = 0 THEN <<>> ELSE WithItem(runs[n - 1], items[n])
  BY Zenon DEF IsRuns
<1>. QED BY <1>1, Zenon

LEMMA OneRuns ==
  ASSUME NEW items, Len(items) \in Nat, NEW f, NEW g, IsRuns(items, f), IsRuns(items, g)
  PROVE  f = g
<1>. DEFINE N == {n \in Nat : n \in 0..Len(items) => f[n] = g[n]}
<1>0. f = [n \in 0..Len(items) |-> f[n]] /\ g = [n \in 0..Len(items) |-> g[n]]
  BY Zenon DEF IsRuns
<1>1. 0 \in N
  <2>1. 0 \in 0..Len(items) => f[0] = <<>> /\ g[0] = <<>>
    BY RunsSteps, Zenon
  <2>. QED BY <2>1
<1>2. ASSUME NEW n \in Nat, n \in N PROVE n + 1 \in N
  <2>. SUFFICES ASSUME NEW m \in 0..Len(items), m = n + 1 PROVE f[m] = g[m]
    OBVIOUS
  <2>1. m # 0 /\ m - 1 = n /\ f[n] = g[n]
    BY <1>2
  <2>2. f[m] = WithItem(f[m - 1], items[m]) /\ g[m] = WithItem(g[m - 1], items[m])
    BY <2>1, RunsSteps, Zenon
  <2>. QED BY <2>1, <2>2, Zenon
<1>3. Nat \subseteq N
  <2>. HIDE DEF N
  <2>. QED BY <1>1, <1>2, SetInduction
<1>4. \A n \in 0..Len(items) : f[n] = g[n]
  BY <1>3
<1>. QED BY <1>0, <1>4, Zenon

LEMMA RunsExtend ==
  ASSUME NEW S, NEW u \in Seq(S), NEW f, IsRuns(u, f), NEW x
  PROVE  LET v == Append(u, x)
             g == [n \in 0..Len(v) |-> IF n = Len(v) THEN WithItem(f[Len(u)], x) ELSE f[n]]
         IN IsRuns(v, g) /\ g[Len(v)] = WithItem(f[Len(u)], x)
<1>. DEFINE v == Append(u, x)
            g == [n \in 0..Len(v) |-> IF n = Len(v) THEN WithItem(f[Len(u)], x) ELSE f[n]]
<1>1. Len(v) = Len(u) + 1 /\ v[Len(v)] = x /\ Len(u) \in Nat /\ \A i \in 1..Len(u) : v[i] = u[i]
  OBVIOUS
<1>. HIDE DEF v
<1>2. ASSUME NEW n \in 0..Len(v)
      PROVE  g[n] = IF n = 0 THEN <<>> ELSE WithItem(g[n - 1], v[n])
  <2>1. CASE n = Len(v)
    <3>1. n # 0 /\ n - 1 = Len(u) /\ n - 1 # Len(v) /\ n - 1 \in 0..Len(v) /\ v[n] = x
      BY <1>1, <2>1
    <3>2. g[n] = WithItem(f[Len(u)], x) /\ g[n - 1] = f[Len(u)]
      BY <2>1, <3>1, Zenon
    <3>. QED BY <3>1, <3>2, Zenon
  <2>2. CASE n # Len(v) /\ n # 0
    <3>1. n \in 0..Len(u) /\ n - 1 \in 0..Len(v) /\ n - 1 # Len(v) /\ v[n] = u[n]
      BY <1>1, <2>2
    <3>2. f[n] = WithItem(f[n - 1], u[n])
      BY <2>2, <3>1, RunsSteps, Zenon
    <3>3. g[n] = f[n] /\ g[n - 1] = f[n - 1]
      BY <2>2, <3>1, Zenon
    <3>. QED BY <2>2, <3>1, <3>2, <3>3, Zenon
  <2>3. CASE n # Len(v) /\ n = 0
    <3>1. n \in 0..Len(u)
      BY <1>1, <2>3
    <3>2. f[n] = <<>> /\ g[n] = f[n]
      BY <2>3, <3>1, RunsSteps, Zenon
    <3>. QED BY <2>3, <3>2, Zenon
  <2>. QED BY <2>1, <2>2, <2>3
<1>3. IsRuns(v, g)
  <2>1. g = [n \in 0..Len(v) |-> IF n = 0 THEN <<>> ELSE WithItem(g[n - 1], v[n])]
    BY <1>2, Zenon
  <2>. HIDE DEF g
  <2>. QED BY <2>1, Zenon DEF IsRuns
<1>4. g[Len(v)] = WithItem(f[Len(u)], x)
  <2>1. Len(v) \in 0..Len(v)
    BY <1>1
  <2>. QED BY <2>1, Zenon
<1>. QED BY <1>3, <1>4 DEF v

LEMMA RunsExist ==
  ASSUME NEW S, NEW items \in Seq(S)
  PROVE  \E runs : IsRuns(items, runs)
<1>. DEFINE T == {u \in Seq(S) : \E runs : IsRuns(u, runs)}
<1>1. <<>> \in T
  <2>. DEFINE f == [n \in 0..0 |-> <<>>]
  <2>1. f = [n \in 0..0 |-> IF n = 0 THEN <<>> ELSE WithItem(f[n - 1], <<>>[n])]
    OBVIOUS
  <2>2. Len(<<>>) = 0 /\ <<>> \in Seq(S)
    OBVIOUS
  <2>. HIDE DEF f
  <2>3. IsRuns(<<>>, f)
    BY <2>1, <2>2, Zenon DEF IsRuns
  <2>. QED BY <2>2, <2>3
<1>2. ASSUME NEW u \in Seq(S), u \in T, NEW x \in S PROVE Append(u, x) \in T
  <2>1. PICK f : IsRuns(u, f)
    BY <1>2
  <2>2. \E g : IsRuns(Append(u, x), g)
    BY <2>1, RunsExtend, Zenon
  <2>3. Append(u, x) \in Seq(S)
    BY AppendProperties, Zenon
  <2>. QED BY <2>2, <2>3
<1>3. Seq(S) \subseteq T
  <2>. HIDE DEF T
  <2>. QED BY <1>1, <1>2, SequenceInduction
<1>. QED BY <1>3

LEMMA RunsAre ==
  ASSUME NEW S, NEW items \in Seq(S), NEW runs, IsRuns(items, runs)
  PROVE  Runs(items) = runs[Len(items)]
<1>. DEFINE c == CHOOSE f : IsRuns(items, f)
<1>1. IsRuns(items, c)
  OBVIOUS
<1>2. c = runs
  <2>1. Len(items) \in Nat
    OBVIOUS
  <2>. HIDE DEF c
  <2>. QED BY <1>1, <2>1, OneRuns, Zenon
<1>3. Runs(items) = c[Len(items)]
  BY Zenon DEF Runs, IsRuns
<1>. QED BY <1>2, <1>3

(* The runs of a sequence of items, with one item more.                       *)
LEMMA RunsAppend ==
  ASSUME NEW S, NEW items \in Seq(S), NEW x \in S
  PROVE  Runs(Append(items, x)) = WithItem(Runs(items), x)
<1>1. PICK f : IsRuns(items, f)
  BY RunsExist
<1>2. PICK g : IsRuns(Append(items, x), g) /\ g[Len(Append(items, x))] = WithItem(f[Len(items)], x)
  BY <1>1, RunsExtend, Zenon
<1>3. Append(items, x) \in Seq(S)
  BY AppendProperties, Zenon
<1>4. Runs(Append(items, x)) = g[Len(Append(items, x))] /\ Runs(items) = f[Len(items)]
  BY <1>1, <1>2, <1>3, RunsAre
<1>. QED BY <1>2, <1>4, Zenon

LEMMA RunsEmpty == Runs(<<>>) = <<>>
<1>1. <<>> \in Seq({}) /\ Len(<<>>) = 0
  OBVIOUS
<1>2. PICK f : IsRuns(<<>>, f)
  BY <1>1, RunsExist
<1>3. Runs(<<>>) = f[0]
  BY <1>1, <1>2, RunsAre
<1>4. f[0] = <<>>
  <2>1. 0 \in 0..Len(<<>>)
    BY <1>1
  <2>. QED BY <1>2, <2>1, RunsSteps, Zenon
<1>. QED BY <1>3, <1>4

(* A run of output, and what runs consist of.                                 *)
Output(items) == [role |-> "output", items |-> items]
RunsOver == Users \cup [role : {"output"}, items : Seq(OutputItems)]

(* The next item of an output begins a run.                                   *)
NoneOpen(runs) == runs = <<>> \/ Last(runs).role # "output"

LEMMA InputItemsAre ==
  ASSUME NEW x \in InputItems
  PROVE  \/ x \in OutputItems /\ x.type # "input"
         \/ \E p \in Prompts : x = Prompt(p)
BY OutputItemsAre DEF InputItems, PromptItems

LEMMA WithPrompt ==
  ASSUME NEW runs \in Seq(RunsOver), NEW p \in Prompts
  PROVE  /\ WithItem(runs, Prompt(p)) = Append(runs, User(p))
         /\ Append(runs, User(p)) \in Seq(RunsOver) /\ NoneOpen(Append(runs, User(p)))
<1>1. Prompt(p).type = "input" /\ Prompt(p).prompt = p
  BY DEF Prompt
<1>2. WithItem(runs, Prompt(p)) = Append(runs, User(p))
  BY <1>1, Zenon DEF WithItem
<1>3. User(p) \in RunsOver /\ User(p).role # "output"
  BY DEF User, RunsOver, Users
<1>. DEFINE u == User(p)
<1>. HIDE DEF u
<1>4. u \in RunsOver /\ u.role # "output"
  BY <1>3 DEF u
<1>5. Append(runs, u) \in Seq(RunsOver) /\ Append(runs, u)[Len(Append(runs, u))] = u
  BY <1>4
<1>6. NoneOpen(Append(runs, u))
  BY <1>4, <1>5 DEF NoneOpen, Last
<1>. QED BY <1>2, <1>5, <1>6 DEF u

LEMMA WithFirst ==
  ASSUME NEW runs \in Seq(RunsOver), NoneOpen(runs), NEW x \in OutputItems
  PROVE  WithItem(runs, x) = Append(runs, Output(<<x>>))
<1>1. x.type # "input"
  BY OutputItemsAre
<1>. QED BY <1>1, Zenon DEF WithItem, NoneOpen, Output

LEMMA WithNext ==
  ASSUME NEW runs \in Seq(RunsOver), NEW s \in Seq(OutputItems), NEW x \in OutputItems
  PROVE  WithItem(Append(runs, Output(s)), x) = Append(runs, Output(Append(s, x)))
<1>. DEFINE r == Output(s)
            v == Append(runs, r)
<1>1. x.type # "input"
  BY OutputItemsAre
<1>2. r \in RunsOver /\ r.role = "output" /\ r.items = s
  BY DEF Output, RunsOver
<1>. HIDE DEF r
<1>3. v # <<>> /\ Last(v) = r /\ Front(v) = runs
  <2>1. v \in Seq(RunsOver) /\ Len(v) = Len(runs) + 1 /\ v[Len(v)] = r
        /\ SubSeq(v, 1, Len(v) - 1) = runs
    BY <1>2
  <2>2. v # <<>>
    BY <2>1
  <2>. QED BY <2>1, <2>2 DEF Last, Front
<1>. HIDE DEF v
<1>4. WithItem(v, x) = Append(Front(v), [role |-> "output", items |-> Append(Last(v).items, x)])
  BY <1>1, <1>2, <1>3, Zenon DEF WithItem
<1>. QED BY <1>2, <1>3, <1>4, Zenon DEF Output, v, r

LEMMA OutputsAreRuns ==
  ASSUME NEW s \in Seq(OutputItems)
  PROVE  Output(s) \in RunsOver
BY DEF Output, RunsOver

(* Runs and one output more, which may be empty.                              *)
RunsOf(runs, out) == IF out = <<>> THEN runs ELSE Append(runs, Output(out))

(* An output, after items that end with a prompt, is one run.                 *)
LEMMA RunsJoin ==
  ASSUME NEW items \in Seq(InputItems), Runs(items) \in Seq(RunsOver), NoneOpen(Runs(items)),
         NEW out \in Seq(OutputItems)
  PROVE  /\ Runs(items \o out) = RunsOf(Runs(items), out)
         /\ Runs(items \o out) \in Seq(RunsOver)
<1>. DEFINE T == {u \in Seq(OutputItems) : Runs(items \o u) = RunsOf(Runs(items), u)}
<1>0. OutputItems \subseteq InputItems
  BY DEF InputItems
<1>1. <<>> \in T
  <2>1. items \o <<>> = items /\ <<>> \in Seq(OutputItems)
    BY ConcatEmptySeq, EmptySeq, Zenon
  <2>. QED BY <2>1 DEF RunsOf
<1>2. ASSUME NEW u \in Seq(OutputItems), u \in T, NEW x \in OutputItems PROVE Append(u, x) \in T
  <2>1. u \in Seq(InputItems) /\ x \in InputItems
    BY <1>0, SeqsGrow
  <2>2. items \o Append(u, x) = Append(items \o u, x) /\ items \o u \in Seq(InputItems)
    BY <2>1
  <2>3. Runs(Append(items \o u, x)) = WithItem(Runs(items \o u), x)
    BY <2>1, <2>2, RunsAppend
  <2>4. Append(u, x) \in Seq(OutputItems) /\ Append(u, x) # <<>>
    OBVIOUS
  <2>5. WithItem(RunsOf(Runs(items), u), x) = Append(Runs(items), Output(Append(u, x)))
    <3>1. CASE u = <<>>
      <4>1. Append(u, x) = <<x>>
        BY <3>1
      <4>2. RunsOf(Runs(items), u) = Runs(items)
        BY <3>1 DEF RunsOf
      <4>. QED BY <4>1, <4>2, WithFirst
    <3>2. CASE u # <<>>
      <4>1. RunsOf(Runs(items), u) = Append(Runs(items), Output(u))
        BY <3>2 DEF RunsOf
      <4>. QED BY <4>1, WithNext
    <3>. QED BY <3>1, <3>2
  <2>6. Runs(items \o u) = RunsOf(Runs(items), u)
    BY <1>2
  <2>. QED BY <2>2, <2>3, <2>4, <2>5, <2>6, Zenon DEF RunsOf
<1>3. Seq(OutputItems) \subseteq T
  <2>. HIDE DEF T
  <2>. QED BY <1>1, <1>2, SequenceInduction
<1>4. Runs(items \o out) = RunsOf(Runs(items), out)
  BY <1>3
<1>5. RunsOf(Runs(items), out) \in Seq(RunsOver)
  BY OutputsAreRuns, AppendProperties, Zenon DEF RunsOf
<1>. QED BY <1>4, <1>5

-----------------------------------------------------------------------------
(* What the items of an input say, as a transcript.                           *)
(* What a message adds to what is shown: nothing if it has neither text nor   *)
(* calls.                                                                     *)
IsShown(m) == m.role = "user" \/ m.text # <<>> \/ m.calls # <<>>
ShownPart == [m \in Shapes |-> IF IsShown(m) THEN <<m>> ELSE <<>>]
VisibleOf(messages) == [i \in DOMAIN messages |-> Visible(messages[i])]

LEMMA ShownPartIs == ShownPart \in [Shapes -> Seq(Shapes)]
<1>1. ASSUME NEW m \in Shapes PROVE (IF IsShown(m) THEN <<m>> ELSE <<>>) \in Seq(Shapes)
  <2>1. <<m>> \in Seq(Shapes) /\ <<>> \in Seq(Shapes)
    OBVIOUS
  <2>. QED BY <2>1, Zenon
<1>. QED BY <1>1 DEF ShownPart

LEMMA ShownIs ==
  ASSUME NEW messages, VisibleOf(messages) \in Seq(Shapes)
  PROVE  Shown(messages) = JoinBy(ShownPart, VisibleOf(messages))
<1>. DEFINE vis == VisibleOf(messages)
<1>1. \A i \in DOMAIN vis : vis[i] \in Shapes
  OBVIOUS
<1>2. Shown(messages)
        = FlattenSeq([i \in DOMAIN vis |->
            IF vis[i].role = "user" \/ vis[i].text # <<>> \/ vis[i].calls # <<>> THEN <<vis[i]>> ELSE <<>>])
  BY Zenon DEF Shown, Joined, VisibleOf
<1>. HIDE DEF vis
<1>3. [i \in DOMAIN vis |-> ShownPart[vis[i]]]
        = [i \in DOMAIN vis |->
            IF vis[i].role = "user" \/ vis[i].text # <<>> \/ vis[i].calls # <<>> THEN <<vis[i]>> ELSE <<>>]
  BY <1>1, Zenon DEF ShownPart, IsShown
<1>. QED BY <1>2, <1>3, Zenon DEF JoinBy, vis

LEMMA VisiblesAre ==
  ASSUME NEW iss, NEW messages \in Seq(MessagesOf(iss))
  PROVE  VisibleOf(messages) \in Seq(Shapes) /\ Len(VisibleOf(messages)) = Len(messages)
         /\ \A i \in DOMAIN messages : VisibleOf(messages)[i] = Visible(messages[i])
<1>0. \A i \in DOMAIN messages : messages[i] \in MessagesOf(iss)
  OBVIOUS
<1>1. \A i \in DOMAIN messages : Visible(messages[i]) \in Shapes
  BY <1>0, VisibleIs
<1>. QED BY <1>1 DEF VisibleOf

LEMMA VisibleAppend ==
  ASSUME NEW iss, NEW messages \in Seq(MessagesOf(iss)), NEW m \in MessagesOf(iss)
  PROVE  VisibleOf(Append(messages, m)) = Append(VisibleOf(messages), Visible(m))
<1>. DEFINE v == Append(messages, m)
            w == VisibleOf(messages)
<1>1. v \in Seq(MessagesOf(iss)) /\ DOMAIN v = 1..Len(messages) + 1 /\ v[Len(messages) + 1] = m
      /\ \A i \in 1..Len(messages) : v[i] = messages[i]
  OBVIOUS
<1>2. w \in Seq(Shapes) /\ Len(w) = Len(messages)
      /\ \A i \in 1..Len(messages) : w[i] = Visible(messages[i])
  BY VisiblesAre
<1>3. Visible(m) \in Shapes
  BY VisibleIs
<1>. HIDE DEF w, v
<1>. DEFINE y == Visible(m)
<1>4. y = Visible(m) OBVIOUS
<1>. HIDE DEF y
<1>5. Append(w, y) \in Seq(Shapes) /\ DOMAIN Append(w, y) = 1..Len(messages) + 1
      /\ Append(w, y)[Len(messages) + 1] = y
      /\ \A i \in 1..Len(messages) : Append(w, y)[i] = w[i]
  BY <1>2, <1>3, <1>4
<1>6. \A i \in 1..Len(messages) + 1 : Append(w, y)[i] = Visible(v[i])
  BY <1>1, <1>2, <1>4, <1>5
<1>7. Append(w, y) = [i \in DOMAIN v |-> Visible(v[i])]
  <2>. DEFINE a == Append(w, y)
  <2>. HIDE DEF a
  <2>1. a \in Seq(Shapes) /\ DOMAIN a = DOMAIN v /\ \A i \in DOMAIN a : a[i] = Visible(v[i])
    BY <1>1, <1>5, <1>6 DEF a
  <2>2. a = [i \in DOMAIN a |-> a[i]]
    BY <2>1
  <2>3. a = [i \in DOMAIN v |-> Visible(v[i])]
    BY <2>1, <2>2, Zenon
  <2>. QED BY <2>3 DEF a
<1>. QED BY <1>4, <1>7, Zenon DEF VisibleOf, v, w

(* What the items of an input say.                                            *)
RunMessage == [r \in RunsOver |-> Visible(AsMessage(r))]
RunPart == [r \in RunsOver |-> ShownPart[RunMessage[r]]]

LEMMA RunIs ==
  ASSUME NEW r \in RunsOver
  PROVE  /\ RunMessage[r] \in Shapes /\ RunMessage[r] = Visible(AsMessage(r))
         /\ r.role # "user" => r.role = "output" /\ r.items \in Seq(OutputItems)
<1>1. CASE r \in Users
  <2>1. r.role = "user" /\ Visible(r) = r /\ r \in Shapes
    BY <1>1 DEF Users, Visible, Shapes
  <2>. QED BY <2>1, Zenon DEF RunMessage, AsMessage
<1>2. CASE r \in [role : {"output"}, items : Seq(OutputItems)]
  <2>1. r.role = "output" /\ r.role # "user" /\ r.items \in Seq(OutputItems)
    BY <1>2
  <2>2. AsMessage(r) = NativeAssistant(r.items)
    BY <2>1, Zenon DEF AsMessage
  <2>3. Visible(AsMessage(r)) \in Shapes
    BY <2>1, <2>2, NativeIsMessage, VisibleIs
  <2>. QED BY <2>1, <2>3, Zenon DEF RunMessage
<1>. QED BY <1>1, <1>2 DEF RunsOver

LEMMA RunPartIs == RunPart \in [RunsOver -> Seq(Shapes)]
<1>1. \A r \in RunsOver : ShownPart[RunMessage[r]] \in Seq(Shapes)
  BY RunIs, ShownPartIs
<1>. QED BY <1>1 DEF RunPart

(* What a sequence of items shows.                                            *)
ShownOf(items) == JoinBy(RunPart, Runs(items))

(* What items show is what their transcript shows.                            *)
LEMMA SaidTranscript ==
  ASSUME NEW items, Runs(items) \in Seq(RunsOver)
  PROVE  Shown(Transcript(items)) = ShownOf(items) /\ ShownOf(items) \in Seq(Shapes)
<1>. DEFINE rs == Runs(items)
            vis == [i \in DOMAIN rs |-> RunMessage[rs[i]]]
<1>. HIDE DEF rs
<1>0. rs \in Seq(RunsOver) /\ \A i \in DOMAIN rs : rs[i] \in RunsOver
  BY DEF rs
<1>1. VisibleOf(Transcript(items)) = vis
  <2>1. Transcript(items) = [i \in DOMAIN rs |-> AsMessage(rs[i])]
    BY Zenon DEF Transcript, rs
  <2>2. VisibleOf(Transcript(items)) = [i \in DOMAIN rs |-> Visible(AsMessage(rs[i]))]
    BY <2>1, Zenon DEF VisibleOf
  <2>. QED BY <1>0, <2>2, Zenon DEF RunMessage
<1>2. vis \in Seq(Shapes)
  BY <1>0, RunIs
<1>3. Shown(Transcript(items)) = JoinBy(ShownPart, vis)
  BY <1>1, <1>2, ShownIs, Zenon
<1>4. [i \in DOMAIN vis |-> ShownPart[vis[i]]] = [i \in DOMAIN rs |-> RunPart[rs[i]]]
  BY <1>0, Zenon DEF RunPart
<1>5. Shown(Transcript(items)) = ShownOf(items)
  <2>. HIDE DEF vis
  <2>. QED BY <1>3, <1>4, Zenon DEF JoinBy, ShownOf, rs
<1>6. ShownOf(items) \in Seq(Shapes)
  BY <1>0, RunPartIs, JoinByIsSeq, Zenon DEF ShownOf, rs
<1>. QED BY <1>5, <1>6

(* A prompt adds its message to what is said, an output the message it shows. *)
LEMMA PromptAdds ==
  ASSUME NEW items \in Seq(InputItems), Runs(items) \in Seq(RunsOver), NEW p \in Prompts
  PROVE  LET more == items \o <<Prompt(p)>>
         IN /\ more \in Seq(InputItems) /\ Runs(more) \in Seq(RunsOver) /\ NoneOpen(Runs(more))
            /\ ShownOf(more) = ShownOf(items) \o ShownPart[User(p)]
<1>. DEFINE x == Prompt(p)
<1>1. x \in InputItems
  BY DEF InputItems, PromptItems
<1>2. Runs(Append(items, x)) = WithItem(Runs(items), x)
  BY <1>1, RunsAppend
<1>3. /\ WithItem(Runs(items), x) = Append(Runs(items), User(p))
      /\ Append(Runs(items), User(p)) \in Seq(RunsOver) /\ NoneOpen(Append(Runs(items), User(p)))
  BY WithPrompt
<1>. HIDE DEF x
<1>4. items \o <<x>> = Append(items, x) /\ Append(items, x) \in Seq(InputItems)
  BY <1>1
<1>5. User(p) \in RunsOver /\ AsMessage(User(p)) = User(p) /\ Visible(User(p)) = User(p)
  BY DEF User, RunsOver, Users, AsMessage, Visible
<1>6. RunPart[User(p)] = ShownPart[User(p)]
  BY <1>5, Zenon DEF RunPart, RunMessage
<1>7. JoinBy(RunPart, Append(Runs(items), User(p))) = JoinBy(RunPart, Runs(items)) \o RunPart[User(p)]
  BY <1>5, RunPartIs, JoinByAppend, Zenon
<1>. QED BY <1>2, <1>3, <1>4, <1>6, <1>7, Zenon DEF ShownOf, x

LEMMA OutputAdds ==
  ASSUME NEW items \in Seq(InputItems), Runs(items) \in Seq(RunsOver), NoneOpen(Runs(items)),
         NEW out \in Seq(OutputItems)
  PROVE  /\ items \o out \in Seq(InputItems) /\ Runs(items \o out) \in Seq(RunsOver)
         /\ ShownOf(items \o out) = ShownOf(items) \o ShownPart[Visible(NativeAssistant(out))]
<1>1. /\ Runs(items \o out) = RunsOf(Runs(items), out)
      /\ Runs(items \o out) \in Seq(RunsOver)
  BY RunsJoin
<1>2. items \o out \in Seq(InputItems)
  <2>1. out \in Seq(InputItems)
    BY SeqsGrow DEF InputItems
  <2>. QED BY <2>1, ConcatProperties, Zenon
<1>3. CASE out = <<>>
  <2>1. NativeAssistant(out) = Assistant(<<>>, <<>>, JoinBy(SummaryPart, out), <<>>, <<>>)
    BY <1>3, NativeIs, ShowsNothing, Zenon
  <2>2. NativeAssistant(out).role = "assistant" /\ NativeAssistant(out).text = <<>>
        /\ NativeAssistant(out).calls = <<>>
    BY <2>1 DEF Assistant
  <2>. DEFINE v == Visible(NativeAssistant(out))
  <2>3. v.role # "user" /\ v.text = <<>> /\ v.calls = <<>>
    BY <2>2 DEF Visible
  <2>4. v \in Shapes
    BY NativeIsMessage, VisibleIs
  <2>. HIDE DEF v
  <2>5. ShownPart[v] = <<>>
    BY <2>3, <2>4, Zenon DEF ShownPart, IsShown
  <2>6. ShownOf(items) \o <<>> = ShownOf(items)
    BY SaidTranscript, ConcatEmptySeq, Zenon
  <2>7. Runs(items \o out) = Runs(items)
    BY <1>1, <1>3 DEF RunsOf
  <2>. QED BY <1>1, <1>2, <2>5, <2>6, <2>7, Zenon DEF ShownOf, v
<1>4. CASE out # <<>>
  <2>1. Output(out) \in RunsOver
    BY OutputsAreRuns
  <2>2. Output(out).role = "output" /\ Output(out).items = out
    BY DEF Output
  <2>3. AsMessage(Output(out)) = NativeAssistant(out)
    BY <2>2 DEF AsMessage
  <2>4. RunPart[Output(out)] = ShownPart[Visible(NativeAssistant(out))]
    BY <2>1, <2>3, Zenon DEF RunPart, RunMessage
  <2>5. JoinBy(RunPart, Append(Runs(items), Output(out))) = JoinBy(RunPart, Runs(items)) \o RunPart[Output(out)]
    BY <2>1, RunPartIs, JoinByAppend, Zenon
  <2>6. Runs(items \o out) = Append(Runs(items), Output(out))
    BY <1>1, <1>4 DEF RunsOf
  <2>. QED BY <1>1, <1>2, <2>4, <2>5, <2>6, Zenon DEF ShownOf
<1>. QED BY <1>3, <1>4

-----------------------------------------------------------------------------
(* Items that present a transcript, and how they go on.                       *)
(* Items that say a transcript; after a prompt, none of their runs is open.   *)
Presents(items, vis) ==
  /\ items \in Seq(InputItems) /\ Runs(items) \in Seq(RunsOver)
  /\ ShownOf(items) = JoinBy(ShownPart, vis)
  /\ vis # <<>> /\ Last(vis).role = "user" => NoneOpen(Runs(items))

LEMMA LastAppended ==
  ASSUME NEW S, NEW s \in Seq(S), NEW x \in S
  PROVE  /\ Append(s, x) \in Seq(S) /\ Append(s, x) # <<>> /\ Last(Append(s, x)) = x
         /\ Front(Append(s, x)) = s /\ Len(Append(s, x)) = Len(s) + 1
<1>1. Append(s, x) \in Seq(S) /\ Len(Append(s, x)) = Len(s) + 1 /\ Append(s, x)[Len(s) + 1] = x
      /\ SubSeq(Append(s, x), 1, Len(s)) = s /\ Len(s) \in Nat
  OBVIOUS
<1>2. Append(s, x) # <<>>
  BY <1>1
<1>. QED BY <1>1, <1>2 DEF Last, Front

LEMMA PresentsNothing == Presents(<<>>, <<>>)
<1>1. <<>> \in Seq(InputItems) /\ <<>> \in Seq(RunsOver)
  BY EmptySeq
<1>. QED BY <1>1, RunsEmpty, JoinByEmpty DEF Presents, ShownOf

(* A prompt, and an output after a prompt, present one message more.          *)
LEMMA PresentsPrompt ==
  ASSUME NEW items, NEW vis \in Seq(Shapes), Presents(items, vis), NEW p \in Prompts
  PROVE  Presents(items \o <<Prompt(p)>>, Append(vis, User(p)))
<1>. DEFINE more == items \o <<Prompt(p)>>
            u == User(p)
<1>1. u \in Shapes
  BY DEF User, Shapes, Users
<1>2. /\ more \in Seq(InputItems) /\ Runs(more) \in Seq(RunsOver) /\ NoneOpen(Runs(more))
      /\ ShownOf(more) = ShownOf(items) \o ShownPart[u]
  BY PromptAdds DEF Presents
<1>. HIDE DEF more, u
<1>3. JoinBy(ShownPart, Append(vis, u)) = JoinBy(ShownPart, vis) \o ShownPart[u]
  BY <1>1, ShownPartIs, JoinByAppend, Zenon
<1>4. ShownOf(more) = JoinBy(ShownPart, Append(vis, u))
  BY <1>2, <1>3, Zenon DEF Presents
<1>. QED BY <1>2, <1>4, Zenon DEF Presents, more, u

LEMMA PresentsOutput ==
  ASSUME NEW items, NEW vis \in Seq(Shapes), Presents(items, vis), vis # <<>>, Last(vis).role = "user",
         NEW out \in Seq(OutputItems)
  PROVE  Presents(items \o out, Append(vis, Visible(NativeAssistant(out))))
<1>. DEFINE more == items \o out
            m == Visible(NativeAssistant(out))
<1>1. m \in Shapes /\ m.role # "user"
  <2>1. m \in Shapes
    BY NativeIsMessage, VisibleIs
  <2>2. NativeAssistant(out).role = "assistant"
    BY DEF NativeAssistant, Assistant
  <2>. QED BY <2>1, <2>2 DEF Visible
<1>2. /\ more \in Seq(InputItems) /\ Runs(more) \in Seq(RunsOver)
      /\ ShownOf(more) = ShownOf(items) \o ShownPart[m]
  BY OutputAdds DEF Presents
<1>. HIDE DEF more, m
<1>3. JoinBy(ShownPart, Append(vis, m)) = JoinBy(ShownPart, vis) \o ShownPart[m]
  BY <1>1, ShownPartIs, JoinByAppend, Zenon
<1>4. ShownOf(more) = JoinBy(ShownPart, Append(vis, m))
  BY <1>2, <1>3, Zenon DEF Presents
<1>5. Last(Append(vis, m)) = m
  BY <1>1, LastAppended, Zenon
<1>. QED BY <1>1, <1>2, <1>4, <1>5, Zenon DEF Presents, more, m

(* Items that show an answer are an output that is seen as the answer.        *)
LEMMA ShowsVisible ==
  ASSUME NEW iss, NEW m \in AnswersOf(iss), NEW out, ShowsMessage(out, m)
  PROVE  out \in Seq(OutputItems) /\ Visible(NativeAssistant(out)) = Visible(m)
<1>1. out \in Seq(OutputItems) /\ TextOf(out) = m.text /\ JoinBy(CallPart, out) = m.calls
  BY DEF ShowsMessage
<1>2. NativeAssistant(out) = Assistant(m.text, m.calls, JoinBy(SummaryPart, out), <<>>, <<>>)
  BY <1>1, NativeIs, Zenon
<1>3. /\ NativeAssistant(out).role = "assistant" /\ NativeAssistant(out).text = m.text
      /\ NativeAssistant(out).calls = m.calls
  BY <1>2 DEF Assistant
<1>4. m.role = "assistant"
  BY DEF AnswersOf
<1>. QED BY <1>1, <1>3, <1>4 DEF Visible

(* A prompt is visible as a prompt.                                           *)
LEMMA LastVisible ==
  ASSUME NEW iss, NEW f \in Seq(MessagesOf(iss)), f # <<>>, Last(f).role = "user"
  PROVE  /\ VisibleOf(f) \in Seq(Shapes) /\ VisibleOf(f) # <<>>
         /\ Last(VisibleOf(f)).role = "user"
<1>1. VisibleOf(f) \in Seq(Shapes) /\ Len(VisibleOf(f)) = Len(f)
      /\ \A i \in DOMAIN f : VisibleOf(f)[i] = Visible(f[i])
  BY VisiblesAre
<1>2. Len(f) \in DOMAIN f /\ Len(f) # 0
  OBVIOUS
<1>3. Last(VisibleOf(f)) = Visible(Last(f))
  BY <1>1, <1>2 DEF Last
<1>4. VisibleOf(f) # <<>>
  BY <1>1, <1>2
<1>. QED BY <1>1, <1>3, <1>4 DEF Visible

(* A message, translated, adds what it shows.                                 *)
LEMMA PresentsMessage ==
  ASSUME NEW iss, NEW boundary \in Seq(MessagesOf(iss)), boundary # <<>>, NEW req,
         NEW items, Presents(items, VisibleOf(Front(boundary))),
         Last(boundary).role # "user" =>
           Front(boundary) # <<>> /\ Last(Front(boundary)).role = "user"
  PROVE  Presents(items \o Translated(req, boundary), VisibleOf(boundary))
<1>. DEFINE f == Front(boundary)
            m == Last(boundary)
<1>1. m \in MessagesOf(iss) /\ f \in Seq(MessagesOf(iss)) /\ boundary = Append(f, m)
  BY MessageOf
<1>2. VisibleOf(boundary) = Append(VisibleOf(f), Visible(m))
  BY <1>1, VisibleAppend
<1>3. VisibleOf(f) \in Seq(Shapes) /\ Len(VisibleOf(f)) = Len(f)
      /\ \A i \in DOMAIN f : VisibleOf(f)[i] = Visible(f[i])
  BY <1>1, VisiblesAre
<1>4. CASE m.role = "user"
  <2>1. /\ Translated(req, boundary) = <<Prompt(m.prompt)>>
        /\ m = User(m.prompt) /\ m.prompt \in Prompts
    BY <1>4, PromptShows
  <2>2. Visible(m) = User(m.prompt)
    BY <1>4, <2>1 DEF Visible
  <2>. HIDE DEF f, m
  <2>. QED BY <1>2, <1>3, <2>1, <2>2, PresentsPrompt, Zenon DEF f
<1>5. CASE m.role # "user"
  <2>1. ShowsMessage(Translated(req, boundary), m) /\ m \in AnswersOf(iss)
    BY <1>1, <1>5, AnswerShows, MessageIs
  <2>2. Translated(req, boundary) \in Seq(OutputItems)
        /\ Visible(NativeAssistant(Translated(req, boundary))) = Visible(m)
    BY <2>1, ShowsVisible
  <2>3. VisibleOf(f) # <<>> /\ Last(VisibleOf(f)).role = "user"
    BY <1>1, <1>5, LastVisible
  <2>4. Presents(items, VisibleOf(f))
    OBVIOUS
  <2>. HIDE DEF f, m
  <2>. QED BY <1>2, <1>3, <2>2, <2>3, <2>4, PresentsOutput
<1>. QED BY <1>4, <1>5

(* An answer follows a prompt.                                                *)
Answering(messages) ==
  \A i \in DOMAIN messages :
    messages[i].role # "user" => i > 1 /\ messages[i - 1].role = "user"

(* The messages up to one of them, and the one before it.                     *)
LEMMA BoundaryIs ==
  ASSUME NEW S, NEW ms \in Seq(S), Answering(ms), NEW n \in 1..Len(ms)
  PROVE  LET b == SubSeq(ms, 1, n)
         IN /\ b \in Seq(S) /\ b # <<>> /\ Front(b) = SubSeq(ms, 1, n - 1) /\ Last(b) = ms[n]
            /\ Last(b).role # "user" => Front(b) # <<>> /\ Last(Front(b)).role = "user"
<1>. DEFINE b == SubSeq(ms, 1, n)
            f == SubSeq(ms, 1, n - 1)
<1>1. b \in Seq(S) /\ Len(b) = n /\ b[n] = ms[n] /\ n \in Nat /\ n > 0
  OBVIOUS
<1>2. f \in Seq(S) /\ Len(f) = n - 1 /\ (n > 1 => f[n - 1] = ms[n - 1])
  OBVIOUS
<1>3. SubSeq(b, 1, n - 1) = f
  OBVIOUS
<1>4. n \in DOMAIN ms
  OBVIOUS
<1>. HIDE DEF b, f
<1>5. b # <<>> /\ Last(b) = ms[n] /\ Front(b) = f
  BY <1>1, <1>3 DEF Last, Front
<1>6. ms[n].role # "user" => f # <<>> /\ Last(f).role = "user"
  <2>. SUFFICES ASSUME ms[n].role # "user" PROVE f # <<>> /\ Last(f).role = "user"
    OBVIOUS
  <2>1. n > 1 /\ ms[n - 1].role = "user"
    BY <1>4 DEF Answering
  <2>2. Len(f) = n - 1 /\ f[n - 1] = ms[n - 1] /\ Len(<<>>) = 0
    BY <1>2, <2>1
  <2>3. Last(f).role = "user"
    BY <2>1, <2>2 DEF Last
  <2>4. Len(f) # 0
    BY <1>1, <2>1, <2>2
  <2>. QED BY <2>2, <2>3, <2>4
<1>. QED BY <1>1, <1>5, <1>6, Zenon DEF b, f

(* A request, translated message by message, presents its transcript.         *)
LEMMA TranslationPresents ==
  ASSUME NEW iss, NEW req \in RequestsOf(iss), Answering(req.messages)
  PROVE  Presents(TranslateMessages(req), VisibleOf(req.messages))
<1>. DEFINE ms == req.messages
            parts == [i \in DOMAIN ms |-> Translated(req, SubSeq(ms, 1, i))]
            So(n) == Presents(FlattenSeq(SubSeq(parts, 1, n)), VisibleOf(SubSeq(ms, 1, n)))
            N == {n \in Nat : n \in 0..Len(ms) => So(n)}
            Q == Seq(InputItems)
<1>0. ms \in Seq(MessagesOf(iss))
  BY DEF RequestsOf
<1>1. parts \in Seq(Q) /\ Len(parts) = Len(ms)
      /\ \A i \in 1..Len(ms) : parts[i] = Translated(req, SubSeq(ms, 1, i))
  <2>1. ASSUME NEW i \in DOMAIN ms PROVE Translated(req, SubSeq(ms, 1, i)) \in Q
    <3>1. Translated(req, SubSeq(ms, 1, i)) \in Seq(Own(iss, req.account, req.model))
      BY TranslatedIsOwn
    <3>2. Own(iss, req.account, req.model) \subseteq InputItems
      BY DEF Own
    <3>. QED BY <3>1, <3>2, SeqsGrow
  <2>. HIDE DEF Q, ms
  <2>. QED BY <1>0, <2>1
<1>. HIDE DEF ms, parts
<1>2. 0 \in N
  <2>1. SubSeq(parts, 1, 0) = <<>> /\ SubSeq(ms, 1, 0) = <<>>
    <3>. HIDE DEF Q
    <3>. QED BY <1>0, <1>1
  <2>2. VisibleOf(<<>>) = <<>>
    BY DEF VisibleOf
  <2>. QED BY <2>1, <2>2, FlattenEmpty, PresentsNothing
<1>3. ASSUME NEW n \in Nat, n \in N PROVE n + 1 \in N
  <2>. SUFFICES ASSUME NEW k \in 1..Len(ms), k = n + 1 PROVE So(k)
    OBVIOUS
  <2>1. k \in Nat /\ k - 1 = n /\ n \in 0..Len(ms) /\ So(n)
    BY <1>3
  <2>. DEFINE b == SubSeq(ms, 1, k)
  <2>2. /\ b \in Seq(MessagesOf(iss)) /\ b # <<>> /\ Front(b) = SubSeq(ms, 1, n)
        /\ Last(b).role # "user" => Front(b) # <<>> /\ Last(Front(b)).role = "user"
    BY <1>0, <2>1, BoundaryIs, Zenon DEF ms
  <2>3. SubSeq(parts, 1, k) = Append(SubSeq(parts, 1, n), parts[k])
        /\ SubSeq(parts, 1, n) \in Seq(Q) /\ parts[k] \in Q
    <3>. HIDE DEF Q
    <3>. QED BY <1>1, <2>1
  <2>4. FlattenSeq(SubSeq(parts, 1, k)) = FlattenSeq(SubSeq(parts, 1, n)) \o parts[k]
    BY <2>3, FlattenOne, Zenon
  <2>5. parts[k] = Translated(req, b)
    BY <1>1
  <2>. HIDE DEF b, N
  <2>6. Presents(FlattenSeq(SubSeq(parts, 1, n)) \o Translated(req, b), VisibleOf(b))
    BY <2>1, <2>2, PresentsMessage
  <2>. QED BY <2>4, <2>5, <2>6, Zenon DEF b
<1>4. Nat \subseteq N
  <2>. HIDE DEF N
  <2>. QED BY <1>2, <1>3, SetInduction
<1>5. So(Len(ms)) /\ SubSeq(ms, 1, Len(ms)) = ms /\ SubSeq(parts, 1, Len(ms)) = parts
  <2>1. Len(ms) \in Nat
    BY <1>0
  <2>2. So(Len(ms))
    <3>. HIDE DEF So
    <3>. QED BY <1>4, <2>1
  <2>. HIDE DEF Q, So
  <2>. QED BY <1>0, <1>1, <2>2
<1>6. TranslateMessages(req) = FlattenSeq(parts)
  BY DEF TranslateMessages, parts, ms
<1>. QED BY <1>5, <1>6 DEF ms

(* Entries that present the transcript of their key.                          *)
AnEntry == [key : Keys, value : Values]
Faithful == {e \in AnEntry : ~e.value.ambiguous => Presents(e.value.items, e.key.visible)}

(* The inductive invariant of the transcript: an answer follows a prompt, the *)
(* input presents the transcript that was asked, and an entry of the cache    *)
(* the one that it is found under.                                            *)
TranscriptInv ==
  /\ Answering(history) /\ cache \in Seq(Faithful)
  /\ stage = "reading" =>
       /\ Answering(request.messages) /\ Last(request.messages).role = "user"
       /\ Presents(input, VisibleOf(request.messages))

LEMMA FaithfulAreStorable == Storable(Faithful, Keys \cup InputItems)
BY EntryIsStorable DEF Storable, Faithful, AnEntry

(* An answer after a prompt, an earlier point, and an answer that is          *)
(* rewritten.                                                                 *)
LEMMA AnsweringAppend ==
  ASSUME NEW S, NEW ms \in Seq(S), Answering(ms), NEW m \in S,
         m.role # "user" => ms # <<>> /\ Last(ms).role = "user"
  PROVE  Answering(Append(ms, m))
<1>. DEFINE v == Append(ms, m)
<1>1. v \in Seq(S) /\ DOMAIN v = 1..Len(ms) + 1 /\ v[Len(ms) + 1] = m /\ Len(ms) \in Nat
      /\ \A i \in 1..Len(ms) : v[i] = ms[i]
  OBVIOUS
<1>. HIDE DEF v
<1>2. ASSUME NEW i \in DOMAIN v, v[i].role # "user" PROVE i > 1 /\ v[i - 1].role = "user"
  <2>1. CASE i = Len(ms) + 1
    <3>1. ms # <<>> /\ ms[Len(ms)].role = "user"
      BY <1>1, <1>2, <2>1 DEF Last
    <3>2. Len(ms) > 0
      BY <3>1
    <3>3. i > 1 /\ i - 1 = Len(ms) /\ v[Len(ms)] = ms[Len(ms)]
      BY <1>1, <2>1, <3>2
    <3>. QED BY <3>1, <3>3
  <2>2. CASE i # Len(ms) + 1
    <3>1. i \in 1..Len(ms) /\ ms[i].role # "user" /\ i \in DOMAIN ms
      BY <1>1, <1>2, <2>2
    <3>2. i > 1 /\ ms[i - 1].role = "user"
      BY <3>1 DEF Answering
    <3>. QED BY <1>1, <3>1, <3>2
  <2>. QED BY <2>1, <2>2
<1>. QED BY <1>2 DEF Answering, v

LEMMA AnsweringPrefix ==
  ASSUME NEW S, NEW ms \in Seq(S), Answering(ms), NEW n \in 0..Len(ms)
  PROVE  Answering(SubSeq(ms, 1, n))
<1>. DEFINE v == SubSeq(ms, 1, n)
<1>1. v \in Seq(S) /\ DOMAIN v = 1..n /\ (\A i \in 1..n : v[i] = ms[i]) /\ DOMAIN ms = 1..Len(ms)
  OBVIOUS
<1>. HIDE DEF v
<1>2. ASSUME NEW i \in DOMAIN v, v[i].role # "user" PROVE i > 1 /\ v[i - 1].role = "user"
  <2>1. i \in DOMAIN ms /\ ms[i].role # "user"
    BY <1>1, <1>2
  <2>2. i > 1 /\ ms[i - 1].role = "user"
    BY <2>1 DEF Answering
  <2>. QED BY <1>1, <2>2
<1>. QED BY <1>2 DEF Answering, v

LEMMA AnsweringSame ==
  ASSUME NEW ms, NEW other, Answering(ms), DOMAIN other = DOMAIN ms,
         \A i \in DOMAIN ms : other[i].role = ms[i].role,
         \A i \in DOMAIN ms : i > 1 => i - 1 \in DOMAIN ms
  PROVE  Answering(other)
BY DEF Answering

LEMMA HistoryChanged ==
  ASSUME NEW S, NEW ms \in Seq(S), Answering(ms), NEW i \in DOMAIN ms, NEW m, m.role = ms[i].role
  PROVE  Answering([ms EXCEPT ![i] = m])
<1>. DEFINE v == [ms EXCEPT ![i] = m]
<1>1. DOMAIN v = DOMAIN ms /\ (\A j \in DOMAIN ms : v[j].role = ms[j].role)
      /\ \A j \in DOMAIN ms : j > 1 => j - 1 \in DOMAIN ms
  OBVIOUS
<1>. HIDE DEF v
<1>. QED BY <1>1, AnsweringSame, Zenon DEF v

(* A turn begins: from the cache, or message by message.                      *)
LEMMA AsksKeepsTranscript ==
  ASSUME InputInv, TranscriptInv, Asks PROVE TranscriptInv'
<1>1. PICK account \in Accounts, model \in Models, prompt \in Prompts :
        LET req == [account |-> account, model |-> model, messages |-> Append(history, User(prompt))]
            key == Key(req, history)
            replay == IF dialect = "openai" THEN Replay(key) ELSE Ambiguous
        IN request' = req /\ input' = Body(req, replay)
           /\ IF dialect = "openai" THEN Gets(key) ELSE UNCHANGED cache
  BY DEF Asks
<1>. DEFINE req == [account |-> account, model |-> model, messages |-> Append(history, User(prompt))]
            key == Key(req, history)
            M == MessagesOf(issued)
<1>2. req \in RequestsOf(issued) /\ req.messages # <<>> /\ key \in Keys
  BY AsksIs
<1>3. history' = history /\ req.messages = Append(history, User(prompt))
  BY DEF Asks
<1>4. history \in Seq(M) /\ User(prompt) \in M /\ User(prompt).role = "user"
  <2>1. User(prompt) \in M /\ User(prompt).role = "user"
    BY DEF User, Users, MessagesOf
  <2>. QED BY <2>1 DEF InputInv
<1>5. /\ req.messages \in Seq(M) /\ Last(req.messages) = User(prompt)
      /\ Front(req.messages) = history
  <2>. HIDE DEF M, req
  <2>. QED BY <1>3, <1>4, LastAppended, Zenon
<1>6. Answering(req.messages)
  <2>. HIDE DEF M, req
  <2>. QED BY <1>3, <1>4, AnsweringAppend, Zenon DEF TranscriptInv
<1>7. key.visible = VisibleOf(history)
  BY DEF Key, VisibleOf
<1>. HIDE DEF req, key
<1>8. request' = req /\ input' \in {Body(req, Ambiguous), Body(req, Replay(key))}
      /\ (Gets(key) \/ cache' = cache)
  BY <1>1 DEF req, key
<1>9. cache' \in Seq(Faithful)
  BY <1>8, FaithfulAreStorable, GetsIs, Zenon DEF InputInv, TranscriptInv
<1>10. Presents(TranslateMessages(req), VisibleOf(req.messages))
  BY <1>2, <1>6, TranslationPresents
<1>11. Presents(Body(req, Ambiguous), VisibleOf(req.messages))
  BY <1>10 DEF Body, Ambiguous
<1>12. Presents(Body(req, Replay(key)), VisibleOf(req.messages))
  <2>1. CASE Replay(key).ambiguous
    BY <1>10, <2>1 DEF Body
  <2>2. CASE ~Replay(key).ambiguous
    <3>. DEFINE e == cache[Place(key)]
    <3>1. Keeps(key) # {} /\ Replay(key) = e.value
      BY <1>2, <2>2, ReplayIs
    <3>2. Place(key) \in DOMAIN cache /\ e.key = key
      BY <3>1, PlaceIs
    <3>3. e \in Faithful
      BY <3>2 DEF TranscriptInv
    <3>. HIDE DEF e
    <3>4. Presents(Replay(key).items, VisibleOf(history))
      BY <1>7, <2>2, <3>1, <3>2, <3>3 DEF Faithful
    <3>5. Presents(Replay(key).items \o Translated(req, req.messages), VisibleOf(req.messages))
      <4>1. Last(req.messages).role = "user"
        BY <1>4, <1>5
      <4>. HIDE DEF M
      <4>. QED BY <1>2, <1>5, <3>4, <4>1, PresentsMessage, Zenon DEF M
    <3>. QED BY <2>2, <3>5 DEF Body
  <2>. QED BY <2>1, <2>2
<1>13. Presents(input', VisibleOf(request.messages)')
  <2>1. VisibleOf(request.messages)' = VisibleOf(req.messages)
    BY <1>8 DEF VisibleOf
  <2>. QED BY <1>8, <1>11, <1>12, <2>1, Zenon
<1>14. Answering(request'.messages) /\ Last(request'.messages).role = "user" /\ Answering(history')
  BY <1>3, <1>4, <1>5, <1>6, <1>8 DEF TranscriptInv
<1>. QED BY <1>9, <1>13, <1>14, Zenon DEF TranscriptInv, VisibleOf

(* A turn ends: its output is stored under the transcript it completes.       *)
LEMMA CompletesKeepsTranscript ==
  ASSUME TranslationInv, InputInv, TranscriptInv, Completes PROVE TranscriptInv'
<1>1. PICK output \in Outputs, status \in Statuses :
        LET t == Finish(tr, output, status)
            sent == told \o t.says
            refusals == IF dialect = "openai" THEN {<<>>, ToldOf("refusal", sent)}
                        ELSE {ToldOf("refusal", sent)}
            Issued(r) == [account |-> request.account, model |-> request.model, item |-> r]
        IN IF t.failed
           THEN UNCHANGED <<history, cache, used, made, issued>>
           ELSE /\ \E refusal \in refusals :
                     history' = Append(request.messages, Kept(t, sent, refusal))
                /\ Stores(t)
                /\ issued' = issued \cup
                     {Issued(t.output[i]) : i \in {j \in DOMAIN t.output : IsReasoning(t.output[j])}}
  BY Zenon DEF Completes
<1>. DEFINE t == Finish(tr, output, status)
            sent == told \o t.says
<1>2. stage' = "idle" /\ stage = "reading"
  BY DEF Completes, Ends
<1>3. TranslatorInv(tr) /\ ~tr.failed
  BY <1>2 DEF TranslationInv
<1>4. CASE t.failed
  <2>1. UNCHANGED <<history, cache>>
    BY <1>1, <1>4
  <2>. QED BY <1>2, <2>1 DEF TranscriptInv
<1>5. CASE ~t.failed
  <2>1. t \in Translators
    BY <1>3, <1>5, FinishIs, Zenon
  <2>3. (\E refusal : history' = Append(request.messages, Kept(t, sent, refusal))) /\ Stores(t)
    <3>. HIDE DEF t
    <3>. QED BY <1>1, <1>5 DEF t
  <2>. HIDE DEF t, sent
  <2>. DEFINE M == MessagesOf(issued)
              ms == request.messages
  <2>4. /\ request \in RequestsOf(issued) /\ ms # <<>> /\ ms \in Seq(M)
        /\ Answering(ms) /\ Last(ms).role = "user" /\ Presents(input, VisibleOf(ms))
        /\ cache \in Seq(Faithful) /\ Sound(cache, used, made)
    BY <1>2 DEF InputInv, TranscriptInv, RequestsOf
  <2>5. Answering(history')
    <3>1. PICK refusal : history' = Append(ms, Kept(t, sent, refusal))
      BY <2>3
    <3>. DEFINE k == Kept(t, sent, refusal)
                S == M \cup {k}
    <3>2. ms \in Seq(S) /\ k \in S
      BY <2>4, SeqsGrow
    <3>. HIDE DEF k, S, M, ms
    <3>3. Answering(Append(ms, k))
      BY <2>4, <3>2, AnsweringAppend, Zenon
    <3>. QED BY <3>1, <3>3 DEF k
  <2>6. cache' \in Seq(Faithful)
    <3>1. CASE dialect = "openai" /\ t.cacheable
      <4>. DEFINE native == NativeAssistant(t.output)
                  key == Key(request, Append(ms, native))
                  items == input \o t.output
      <4>1. Puts(key, items)
        BY <2>3, <3>1 DEF Stores
      <4>2. t.output \in Seq(OutputItems)
        <5>1. t.output \in Seq(KnownItems) /\ KnownItems \subseteq OutputItems
          BY <2>1 DEF Translators, OutputItems
        <5>. QED BY <5>1, SeqsGrow
      <4>3. native \in M
        BY <4>2, NativeIsMessage
      <4>4. key \in Keys /\ key.visible = VisibleOf(Append(ms, native))
        <5>1. Append(ms, native) \in Seq(M)
          <6>. HIDE DEF M, native, ms
          <6>. QED BY <2>4, <4>3, AppendProperties, Zenon
        <5>. QED BY <2>4, <5>1, KeyIs DEF Key, VisibleOf
      <4>5. VisibleOf(Append(ms, native)) = Append(VisibleOf(ms), Visible(native))
        BY <2>4, <4>3, VisibleAppend
      <4>6. /\ VisibleOf(ms) \in Seq(Shapes) /\ VisibleOf(ms) # <<>>
            /\ Last(VisibleOf(ms)).role = "user"
        BY <2>4, LastVisible
      <4>7. Presents(items, key.visible)
        <5>1. Presents(items, Append(VisibleOf(ms), Visible(native)))
          BY <2>4, <4>2, <4>6, PresentsOutput
        <5>. HIDE DEF items, native, key, ms
        <5>. QED BY <4>4, <4>5, <5>1, Zenon
      <4>. HIDE DEF key, items
      <4>8. PutEntry(key, items) \in Faithful
        <5>1. PutEntry(key, items) = [key |-> key, value |-> PutValue(key, items)]
          BY DEF PutEntry
        <5>2. items \in Seq(InputItems)
          BY <4>7 DEF Presents
        <5>3. PutValue(key, items) \in Values
          BY <5>2, PutEntryIs DEF Values
        <5>4. ~PutValue(key, items).ambiguous => PutValue(key, items).items = items
          <6>1. PutValue(key, items) = Ambiguous \/ PutValue(key, items) = Unambiguous(items)
            BY PutEntryIs, Zenon
          <6>2. Ambiguous.ambiguous /\ Unambiguous(items).items = items
            BY DEF Ambiguous, Unambiguous
          <6>. QED BY <6>1, <6>2, Zenon
        <5>. QED BY <4>4, <4>7, <5>1, <5>3, <5>4 DEF Faithful, AnEntry
      <4>. QED BY <2>4, <4>1, <4>8, FaithfulAreStorable, PutsIs, Zenon
    <3>2. CASE ~(dialect = "openai" /\ t.cacheable)
      BY <2>3, <2>4, <3>2 DEF Stores
    <3>. QED BY <3>1, <3>2
  <2>. QED BY <1>2, <2>5, <2>6 DEF TranscriptInv
<1>. QED BY <1>4, <1>5

LEMMA EditedRole ==
  ASSUME NEW m, NEW x, NEW y
  PROVE  /\ [m EXCEPT !.text = x].role = m.role /\ [m EXCEPT !.carriers = x].role = m.role
         /\ [m EXCEPT !.sealed = x, !.carriers = y].role = m.role
OBVIOUS

(* The client edits its transcript.                                           *)
LEMMA EditsKeepsTranscript ==
  ASSUME InputInv, TranscriptInv, Edits PROVE TranscriptInv'
<1>. DEFINE M == MessagesOf(issued)
<1>1. UNCHANGED <<cache, stage>> /\ stage = "idle"
  BY DEF Edits
<1>2. history \in Seq(M) /\ Answering(history)
  BY DEF InputInv, TranscriptInv
<1>. HIDE DEF M
<1>3. ASSUME NEW i \in Answers PROVE i \in DOMAIN history
  BY DEF Answers
<1>4. Answering(history')
  <2>1. CASE \E i \in Answers \cup {0} : i < Len(history) /\ history' = SubSeq(history, 1, i)
    <3>1. PICK i \in Answers \cup {0} : i < Len(history) /\ history' = SubSeq(history, 1, i)
      BY <2>1
    <3>2. i \in 0..Len(history)
      BY <1>2, <1>3, <3>1
    <3>. QED BY <1>2, <3>1, <3>2, AnsweringPrefix
  <2>2. CASE \E i \in Answers, letter \in Letters : history' = [history EXCEPT ![i].text = Append(@, letter)]
    <3>1. PICK i \in Answers, letter \in Letters : history' = [history EXCEPT ![i].text = Append(@, letter)]
      BY <2>2
    <3>. DEFINE m == [history[i] EXCEPT !.text = Append(@, letter)]
    <3>2. i \in DOMAIN history /\ history' = [history EXCEPT ![i] = m] /\ m.role = history[i].role
      BY <1>3, <3>1, EditedRole
    <3>. HIDE DEF m
    <3>. QED BY <1>2, <3>2, HistoryChanged, Zenon
  <2>3. CASE \E i \in Answers : history' = [history EXCEPT ![i].sealed = <<>>, ![i].carriers = <<>>]
    <3>1. PICK i \in Answers : history' = [history EXCEPT ![i].sealed = <<>>, ![i].carriers = <<>>]
      BY <2>3
    <3>. DEFINE m == [history[i] EXCEPT !.sealed = <<>>, !.carriers = <<>>]
    <3>2. i \in DOMAIN history
      BY <1>3
    <3>3. history' = [history EXCEPT ![i] = m]
      BY <1>2, <3>1, <3>2
    <3>4. m.role = history[i].role
      BY EditedRole
    <3>. HIDE DEF m
    <3>. QED BY <1>2, <3>2, <3>3, <3>4, HistoryChanged, Zenon
  <2>4. CASE \E i \in Answers, item \in Items :
               /\ history[i].carriers # <<>> /\ item.type # "reasoning"
               /\ history' = [history EXCEPT ![i].carriers[1].what = <<item>>]
    <3>1. PICK i \in Answers, item \in Items :
            history' = [history EXCEPT ![i].carriers[1].what = <<item>>]
      BY <2>4
    <3>. DEFINE cs == [history[i].carriers EXCEPT ![1].what = <<item>>]
                m == [history[i] EXCEPT !.carriers = cs]
    <3>2. i \in DOMAIN history
      BY <1>3
    <3>3. history' = [history EXCEPT ![i] = m]
      BY <1>2, <3>1, <3>2
    <3>4. m.role = history[i].role
      <4>. HIDE DEF cs
      <4>. QED BY EditedRole
    <3>. HIDE DEF m
    <3>. QED BY <1>2, <3>2, <3>3, <3>4, HistoryChanged, Zenon
  <2>5. CASE \E i, j \in Answers : history' = [history EXCEPT ![i].carriers = history[j].carriers]
    <3>1. PICK i \in Answers, j \in Answers : history' = [history EXCEPT ![i].carriers = history[j].carriers]
      BY <2>5
    <3>. DEFINE m == [history[i] EXCEPT !.carriers = history[j].carriers]
    <3>2. i \in DOMAIN history
      BY <1>3
    <3>3. history' = [history EXCEPT ![i] = m]
      BY <1>2, <3>1, <3>2
    <3>4. m.role = history[i].role
      BY EditedRole
    <3>. HIDE DEF m
    <3>. QED BY <1>2, <3>2, <3>3, <3>4, HistoryChanged, Zenon
  <2>. QED BY <2>1, <2>2, <2>3, <2>4, <2>5, Zenon DEF Edits
<1>. QED BY <1>1, <1>4 DEF TranscriptInv

(* The invariant of the transcript holds.                                     *)
LEMMA TranscriptHolds == ReplaySpec => []TranscriptInv
<1>1. ReplayInit => TranscriptInv
  <2>1. <<>> \in Seq(Faithful) /\ DOMAIN <<>> = {}
    OBVIOUS
  <2>. QED BY <2>1 DEF ReplayInit, TranscriptInv, Answering
<1>2. TranslationInv /\ InputInv /\ TranscriptInv /\ [ReplayNext]_replayVars => TranscriptInv'
  <2>. SUFFICES ASSUME TranslationInv, InputInv, TranscriptInv, [ReplayNext]_replayVars PROVE TranscriptInv'
    OBVIOUS
  <2>1. CASE Asks
    BY <2>1, AsksKeepsTranscript
  <2>2. CASE Hears
    <3>1. PICK u : Consumes(u)
      BY <2>2, HearsIs
    <3>2. UNCHANGED <<history, cache>>
      BY <2>2 DEF Hears
    <3>3. stage' = "idle" \/ UNCHANGED <<request, input, stage>>
      BY <3>1 DEF Consumes, Ends
    <3>. QED BY <3>2, <3>3 DEF TranscriptInv
  <2>3. CASE Completes
    BY <2>3, CompletesKeepsTranscript
  <2>4. CASE Edits
    BY <2>4, EditsKeepsTranscript
  <2>5. CASE UNCHANGED replayVars
    BY <2>5, Zenon DEF replayVars, TranscriptInv
  <2>. QED BY <2>1, <2>2, <2>3, <2>4, <2>5 DEF ReplayNext
<1>. QED BY <1>1, <1>2, TranslationHolds, InputHolds, PTL DEF ReplaySpec

(* What is sent upstream shows exactly the transcript that the client has     *)
(* presented, and contains only its own reasoning, whether it is taken from   *)
(* the cache, from carriers or from the blocks, for any edits of the client   *)
(* and any number of turns.                                                   *)
THEOREM InputStaysFaithful == ReplaySpec => []InputIsFaithful
<1>1. InputInv /\ TranscriptInv => InputIsTheTranscript
  <2>. SUFFICES ASSUME InputInv, TranscriptInv, stage = "reading"
                PROVE  Shown(Transcript(input)) = Shown(request.messages)
    BY DEF InputIsTheTranscript
  <2>1. Presents(input, VisibleOf(request.messages)) /\ request \in RequestsOf(issued)
    BY DEF InputInv, TranscriptInv
  <2>2. Shown(Transcript(input)) = ShownOf(input)
    BY <2>1, SaidTranscript DEF Presents
  <2>3. VisibleOf(request.messages) \in Seq(Shapes)
    BY <2>1, VisiblesAre DEF RequestsOf
  <2>4. Shown(request.messages) = JoinBy(ShownPart, VisibleOf(request.messages))
    BY <2>3, ShownIs
  <2>. QED BY <2>1, <2>2, <2>4, Zenon DEF Presents
<1>2. ReplaySpec => []InputIsTheTranscript
  BY <1>1, InputHolds, TranscriptHolds, PTL
<1>. QED BY <1>2, ReasoningStaysHome, PTL DEF InputIsFaithful
=============================================================================
