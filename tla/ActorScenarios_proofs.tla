------------------------ MODULE ActorScenarios_proofs ------------------------
(* The safety properties of the retained supervisors, for every set of         *)
(* releasing threads, any number of releases and every set of drivers.         *)
(*                                                                             *)
(* What a driver may assume at a step depends on the steps it has taken, that  *)
(* is, on those that are not ahead any more.  So the invariant says of the     *)
(* steps that are left which come before which, and of the world what must     *)
(* hold unless a certain step is still ahead.                                  *)
EXTENDS ActorScenarios, SequenceTheorems, TLAPS

-----------------------------------------------------------------------------
(* The steps of a program, and their order.                                    *)
Steps(s) == {s[i] : i \in DOMAIN s}
Before(s, a, b) == \A i, j \in DOMAIN s : s[i] = a /\ s[j] = b => i < j
Once(s, a) == \A i, j \in DOMAIN s : s[i] = a /\ s[j] = a => i = j
OnlyLast(s, a) == \A i \in DOMAIN s : s[i] = a => i = Len(s)
Ahead(step) == step \in Steps(run.left)

Retains == run.scenario \in Retaining

(* Steps of a finally or an except clause, and of a test release.              *)
Unwinding == {"cancel", "waitUnknown", "closeRest", "remove", "waitOrKeep",
              "teardownKnown", "teardownRetained", "reconcile"}
Releasing == {"transfer", "killGroup", "waitChild", "closeAll"}

RetainingOrder(s) ==
  /\ Before(s, "allocate", "transfer") /\ Before(s, "allocate", "unconfirmed")
  /\ Before(s, "allocate", "killGroup") /\ Before(s, "allocate", "closeAll")
  /\ Before(s, "spawn", "waitChild") /\ Before(s, "running", "killGroup")
  /\ Before(s, "unconfirmed", "closeAll") /\ Before(s, "killGroup", "closeAll")
  /\ Before(s, "waitChild", "closeAll") /\ OnlyLast(s, "closeAll")
  /\ "known" \notin Steps(s)

(* What is not there any more was not needed by what is there.                 *)
Completed(s) ==
  /\ "spawn" \in Steps(s) => "waitChild" \in Steps(s)
  /\ "allocate" \in Steps(s) => {"unconfirmed", "killGroup"} \subseteq Steps(s)

FinallyOrder(s) ==
  /\ Before(s, "kill", "teardownKnown") /\ Before(s, "kill", "teardownRetained")
  /\ Once(s, "closeRest")

FinallySteps(s) ==
  IF s \in Retaining
  THEN {"cancel", "closeControl", "waitUnknown", "closeRest", "path"}
  ELSE IF s \in Cleaning THEN {"closeControl", "waitOrKeep", "closeRest", "remove"}
  ELSE IF s \in Bootstrapping THEN {"closeControl", "closeRest", "remove"}
  ELSE {"closeControl", "kill", "teardownKnown", "teardownRetained", "closeRest",
        "path", "remove"}

Program ==
  /\ run.clause \in {"open", "ended"} => run.left = <<>>
  /\ run.clause \in {"try", "except", "finally"} => run.left # <<>>
  /\ run.clause = "try" =>
       /\ Steps(run.left) \cap Unwinding = {}
       /\ IF Retains THEN RetainingOrder(run.left) /\ Completed(run.left)
          ELSE Steps(run.left) \cap Releasing = {}
  /\ run.clause = "except" => Retains /\ run.left \in {RetainingExcept, <<"path">>}
  /\ run.clause = "finally" =>
       Steps(run.left) \subseteq FinallySteps(run.scenario) /\ FinallyOrder(run.left)

-----------------------------------------------------------------------------
(* Types, as far as a step may depend on them.                                 *)
RecoveryStages ==
  {"head", "record", "wait", "bounded", "decide", "exit", "confirm", "terminal"}
ReleaseStages == {"prove", "close", "remove"}
Handle == {"none", "open", "closed"}
StepNames ==
  {"ack", "activate", "allocate", "anchor", "armed", "cancel", "closeAll", "closeControl",
   "closeRest", "confirm", "delete", "exit0", "exit75", "exit86", "exitAny", "frame1",
   "frame3", "identity", "kill", "killGroup", "known", "noAnchor", "path", "reap",
   "reconcile", "refuse", "refusedRetirement", "remove", "replay", "request", "result",
   "retain", "retire", "running", "selfTerm", "send", "spawn", "successor", "teardown",
   "teardownKnown", "teardownRetained", "termed", "transfer", "unconfirmed", "waitChild",
   "waitOrKeep", "waitUnknown"}

ChildType == [state : {"none", "live", "zombie", "reaped"}, code : {0, 75, 86}]
WireType ==
  [frame : 0..4, acked : Nat, refused : BOOLEAN, delivered : BOOLEAN, reply : BOOLEAN,
   selfTerm : BOOLEAN]
HeldType == [control : Handle, stderr : Handle, journal : Handle, dir : Handle, closes : Nat]
ArtifactsType ==
  [dir : {"none", "present", "deleted", "removed"}, path : BOOLEAN, kept : BOOLEAN]
OwnerType ==
  [close : {"OWNED", "AMBIGUOUS", "CLOSED_PROVED"}, proof : BOOLEAN, request : BOOLEAN,
   certified : BOOLEAN]
PcType == [Threads -> {"idle", "lock", "relock"} \cup RecoveryStages \cup ReleaseStages]

TypedWorld ==
  /\ child \in ChildType /\ wire \in WireType /\ held \in HeldType
  /\ artifacts \in ArtifactsType /\ owner \in OwnerType /\ pc \in PcType
  /\ entry \in {"none", "reserved", "owned", "released"}

RunType ==
  [scenario : Drivers, clause : {"open", "try", "except", "finally", "ended"},
   left : Seq(StepNames), known : BOOLEAN, retained : BOOLEAN]

Typed == TypedWorld /\ run \in RunType

(* The slot and its owner, as the clauses of the driver leave them.            *)
Slot ==
  /\ ~Retains => entry = "none"
  /\ run.clause = "open" => entry = "none" /\ ~run.known
  /\ run.clause = "try" => entry # "released"
  /\ run.clause = "except" => entry = "owned"
  /\ Retains /\ run.known => entry \in {"owned", "released"}
  /\ LocallyOwned => owner.close = "OWNED" /\ ~owner.certified
  /\ run.clause # "ended" => ~owner.certified
  /\ entry = "owned" /\ owner.close # "OWNED" => owner.certified
  /\ entry = "released" => owner.close = "CLOSED_PROVED"

(* The lock has one holder, and only the driver works before it is over.       *)
Locked ==
  /\ pc["driver"] \in {"idle", "lock"} \cup RecoveryStages
  /\ pc["driver"] # "idle" => run.clause = "except"
  /\ \A t \in Threads : pc[t] \in RecoveryStages \cup ReleaseStages => lock = t
  /\ \A t \in Releasers :
       pc[t] # "idle" => run.clause = "ended" /\ entry \in {"owned", "released"}

(* What was certified stays so, and what a release has done is done.           *)
AllGone == child.state = "reaped" /\ group = "absent" /\ journal \in Terminal
NoneOpen == {held.control, held.stderr, held.journal} \cap {"open"} = {}
Released ==
  /\ owner.certified \/ entry = "released" => AllGone
  /\ entry = "released" => NoneOpen
  /\ owner.close = "CLOSED_PROVED" => held.dir # "open"
  /\ \A t \in Releasers :
       /\ pc[t] \in {"close", "remove"} => owner.certified \/ entry = "released"
       /\ pc[t] \in {"close", "remove"} => owner.close # "AMBIGUOUS"
       /\ pc[t] = "remove" => owner.close = "CLOSED_PROVED" /\ NoneOpen

(* The parent descriptor is closed by the owner or by the driver.              *)
ClosedOnce ==
  /\ held.closes <= 1
  /\ run.clause \in {"open", "try", "except"} => held.closes = 0
  /\ run.clause = "finally" /\ LocallyOwned /\ Ahead("closeRest") => held.closes = 0
  /\ entry = "owned" /\ owner.close = "OWNED" => held.closes = 0

(* What the steps that are behind have achieved.                               *)
Achieved ==
  run.clause = "try" =>
    /\ held.dir = "open"
    /\ Retains =>
         /\ Ahead("allocate") \/ held.journal = "open"
         /\ Ahead("running") \/ wire.frame = 4
         /\ Ahead("unconfirmed") \/ journal \in Terminal
         /\ Ahead("killGroup") \/ (group = "absent" /\ wire.frame = 4 /\ held.control # "open")
         /\ Ahead("waitChild") \/ child.state = "reaped"

(* Who ends the child, or keeps it.                                            *)
ChildIsOver == child.state \in {"none", "reaped"}
StillAhead(step) == run.clause = "finally" /\ Ahead(step)
Cared ==
  /\ run.clause = "open" => child.state = "none"
  /\ run.clause \in {"finally", "ended"} =>
       IF Retains THEN StillAhead("waitUnknown") \/ ChildIsOver \/ ~LocallyOwned
       ELSE IF run.scenario \in Cleaning
       THEN StillAhead("waitOrKeep") \/ ChildIsOver \/ artifacts.kept
       ELSE run.scenario \in Bootstrapping \/ StillAhead("kill") \/ ChildIsOver

Inv ==
  /\ Typed /\ Program /\ Slot /\ Locked /\ Released /\ ClosedOnce /\ Achieved /\ Cared
  /\ OwnerKeepsItsHandles

-----------------------------------------------------------------------------
(* Sequences of steps.                                                         *)
LEMMA TailSteps ==
  ASSUME NEW S, NEW s \in Seq(S), s # <<>>
  PROVE  /\ Steps(s) = {Head(s)} \cup Steps(Tail(s))
         /\ Len(s) = 1 => Steps(s) = {Head(s)}
         /\ Len(s) # 1 => Tail(s) # <<>>
         /\ Tail(s) \in Seq(S)
<1>1. Steps(Tail(s)) \subseteq Steps(s)
  BY DEF Steps
<1>2. Head(s) \in Steps(s)
  BY DEF Steps
<1>3. ASSUME NEW x \in Steps(s), x # Head(s)
      PROVE  x \in Steps(Tail(s)) /\ Len(s) # 1
  <2>1. PICK i \in DOMAIN s : s[i] = x
    BY DEF Steps
  <2>2. i # 1 /\ i - 1 \in DOMAIN Tail(s) /\ Tail(s)[i - 1] = x
    BY <1>3, <2>1
  <2>. QED BY <2>1, <2>2 DEF Steps
<1>4. Len(s) # 1 => Tail(s) # <<>>
  <2>1. Len(s) \in Nat /\ Len(Tail(s)) = Len(s) - 1
    OBVIOUS
  <2>2. Len(<<>>) = 0
    OBVIOUS
  <2>3. Tail(s) = <<>> => Len(s) - 1 = 0
    BY <2>1, <2>2, Zenon
  <2>. QED BY <2>1, <2>3
<1>5. Len(s) = 1 => Steps(s) = {Head(s)}
  BY <1>2, <1>3
<1>. QED BY <1>1, <1>2, <1>3, <1>4, <1>5

LEMMA TailBefore ==
  ASSUME NEW S, NEW s \in Seq(S), s # <<>>, NEW a, NEW b, Before(s, a, b)
  PROVE  Before(Tail(s), a, b) /\ (Head(s) = b => a \notin Steps(s))
<1>1. ASSUME NEW i \in DOMAIN Tail(s), NEW j \in DOMAIN Tail(s), Tail(s)[i] = a, Tail(s)[j] = b
      PROVE  i < j
  <2>1. i + 1 \in DOMAIN s /\ j + 1 \in DOMAIN s /\ s[i + 1] = a /\ s[j + 1] = b
    BY <1>1
  <2>. QED BY <1>1, <2>1 DEF Before
<1>2. ASSUME Head(s) = b, NEW i \in DOMAIN s, s[i] = a
      PROVE  FALSE
  <2>1. 1 \in DOMAIN s /\ s[1] = b
    BY <1>2
  <2>. QED BY <1>2, <2>1 DEF Before
<1>. QED BY <1>1, <1>2 DEF Before, Steps

LEMMA TailOnce ==
  ASSUME NEW S, NEW s \in Seq(S), s # <<>>, NEW a, Once(s, a)
  PROVE  Once(Tail(s), a) /\ (Head(s) = a => a \notin Steps(Tail(s)))
<1>1. ASSUME NEW i \in DOMAIN Tail(s), NEW j \in DOMAIN Tail(s), Tail(s)[i] = a, Tail(s)[j] = a
      PROVE  i = j
  <2>1. i + 1 \in DOMAIN s /\ j + 1 \in DOMAIN s /\ s[i + 1] = a /\ s[j + 1] = a
    BY <1>1
  <2>. QED BY <1>1, <2>1 DEF Once
<1>2. ASSUME Head(s) = a, NEW i \in DOMAIN Tail(s), Tail(s)[i] = a
      PROVE  FALSE
  <2>1. 1 \in DOMAIN s /\ s[1] = a /\ i + 1 \in DOMAIN s /\ s[i + 1] = a
    BY <1>2
  <2>. QED BY <1>2, <2>1 DEF Once
<1>. QED BY <1>1, <1>2 DEF Once, Steps

LEMMA TailOnlyLast ==
  ASSUME NEW S, NEW s \in Seq(S), s # <<>>, NEW a, OnlyLast(s, a)
  PROVE  OnlyLast(Tail(s), a) /\ (Head(s) = a => Len(s) = 1)
<1>1. ASSUME NEW i \in DOMAIN Tail(s), Tail(s)[i] = a
      PROVE  i = Len(Tail(s))
  <2>1. i + 1 \in DOMAIN s /\ s[i + 1] = a
    BY <1>1
  <2>2. i + 1 = Len(s)
    BY <2>1 DEF OnlyLast
  <2>. QED BY <2>2
<1>2. ASSUME Head(s) = a
      PROVE  Len(s) = 1
  <2>1. 1 \in DOMAIN s /\ s[1] = a
    BY <1>2
  <2>. QED BY <2>1 DEF OnlyLast
<1>. QED BY <1>1, <1>2 DEF OnlyLast

LEMMA JoinedSteps ==
  ASSUME NEW S, NEW s \in Seq(S), NEW t \in Seq(S)
  PROVE  Steps(s \o t) = Steps(s) \cup Steps(t)
<1>1. ASSUME NEW x \in Steps(s)
      PROVE  x \in Steps(s \o t)
  <2>1. PICK i \in DOMAIN s : s[i] = x
    BY DEF Steps
  <2>2. i \in DOMAIN (s \o t) /\ (s \o t)[i] = x
    BY <2>1
  <2>. QED BY <2>2 DEF Steps
<1>2. ASSUME NEW x \in Steps(t)
      PROVE  x \in Steps(s \o t)
  <2>1. PICK i \in DOMAIN t : t[i] = x
    BY DEF Steps
  <2>2. i + Len(s) \in DOMAIN (s \o t) /\ (s \o t)[i + Len(s)] = x
    BY <2>1
  <2>. QED BY <2>2 DEF Steps
<1>3. ASSUME NEW x \in Steps(s \o t)
      PROVE  x \in Steps(s) \cup Steps(t)
  <2>1. PICK i \in DOMAIN (s \o t) : (s \o t)[i] = x
    BY <1>3 DEF Steps
  <2>2. CASE i <= Len(s)
    BY <2>1, <2>2 DEF Steps
  <2>3. CASE i > Len(s)
    <3>1. i - Len(s) \in DOMAIN t /\ t[i - Len(s)] = x
      BY <2>1, <2>3
    <3>. QED BY <3>1 DEF Steps
  <2>. QED BY <2>1, <2>2, <2>3
<1>. QED BY <1>1, <1>2, <1>3

LEMMA JoinedBefore ==
  ASSUME NEW S, NEW s \in Seq(S), NEW t \in Seq(S), NEW a, NEW b,
         Before(s, a, b), Before(t, a, b), a \notin Steps(t) \/ b \notin Steps(s)
  PROVE  Before(s \o t, a, b)
<1>. SUFFICES ASSUME NEW i \in DOMAIN (s \o t), NEW j \in DOMAIN (s \o t),
                     (s \o t)[i] = a, (s \o t)[j] = b
              PROVE  i < j
  BY DEF Before
<1>1. CASE i <= Len(s) /\ j <= Len(s)
  <2>1. i \in DOMAIN s /\ j \in DOMAIN s /\ s[i] = a /\ s[j] = b
    BY <1>1
  <2>. QED BY <2>1 DEF Before
<1>2. CASE i <= Len(s) /\ j > Len(s)
  BY <1>2
<1>3. CASE i > Len(s) /\ j <= Len(s)
  <2>1. i - Len(s) \in DOMAIN t /\ j \in DOMAIN s /\ t[i - Len(s)] = a /\ s[j] = b
    BY <1>3
  <2>. QED BY <2>1 DEF Steps
<1>4. CASE i > Len(s) /\ j > Len(s)
  <2>1. /\ i - Len(s) \in DOMAIN t /\ j - Len(s) \in DOMAIN t
        /\ t[i - Len(s)] = a /\ t[j - Len(s)] = b
    BY <1>4
  <2>2. i - Len(s) < j - Len(s)
    BY <2>1 DEF Before
  <2>. QED BY <2>2
<1>. QED BY <1>1, <1>2, <1>3, <1>4

LEMMA JoinedOnlyLast ==
  ASSUME NEW S, NEW s \in Seq(S), NEW t \in Seq(S), NEW a,
         a \notin Steps(s), OnlyLast(t, a)
  PROVE  OnlyLast(s \o t, a)
<1>. SUFFICES ASSUME NEW i \in DOMAIN (s \o t), (s \o t)[i] = a
              PROVE  i = Len(s \o t)
  BY DEF OnlyLast
<1>1. i > Len(s)
  <2>1. i <= Len(s) => i \in DOMAIN s /\ s[i] = a
    OBVIOUS
  <2>. QED BY <2>1 DEF Steps
<1>2. i - Len(s) \in DOMAIN t /\ t[i - Len(s)] = a
  BY <1>1
<1>3. i - Len(s) = Len(t)
  BY <1>2 DEF OnlyLast
<1>. QED BY <1>1, <1>3

-----------------------------------------------------------------------------
(* The programs of the drivers: which steps they have, and in which order.     *)
LEMMA JoinedOrder ==
  ASSUME NEW s \in Seq(StepNames), NEW t \in Seq(StepNames),
         RetainingOrder(s), RetainingOrder(t), "closeAll" \notin Steps(s),
         {"allocate", "spawn", "running"} \cap Steps(t) = {} \/
           {"transfer", "unconfirmed", "killGroup", "waitChild"} \cap Steps(s) = {}
  PROVE  RetainingOrder(s \o t)
<1>. USE JoinedBefore DEF RetainingOrder
<1>1. Before(s \o t, "allocate", "transfer")
  OBVIOUS
<1>2. Before(s \o t, "allocate", "unconfirmed")
  OBVIOUS
<1>3. Before(s \o t, "allocate", "killGroup")
  OBVIOUS
<1>4. Before(s \o t, "allocate", "closeAll")
  OBVIOUS
<1>5. Before(s \o t, "spawn", "waitChild")
  OBVIOUS
<1>6. Before(s \o t, "running", "killGroup")
  OBVIOUS
<1>7. Before(s \o t, "unconfirmed", "closeAll")
  OBVIOUS
<1>8. Before(s \o t, "killGroup", "closeAll")
  OBVIOUS
<1>9. Before(s \o t, "waitChild", "closeAll")
  OBVIOUS
<1>10. OnlyLast(s \o t, "closeAll")
  BY JoinedOnlyLast
<1>11. "known" \notin Steps(s \o t)
  BY JoinedSteps
<1>. QED BY <1>1, <1>2, <1>3, <1>4, <1>5, <1>6, <1>7, <1>8, <1>9, <1>10, <1>11

LEMMA NoOrder ==
  ASSUME NEW s,
         Steps(s) \cap {"allocate", "spawn", "running", "unconfirmed", "killGroup",
                        "waitChild", "closeAll", "known"} = {}
  PROVE  RetainingOrder(s)
<1>1. \A a, b : a \notin Steps(s) => Before(s, a, b)
  BY DEF Before, Steps
<1>2. OnlyLast(s, "closeAll")
  BY DEF OnlyLast, Steps
<1>. QED BY <1>1, <1>2 DEF RetainingOrder

LEMMA RetainingLaunchIs ==
  /\ RetainingLaunch \in Seq(StepNames) /\ RetainingOrder(RetainingLaunch)
  /\ Steps(RetainingLaunch) =
       {"allocate", "spawn", "identity", "anchor", "transfer", "armed", "running"}
<1>. DEFINE last == <<"identity", "anchor", "transfer", "armed", "running">>
<1>1. Launch \in Seq(StepNames) /\ last \in Seq(StepNames)
  BY DEF Launch, StepNames
<1>2. Steps(Launch) = {"allocate", "spawn"}
  BY DEF Launch, Steps
<1>3. Steps(last) = {"identity", "anchor", "transfer", "armed", "running"}
  BY DEF Steps
<1>4. RetainingOrder(Launch)
  BY DEF Launch, RetainingOrder, Before, OnlyLast, Steps
<1>5. RetainingOrder(last)
  BY DEF RetainingOrder, Before, OnlyLast, Steps
<1>. HIDE DEF last
<1>6. RetainingOrder(Launch \o last)
  BY <1>1, <1>2, <1>3, <1>4, <1>5, JoinedOrder
<1>7. Steps(Launch \o last) = Steps(Launch) \cup Steps(last) /\ Launch \o last \in Seq(StepNames)
  BY <1>1, JoinedSteps
<1>8. RetainingLaunch = Launch \o last
  BY DEF RetainingLaunch, last
<1>. QED BY <1>2, <1>3, <1>6, <1>7, <1>8

(* A retaining try up to its release, which each of the steps in between leaves *)
(* in order.                                                                   *)
BetweenNames ==
  StepNames \ (Unwinding \cup Releasing
                 \cup {"allocate", "spawn", "running", "unconfirmed", "known"})

UnderWay(s) ==
  /\ s \in Seq(StepNames) /\ RetainingOrder(s)
  /\ {"allocate", "running"} \subseteq Steps(s)
  /\ Steps(s) \cap (Unwinding \cup {"unconfirmed", "killGroup", "waitChild", "closeAll"}) = {}

LEMMA NamesOf ==
  ASSUME NEW S, NEW s \in Seq(S)
  PROVE  Steps(s) \subseteq S
BY DEF Steps

LEMMA BetweenJoined ==
  ASSUME NEW s, UnderWay(s), NEW t \in Seq(BetweenNames)
  PROVE  UnderWay(s \o t)
<1>1. Steps(t) \subseteq BetweenNames /\ t \in Seq(StepNames)
  BY NamesOf DEF BetweenNames
<1>2. RetainingOrder(t)
  BY <1>1, NoOrder DEF BetweenNames, Releasing
<1>3. RetainingOrder(s \o t)
  BY <1>1, <1>2, JoinedOrder DEF UnderWay, BetweenNames
<1>4. Steps(s \o t) = Steps(s) \cup Steps(t) /\ s \o t \in Seq(StepNames)
  BY <1>1, JoinedSteps DEF UnderWay
<1>. QED BY <1>1, <1>3, <1>4 DEF UnderWay, BetweenNames, Releasing

(* The try clause of a driver whose owner is retained.                         *)
RetainingTry(s) ==
  /\ s \in Seq(StepNames) /\ s # <<>> /\ RetainingOrder(s)
  /\ {"allocate", "running", "unconfirmed", "killGroup", "waitChild"} \subseteq Steps(s)
  /\ Steps(s) \cap Unwinding = {}

ReleaseOf == <<"unconfirmed", "path", "killGroup", "waitChild", "closeAll">>

LEMMA ReleaseJoined ==
  ASSUME NEW s, UnderWay(s), NEW t \in Seq(StepNames), RetainingOrder(t),
         Steps(t) \subseteq StepNames \ (Unwinding \cup {"allocate", "spawn", "running"}),
         {"unconfirmed", "killGroup", "waitChild"} \subseteq Steps(t)
  PROVE  RetainingTry(s \o t)
<1>1. RetainingOrder(s \o t)
  BY JoinedOrder DEF UnderWay
<1>2. Steps(s \o t) = Steps(s) \cup Steps(t) /\ s \o t \in Seq(StepNames)
  BY JoinedSteps DEF UnderWay
<1>3. Steps(<<>>) = {}
  BY DEF Steps
<1>. QED BY <1>1, <1>2, <1>3 DEF UnderWay, RetainingTry

LEMMA LaunchUnderWay == UnderWay(RetainingLaunch)
BY RetainingLaunchIs DEF UnderWay, Unwinding

LEMMA WedgedTryIs == RetainingTry(WedgedTry)
<1>. DEFINE last == <<"refusedRetirement", "unconfirmed", "path", "killGroup",
                      "waitChild", "closeAll">>
<1>1. last \in Seq(StepNames)
  BY DEF StepNames
<1>2. RetainingOrder(last)
  BY DEF RetainingOrder, Before, OnlyLast, Steps
<1>3. Steps(last) = {"refusedRetirement", "unconfirmed", "path", "killGroup", "waitChild",
                     "closeAll"}
  BY DEF Steps
<1>4. WedgedTry = RetainingLaunch \o last
  BY DEF WedgedTry
<1>. HIDE DEF last
<1>. QED BY <1>1, <1>2, <1>3, <1>4, LaunchUnderWay, ReleaseJoined DEF StepNames, Unwinding

LEMMA LossTryIs ==
  ASSUME NEW scenario
  PROVE  RetainingTry(LossTry(scenario))
<1>. DEFINE first == <<"request", "send">>
            acked == IF scenario = "after_running" THEN <<>> ELSE <<"ack">>
            lost == LossRecovery(scenario)
            last == <<"unconfirmed", "path", "killGroup", "waitChild", "closeAll">>
<1>1. first \in Seq(BetweenNames) /\ acked \in Seq(BetweenNames)
  <2>1. first \in Seq(BetweenNames) /\ <<>> \in Seq(BetweenNames) /\ <<"ack">> \in Seq(BetweenNames)
    BY DEF BetweenNames, StepNames, Unwinding, Releasing
  <2>. QED BY <2>1
<1>2. lost \in Seq(BetweenNames)
  <2>1. /\ <<"exit86", "retire", "confirm", "replay">> \in Seq(BetweenNames)
        /\ <<"successor", "activate">> \in Seq(BetweenNames) /\ <<>> \in Seq(BetweenNames)
    BY DEF BetweenNames, StepNames, Unwinding, Releasing
  <2>. QED BY <2>1 DEF LossRecovery
<1>3. last \in Seq(StepNames)
  BY DEF StepNames
<1>4. RetainingOrder(last)
  BY DEF RetainingOrder, Before, OnlyLast, Steps
<1>5. Steps(last) = {"unconfirmed", "path", "killGroup", "waitChild", "closeAll"}
  BY DEF Steps
<1>6. LossTry(scenario) = (((RetainingLaunch \o first) \o acked) \o lost) \o last
  BY DEF LossTry
<1>. HIDE DEF first, acked, lost, last
<1>7. UnderWay(RetainingLaunch \o first)
  BY <1>1, LaunchUnderWay, BetweenJoined
<1>8. UnderWay((RetainingLaunch \o first) \o acked)
  BY <1>1, <1>7, BetweenJoined
<1>9. UnderWay(((RetainingLaunch \o first) \o acked) \o lost)
  BY <1>2, <1>8, BetweenJoined
<1>. QED BY <1>3, <1>4, <1>5, <1>6, <1>9, ReleaseJoined DEF StepNames, Unwinding

(* The try clause of every other driver neither reserves a slot nor releases.  *)
PlainNames == StepNames \ (Unwinding \cup Releasing)
PlainTry(s) == s \in Seq(PlainNames) /\ s # <<>>

LEMMA PlainJoined ==
  ASSUME NEW s, PlainTry(s), NEW t \in Seq(PlainNames)
  PROVE  PlainTry(s \o t)
<1>1. s \o t \in Seq(PlainNames) /\ Steps(s \o t) = Steps(s) \cup Steps(t)
  BY JoinedSteps DEF PlainTry
<1>2. Head(s) \in Steps(s) /\ Steps(<<>>) = {}
  BY DEF PlainTry, Steps
<1>. QED BY <1>1, <1>2 DEF PlainTry

LEMMA PlainTryIs ==
  ASSUME NEW s, s \notin Retaining
  PROVE  PlainTry(Try(s))
<1>. USE DEF PlainNames, StepNames, Unwinding, Releasing
<1>1. PlainTry(Launch) /\ Handshake \in Seq(PlainNames) /\ RequestsCleanup \in Seq(PlainNames)
  BY DEF PlainTry, Launch, Handshake, RequestsCleanup
<1>. HIDE DEF PlainNames
<1>2. PlainTry(Launch \o Handshake)
  BY <1>1, PlainJoined
<1>3. PlainTry(ControlRejectionTry) /\ PlainTry(ConfigRejectionTry)
  <2>1. /\ <<"frame1", "refuse", "exit75", "unconfirmed", "path">> \in Seq(PlainNames)
        /\ <<"frame1", "refuse", "exitAny">> \in Seq(PlainNames)
    BY DEF PlainNames
  <2>. QED BY <1>1, <2>1, PlainJoined DEF ControlRejectionTry, ConfigRejectionTry
<1>4. PlainTry(BindingRejectionTry)
  <2>1. <<"known", "request", "refuse", "exit75", "unconfirmed", "teardown", "path">>
          \in Seq(PlainNames)
    BY DEF PlainNames
  <2>. QED BY <1>2, <2>1, PlainJoined DEF BindingRejectionTry
<1>5. PlainTry(IdentityRejectionTry(s))
  <2>1. /\ <<"identity", "anchor", "armed", "known">> \in Seq(PlainNames)
        /\ <<"running", "request", "send", "ack">> \in Seq(PlainNames)
        /\ <<"exit75", "unconfirmed", "teardown", "path">> \in Seq(PlainNames)
        /\ <<>> \in Seq(PlainNames)
    BY DEF PlainNames
  <2>2. PlainTry(Launch \o <<"identity", "anchor", "armed", "known">>)
    BY <1>1, <2>1, PlainJoined
  <2>3. PlainTry(Launch \o <<"identity", "anchor", "armed", "known">> \o
                   (IF s = "altered_executable_identity" THEN <<>>
                    ELSE <<"running", "request", "send", "ack">>))
    BY <2>1, <2>2, PlainJoined
  <2>. QED BY <2>1, <2>3, PlainJoined DEF IdentityRejectionTry
<1>6. PlainTry(FallbackTry(s))
  <2>1. /\ <<"identity", "anchor", "frame3", "refuse", "exitAny", "noAnchor">> \in Seq(PlainNames)
        /\ <<"known", "kill", "unconfirmed", "retain">> \in Seq(PlainNames)
        /\ <<"known", "kill", "selfTerm", "termed", "retain">> \in Seq(PlainNames)
    BY DEF PlainNames
  <2>. QED BY <1>1, <1>2, <2>1, PlainJoined DEF FallbackTry
<1>7. PlainTry(FailDeadTry(s))
  <2>1. /\ <<"identity">> \in Seq(PlainNames) /\ <<>> \in Seq(PlainNames)
        /\ <<"identity", "anchor", "known", "frame3">> \in Seq(PlainNames)
        /\ <<"closeControl", "exit75", "noAnchor", "unconfirmed", "path">> \in Seq(PlainNames)
    BY DEF PlainNames
  <2>2. PlainTry(Launch \o (CASE s = "supervisor_before_identity" -> <<>>
                              [] s = "anchor_before_identity" -> <<"identity">>
                              [] OTHER -> <<"identity", "anchor", "known", "frame3">>))
    BY <1>1, <2>1, PlainJoined
  <2>. QED BY <2>1, <2>2, PlainJoined DEF FailDeadTry
<1>8. PlainTry(CleanupTry) /\ PlainTry(BootstrapTry)
  BY <1>1, <1>2, PlainJoined DEF CleanupTry, BootstrapTry
<1>. QED BY <1>3, <1>4, <1>5, <1>6, <1>7, <1>8 DEF Try, Retaining

(* Every try clause.                                                           *)
LEMMA TryIs ==
  ASSUME NEW s
  PROVE  /\ Try(s) \in Seq(StepNames) /\ Try(s) # <<>>
         /\ Steps(Try(s)) \cap Unwinding = {}
         /\ s \in Retaining => RetainingTry(Try(s))
         /\ s \notin Retaining => Steps(Try(s)) \cap Releasing = {}
<1>1. s \in Retaining => RetainingTry(Try(s))
  <2>1. s = "wedged_supervisor" => Try(s) = WedgedTry
    BY DEF Try, Retaining, Falling, Cleaning, Bootstrapping
  <2>2. s \in Retaining \ {"wedged_supervisor"} => Try(s) = LossTry(s)
    BY DEF Try, Retaining, Falling, Cleaning, Bootstrapping
  <2>. QED BY <2>1, <2>2, WedgedTryIs, LossTryIs DEF Retaining
<1>2. s \notin Retaining => PlainTry(Try(s))
  BY PlainTryIs
<1>3. ASSUME PlainTry(Try(s))
      PROVE  Try(s) \in Seq(StepNames) /\ Steps(Try(s)) \subseteq PlainNames
  BY <1>3, NamesOf DEF PlainTry, PlainNames
<1>. QED BY <1>1, <1>2, <1>3 DEF RetainingTry, PlainTry, PlainNames

(* Every finally clause: the steps it has, those that it is relied on to have, *)
(* and their order.                                                            *)
FinallyPromise(s) ==
  IF s \in Retaining THEN {"waitUnknown"}
  ELSE IF s \in Cleaning THEN {"waitOrKeep"}
  ELSE IF s \in Bootstrapping THEN {} ELSE {"kill"}

LEMMA RejectionFinallyIs ==
  ASSUME NEW s
  PROVE  LET f == RejectionFinally(s)
         IN  /\ f \in Seq(StepNames) /\ f # <<>> /\ FinallyOrder(f) /\ "kill" \in Steps(f)
             /\ Steps(f) \subseteq {"closeControl", "kill", "teardownKnown", "closeRest",
                                    "path", "remove"}
<1>. DEFINE first == <<"closeControl", "kill">>
            torn == IF s \in {"cleanup_request_binding", "altered_executable_identity", "reused_pid"}
                    THEN <<"teardownKnown">> ELSE <<>>
            rest == <<"closeRest">>
            last == IF s = "identity_ack_missing_config" THEN <<"remove">> ELSE <<"path">>
            front == first \o torn
            most == front \o rest
            f == most \o last
<1>1. f = RejectionFinally(s)
  BY DEF RejectionFinally
<1>2. /\ first \in Seq(StepNames) /\ rest \in Seq(StepNames)
      /\ torn \in Seq(StepNames) /\ last \in Seq(StepNames)
  <2>1. /\ <<"teardownKnown">> \in Seq(StepNames) /\ <<>> \in Seq(StepNames)
        /\ <<"remove">> \in Seq(StepNames) /\ <<"path">> \in Seq(StepNames)
        /\ first \in Seq(StepNames) /\ rest \in Seq(StepNames)
    BY DEF StepNames
  <2>. QED BY <2>1
<1>3. /\ Steps(first) = {"closeControl", "kill"} /\ Steps(torn) \subseteq {"teardownKnown"}
      /\ Steps(rest) = {"closeRest"} /\ Steps(last) \subseteq {"remove", "path"}
  BY DEF Steps
<1>. HIDE DEF first, torn, rest, last
<1>4. ASSUME NEW x, NEW a, NEW b, a \notin Steps(x) \/ b \notin Steps(x)
      PROVE  Before(x, a, b)
  BY <1>4 DEF Before, Steps
<1>5. front \in Seq(StepNames) /\ Steps(front) = Steps(first) \cup Steps(torn)
  BY <1>2, JoinedSteps
<1>. HIDE DEF front
<1>6. /\ most \in Seq(StepNames) /\ Steps(most) = Steps(front) \cup Steps(rest)
      /\ Once(most, "closeRest") /\ Before(most, "kill", "teardownKnown")
  <2>1. most \in Seq(StepNames) /\ Steps(most) = Steps(front) \cup Steps(rest)
    BY <1>2, <1>5, JoinedSteps
  <2>2. Before(front, "kill", "teardownKnown")
    BY <1>2, <1>3, <1>4, JoinedBefore DEF front
  <2>3. Before(most, "kill", "teardownKnown")
    BY <1>2, <1>3, <1>5, <1>4, <2>2, JoinedBefore
  <2>4. ASSUME NEW x \in Seq(StepNames), NEW a, a \notin Steps(x)
        PROVE  Once(x \o <<a>>, a)
    <3>. SUFFICES ASSUME NEW i \in DOMAIN (x \o <<a>>), (x \o <<a>>)[i] = a
                  PROVE  i = Len(x) + 1
      BY DEF Once
    <3>1. i <= Len(x) => i \in DOMAIN x /\ x[i] = a
      OBVIOUS
    <3>. QED BY <2>4, <3>1 DEF Steps
  <2>5. "closeRest" \notin Steps(front)
    BY <1>3, <1>5
  <2>6. Once(most, "closeRest")
    BY <1>5, <2>4, <2>5 DEF rest
  <2>. QED BY <2>1, <2>3, <2>6
<1>. HIDE DEF most
<1>7. f \in Seq(StepNames) /\ Steps(f) = Steps(most) \cup Steps(last)
  BY <1>2, <1>6, JoinedSteps
<1>8. /\ "kill" \in Steps(f)
       /\ Steps(f) \subseteq {"closeControl", "kill", "teardownKnown", "closeRest", "path", "remove"}
  BY <1>3, <1>5, <1>6, <1>7
<1>9. Before(f, "kill", "teardownKnown")
  BY <1>2, <1>3, <1>6, <1>4, JoinedBefore
<1>10. Once(f, "closeRest")
  <2>1. ASSUME NEW x \in Seq(StepNames), NEW y \in Seq(StepNames), NEW a,
               Once(x, a), a \notin Steps(y)
        PROVE  Once(x \o y, a)
    <3>. SUFFICES ASSUME NEW i \in DOMAIN (x \o y), NEW j \in DOMAIN (x \o y),
                         (x \o y)[i] = a, (x \o y)[j] = a
                  PROVE  i = j
      BY DEF Once
    <3>1. ASSUME NEW k \in DOMAIN (x \o y), (x \o y)[k] = a
          PROVE  k \in DOMAIN x /\ x[k] = a
      <4>1. k > Len(x) => k - Len(x) \in DOMAIN y /\ y[k - Len(x)] = a
        BY <3>1
      <4>2. k <= Len(x)
        BY <2>1, <4>1 DEF Steps
      <4>. QED BY <3>1, <4>2
    <3>. QED BY <2>1, <3>1 DEF Once
  <2>. QED BY <1>2, <1>3, <1>6, <2>1
<1>11. f # <<>>
  <2>1. Steps(<<>>) = {}
    BY DEF Steps
  <2>. QED BY <1>8, <2>1
<1>12. Before(f, "kill", "teardownRetained")
  BY <1>4, <1>8
<1>. QED BY <1>1, <1>7, <1>9, <1>10, <1>11, <1>8, <1>12 DEF FinallyOrder

LEMMA FinallyIs ==
  ASSUME NEW s
  PROVE  /\ Finally(s) \in Seq(StepNames) /\ Finally(s) # <<>> /\ FinallyOrder(Finally(s))
         /\ Steps(Finally(s)) \subseteq FinallySteps(s)
         /\ FinallyPromise(s) \subseteq Steps(Finally(s))
<1>. USE DEF Steps, Before, Once, FinallyOrder, StepNames
<1>1. /\ RetainingFinally \in Seq(StepNames) /\ FallbackFinally \in Seq(StepNames)
      /\ CleanupFinally \in Seq(StepNames) /\ BootstrapFinally \in Seq(StepNames)
  BY DEF RetainingFinally, FallbackFinally, CleanupFinally, BootstrapFinally
<1>2. /\ RetainingFinally # <<>> /\ FallbackFinally # <<>>
      /\ CleanupFinally # <<>> /\ BootstrapFinally # <<>>
  BY DEF RetainingFinally, FallbackFinally, CleanupFinally, BootstrapFinally
<1>3. FinallyOrder(RetainingFinally) /\ FinallyOrder(FallbackFinally)
  BY DEF RetainingFinally, FallbackFinally
<1>4. FinallyOrder(CleanupFinally) /\ FinallyOrder(BootstrapFinally)
  BY DEF CleanupFinally, BootstrapFinally
<1>5. /\ Steps(RetainingFinally) = {"cancel", "closeControl", "waitUnknown", "closeRest", "path"}
      /\ Steps(FallbackFinally) = {"closeControl", "kill", "teardownRetained", "closeRest", "path"}
      /\ Steps(CleanupFinally) = {"closeControl", "waitOrKeep", "closeRest", "remove"}
      /\ Steps(BootstrapFinally) = {"closeControl", "closeRest", "remove"}
  BY DEF RetainingFinally, FallbackFinally, CleanupFinally, BootstrapFinally
<1>. HIDE DEF Steps, Before, Once, FinallyOrder, StepNames
<1>. USE DEF Retaining, Falling, Cleaning, Bootstrapping
<1>6. CASE s \in Retaining
  <2>1. Finally(s) = RetainingFinally
    BY <1>6 DEF Finally
  <2>. QED BY <1>1, <1>2, <1>3, <1>5, <1>6, <2>1 DEF FinallySteps, FinallyPromise
<1>7. CASE s \in Falling
  <2>1. Finally(s) = FallbackFinally
    BY <1>7 DEF Finally
  <2>. QED BY <1>1, <1>2, <1>3, <1>5, <1>7, <2>1 DEF FinallySteps, FinallyPromise
<1>8. CASE s \in Cleaning
  <2>1. Finally(s) = CleanupFinally
    BY <1>8 DEF Finally
  <2>. QED BY <1>1, <1>2, <1>4, <1>5, <1>8, <2>1 DEF FinallySteps, FinallyPromise
<1>9. CASE s \in Bootstrapping
  <2>1. Finally(s) = BootstrapFinally
    BY <1>9 DEF Finally
  <2>. QED BY <1>1, <1>2, <1>4, <1>5, <1>9, <2>1 DEF FinallySteps, FinallyPromise
<1>10. CASE s \notin Retaining \cup Falling \cup Cleaning \cup Bootstrapping
  <2>1. Finally(s) = RejectionFinally(s)
    BY <1>10 DEF Finally
  <2>. QED BY <1>10, <2>1, RejectionFinallyIs DEF FinallySteps, FinallyPromise
<1>. QED BY <1>6, <1>7, <1>8, <1>9, <1>10

-----------------------------------------------------------------------------
(* A step of the driver, of which h is the first that it had left, leads to    *)
(* the next one of the clause, or into the clause that follows.                *)
Moved(h) ==
  /\ run'.scenario = run.scenario
  /\ run.clause \in {"try", "except", "finally"}
  /\ run'.clause \in {"try", "except", "finally", "ended"}
  /\ run'.clause \in {"try", "except"} => run'.clause = run.clause
  /\ run'.clause = run.clause =>
       /\ Steps(run.left) = {h} \cup Steps(run'.left)
       /\ Once(run.left, h) => h \notin Steps(run'.left)
  /\ run'.clause = "finally" /\ run.clause # "finally" =>
       FinallyPromise(run.scenario) \subseteq Steps(run'.left)
  /\ run'.clause = "ended" => run.clause = "finally" /\ Steps(run.left) = {h}

LEMMA RetainingTail ==
  ASSUME NEW s \in Seq(StepNames), s # <<>>, RetainingOrder(s), Completed(s)
  PROVE  RetainingOrder(Tail(s)) /\ Completed(Tail(s))
<1>. USE TailBefore DEF RetainingOrder
<1>1. Before(Tail(s), "allocate", "transfer")
  OBVIOUS
<1>2. /\ Before(Tail(s), "allocate", "unconfirmed")
      /\ Head(s) = "unconfirmed" => "allocate" \notin Steps(s)
  OBVIOUS
<1>3. /\ Before(Tail(s), "allocate", "killGroup")
      /\ Head(s) = "killGroup" => "allocate" \notin Steps(s)
  OBVIOUS
<1>4. Before(Tail(s), "allocate", "closeAll")
  OBVIOUS
<1>5. /\ Before(Tail(s), "spawn", "waitChild")
      /\ Head(s) = "waitChild" => "spawn" \notin Steps(s)
  OBVIOUS
<1>6. Before(Tail(s), "running", "killGroup")
  OBVIOUS
<1>7. Before(Tail(s), "unconfirmed", "closeAll")
  OBVIOUS
<1>8. Before(Tail(s), "killGroup", "closeAll")
  OBVIOUS
<1>9. Before(Tail(s), "waitChild", "closeAll")
  OBVIOUS
<1>10. OnlyLast(Tail(s), "closeAll")
  BY TailOnlyLast
<1>. HIDE TailBefore
<1>11. Steps(s) = {Head(s)} \cup Steps(Tail(s))
  BY TailSteps
<1>12. Completed(Tail(s))
  BY <1>2, <1>3, <1>5, <1>11 DEF Completed
<1>. QED BY <1>1, <1>2, <1>3, <1>4, <1>5, <1>6, <1>7, <1>8, <1>9, <1>10, <1>11, <1>12

LEMMA FinallyTail ==
  ASSUME NEW s \in Seq(StepNames), s # <<>>, FinallyOrder(s)
  PROVE  FinallyOrder(Tail(s))
<1>1. Before(Tail(s), "kill", "teardownKnown")
  BY TailBefore DEF FinallyOrder
<1>2. Before(Tail(s), "kill", "teardownRetained")
  BY TailBefore DEF FinallyOrder
<1>3. Once(Tail(s), "closeRest")
  BY TailOnce DEF FinallyOrder
<1>. QED BY <1>1, <1>2, <1>3 DEF FinallyOrder

(* Entering the finally clause, or the end after it. *)
LEMMA FollowingMoves ==
  ASSUME Typed, Program, run.left # <<>>, NEW h, run' \in RunType,
         run'.scenario = run.scenario, run'.clause = Following.clause,
         run'.left = Following.left,
         run.clause = "finally" => Steps(run.left) = {h}
  PROVE  Moved(h) /\ Program'
<1>1. /\ run.scenario \in Drivers /\ DOMAIN run = {"scenario", "clause", "left", "known", "retained"}
      /\ run.clause \in {"try", "except", "finally"}
  BY DEF Typed, RunType, Program
<1>2. CASE run.clause = "finally"
  <2>1. run'.clause = "ended" /\ run'.left = <<>>
    BY <1>1, <1>2 DEF Following, Enters, Typed, RunType
  <2>. QED BY <1>1, <1>2, <2>1 DEF Moved, Program
<1>3. CASE run.clause # "finally"
  <2>1. run'.clause = "finally" /\ run'.left = Finally(run.scenario)
    BY <1>1, <1>3 DEF Following, Enters, Typed, RunType
  <2>2. /\ run'.left # <<>> /\ FinallyOrder(run'.left)
        /\ Steps(run'.left) \subseteq FinallySteps(run.scenario)
        /\ FinallyPromise(run.scenario) \subseteq Steps(run'.left)
    BY <2>1, FinallyIs
  <2>3. Program'
    BY <2>1, <2>2 DEF Program
  <2>. QED BY <1>1, <1>3, <2>1, <2>2, <2>3 DEF Moved
<1>. QED BY <1>2, <1>3

LEMMA AdvancedMoves ==
  ASSUME Typed, Program, NEW h, run.left # <<>>, Head(run.left) = h,
         run' \in RunType, run'.scenario = run.scenario,
         run'.clause = Advanced.clause, run'.left = Advanced.left
  PROVE  Moved(h) /\ Program'
<1>1. run.left \in Seq(StepNames) /\ run.clause \in {"try", "except", "finally"}
  BY DEF Typed, RunType, Program
<1>2. /\ Steps(run.left) = {h} \cup Steps(Tail(run.left))
      /\ Len(run.left) = 1 => Steps(run.left) = {h}
      /\ Len(run.left) # 1 => Tail(run.left) # <<>>
  BY <1>1, TailSteps
<1>3. CASE Len(run.left) = 1
  BY <1>2, <1>3, FollowingMoves DEF Advanced
<1>4. CASE Len(run.left) # 1
  <2>1. run'.clause = run.clause /\ run'.left = Tail(run.left)
    BY <1>4 DEF Advanced, Typed, RunType
  <2>2. run'.left # <<>>
    BY <1>2, <1>4, <2>1
  <2>3. run.clause = "try" =>
          /\ Steps(run'.left) \cap Unwinding = {}
          /\ IF Retains' THEN RetainingOrder(run'.left) /\ Completed(run'.left)
             ELSE Steps(run'.left) \cap Releasing = {}
    BY <1>1, <1>2, <2>1, RetainingTail DEF Program, Retains
  <2>4. run.clause = "except" => Retains' /\ run'.left \in {RetainingExcept, <<"path">>}
    <3>1. RetainingExcept = <<"reconcile", "path">>
      BY DEF RetainingExcept
    <3>2. run.left = RetainingExcept => Tail(run.left) = <<"path">>
      BY <3>1
    <3>3. run.left # <<"path">>
      <4>1. Len(<<"path">>) = 1
        OBVIOUS
      <4>. QED BY <1>4, <4>1, Zenon
    <3>. QED BY <2>1, <3>2, <3>3 DEF Program, Retains
  <2>5. run.clause = "finally" =>
          Steps(run'.left) \subseteq FinallySteps(run'.scenario) /\ FinallyOrder(run'.left)
    BY <1>1, <1>2, <2>1, FinallyTail DEF Program
  <2>6. Program'
    BY <1>1, <2>1, <2>2, <2>3, <2>4, <2>5 DEF Program
  <2>7. Once(run.left, h) => h \notin Steps(run'.left)
    BY <1>1, <2>1, TailOnce
  <2>. QED BY <1>1, <1>2, <2>1, <2>6, <2>7 DEF Moved
<1>. QED BY <1>3, <1>4

LEMMA Proceeding ==
  ASSUME Typed, Program, NEW h, At(h),
         run' \in {Advanced, [Advanced EXCEPT !.known = TRUE], [Advanced EXCEPT !.retained = TRUE]}
  PROVE  /\ run' \in RunType /\ Moved(h) /\ Program'
         /\ run' \in {Advanced, [Advanced EXCEPT !.retained = TRUE]} => run'.known = run.known
<1>1. Advanced \in RunType /\ Advanced.scenario = run.scenario /\ Advanced.known = run.known
  <2>1. run \in RunType
    BY DEF Typed, RunType
  <2>2. Finally(run.scenario) \in Seq(StepNames)
    BY FinallyIs
  <2>3. Following \in RunType /\ Following.scenario = run.scenario /\ Following.known = run.known
    <3>1. ASSUME NEW clause \in {"finally", "ended"}, NEW steps \in Seq(StepNames)
          PROVE  /\ Enters(clause, steps) \in RunType
                 /\ Enters(clause, steps).scenario = run.scenario
                 /\ Enters(clause, steps).known = run.known
      BY <2>1, <3>1 DEF Enters, RunType
    <3>2. <<>> \in Seq(StepNames)
      OBVIOUS
    <3>. QED BY <2>2, <3>1, <3>2 DEF Following
  <2>4. Tail(run.left) \in Seq(StepNames)
    BY <2>1, TailSteps DEF At, RunType
  <2>5. /\ [run EXCEPT !.left = Tail(@)] \in RunType
        /\ [run EXCEPT !.left = Tail(@)].scenario = run.scenario
        /\ [run EXCEPT !.left = Tail(@)].known = run.known
    BY <2>1, <2>4 DEF RunType
  <2>. QED BY <2>3, <2>5 DEF Advanced
<1>2. /\ run' \in RunType /\ run'.scenario = run.scenario
      /\ run'.clause = Advanced.clause /\ run'.left = Advanced.left
  BY <1>1 DEF RunType
<1>3. [Advanced EXCEPT !.retained = TRUE].known = run.known
  BY <1>1 DEF RunType
<1>4. Moved(h) /\ Program'
  BY <1>2, AdvancedMoves DEF At
<1>. QED BY <1>1, <1>2, <1>3, <1>4

(* A clause that is left by an exception. *)
LEMMA Failing ==
  ASSUME Typed, Program, run.left # <<>>, run.clause # "finally", run' = Following
  PROVE  /\ run' \in RunType /\ Moved(Head(run.left)) /\ Program'
         /\ run'.known = run.known /\ run'.clause = "finally"
<1>1. run \in RunType /\ Finally(run.scenario) \in Seq(StepNames)
  BY FinallyIs DEF Typed, RunType
<1>2. run' \in RunType /\ run'.scenario = run.scenario /\ run'.known = run.known
  BY <1>1 DEF Following, Enters, RunType
<1>3. run'.clause = "finally"
  BY <1>1 DEF Following, Enters, RunType
<1>. QED BY <1>2, <1>3, FollowingMoves

(* What is known of the world where the driver takes a step.                   *)
LEMMA WhereDriverIs ==
  ASSUME Inv, NEW h, At(h)
  PROVE  /\ run.clause \in {"try", "except", "finally"} /\ h \in Steps(run.left)
         /\ ~owner.certified /\ \A t \in Threads : pc[t] \in {"idle"}
         /\ owner.close = "CLOSED_PROVED" => entry = "released"
         /\ run.clause = "try" => h \notin Unwinding /\ (~Retains => h \notin Releasing)
         /\ run.clause = "except" => h \in {"reconcile", "path"}
         /\ run.clause = "finally" => h \in FinallySteps(run.scenario)
         /\ entry = "released" => run.clause = "finally" /\ Retains
<1>1. run.clause \in {"try", "except", "finally"} /\ run.left \in Seq(StepNames) /\ run.left # <<>>
  BY DEF Inv, Program, Typed, RunType, At
<1>2. h \in Steps(run.left)
  BY <1>1, TailSteps DEF At
<1>3. \A t \in Threads : pc[t] \in {"idle"}
  <2>. SUFFICES ASSUME NEW t \in Threads
                PROVE  pc[t] = "idle"
    OBVIOUS
  <2>1. CASE t \in Releasers
    BY <1>1, <2>1 DEF Inv, Locked
  <2>2. CASE t = "driver"
    BY <2>2 DEF At
  <2>. QED BY <2>1, <2>2 DEF Threads
<1>4. run.clause = "except" => h \in {"reconcile", "path"}
  BY DEF Inv, Program, At, RetainingExcept
<1>. QED BY <1>1, <1>2, <1>3, <1>4 DEF Inv, Program, Slot, LocallyOwned, Typed, TypedWorld, OwnerType

(* The order of a retaining try: a step finds done what it relies on.          *)
LEMMA WhereRetainingIs ==
  ASSUME Inv, NEW h, At(h), run.clause = "try", Retains
  PROVE  /\ h = "allocate" => Ahead("unconfirmed") /\ Ahead("killGroup")
         /\ h = "spawn" => Ahead("waitChild")
         /\ h \in {"transfer", "killGroup", "closeAll"} => ~Ahead("allocate")
         /\ h = "killGroup" => ~Ahead("running")
         /\ h = "closeAll" => /\ Len(run.left) = 1
                              /\ ~Ahead("unconfirmed") /\ ~Ahead("killGroup") /\ ~Ahead("waitChild")
         /\ h # "known"
<1>1. /\ run.left \in Seq(StepNames) /\ run.left # <<>> /\ Head(run.left) = h
      /\ RetainingOrder(run.left) /\ Completed(run.left) /\ h \in Steps(run.left)
  BY WhereDriverIs DEF Inv, Program, Typed, RunType, At
<1>2. h = "closeAll" => Len(run.left) = 1
  BY <1>1, TailOnlyLast DEF RetainingOrder
<1>3. \A a, b \in StepNames : Before(run.left, a, b) /\ h = b => ~Ahead(a)
  BY <1>1, TailBefore DEF Ahead
<1>4. /\ h = "transfer" => ~Ahead("allocate")
      /\ h = "killGroup" => ~Ahead("allocate") /\ ~Ahead("running")
      /\ h = "closeAll" => /\ ~Ahead("allocate") /\ ~Ahead("unconfirmed")
                           /\ ~Ahead("killGroup") /\ ~Ahead("waitChild")
  BY <1>1, <1>3 DEF RetainingOrder, StepNames
<1>. QED BY <1>1, <1>2, <1>4 DEF Completed, RetainingOrder, Ahead

(* What a step h of the driver may change, and what it has to achieve.         *)
KeepsSlot(h) ==
  /\ \/ entry' = entry
     \/ entry = "reserved" /\ entry' = "none"
     \/ entry = "reserved" /\ entry' = "owned" /\ h = "transfer"
  /\ entry = "released" => UNCHANGED <<child, group, journal, held>>
  /\ owner'.certified = owner.certified /\ owner'.close = owner.close
  /\ \/ pc' = pc
     \/ h = "reconcile" /\ run'.clause = "except" /\ pc' = [pc EXCEPT !["driver"] = "lock"]

KeepsHandles(h) ==
  IF h = "closeRest" /\ LocallyOwned
  THEN entry' = entry /\ held'.closes = held.closes + 1
  ELSE /\ held'.dir = held.dir /\ held'.closes = held.closes
       /\ held.journal = "open" => held'.journal = "open"

KeepsWorld(h) ==
  /\ h # "allocate" => /\ held.control # "open" => held'.control # "open"
                       /\ journal \in Terminal => journal' \in Terminal
  /\ wire'.frame = wire.frame /\ (group = "absent" => group' = "absent")
  /\ h # "spawn" => /\ child.state = "reaped" => child'.state = "reaped"
                    /\ ChildIsOver => ChildIsOver'
  /\ artifacts'.kept = artifacts.kept \/ h = "waitOrKeep"

Keeps(h) == KeepsSlot(h) /\ KeepsHandles(h) /\ KeepsWorld(h)

Achieves(h) ==
  /\ run'.clause = "try" =>
       /\ h = "allocate" => held'.journal = "open"
       /\ h = "running" => wire.frame = 4
       /\ h = "unconfirmed" => journal' \in Terminal
       /\ h = "killGroup" => group' = "absent" /\ held'.control # "open"
       /\ h = "waitChild" => child'.state = "reaped"
  /\ run.clause = "finally" =>
       /\ h = "waitUnknown" => ChildIsOver' \/ ~LocallyOwned'
       /\ h = "waitOrKeep" => ChildIsOver' \/ artifacts'.kept
       /\ h = "kill" => ChildIsOver'

LEMMA DriverKeeps ==
  ASSUME Inv, NEW h, At(h), Typed', Moved(h), Program',
         run'.known = run.known \/ h = "known" \/ entry' = "owned", Keeps(h), Achieves(h)
  PROVE  Inv'
<1>. USE WhereDriverIs
<1>1. Retains' = Retains
  BY DEF Moved, Retains
<1>2. h = "transfer" => run.clause = "try" /\ Retains
  BY DEF FinallySteps, Releasing
<1>3. h = "closeRest" => run.clause = "finally"
  BY DEF Unwinding
<1>4. Slot'
  <2>1. run'.known /\ Retains => run.known \/ entry' = "owned"
    BY WhereRetainingIs DEF FinallySteps
  <2>. QED BY <1>1, <1>2, <2>1 DEF Inv, Slot, Moved, Keeps, KeepsSlot, LocallyOwned
<1>5. Locked'
  <2>1. /\ \A t \in Releasers : pc'[t] \in {"idle"}
        /\ pc'["driver"] \in {"idle", "lock"}
        /\ pc'["driver"] = "lock" => run'.clause = "except"
    BY RetainedAssumption DEF Inv, Typed, TypedWorld, PcType, Keeps, KeepsSlot, Threads, At
  <2>2. \A t \in Threads : pc'[t] \in {"idle", "lock"}
    BY <2>1 DEF Threads
  <2>. QED BY <2>1, <2>2 DEF Locked, RecoveryStages, ReleaseStages
<1>6. Released'
  BY RetainedAssumption
  DEF Inv, Typed, TypedWorld, PcType, Released, Keeps, KeepsSlot, AllGone, NoneOpen, Threads
<1>7. ClosedOnce'
  <2>1. CASE h = "closeRest" /\ LocallyOwned
    <3>1. Once(run.left, h) /\ held.closes = 0
      BY <1>3, <2>1 DEF Inv, Program, FinallyOrder, ClosedOnce, Ahead
    <3>2. ~(run'.clause = "finally" /\ Ahead("closeRest")') /\ run'.clause \in {"finally", "ended"}
      BY <1>3, <2>1, <3>1 DEF Moved, Ahead
    <3>. QED BY <2>1, <3>1, <3>2 DEF ClosedOnce, Keeps, KeepsSlot, KeepsHandles, LocallyOwned
  <2>2. CASE ~(h = "closeRest" /\ LocallyOwned)
    <3>1. run'.clause = "finally" /\ LocallyOwned' /\ Ahead("closeRest")' => held.closes = 0
      <4>1. LocallyOwned' => LocallyOwned
        BY DEF Keeps, KeepsSlot, LocallyOwned
      <4>2. run.clause = "finally" => (Ahead("closeRest")' /\ run'.clause = "finally" => Ahead("closeRest"))
        BY DEF Moved, Ahead
      <4>3. run.clause \in {"try", "except"} => held.closes = 0
        BY DEF Inv, ClosedOnce
      <4>4. run.clause = "finally" /\ LocallyOwned /\ Ahead("closeRest") => held.closes = 0
        BY DEF Inv, ClosedOnce
      <4>. QED BY <4>1, <4>2, <4>3, <4>4
    <3>2. held'.closes = held.closes
      BY <2>2 DEF Keeps, KeepsHandles
    <3>3. run'.clause \in {"try", "except"} => held.closes = 0
      BY DEF Inv, ClosedOnce, Moved
    <3>4. entry' = "owned" /\ owner'.close = "OWNED" => held.closes = 0
      BY <1>2 DEF Inv, ClosedOnce, Keeps, KeepsSlot
    <3>. QED BY <3>1, <3>2, <3>3, <3>4 DEF Inv, ClosedOnce, Moved
  <2>. QED BY <2>1, <2>2
<1>8. Achieved'
  <2>. SUFFICES ASSUME run'.clause = "try"
                PROVE  /\ held'.dir = "open"
                       /\ Retains =>
                            /\ Ahead("allocate")' \/ held'.journal = "open"
                            /\ Ahead("running")' \/ wire'.frame = 4
                            /\ Ahead("unconfirmed")' \/ journal' \in Terminal
                            /\ \/ Ahead("killGroup")'
                               \/ group' = "absent" /\ wire'.frame = 4 /\ held'.control # "open"
                            /\ Ahead("waitChild")' \/ child'.state = "reaped"
    BY <1>1 DEF Achieved
  <2>1. run.clause = "try" /\ \A step : Ahead(step) /\ step # h => Ahead(step)'
    BY DEF Moved, Ahead
  <2>2. held'.dir = "open"
    BY <1>3, <2>1 DEF Inv, Achieved, Keeps, KeepsHandles
  <2>3. ASSUME Retains
        PROVE  /\ Ahead("allocate")' \/ held'.journal = "open"
               /\ Ahead("running")' \/ wire'.frame = 4
    BY <1>3, <2>1, <2>3 DEF Inv, Achieved, Keeps, KeepsHandles, KeepsWorld, Achieves
  <2>4. ASSUME Retains
        PROVE  Ahead("unconfirmed")' \/ journal' \in Terminal
    BY <2>1, <2>4, WhereRetainingIs DEF Inv, Achieved, Keeps, KeepsHandles, KeepsWorld, Achieves
  <2>5. ASSUME Retains
        PROVE  \/ Ahead("killGroup")'
               \/ group' = "absent" /\ wire'.frame = 4 /\ held'.control # "open"
    BY <2>1, <2>5, WhereRetainingIs DEF Inv, Achieved, Keeps, KeepsHandles, KeepsWorld, Achieves
  <2>6. ASSUME Retains
        PROVE  Ahead("waitChild")' \/ child'.state = "reaped"
    BY <2>1, <2>6, WhereRetainingIs DEF Inv, Achieved, Keeps, KeepsHandles, KeepsWorld, Achieves
  <2>. QED BY <2>2, <2>3, <2>4, <2>5, <2>6
<1>9. Cared'
  <2>1. run'.clause # "open"
    BY DEF Moved
  <2>2. CASE run'.clause = "finally" /\ run.clause # "finally"
    BY <1>1, <2>1, <2>2 DEF Cared, Moved, FinallyPromise, StillAhead, Ahead, Retains
  <2>3. CASE run.clause = "finally"
    <3>1. \A step : StillAhead(step) /\ step # h => StillAhead(step)'
      BY <2>3 DEF Moved, Ahead, StillAhead
    <3>2. h # "spawn"
      BY <2>3 DEF FinallySteps
    <3>3. ASSUME Retains
          PROVE  StillAhead("waitUnknown")' \/ ChildIsOver' \/ ~LocallyOwned'
      BY <2>3, <3>1, <3>2, <3>3 DEF Inv, Cared, Keeps, KeepsSlot, KeepsWorld, Achieves, LocallyOwned
    <3>4. ASSUME ~Retains, run.scenario \in Cleaning
          PROVE  StillAhead("waitOrKeep")' \/ ChildIsOver' \/ artifacts'.kept
      BY <2>3, <3>1, <3>2, <3>4 DEF Inv, Cared, Keeps, KeepsWorld, Achieves
    <3>5. ASSUME ~Retains, run.scenario \notin Cleaning \cup Bootstrapping
          PROVE  StillAhead("kill")' \/ ChildIsOver'
      BY <2>3, <3>1, <3>2, <3>5 DEF Inv, Cared, Keeps, KeepsWorld, Achieves
    <3>. QED BY <1>1, <2>1, <3>3, <3>4, <3>5 DEF Cared, Moved
  <2>4. CASE run'.clause \in {"try", "except"}
    BY <2>4 DEF Cared
  <2>. QED BY <2>1, <2>2, <2>3, <2>4 DEF Moved
<1>10. OwnerKeepsItsHandles'
  <2>1. h = "transfer" => held.journal = "open" /\ held.dir = "open"
    BY <1>2, WhereRetainingIs DEF Inv, Achieved
  <2>. QED BY <2>1 DEF Inv, OwnerKeepsItsHandles, Keeps, KeepsSlot, KeepsHandles, LocallyOwned
<1>. QED BY <1>4, <1>5, <1>6, <1>7, <1>8, <1>9, <1>10 DEF Inv

LEMMA PlainStep ==
  ASSUME Inv, NEW h, At(h), Proceeds, TypedWorld', Keeps(h), Achieves(h)
  PROVE  Inv'
<1>1. Typed /\ Program
  BY DEF Inv
<1>2. run' \in RunType /\ Moved(h) /\ Program' /\ run'.known = run.known
  BY <1>1, Proceeding DEF Proceeds
<1>. QED BY <1>2, DriverKeeps DEF Typed

-----------------------------------------------------------------------------
(* The steps that take a driver forward.                                       *)
LEMMA AllocatesKeeps ==
  ASSUME Inv, Allocates
  PROVE  Inv'
<1>1. At("allocate") /\ Proceeds /\ entry # "released"
  BY WhereDriverIs DEF Allocates, FinallySteps
<1>2. TypedWorld'
  BY DEF Inv, Typed, TypedWorld, HeldType, Handle, Allocates, NoThread, world, Handle
<1>3. Keeps("allocate") /\ Achieves("allocate")
  BY <1>1 DEF Inv, Typed, TypedWorld, HeldType, Handle, Allocates, NoThread, world, Keeps, KeepsSlot, KeepsHandles, KeepsWorld, Achieves, ChildIsOver
<1>. QED BY <1>1, <1>2, <1>3, PlainStep

LEMMA SpawnsKeeps ==
  ASSUME Inv, Spawns
  PROVE  Inv'
<1>1. At("spawn") /\ Proceeds /\ entry # "released"
  BY WhereDriverIs DEF Spawns, FinallySteps
<1>2. TypedWorld'
  BY DEF Inv, Typed, TypedWorld, ChildType, HeldType, Handle, Spawns, NoThread, Handle
<1>3. Keeps("spawn") /\ Achieves("spawn")
  BY <1>1 DEF Inv, Typed, TypedWorld, ChildType, HeldType, Handle, Spawns, NoThread, Keeps, KeepsSlot, KeepsHandles, KeepsWorld, Achieves
<1>. QED BY <1>1, <1>2, <1>3, PlainStep

LEMMA ReceivesFrameKeeps ==
  ASSUME Inv, ReceivesFrame
  PROVE  Inv'
<1>1. PICK h \in {"identity", "anchor", "armed", "running", "frame1", "frame3"} :
        /\ At(h) /\ wire.frame >= Frame(h)
        /\ wire' = IF h \in {"identity", "anchor", "armed"}
                   THEN [wire EXCEPT !.acked = Frame(h)] ELSE wire
  BY DEF ReceivesFrame
<1>2. Frame(h) \in 1..4 /\ (h = "running" => Frame(h) = 4)
  BY DEF Frame
<1>3. TypedWorld'
  BY <1>1, <1>2 DEF Inv, Typed, TypedWorld, WireType, ReceivesFrame, NoThread
<1>4. Keeps(h) /\ Achieves(h)
  BY <1>1, <1>2 DEF Inv, Typed, TypedWorld, WireType, ReceivesFrame, NoThread, Keeps, KeepsSlot, KeepsHandles, KeepsWorld, Achieves, ChildIsOver
<1>. QED BY <1>1, <1>3, <1>4, PlainStep DEF ReceivesFrame

LEMMA RequestsKeeps ==
  ASSUME Inv, Requests
  PROVE  Inv'
<1>1. TypedWorld' /\ Keeps("request") /\ Achieves("request")
  BY DEF Inv, Typed, TypedWorld, OwnerType, Requests, NoThread, world, Keeps, KeepsSlot, KeepsHandles, KeepsWorld, Achieves, ChildIsOver
<1>. QED BY <1>1, PlainStep DEF Requests

LEMMA SendsKeeps ==
  ASSUME Inv, Sends
  PROVE  Inv'
<1>1. PICK h \in {"send", "refuse"} :
        /\ At(h)
        /\ wire' \in {[wire EXCEPT !.delivered = TRUE], [wire EXCEPT !.refused = TRUE]}
  BY DEF Sends
<1>2. TypedWorld'
  BY <1>1 DEF Inv, Typed, TypedWorld, WireType, Sends, NoThread
<1>3. Keeps(h) /\ Achieves(h)
  BY <1>1 DEF Inv, Typed, TypedWorld, WireType, Sends, NoThread, Keeps, KeepsSlot, KeepsHandles, KeepsWorld, Achieves, ChildIsOver
<1>. QED BY <1>1, <1>2, <1>3, PlainStep DEF Sends

LEMMA ReceivesAckKeeps ==
  ASSUME Inv, ReceivesAck
  PROVE  Inv'
<1>1. TypedWorld' /\ Keeps("ack") /\ Achieves("ack")
  BY DEF Inv, Typed, TypedWorld, ReceivesAck, NoThread, world, Keeps, KeepsSlot, KeepsHandles, KeepsWorld, Achieves, ChildIsOver
<1>. QED BY <1>1, PlainStep DEF ReceivesAck

LEMMA ObservesKeeps ==
  ASSUME Inv, Observes
  PROVE  Inv'
<1>1. PICK h \in {"exit86", "exit0", "noAnchor", "termed", "result", "refusedRetirement"} : At(h)
  BY DEF Observes
<1>2. TypedWorld' /\ Keeps(h) /\ Achieves(h)
  BY <1>1 DEF Inv, Typed, TypedWorld, Observes, NoThread, world, Keeps, KeepsSlot, KeepsHandles, KeepsWorld, Achieves, ChildIsOver
<1>. QED BY <1>1, <1>2, PlainStep DEF Observes

LEMMA WaitsForChildKeeps ==
  ASSUME Inv, WaitsForChild
  PROVE  Inv'
<1>1. PICK h \in {"exit75", "exitAny"} : At(h)
  BY DEF WaitsForChild
<1>2. entry # "released"
  BY <1>1, WhereDriverIs DEF FinallySteps
<1>3. TypedWorld' /\ Keeps(h) /\ Achieves(h)
  BY <1>1, <1>2
  DEF Inv, Typed, TypedWorld, ChildType, WaitsForChild, NoThread, Keeps, KeepsSlot, KeepsHandles, KeepsWorld, Achieves, ChildIsOver
<1>. QED BY <1>1, <1>3, PlainStep DEF WaitsForChild

LEMMA AsksAnchorKeeps ==
  ASSUME Inv, AsksAnchor
  PROVE  Inv'
<1>1. TypedWorld' /\ Keeps("selfTerm") /\ Achieves("selfTerm")
  BY DEF Inv, Typed, TypedWorld, WireType, AsksAnchor, NoThread, Keeps, KeepsSlot, KeepsHandles, KeepsWorld, Achieves, ChildIsOver
<1>. QED BY <1>1, PlainStep DEF AsksAnchor

(* A terminal journal stays terminal.                                          *)
LEMMA AdvancesJournalKeeps ==
  ASSUME Inv, AdvancesJournal
  PROVE  Inv'
<1>1. PICK h \in {"retire", "replay", "successor", "activate", "unconfirmed"} :
        /\ At(h) /\ (journal \in Terminal => journal' \in Terminal)
        /\ h = "unconfirmed" => journal' \in Terminal
  BY DEF AdvancesJournal, Retires, Replayed, Marks, MayMark, Terminal
<1>2. entry # "released"
  BY <1>1, WhereDriverIs DEF FinallySteps
<1>3. TypedWorld' /\ Keeps(h) /\ Achieves(h)
  BY <1>1, <1>2
  DEF Inv, Typed, TypedWorld, AdvancesJournal, NoThread, world, Keeps, KeepsSlot, KeepsHandles, KeepsWorld, Achieves, ChildIsOver
<1>. QED BY <1>1, <1>3, PlainStep DEF AdvancesJournal

LEMMA ReapsThroughJournalKeeps ==
  ASSUME Inv, ReapsThroughJournal
  PROVE  Inv'
<1>1. PICK h \in {"confirm", "reap"} : At(h)
  BY DEF ReapsThroughJournal
<1>2. entry # "released"
  BY <1>1, WhereDriverIs DEF FinallySteps
<1>3. /\ child' = [child EXCEPT !.state = "reaped"] /\ owner' = [owner EXCEPT !.proof = TRUE]
      /\ UNCHANGED <<group, wire, journal, held, artifacts, entry, lock, pc>>
  BY DEF ReapsThroughJournal, ConfirmsReaped, NoThread
<1>4. TypedWorld' /\ Keeps(h) /\ Achieves(h)
  BY <1>1, <1>2, <1>3 DEF Inv, Typed, TypedWorld, ChildType, OwnerType, Keeps, KeepsSlot, KeepsHandles, KeepsWorld, Achieves, ChildIsOver
<1>. QED BY <1>1, <1>4, PlainStep DEF ReapsThroughJournal

LEMMA DeletesKeeps ==
  ASSUME Inv, Deletes
  PROVE  Inv'
<1>1. TypedWorld' /\ Keeps("delete") /\ Achieves("delete")
  BY DEF Inv, Typed, TypedWorld, ArtifactsType, Deletes, NoThread, world, Keeps, KeepsSlot, KeepsHandles, KeepsWorld, Achieves, ChildIsOver
<1>. QED BY <1>1, PlainStep DEF Deletes

LEMMA RecordsKeeps ==
  ASSUME Inv, Records
  PROVE  Inv'
<1>1. PICK h \in {"path", "retain"} :
        At(h) /\ run' \in {Advanced, [Advanced EXCEPT !.retained = TRUE]}
  BY DEF Records, Proceeds
<1>2. TypedWorld' /\ Keeps(h) /\ Achieves(h)
  BY <1>1 DEF Inv, Typed, TypedWorld, ArtifactsType, Records, NoThread, world, Keeps, KeepsSlot, KeepsHandles, KeepsWorld, Achieves, ChildIsOver
<1>3. run' \in RunType /\ Moved(h) /\ Program'
  BY <1>1, Proceeding DEF Inv
<1>4. run'.known = run.known
  BY <1>1, Proceeding DEF Inv
<1>. QED BY <1>1, <1>2, <1>3, <1>4, DriverKeeps DEF Typed

-----------------------------------------------------------------------------
(* The steps that end what a driver has started.                               *)
LEMMA KnowsAnchorKeeps ==
  ASSUME Inv, KnowsAnchor
  PROVE  Inv'
<1>1. PICK h \in {"transfer", "known"} :
        At(h) /\ IF h = "transfer" THEN Transfers ELSE UNCHANGED <<entry, owner>>
  BY DEF KnowsAnchor
<1>2. run' = [Advanced EXCEPT !.known = TRUE]
  BY DEF KnowsAnchor
<1>3. run' \in RunType /\ Moved(h) /\ Program'
  BY <1>1, <1>2, Proceeding DEF Inv
<1>4. owner'.certified = owner.certified /\ owner'.close = owner.close /\ owner' \in OwnerType
  <2>1. CASE h = "known"
    BY <1>1, <2>1 DEF Inv, Typed, TypedWorld
  <2>2. CASE h = "transfer"
    <3>1. owner.close = "OWNED" /\ ~owner.certified
      BY <1>1, <2>2 DEF Inv, Slot, Transfers, LocallyOwned
    <3>2. owner.certified = FALSE
      BY <3>1 DEF Inv, Typed, TypedWorld, OwnerType
    <3>3. NoOwner \in OwnerType /\ NoOwner.certified = FALSE /\ NoOwner.close = "OWNED"
      BY DEF NoOwner, OwnerType
    <3>4. owner' = NoOwner
      BY <1>1, <2>2 DEF Transfers
    <3>. QED BY <3>1, <3>2, <3>3, <3>4
  <2>. QED BY <1>1, <2>1, <2>2
<1>5. entry' \in {"none", "reserved", "owned", "released"}
  BY <1>1 DEF Transfers, Inv, Typed, TypedWorld
<1>6. UNCHANGED <<child, group, wire, journal, held, artifacts, pc>>
  BY DEF KnowsAnchor, NoThread, world
<1>7. Typed'
  BY <1>3, <1>4, <1>5, <1>6 DEF Inv, Typed, TypedWorld
<1>8. KeepsSlot(h)
  BY <1>1, <1>4, <1>6 DEF KeepsSlot, Transfers
<1>9. Keeps(h) /\ Achieves(h)
  BY <1>1, <1>6, <1>8 DEF Keeps, KeepsHandles, KeepsWorld, Achieves, ChildIsOver
<1>10. h = "known" \/ entry' = "owned"
  BY <1>1 DEF Transfers
<1>. QED BY <1>1, <1>3, <1>7, <1>9, <1>10, DriverKeeps

LEMMA TearsDownKeeps ==
  ASSUME Inv, TearsDown
  PROVE  Inv'
<1>1. PICK h \in {"teardown", "teardownKnown", "teardownRetained"} : At(h)
  BY DEF TearsDown
<1>2. entry # "released"
  BY <1>1, WhereDriverIs DEF FinallySteps, Retains
<1>3. TypedWorld' /\ Keeps(h) /\ Achieves(h)
  BY <1>1, <1>2
  DEF Inv, Typed, TypedWorld, TearsDown, NoThread, Keeps, KeepsSlot, KeepsHandles, KeepsWorld,
      Achieves, ChildIsOver
<1>. QED BY <1>1, <1>3, PlainStep DEF TearsDown

(* A retained driver that knows its anchor has an owner.                       *)
LEMMA PassesKeeps ==
  ASSUME Inv, Passes
  PROVE  Inv'
<1>1. PICK h \in {"teardownKnown", "teardownRetained", "waitUnknown"} :
        At(h) /\ (h = "waitUnknown" => ~LocallyOwned \/ run.known \/ child.state = "none")
  BY DEF Passes
<1>2. h = "waitUnknown" => ~LocallyOwned \/ child.state = "none"
  <2>1. h = "waitUnknown" => Retains
    BY <1>1, WhereDriverIs DEF FinallySteps, Unwinding, Retains
  <2>. QED BY <1>1, <2>1 DEF Inv, Slot, LocallyOwned
<1>3. TypedWorld' /\ Keeps(h)
  BY <1>1
  DEF Inv, Typed, TypedWorld, Passes, NoThread, world, Keeps, KeepsSlot, KeepsHandles, KeepsWorld,
      ChildIsOver
<1>4. Achieves(h)
  BY <1>1, <1>2 DEF Passes, NoThread, world, Achieves, ChildIsOver, LocallyOwned
<1>. QED BY <1>1, <1>3, <1>4, PlainStep DEF Passes

LEMMA KillsKeeps ==
  ASSUME Inv, Kills
  PROVE  Inv'
<1>1. At("kill")
  BY DEF Kills
<1>2. entry # "released"
  BY <1>1, WhereDriverIs DEF FinallySteps, Retains
<1>3. child' = [child EXCEPT !.state = IF child.state = "none" THEN "none" ELSE "reaped"]
  BY DEF Kills
<1>4. TypedWorld' /\ Keeps("kill") /\ Achieves("kill")
  BY <1>1, <1>2, <1>3
  DEF Inv, Typed, TypedWorld, ChildType, Kills, NoThread, Keeps, KeepsSlot, KeepsHandles,
      KeepsWorld, Achieves, ChildIsOver
<1>. QED BY <1>1, <1>4, PlainStep DEF Kills

LEMMA WaitsUnknownKeeps ==
  ASSUME Inv, WaitsUnknown
  PROVE  Inv'
<1>1. At("waitUnknown") /\ entry # "released"
  BY DEF WaitsUnknown, LocallyOwned
<1>2. TypedWorld' /\ Keeps("waitUnknown") /\ Achieves("waitUnknown")
  BY <1>1
  DEF Inv, Typed, TypedWorld, ChildType, WaitsUnknown, NoThread, Keeps, KeepsSlot, KeepsHandles,
      KeepsWorld, Achieves, ChildIsOver
<1>. QED BY <1>1, <1>2, PlainStep DEF WaitsUnknown

LEMMA WaitsOrKeepsKeeps ==
  ASSUME Inv, WaitsOrKeeps
  PROVE  Inv'
<1>1. At("waitOrKeep")
  BY DEF WaitsOrKeeps
<1>2. entry # "released"
  BY <1>1, WhereDriverIs DEF FinallySteps, Retains
<1>3. /\ child' = [child EXCEPT !.state = IF child.state = "zombie" THEN "reaped" ELSE child.state]
      /\ artifacts' = [artifacts EXCEPT !.kept = (child.state = "live")]
  BY DEF WaitsOrKeeps
<1>4. child' \in ChildType /\ artifacts' \in ArtifactsType
  BY <1>3 DEF Inv, Typed, TypedWorld, ChildType, ArtifactsType
<1>5. TypedWorld'
  BY <1>4 DEF Inv, Typed, TypedWorld, WaitsOrKeeps, NoThread
<1>6. Keeps("waitOrKeep")
  BY <1>2, <1>3
  DEF Inv, Typed, TypedWorld, ChildType, WaitsOrKeeps, NoThread, Keeps, KeepsSlot, KeepsHandles,
      KeepsWorld, ChildIsOver
<1>7. Achieves("waitOrKeep")
  BY <1>3 DEF Inv, Typed, TypedWorld, ChildType, ArtifactsType, Achieves, ChildIsOver
<1>. QED BY <1>1, <1>5, <1>6, <1>7, PlainStep DEF WaitsOrKeeps

LEMMA CancelsReservationKeeps ==
  ASSUME Inv, CancelsReservation
  PROVE  Inv'
<1>1. TypedWorld' /\ Keeps("cancel") /\ Achieves("cancel")
  BY DEF Inv, Typed, TypedWorld, CancelsReservation, Cancels, NoThread, world, Keeps, KeepsSlot,
         KeepsHandles, KeepsWorld, Achieves, ChildIsOver
<1>. QED BY <1>1, PlainStep DEF CancelsReservation

LEMMA RemovesDirectoryKeeps ==
  ASSUME Inv, RemovesDirectory
  PROVE  Inv'
<1>1. artifacts' \in ArtifactsType /\ artifacts'.kept = artifacts.kept
  BY DEF Inv, Typed, TypedWorld, ArtifactsType, RemovesDirectory
<1>2. TypedWorld' /\ Keeps("remove") /\ Achieves("remove")
  BY <1>1
  DEF Inv, Typed, TypedWorld, RemovesDirectory, NoThread, world, Keeps, KeepsSlot, KeepsHandles,
      KeepsWorld, Achieves, ChildIsOver
<1>. QED BY <1>2, PlainStep DEF RemovesDirectory

(* What no owner retains is closed, and once.                                  *)
LEMMA ClosesKeeps ==
  ASSUME Inv, Closes
  PROVE  Inv'
<1>1. PICK h \in {"closeControl", "closeRest"} : At(h) /\ held' = CloseUnwinds(h)
  BY DEF Closes
<1>2. /\ held' \in HeldType
      /\ held.control # "open" => held'.control # "open"
      /\ h = "closeRest" /\ LocallyOwned => held'.closes = held.closes + 1
      /\ ~(h = "closeRest" /\ LocallyOwned) =>
           held'.dir = held.dir /\ held'.closes = held.closes /\ held'.journal = held.journal
      /\ entry = "released" => held' = held
  <2>1. CASE ~LocallyOwned
    BY <1>1, <2>1 DEF Inv, Typed, TypedWorld, CloseUnwinds
  <2>2. CASE LocallyOwned /\ h = "closeControl"
    BY <1>1, <2>2 DEF Inv, Typed, TypedWorld, HeldType, Handle, CloseUnwinds, LocallyOwned
  <2>3. CASE LocallyOwned /\ h = "closeRest"
    <3>1. held' = [held EXCEPT !.stderr = "closed", !.journal = "closed", !.dir = "closed",
                               !.closes = held.closes + 1]
      BY <1>1, <2>3 DEF CloseUnwinds
    <3>2. held \in HeldType /\ entry # "released"
      BY <2>3 DEF Inv, Typed, TypedWorld, LocallyOwned
    <3>3. held'.control = held.control /\ held'.closes = held.closes + 1
      BY <3>1, <3>2 DEF HeldType
    <3>4. held.closes + 1 \in Nat
      BY <3>2 DEF HeldType
    <3>5. held' \in HeldType
      BY <3>1, <3>2, <3>4 DEF HeldType, Handle
    <3>. QED BY <2>3, <3>2, <3>3, <3>5
  <2>. QED BY <1>1, <2>1, <2>2, <2>3
<1>3. TypedWorld'
  BY <1>2 DEF Inv, Typed, TypedWorld, Closes, NoThread, world
<1>4. Keeps(h) /\ Achieves(h)
  BY <1>1, <1>2
  DEF Closes, NoThread, world, Keeps, KeepsSlot, KeepsHandles, KeepsWorld, Achieves, ChildIsOver
<1>. QED BY <1>1, <1>3, <1>4, PlainStep DEF Closes

LEMMA StartsReconcilingKeeps ==
  ASSUME Inv, StartsReconciling
  PROVE  Inv'
<1>1. At("reconcile") /\ Proceeds
  BY DEF StartsReconciling
<1>2. run.clause = "except" /\ Len(run.left) # 1
  <2>1. run.clause = "except"
    BY <1>1, WhereDriverIs DEF Unwinding, FinallySteps
  <2>2. run.left = <<"reconcile", "path">>
    BY <1>1, <2>1 DEF Inv, Program, At, RetainingExcept
  <2>. QED BY <2>1, <2>2
<1>3. run'.clause = "except"
  BY <1>1, <1>2 DEF Proceeds, Advanced, Inv, Typed, RunType
<1>4. pc' \in PcType
  BY DEF Inv, Typed, TypedWorld, PcType, StartsReconciling
<1>5. TypedWorld'
  BY <1>4 DEF Inv, Typed, TypedWorld, StartsReconciling, world
<1>6. Keeps("reconcile") /\ Achieves("reconcile")
  BY <1>3
  DEF StartsReconciling, world, Keeps, KeepsSlot, KeepsHandles, KeepsWorld, Achieves, ChildIsOver
<1>. QED BY <1>1, <1>5, <1>6, PlainStep

-----------------------------------------------------------------------------
(* The release at the end of a retaining try: everything is seen to be gone,   *)
(* and every handle is closed at once.                                         *)
LEMMA ClosesAllKeeps ==
  ASSUME Inv, At("closeAll"), TestRelease
  PROVE  Inv'
<1>1. run.clause = "try" /\ Retains
  BY WhereDriverIs DEF FinallySteps, Releasing, Retains
<1>2. /\ Len(run.left) = 1 /\ ~Ahead("allocate") /\ ~Ahead("unconfirmed")
      /\ ~Ahead("killGroup") /\ ~Ahead("waitChild")
  BY <1>1, WhereRetainingIs
<1>3. /\ held.dir = "open" /\ journal \in Terminal /\ group = "absent"
      /\ held.control # "open" /\ child.state = "reaped" /\ held.closes = 0
  BY <1>1, <1>2 DEF Inv, Achieved, ClosedOnce
<1>4. /\ held' = [held EXCEPT !.stderr = "closed", !.journal = "closed", !.dir = "closed",
                              !.closes = held.closes + 1]
      /\ owner' = [owner EXCEPT !.close = "CLOSED_PROVED"] /\ entry' = "released"
      /\ UNCHANGED <<child, group, wire, journal, artifacts, pc>> /\ Proceeds
  BY DEF TestRelease, At, NoThread
<1>5. /\ held'.control # "open" /\ held'.stderr = "closed" /\ held'.journal = "closed"
      /\ held'.dir = "closed" /\ held'.closes = 1 /\ held' \in HeldType
  <2>1. held \in HeldType /\ held'.closes = 1
    BY <1>3, <1>4 DEF Inv, Typed, TypedWorld, HeldType
  <2>2. held' \in HeldType
    <3>1. held.closes + 1 \in Nat
      BY <2>1 DEF HeldType
    <3>. QED BY <1>4, <2>1, <3>1 DEF HeldType, Handle
  <2>. QED BY <1>3, <1>4, <2>1, <2>2 DEF HeldType
<1>6. owner'.certified = owner.certified /\ owner'.close = "CLOSED_PROVED" /\ owner' \in OwnerType
  BY <1>4 DEF Inv, Typed, TypedWorld, OwnerType
<1>7. /\ run' \in RunType /\ Moved("closeAll") /\ Program' /\ run'.known = run.known
      /\ run'.clause = "finally"
  <2>1. run' \in RunType /\ Moved("closeAll") /\ Program' /\ run'.known = run.known
    BY <1>4, Proceeding DEF Inv, Proceeds
  <2>2. run' = Following
    BY <1>2, <1>4 DEF Proceeds, Advanced
  <2>. QED BY <1>1, <2>1, <2>2 DEF Following, Enters, Inv, Typed, RunType
<1>8. Retains' /\ ~owner.certified /\ \A t \in Threads : pc[t] \in {"idle"}
  BY <1>1, <1>7, WhereDriverIs DEF Moved, Retains
<1>9. Typed'
  BY <1>4, <1>5, <1>6, <1>7 DEF Inv, Typed, TypedWorld
<1>10. Slot'
  BY <1>4, <1>6, <1>7, <1>8 DEF Slot, LocallyOwned
<1>11. Locked'
  <2>1. \A t \in Threads : pc'[t] \in {"idle"}
    BY <1>4, <1>8
  <2>. QED BY <2>1 DEF Locked, RecoveryStages, ReleaseStages, Threads
<1>12. Released'
  <2>1. \A t \in Releasers : pc'[t] \in {"idle"}
    BY <1>4, <1>8 DEF Threads
  <2>. QED BY <1>3, <1>4, <1>5, <1>6, <2>1 DEF Released, AllGone, NoneOpen
<1>13. ClosedOnce'
  BY <1>4, <1>5, <1>7 DEF ClosedOnce, LocallyOwned
<1>14. Achieved' /\ Cared' /\ OwnerKeepsItsHandles'
  BY <1>4, <1>7, <1>8 DEF Achieved, Cared, OwnerKeepsItsHandles, LocallyOwned
<1>. QED BY <1>7, <1>9, <1>10, <1>11, <1>12, <1>13, <1>14 DEF Inv

LEMMA TestReleaseKeeps ==
  ASSUME Inv, TestRelease
  PROVE  Inv'
<1>1. CASE At("killGroup")
  <2>1. run.clause = "try" /\ Retains
    BY <1>1, WhereDriverIs DEF FinallySteps, Releasing, Retains
  <2>2. entry # "released" /\ wire.frame = 4
    BY <1>1, <2>1, WhereDriverIs, WhereRetainingIs DEF Inv, Achieved
  <2>3. /\ group' = "absent" /\ held' = [held EXCEPT !.control = "closed"]
        /\ UNCHANGED <<child, wire, journal, artifacts, entry, owner, pc>> /\ Proceeds
    BY <1>1 DEF TestRelease, At, NoThread
  <2>4. TypedWorld' /\ Keeps("killGroup") /\ Achieves("killGroup")
    BY <2>2, <2>3
    DEF Inv, Typed, TypedWorld, HeldType, Handle, Keeps, KeepsSlot, KeepsHandles, KeepsWorld,
        Achieves, ChildIsOver
  <2>. QED BY <1>1, <2>3, <2>4, PlainStep
<1>2. CASE At("waitChild")
  <2>1. entry # "released"
    BY <1>2, WhereDriverIs DEF FinallySteps, Retains
  <2>2. /\ child' = [child EXCEPT !.state = "reaped"]
        /\ UNCHANGED <<group, held, wire, journal, artifacts, entry, owner, pc>> /\ Proceeds
    BY <1>2 DEF TestRelease, At, NoThread
  <2>3. TypedWorld' /\ Keeps("waitChild") /\ Achieves("waitChild")
    BY <2>1, <2>2
    DEF Inv, Typed, TypedWorld, ChildType, Keeps, KeepsSlot, KeepsHandles, KeepsWorld, Achieves,
        ChildIsOver
  <2>. QED BY <1>2, <2>2, <2>3, PlainStep
<1>3. CASE At("closeAll")
  BY <1>3, ClosesAllKeeps
<1>. QED BY <1>1, <1>2, <1>3 DEF TestRelease

-----------------------------------------------------------------------------
(* A step that raises leaves its clause.                                       *)
LEMMA FailsKeeps ==
  ASSUME Inv, NEW h, At(h), run.clause = "try", run' = Following,
         child' = child \/ (child'.state = "reaped" /\ child' \in ChildType),
         wire' \in WireType, wire'.frame = wire.frame,
         UNCHANGED <<group, journal, held, artifacts, entry, owner, pc>>
  PROVE  Inv'
<1>1. run' \in RunType /\ Moved(h) /\ Program' /\ run'.known = run.known /\ run'.clause = "finally"
  BY Failing DEF Inv, At
<1>2. entry # "released" /\ h # "closeRest"
  BY WhereDriverIs DEF Unwinding
<1>3. TypedWorld'
  BY DEF Inv, Typed, TypedWorld
<1>4. Keeps(h) /\ Achieves(h)
  BY <1>1, <1>2 DEF Keeps, KeepsSlot, KeepsHandles, KeepsWorld, Achieves, ChildIsOver
<1>. QED BY <1>1, <1>3, <1>4, DriverKeeps DEF Typed

LEMMA ExceptKeeps ==
  ASSUME Inv, NEW h, At(h), run.clause = "try", entry = "owned",
         run' = Enters("except", RetainingExcept), wire' \in WireType,
         UNCHANGED <<child, group, journal, held, artifacts, entry, owner, pc>>
  PROVE  Inv'
<1>1. /\ run'.clause = "except" /\ run'.left = RetainingExcept
      /\ run'.scenario = run.scenario /\ run'.known = run.known /\ run' \in RunType
  <2>1. RetainingExcept \in Seq(StepNames)
    BY DEF RetainingExcept, StepNames
  <2>. QED BY <2>1 DEF Inv, Typed, RunType, Enters
<1>2. Retains' /\ (Retains <=> Retains') /\ \A t \in Threads : pc[t] \in {"idle"}
  BY <1>1, WhereDriverIs DEF Inv, Slot, Retains
<1>3. Typed'
  BY <1>1 DEF Inv, Typed, TypedWorld
<1>4. Program'
  <2>1. RetainingExcept # <<>>
    BY DEF RetainingExcept
  <2>. QED BY <1>1, <1>2, <2>1 DEF Program
<1>5. Slot'
  BY <1>1, <1>2 DEF Inv, Slot, LocallyOwned
<1>6. Locked'
  <2>1. \A t \in Threads : pc'[t] \in {"idle"}
    BY <1>2
  <2>. QED BY <2>1 DEF Locked, RecoveryStages, ReleaseStages, Threads
<1>7. Released' /\ ClosedOnce'
  BY <1>1 DEF Inv, Released, ClosedOnce, AllGone, NoneOpen
<1>8. Achieved' /\ Cared' /\ OwnerKeepsItsHandles'
  BY <1>1 DEF Inv, Achieved, Cared, OwnerKeepsItsHandles
<1>. QED BY <1>3, <1>4, <1>5, <1>6, <1>7, <1>8 DEF Inv

LEMMA RunningGateFailsKeeps ==
  ASSUME Inv, RunningGateFails
  PROVE  Inv'
<1>1. At("running")
  BY DEF RunningGateFails
<1>2. run.clause = "try"
  BY <1>1, WhereDriverIs DEF FinallySteps
<1>3. child' \in ChildType /\ child'.state = "reaped" /\ wire \in WireType
  BY DEF Inv, Typed, TypedWorld, ChildType, RunningGateFails
<1>. QED BY <1>1, <1>2, <1>3, FailsKeeps DEF RunningGateFails, NoThread

LEMMA SendRaisesKeeps ==
  ASSUME Inv, SendRaises
  PROVE  Inv'
<1>1. At("send")
  BY DEF SendRaises
<1>2. run.clause = "try"
  BY <1>1, WhereDriverIs DEF FinallySteps
<1>3. /\ wire' \in WireType /\ wire'.frame = wire.frame
      /\ UNCHANGED <<child, group, journal, held, artifacts, entry, owner, pc>>
  BY DEF Inv, Typed, TypedWorld, WireType, SendRaises, NoThread
<1>4. CASE entry = "owned"
  BY <1>1, <1>2, <1>3, <1>4, ExceptKeeps DEF SendRaises
<1>5. CASE entry # "owned"
  <2>1. run' = Following
    BY <1>5 DEF SendRaises
  <2>. QED BY <1>1, <1>2, <1>3, <2>1, FailsKeeps
<1>. QED BY <1>4, <1>5

(* The end of a teardown that raises, after the child was killed.              *)
LEMMA TeardownRaisesKeeps ==
  ASSUME Inv, NEW h \in {"teardownKnown", "teardownRetained"}, At(h),
         run' = Enters("ended", <<>>),
         UNCHANGED <<child, group, wire, journal, held, artifacts, entry, owner, pc>>
  PROVE  Inv'
<1>1. run.clause = "finally" /\ ~Retains /\ run.scenario \notin Cleaning \cup Bootstrapping
  BY WhereDriverIs DEF Unwinding, FinallySteps, Retains
<1>2. /\ run'.clause = "ended" /\ run'.left = <<>>
      /\ run'.scenario = run.scenario /\ run'.known = run.known /\ run' \in RunType
  <2>1. <<>> \in Seq(StepNames)
    OBVIOUS
  <2>. QED BY <2>1 DEF Inv, Typed, RunType, Enters
<1>3. ~Ahead("kill")
  <2>1. run.left \in Seq(StepNames) /\ run.left # <<>> /\ Head(run.left) = h
    BY DEF Inv, Typed, RunType, At
  <2>2. Before(run.left, "kill", h)
    BY <1>1 DEF Inv, Program, FinallyOrder
  <2>. QED BY <2>1, <2>2, TailBefore DEF Ahead
<1>4. ChildIsOver
  BY <1>1, <1>3 DEF Inv, Cared, StillAhead
<1>5. ~Retains' /\ entry = "none" /\ ~owner.certified /\ \A t \in Threads : pc[t] \in {"idle"}
  BY <1>1, <1>2, WhereDriverIs DEF Inv, Slot, Retains
<1>6. Typed'
  BY <1>2 DEF Inv, Typed, TypedWorld
<1>7. Program'
  BY <1>2 DEF Program
<1>8. Slot'
  BY <1>2, <1>5 DEF Inv, Slot, LocallyOwned
<1>9. Locked'
  <2>1. \A t \in Threads : pc'[t] \in {"idle"}
    BY <1>5
  <2>. QED BY <2>1 DEF Locked, RecoveryStages, ReleaseStages, Threads
<1>10. Released' /\ ClosedOnce'
  BY <1>2, <1>5 DEF Inv, Released, ClosedOnce, AllGone, NoneOpen
<1>11. Achieved' /\ Cared' /\ OwnerKeepsItsHandles'
  BY <1>2, <1>4, <1>5 DEF Inv, Achieved, Cared, OwnerKeepsItsHandles, ChildIsOver
<1>. QED BY <1>6, <1>7, <1>8, <1>9, <1>10, <1>11 DEF Inv

LEMMA RaisesKeeps ==
  ASSUME Inv, Raises
  PROVE  Inv'
<1>1. /\ At(Head(run.left)) /\ wire \in WireType
      /\ UNCHANGED <<child, group, wire, journal, held, artifacts, entry, owner, pc>>
  BY DEF Raises, At, NoThread, world, Inv, Typed, TypedWorld
<1>2. CASE /\ run.clause = "try" /\ run.scenario \in Retaining
           /\ entry \in {"owned", "released"} /\ run' = Enters("except", RetainingExcept)
  <2>1. entry = "owned"
    BY <1>1, <1>2 DEF Inv, Slot
  <2>. QED BY <1>1, <1>2, <2>1, ExceptKeeps
<1>3. CASE run.clause = "try" /\ run' = Following
  BY <1>1, <1>3, FailsKeeps
<1>4. CASE Head(run.left) \in {"teardownKnown", "teardownRetained"} /\ run' = Enters("ended", <<>>)
  BY <1>1, <1>4, TeardownRaisesKeeps
<1>. QED BY <1>2, <1>3, <1>4 DEF Raises

(* Nothing was begun where the driver did not get its directory.               *)
LEMMA OpensKeeps ==
  ASSUME Inv, Opens
  PROVE  Inv'
<1>1. /\ run.clause = "open" /\ entry = "none" /\ ~run.known /\ child.state = "none"
      /\ held.closes = 0 /\ ~owner.certified /\ owner.close = "OWNED"
      /\ \A t \in Threads : pc[t] \in {"idle"}
      /\ UNCHANGED <<child, group, wire, journal, owner, lock, pc>>
  <2>1. run.clause = "open" /\ UNCHANGED <<child, group, wire, journal, owner, lock, pc>>
    BY DEF Opens, NoThread, world
  <2>2. entry = "none" /\ ~run.known /\ child.state = "none" /\ held.closes = 0
    BY <2>1 DEF Inv, Slot, Cared, ClosedOnce
  <2>3. ~owner.certified /\ owner.close = "OWNED"
    BY <2>2 DEF Inv, Slot, LocallyOwned
  <2>4. ASSUME NEW t \in Threads
        PROVE  pc[t] = "idle"
    <3>1. CASE t \in Releasers
      BY <2>1, <3>1 DEF Inv, Locked
    <3>2. CASE t = "driver"
      BY <2>1, <3>2 DEF Inv, Locked
    <3>. QED BY <2>4, <3>1, <3>2 DEF Threads
  <2>. QED BY <2>1, <2>2, <2>3, <2>4
<1>2. Locked'
  <2>1. \A t \in Threads : pc'[t] \in {"idle"}
    BY <1>1
  <2>. QED BY <2>1 DEF Locked, RecoveryStages, ReleaseStages, Threads
<1>3. ASSUME NEW clause \in {"try", "ended"}, NEW steps \in Seq(StepNames),
             run' = Enters(clause, steps)
      PROVE  /\ run'.clause = clause /\ run'.left = steps /\ run' \in RunType
             /\ run'.scenario = run.scenario /\ run'.known = run.known
  BY <1>3 DEF Enters, Inv, Typed, RunType
<1>4. CASE /\ IF run.scenario \in Retaining THEN Reserves ELSE UNCHANGED entry
           /\ held' = [held EXCEPT !.dir = "open"]
           /\ artifacts' = [artifacts EXCEPT !.dir = "present"]
           /\ run' = Enters("try", Try(run.scenario))
  <2>1. /\ Try(run.scenario) \in Seq(StepNames) /\ Try(run.scenario) # <<>>
        /\ Steps(Try(run.scenario)) \cap Unwinding = {}
        /\ run.scenario \in Retaining => RetainingTry(Try(run.scenario))
        /\ run.scenario \notin Retaining => Steps(Try(run.scenario)) \cap Releasing = {}
    BY TryIs
  <2>2. /\ run'.clause = "try" /\ run'.left = Try(run.scenario) /\ run' \in RunType
        /\ run'.scenario = run.scenario /\ run'.known = run.known
    BY <1>3, <1>4, <2>1
  <2>3. /\ held' \in HeldType /\ held'.dir = "open" /\ held'.closes = 0
        /\ artifacts' \in ArtifactsType
    BY <1>1, <1>4 DEF Inv, Typed, TypedWorld, HeldType, Handle, ArtifactsType
  <2>4. entry' \in {"none", "reserved"} /\ (~Retains' => entry' = "none")
    BY <1>1, <1>4, <2>2 DEF Reserves, Retains
  <2>5. Typed'
    BY <1>1, <2>2, <2>3, <2>4 DEF Inv, Typed, TypedWorld
  <2>6. Program'
    <3>1. run.scenario \in Retaining => Completed(Try(run.scenario))
      BY <2>1 DEF Completed, RetainingTry
    <3>. QED BY <2>1, <2>2, <3>1 DEF Program, Retains, RetainingTry
  <2>7. Slot'
    BY <1>1, <2>2, <2>4 DEF Slot, LocallyOwned
  <2>8. Released' /\ ClosedOnce'
    BY <1>1, <2>2, <2>3, <2>4 DEF Inv, Released, ClosedOnce, Threads
  <2>9. Achieved'
    BY <2>1, <2>2, <2>3 DEF Achieved, Retains, RetainingTry, Ahead
  <2>10. Cared' /\ OwnerKeepsItsHandles'
    BY <2>2, <2>4 DEF Cared, OwnerKeepsItsHandles
  <2>. QED BY <1>2, <2>5, <2>6, <2>7, <2>8, <2>9, <2>10 DEF Inv
<1>5. CASE run' = Enters("ended", <<>>) /\ UNCHANGED <<entry, held, artifacts>>
  <2>1. <<>> \in Seq(StepNames)
    OBVIOUS
  <2>2. /\ run'.clause = "ended" /\ run'.left = <<>> /\ run' \in RunType
        /\ run'.scenario = run.scenario /\ run'.known = run.known
    BY <1>3, <1>5, <2>1
  <2>3. Typed' /\ Program'
    BY <1>1, <1>5, <2>2 DEF Inv, Typed, TypedWorld, Program
  <2>4. Slot'
    BY <1>1, <1>5, <2>2 DEF Slot, LocallyOwned
  <2>5. Released' /\ ClosedOnce'
    BY <1>1, <1>5, <2>2 DEF Inv, Released, ClosedOnce, Threads
  <2>6. Achieved' /\ Cared' /\ OwnerKeepsItsHandles'
    BY <1>1, <1>5, <2>2 DEF Achieved, Cared, OwnerKeepsItsHandles, ChildIsOver
  <2>. QED BY <1>2, <2>3, <2>4, <2>5, <2>6 DEF Inv
<1>. QED BY <1>4, <1>5 DEF Opens

-----------------------------------------------------------------------------
(* A thread that works holds the lock, and leaves the driver's steps alone.    *)
LEMMA WhereThreadIs ==
  ASSUME Inv, NEW t \in Threads, pc[t] # "idle"
  PROVE  /\ entry \in {"owned", "released"} /\ run.clause \in {"except", "ended"}
         /\ t \in Releasers => run.clause = "ended"
         /\ pc[t] \in RecoveryStages \cup ReleaseStages => lock = t
         /\ pc[t] \in {"relock"} \cup ReleaseStages => t \in Releasers
         /\ t # "free"
<1>1. CASE t \in Releasers
  BY <1>1, RetainedAssumption DEF Inv, Locked
<1>2. CASE t = "driver"
  BY <1>2 DEF Inv, Locked, Slot, RecoveryStages, ReleaseStages
<1>. QED BY <1>1, <1>2 DEF Threads

(* What a recovery may change: the stage of its thread, the child that it      *)
(* reaps, a journal that is not terminal, the proof that its owner remembers.  *)
Recovers(t) ==
  /\ pc' \in {[pc EXCEPT ![t] = stage] : stage \in {"idle", "relock"} \cup RecoveryStages}
  /\ pc'[t] \in RecoveryStages => lock' = t
  /\ t = "driver" => pc'[t] # "relock"
  /\ lock' # lock => lock = t \/ lock = "free"
  /\ child' \in ChildType /\ (child' = child \/ child'.state = "reaped")
  /\ journal \in Terminal => journal' \in Terminal
  /\ owner' \in OwnerType /\ owner'.close = owner.close /\ owner'.certified = owner.certified
  /\ UNCHANGED <<group, wire, held, artifacts, entry, run>>

LEMMA RecoversKeeps ==
  ASSUME Inv, NEW t \in Threads, pc[t] # "idle", Recovers(t)
  PROVE  Inv'
<1>1. PICK stage \in {"idle", "relock"} \cup RecoveryStages : pc' = [pc EXCEPT ![t] = stage]
  BY DEF Recovers
<1>2. /\ pc' \in PcType /\ pc'[t] = stage
      /\ \A u \in Threads \ {t} : pc'[u] = pc[u]
  BY <1>1 DEF Inv, Typed, TypedWorld, PcType
<1>3. entry \in {"owned", "released"} /\ run.clause \in {"except", "ended"} /\ t # "free"
  BY WhereThreadIs
<1>4. Typed'
  BY <1>2 DEF Inv, Typed, TypedWorld, Recovers
<1>5. Program' /\ Slot'
  BY DEF Inv, Program, Slot, Recovers, Retains, LocallyOwned
<1>6. Locked'
  <2>1. \A u \in Threads : pc'[u] \in RecoveryStages \cup ReleaseStages => lock' = u
    <3>. SUFFICES ASSUME NEW u \in Threads, pc'[u] \in RecoveryStages \cup ReleaseStages
                  PROVE  lock' = u
      OBVIOUS
    <3>1. CASE u = t
      BY <1>2, <3>1 DEF Recovers, RecoveryStages, ReleaseStages
    <3>2. CASE u # t
      <4>1. pc[u] = pc'[u] /\ lock = u /\ u # "free"
        BY <1>2, <3>2, WhereThreadIs DEF RecoveryStages, ReleaseStages
      <4>. QED BY <3>2, <4>1 DEF Recovers
    <3>. QED BY <3>1, <3>2
  <2>2. \A u \in Releasers : pc'[u] # "idle" => run'.clause = "ended" /\ entry' \in {"owned", "released"}
    BY <1>2, <1>3, WhereThreadIs DEF Threads, Recovers
  <2>3. /\ pc'["driver"] \in {"idle", "lock"} \cup RecoveryStages
        /\ pc'["driver"] # "idle" => run'.clause = "except"
    <3>1. CASE t = "driver"
      BY <1>2, <3>1 DEF Inv, Locked, Recovers
    <3>2. CASE t # "driver"
      BY <1>2, <3>2 DEF Inv, Locked, Recovers, Threads
    <3>. QED BY <3>1, <3>2
  <2>. QED BY <2>1, <2>2, <2>3 DEF Locked
<1>7. Released'
  <2>1. \A u \in Releasers : pc'[u] \in {"close", "remove"} => pc[u] = pc'[u]
    BY <1>2 DEF Threads, RecoveryStages
  <2>2. AllGone => AllGone'
    BY DEF AllGone, Recovers
  <2>. QED BY <2>1, <2>2 DEF Inv, Released, Recovers, NoneOpen
<1>8. ClosedOnce' /\ Achieved' /\ OwnerKeepsItsHandles'
  BY <1>3 DEF Inv, ClosedOnce, Achieved, OwnerKeepsItsHandles, Recovers, LocallyOwned, Ahead
<1>9. Cared'
  BY <1>3 DEF Inv, Cared, Recovers, ChildIsOver, StillAhead, Ahead, Retains, LocallyOwned
<1>. QED BY <1>4, <1>5, <1>6, <1>7, <1>8, <1>9 DEF Inv

LEMMA ReconcileKeeps ==
  ASSUME Inv, NEW t \in Threads, Reconcile(t), UNCHANGED run
  PROVE  Inv'
<1>1. pc \in PcType /\ child \in ChildType /\ owner \in OwnerType
  BY DEF Inv, Typed, TypedWorld
<1>2. pc[t] \in RecoveryStages => lock = t
  BY WhereThreadIs DEF RecoveryStages
<1>3. CASE LocksToReconcile(t)
  <2>1. Recovers(t)
    BY <1>1, <1>3 DEF LocksToReconcile, Quiet, Recovers, PcType, RecoveryStages
  <2>. QED BY <1>3, <2>1, RecoversKeeps DEF LocksToReconcile
<1>4. CASE ReconcileRaises(t)
  <2>1. pc[t] \in RecoveryStages /\ Recovers(t)
    BY <1>1, <1>2, <1>4 DEF ReconcileRaises, Leaves, Stage, Quiet, Recovers, PcType, RecoveryStages
  <2>. QED BY <2>1, RecoversKeeps DEF RecoveryStages
<1>. USE DEF Converges, Leaves, Moves, Sees, Stage, Quiet, PcType, RecoveryStages
<1>5. CASE CertifiesHead(t)
  <2>1. pc[t] = "head" /\ Recovers(t)
    BY <1>1, <1>2, <1>5 DEF CertifiesHead, Recovers
  <2>. QED BY <2>1, RecoversKeeps
<1>6. CASE ScansRecord(t)
  <2>1. pc[t] = "record" /\ Recovers(t)
    BY <1>1, <1>2, <1>6 DEF ScansRecord, Recovers
  <2>. QED BY <2>1, RecoversKeeps
<1>7. CASE ObservesChild(t)
  <2>1. pc[t] = "wait" /\ Recovers(t)
    BY <1>1, <1>2, <1>7 DEF ObservesChild, Recovers
  <2>. QED BY <2>1, RecoversKeeps
<1>8. CASE WaitsForExit(t)
  <2>1. pc[t] = "bounded" /\ Recovers(t)
    BY <1>1, <1>2, <1>8 DEF WaitsForExit, Recovers
  <2>. QED BY <2>1, RecoversKeeps
<1>9. CASE Decides(t)
  <2>1. pc[t] = "decide" /\ Recovers(t)
    BY <1>1, <1>2, <1>9 DEF Decides, Recovers
  <2>. QED BY <2>1, RecoversKeeps
<1>10. CASE RecoversExit(t)
  <2>1. pc[t] = "exit" /\ Recovers(t)
    BY <1>1, <1>2, <1>10 DEF RecoversExit, Retires, Terminal, Recovers
  <2>. QED BY <2>1, RecoversKeeps
<1>11. CASE RecoversReap(t)
  <2>1. pc[t] = "confirm" /\ lock = t
    BY <1>2, <1>11 DEF RecoversReap
  <2>2. child' \in ChildType /\ child'.state = "reaped"
    BY <1>1, <1>11 DEF RecoversReap, ConfirmsReaped, ChildType
  <2>3. owner' \in OwnerType /\ owner'.close = owner.close /\ owner'.certified = owner.certified
    BY <1>1, <1>11 DEF RecoversReap, ConfirmsReaped, OwnerType
  <2>4. journal \in Terminal => journal' \in Terminal
    BY <1>11 DEF RecoversReap, Replayed, Terminal
  <2>5. Recovers(t)
    BY <1>1, <1>11, <2>1, <2>2, <2>3, <2>4 DEF RecoversReap, Recovers
  <2>. QED BY <2>1, <2>5, RecoversKeeps
<1>12. CASE EnsuresUnconfirmed(t)
  <2>1. pc[t] = "terminal" /\ Recovers(t)
    BY <1>1, <1>2, <1>12 DEF EnsuresUnconfirmed, Marks, MayMark, Terminal, Recovers
  <2>. QED BY <2>1, RecoversKeeps
<1>. QED BY <1>3, <1>4, <1>5, <1>6, <1>7, <1>8, <1>9, <1>10, <1>11, <1>12 DEF Reconcile

-----------------------------------------------------------------------------
(* A release: it works where the driver is over, on what was proved gone.      *)
LEMMA BeginsKeeps ==
  ASSUME Inv, NEW t \in Releasers, run.clause = "ended", Begins(t), UNCHANGED run
  PROVE  Inv'
<1>1. PICK stage \in {"lock", "relock"} : pc' = [pc EXCEPT ![t] = stage]
  BY DEF Begins
<1>2. /\ pc' \in PcType /\ pc'[t] = stage /\ t \in Threads /\ t # "driver"
      /\ \A u \in Threads \ {t} : pc'[u] = pc[u]
  BY <1>1, RetainedAssumption DEF Inv, Typed, TypedWorld, PcType, Threads
<1>3. entry = "owned" /\ UNCHANGED <<child, group, wire, journal, held, artifacts, entry, owner, lock, run>>
  BY DEF Begins, world
<1>4. Typed' /\ Program' /\ Slot'
  BY <1>2, <1>3 DEF Inv, Typed, TypedWorld, Program, Slot, Retains, LocallyOwned
<1>5. Locked'
  <2>1. \A u \in Threads : pc'[u] \in RecoveryStages \cup ReleaseStages => lock' = u
    BY <1>2, <1>3 DEF Inv, Locked, RecoveryStages, ReleaseStages
  <2>2. \A u \in Releasers : pc'[u] # "idle" => run'.clause = "ended" /\ entry' \in {"owned", "released"}
    BY <1>3
  <2>3. pc'["driver"] = pc["driver"]
    BY <1>2 DEF Threads
  <2>. QED BY <1>3, <2>1, <2>2, <2>3 DEF Inv, Locked
<1>6. Released'
  BY <1>2, <1>3 DEF Inv, Released, AllGone, NoneOpen, Threads
<1>7. ClosedOnce' /\ Achieved' /\ Cared' /\ OwnerKeepsItsHandles'
  BY <1>3 DEF Inv, ClosedOnce, Achieved, Cared, OwnerKeepsItsHandles, LocallyOwned, Ahead,
             StillAhead, ChildIsOver, Retains
<1>. QED BY <1>4, <1>5, <1>6, <1>7 DEF Inv

(* What a release may change: the stage of its thread, which has the lock, and *)
(* the handles, the owner and the entry in this order.                         *)
Releases(t) ==
  /\ pc' \in {[pc EXCEPT ![t] = stage] : stage \in {"idle"} \cup ReleaseStages}
  /\ pc'[t] \in ReleaseStages => lock' = t
  /\ lock = t \/ lock = "free"
  /\ UNCHANGED <<child, group, wire, journal, artifacts, run>>
  /\ held' \in HeldType /\ owner' \in OwnerType /\ entry' \in {entry, "released"}

(* The stage that a thread has reached was earned. *)
Earned(t) ==
  /\ pc[t] \in {"close", "remove"} =>
       (owner.certified \/ entry = "released") /\ owner.close # "AMBIGUOUS"
  /\ pc[t] = "remove" => owner.close = "CLOSED_PROVED" /\ NoneOpen

LEMMA ReleasesKeeps ==
  ASSUME Inv, NEW t \in Threads, pc[t] \in {"relock"} \cup ReleaseStages, Releases(t),
         Earned(t)',
         owner.certified => owner'.certified,
         owner'.certified \/ entry' = "released" => AllGone,
         entry' = "released" => NoneOpen' /\ owner'.close = "CLOSED_PROVED",
         owner'.close = "CLOSED_PROVED" => held'.dir # "open",
         entry' = "owned" /\ owner'.close # "OWNED" => owner'.certified,
         held'.closes <= 1, entry' = "owned" /\ owner'.close = "OWNED" => held'.closes = 0,
         owner'.certified \/ (held'.journal = held.journal /\ held'.dir = held.dir)
           \/ entry' = "released"
  PROVE  Inv'
<1>1. PICK stage \in {"idle"} \cup ReleaseStages : pc' = [pc EXCEPT ![t] = stage]
  BY DEF Releases
<1>2. /\ pc' \in PcType /\ pc'[t] = stage
      /\ \A u \in Threads \ {t} : pc'[u] = pc[u]
  BY <1>1 DEF Inv, Typed, TypedWorld, PcType
<1>3. /\ entry \in {"owned", "released"} /\ run.clause = "ended" /\ t # "free"
      /\ t \in Releasers /\ t # "driver" /\ entry' \in {"owned", "released"}
      /\ run' = run
  BY WhereThreadIs, RetainedAssumption DEF ReleaseStages, Releases
<1>4. Typed'
  BY <1>2, <1>3 DEF Inv, Typed, TypedWorld, Releases
<1>5. Program'
  BY <1>3 DEF Inv, Program, Retains
<1>6. Slot'
  <2>1. Retains /\ Retains'
    BY <1>3 DEF Inv, Slot, Retains
  <2>. QED BY <1>3, <2>1 DEF Slot, LocallyOwned
<1>7. Locked'
  <2>1. \A u \in Threads : pc'[u] \in RecoveryStages \cup ReleaseStages => lock' = u
    <3>. SUFFICES ASSUME NEW u \in Threads, pc'[u] \in RecoveryStages \cup ReleaseStages
                  PROVE  lock' = u
      OBVIOUS
    <3>1. CASE u = t
      BY <1>2, <3>1 DEF Releases, RecoveryStages, ReleaseStages
    <3>2. CASE u # t
      <4>1. pc[u] = pc'[u] /\ lock = u /\ u # "free"
        BY <1>2, <3>2, WhereThreadIs DEF RecoveryStages, ReleaseStages
      <4>. QED BY <3>2, <4>1 DEF Releases
    <3>. QED BY <3>1, <3>2
  <2>2. \A u \in Releasers : pc'[u] # "idle" => run'.clause = "ended" /\ entry' \in {"owned", "released"}
    BY <1>3
  <2>3. pc'["driver"] = pc["driver"]
    BY <1>2, <1>3 DEF Threads
  <2>. QED BY <1>3, <2>1, <2>2, <2>3 DEF Inv, Locked
<1>8. Released'
  <2>1. AllGone' = AllGone
    BY DEF AllGone, Releases
  <2>2. ASSUME NEW u \in Releasers \ {t}
        PROVE  pc'[u] \notin ReleaseStages
    <3>1. pc[u] \in ReleaseStages => lock = u /\ u # "free"
      BY WhereThreadIs DEF Threads, ReleaseStages
    <3>2. pc'[u] = pc[u]
      BY <1>2 DEF Threads
    <3>. QED BY <3>1, <3>2 DEF Releases
  <2>3. ASSUME NEW u \in Releasers
        PROVE  /\ pc'[u] \in {"close", "remove"} =>
                    (owner'.certified \/ entry' = "released") /\ owner'.close # "AMBIGUOUS"
               /\ pc'[u] = "remove" => owner'.close = "CLOSED_PROVED" /\ NoneOpen'
    <3>1. CASE u = t
      BY <3>1 DEF Earned
    <3>2. CASE u # t
      BY <2>2, <3>2 DEF ReleaseStages
    <3>. QED BY <3>1, <3>2
  <2>. QED BY <2>1, <2>3 DEF Released
<1>9. ClosedOnce' /\ Achieved'
  BY <1>3 DEF ClosedOnce, Achieved
<1>10. OwnerKeepsItsHandles'
  BY DEF Inv, OwnerKeepsItsHandles, Releases
<1>11. Cared'
  BY <1>3 DEF Inv, Cared, Releases, ChildIsOver, StillAhead, Retains, LocallyOwned
<1>. QED BY <1>4, <1>5, <1>6, <1>7, <1>8, <1>9, <1>10, <1>11 DEF Inv

LEMMA ReleaseKeeps ==
  ASSUME Inv, NEW t \in Threads, Release(t), UNCHANGED run
  PROVE  Inv'
<1>. USE DEF Leaves, Moves, Stage, Earned
<1>1. /\ pc \in PcType /\ held \in HeldType /\ owner \in OwnerType
      /\ owner.certified \/ entry = "released" => AllGone
      /\ entry = "released" => NoneOpen /\ owner.close = "CLOSED_PROVED"
      /\ owner.close = "CLOSED_PROVED" => held.dir # "open"
      /\ entry = "owned" /\ owner.close # "OWNED" => owner.certified
      /\ held.closes <= 1 /\ (entry = "owned" /\ owner.close = "OWNED" => held.closes = 0)
  BY DEF Inv, Typed, TypedWorld, Slot, Released, ClosedOnce
<1>2. pc[t] \in ReleaseStages => lock = t /\ t \in Releasers
  BY WhereThreadIs DEF ReleaseStages
<1>3. pc[t] \in ReleaseStages => Earned(t)
  BY <1>2 DEF Inv, Released
<1>4. CASE LocksToRelease(t)
  <2>1. /\ pc[t] = "relock" /\ lock = "free" /\ lock' = t /\ pc' = [pc EXCEPT ![t] = "prove"]
        /\ UNCHANGED <<child, group, wire, journal, held, artifacts, entry, owner>>
    BY <1>4 DEF LocksToRelease, world
  <2>2. pc'[t] = "prove"
    BY <1>1, <2>1 DEF PcType
  <2>3. Releases(t)
    BY <1>1, <2>1, <2>2 DEF Releases, ReleaseStages
  <2>. QED BY <1>1, <2>1, <2>2, <2>3, ReleasesKeeps DEF NoneOpen
<1>5. CASE Proves(t)
  <2>1. /\ pc[t] = "prove" /\ lock = t
        /\ UNCHANGED <<child, group, wire, journal, held, artifacts, entry>>
    BY <1>2, <1>5 DEF Proves, world, ReleaseStages
  <2>2. CASE /\ owner' = [owner EXCEPT !.certified = TRUE] /\ Moves(t, "close")
             /\ owner.close # "AMBIGUOUS"
             /\ IF held.journal = "open" THEN MayRelease ELSE owner.certified
    <3>1. /\ owner'.certified /\ owner'.close = owner.close /\ owner' \in OwnerType
          /\ pc'[t] = "close"
      BY <1>1, <2>2 DEF OwnerType, PcType
    <3>2. AllGone
      BY <1>1, <2>2 DEF AllGone, MayRelease, GroupAbsent
    <3>3. Releases(t)
      BY <1>1, <2>1, <2>2, <3>1 DEF Releases, ReleaseStages
    <3>. QED BY <1>1, <2>1, <2>2, <3>1, <3>2, <3>3, ReleasesKeeps DEF NoneOpen, ReleaseStages
  <2>3. CASE Leaves(t, "idle") /\ UNCHANGED owner
    <3>1. pc'[t] = "idle"
      BY <1>1, <2>3 DEF PcType
    <3>2. Releases(t)
      BY <1>1, <2>1, <2>3, <3>1 DEF Releases, ReleaseStages
    <3>. QED BY <1>1, <2>1, <2>3, <3>1, <3>2, ReleasesKeeps DEF NoneOpen, ReleaseStages
  <2>. QED BY <1>5, <2>2, <2>3 DEF Proves
<1>6. CASE ClosesHandles(t)
  <2>1. /\ pc[t] = "close" /\ lock = t
        /\ UNCHANGED <<child, group, wire, journal, artifacts, entry, owner>>
    BY <1>2, <1>6 DEF ClosesHandles, world, ReleaseStages
  <2>2. owner.certified \/ entry = "released"
    BY <1>3, <2>1 DEF ReleaseStages
  <2>3. /\ held' \in {held, [held EXCEPT !.control = "closed"], [held EXCEPT !.stderr = "closed"],
                      [held EXCEPT !.journal = "closed"]}
        /\ pc' \in {[pc EXCEPT ![t] = "close"], [pc EXCEPT ![t] = "idle"]}
        /\ pc'[t] \in ReleaseStages => lock' = t
    BY <1>1, <1>6, <2>1 DEF ClosesHandles, PcType, ReleaseStages
  <2>4. held' \in HeldType /\ held'.dir = held.dir /\ held'.closes = held.closes
    BY <1>1, <2>3 DEF HeldType, Handle
  <2>5. NoneOpen => NoneOpen'
    BY <1>1, <2>3 DEF HeldType, NoneOpen
  <2>6. pc'[t] \in {"close", "idle"}
    BY <1>1, <2>3 DEF PcType
  <2>7. Releases(t)
    BY <1>1, <2>1, <2>3, <2>4 DEF Releases, ReleaseStages
  <2>. QED BY <1>1, <1>3, <2>1, <2>2, <2>4, <2>5, <2>6, <2>7, ReleasesKeeps DEF ReleaseStages
<1>7. CASE ClosesParent(t)
  <2>1. /\ pc[t] = "close" /\ lock = t /\ NoneOpen
        /\ UNCHANGED <<child, group, wire, journal, artifacts, entry>>
    BY <1>2, <1>7 DEF ClosesParent, world, ReleaseStages, NoneOpen
  <2>2. (owner.certified \/ entry = "released") /\ owner.close # "AMBIGUOUS"
    BY <1>3, <2>1 DEF ReleaseStages
  <2>3. CASE owner.close = "OWNED"
    <3>1. PICK known \in BOOLEAN, raised \in BOOLEAN :
            /\ known \/ raised
            /\ held' = [held EXCEPT !.dir = "closed", !.closes = held.closes + 1]
            /\ owner' = [owner EXCEPT !.close = IF known THEN "CLOSED_PROVED" ELSE "AMBIGUOUS"]
            /\ IF raised THEN Leaves(t, "idle") ELSE Moves(t, "remove")
      BY <1>7, <2>3 DEF ClosesParent, AfterFailedClose
    <3>2. entry = "owned" /\ owner.certified /\ held.closes = 0
      BY <1>1, <2>2, <2>3, WhereThreadIs, <2>1
    <3>3. /\ held' \in HeldType /\ held'.dir = "closed" /\ held'.closes = 1 /\ NoneOpen'
      <4>1. held'.closes = 1 /\ held'.dir = "closed" /\ NoneOpen'
        BY <1>1, <2>1, <3>1, <3>2 DEF HeldType, NoneOpen
      <4>2. held.closes + 1 \in Nat
        BY <3>2
      <4>. QED BY <1>1, <3>1, <4>1, <4>2 DEF HeldType, Handle
    <3>4. /\ owner' \in OwnerType /\ owner'.certified = owner.certified
          /\ owner'.close \in {"CLOSED_PROVED", "AMBIGUOUS"}
          /\ ~raised => owner'.close = "CLOSED_PROVED"
      BY <1>1, <3>1 DEF OwnerType
    <3>5. /\ pc' \in {[pc EXCEPT ![t] = "remove"], [pc EXCEPT ![t] = "idle"]}
          /\ pc'[t] = IF raised THEN "idle" ELSE "remove"
          /\ pc'[t] \in ReleaseStages => lock' = t
      BY <1>1, <2>1, <3>1 DEF PcType, ReleaseStages
    <3>6. Releases(t)
      BY <2>1, <3>3, <3>4, <3>5 DEF Releases, ReleaseStages
    <3>. QED BY <1>1, <2>1, <3>2, <3>3, <3>4, <3>5, <3>6, ReleasesKeeps DEF ReleaseStages
  <2>4. CASE owner.close # "OWNED"
    <3>1. Moves(t, "remove") /\ UNCHANGED <<held, owner>> /\ owner.close = "CLOSED_PROVED"
      BY <1>1, <1>7, <2>2, <2>4 DEF ClosesParent, OwnerType
    <3>2. pc'[t] = "remove"
      BY <1>1, <3>1 DEF PcType
    <3>3. Releases(t)
      BY <1>1, <2>1, <3>1, <3>2 DEF Releases, ReleaseStages
    <3>. QED BY <1>1, <2>1, <2>2, <3>1, <3>2, <3>3, ReleasesKeeps DEF NoneOpen, ReleaseStages
  <2>. QED BY <2>3, <2>4
<1>8. CASE Removes(t)
  <2>1. /\ pc[t] = "remove" /\ lock = t /\ entry' = "released" /\ Leaves(t, "idle")
        /\ UNCHANGED <<child, group, wire, journal, held, artifacts, owner>>
    BY <1>2, <1>8 DEF Removes, world, ReleaseStages
  <2>2. (owner.certified \/ entry = "released") /\ owner.close = "CLOSED_PROVED" /\ NoneOpen
    BY <1>3, <2>1 DEF ReleaseStages
  <2>3. pc'[t] = "idle"
    BY <1>1, <2>1 DEF PcType
  <2>4. Releases(t)
    BY <1>1, <2>1, <2>3 DEF Releases, ReleaseStages
  <2>. QED BY <1>1, <2>1, <2>2, <2>3, <2>4, ReleasesKeeps DEF NoneOpen, ReleaseStages
<1>. QED BY <1>4, <1>5, <1>6, <1>7, <1>8 DEF Release

-----------------------------------------------------------------------------
(* The supervisor and its anchor go on: what is over stays over.               *)
LEMMA EnvironmentKeeps ==
  ASSUME Inv, Environment, UNCHANGED run
  PROVE  Inv'
<1>1. /\ UNCHANGED <<held, artifacts, entry, owner, lock, pc>>
      /\ child' \in ChildType /\ wire' \in WireType
  <2>1. CASE SupervisorSends
    BY <2>1 DEF SupervisorSends, ownerVars, Inv, Typed, TypedWorld, WireType
  <2>2. CASE SupervisorCleans
    BY <2>2 DEF SupervisorCleans, ownerVars, Inv, Typed, TypedWorld, WireType
  <2>3. CASE SupervisorEnds
    BY <2>3 DEF SupervisorEnds, ownerVars, Inv, Typed, TypedWorld, ChildType
  <2>4. CASE AnchorRemains
    BY <2>4 DEF AnchorRemains, ownerVars, Inv, Typed, TypedWorld, WireType
  <2>. QED BY <2>1, <2>2, <2>3, <2>4 DEF Environment
<1>2. /\ child.state # "live" => child' = child
      /\ child.state \in {"none", "reaped"} <=> child'.state \in {"none", "reaped"}
      /\ child.state = "none" => child'.state = "none"
      /\ journal \in Terminal => journal' \in Terminal
      /\ wire.frame = 4 => wire'.frame = 4 /\ (group = "absent" => group' = "absent")
      /\ child.state # "live" /\ group = "absent" => group' = "absent"
  <2>1. CASE SupervisorSends
    BY <2>1 DEF SupervisorSends, Terminal, Inv, Typed, TypedWorld, WireType
  <2>2. CASE SupervisorCleans
    BY <2>2 DEF SupervisorCleans, Terminal, Inv, Typed, TypedWorld, WireType
  <2>3. CASE SupervisorEnds
    BY <2>3 DEF SupervisorEnds
  <2>4. CASE AnchorRemains
    BY <2>4 DEF AnchorRemains, Marks, MayMark, Terminal, Inv, Typed, TypedWorld, WireType
  <2>. QED BY <2>1, <2>2, <2>3, <2>4 DEF Environment
<1>3. Typed' /\ Program' /\ Slot'
  BY <1>1 DEF Inv, Typed, TypedWorld, Program, Slot, Retains, LocallyOwned
<1>4. Locked'
  BY <1>1 DEF Inv, Locked
<1>5. Released'
  <2>1. AllGone => AllGone'
    BY <1>2 DEF AllGone
  <2>. QED BY <1>1, <2>1 DEF Inv, Released, NoneOpen
<1>6. ClosedOnce' /\ OwnerKeepsItsHandles'
  BY <1>1 DEF Inv, ClosedOnce, OwnerKeepsItsHandles, LocallyOwned, Ahead
<1>7. Achieved'
  BY <1>1, <1>2 DEF Inv, Achieved, Retains, Ahead
<1>8. Cared'
  BY <1>1, <1>2 DEF Inv, Cared, Retains, LocallyOwned, StillAhead, Ahead, ChildIsOver
<1>. QED BY <1>3, <1>4, <1>5, <1>6, <1>7, <1>8 DEF Inv

-----------------------------------------------------------------------------
(* The invariant.                                                              *)
LEMMA InitEstablishes == Init => Inv
<1>. SUFFICES ASSUME Init
              PROVE  Inv
  OBVIOUS
<1>1. PICK s \in Drivers :
        run = [scenario |-> s, clause |-> "open", left |-> <<>>, known |-> FALSE, retained |-> FALSE]
  BY DEF Init
<1>2. run \in RunType /\ run.clause = "open" /\ run.left = <<>> /\ ~run.known
  <2>1. <<>> \in Seq(StepNames)
    OBVIOUS
  <2>. QED BY <1>1, <2>1 DEF RunType
<1>3. TypedWorld
  BY DEF Init, RetainedInit, TypedWorld, ChildType, WireType, HeldType, Handle, ArtifactsType,
         OwnerType, PcType, NoOwner
<1>4. Slot /\ Released /\ ClosedOnce
  BY <1>2 DEF Init, RetainedInit, Slot, Released, ClosedOnce, LocallyOwned, NoOwner, Threads
<1>5. Locked
  BY DEF Init, RetainedInit, Locked, Threads, RecoveryStages, ReleaseStages
<1>6. Program /\ Achieved /\ Cared /\ OwnerKeepsItsHandles
  BY <1>2 DEF Init, RetainedInit, Program, Achieved, Cared, OwnerKeepsItsHandles
<1>. QED BY <1>2, <1>3, <1>4, <1>5, <1>6 DEF Inv, Typed

LEMMA StutteringKeeps ==
  ASSUME Inv, UNCHANGED vars
  PROVE  Inv'
<1>1. UNCHANGED <<child, group, wire, journal, held, artifacts, entry, owner, lock, pc, run>>
  BY DEF vars, retainedVars, world, ownerVars
<1>2. Typed' /\ Program' /\ Slot'
  BY <1>1 DEF Inv, Typed, TypedWorld, Program, Slot, Retains, LocallyOwned
<1>3. Locked' /\ Released' /\ ClosedOnce'
  BY <1>1 DEF Inv, Locked, Released, ClosedOnce, AllGone, NoneOpen, LocallyOwned, Ahead
<1>4. Achieved' /\ Cared' /\ OwnerKeepsItsHandles'
  BY <1>1 DEF Inv, Achieved, Cared, OwnerKeepsItsHandles, ChildIsOver, StillAhead, Ahead, Retains,
             LocallyOwned
<1>. QED BY <1>2, <1>3, <1>4 DEF Inv

LEMMA StepKeeps ==
  ASSUME Inv, [Next]_vars
  PROVE  Inv'
<1>1. CASE DriverStep
  BY <1>1, AllocatesKeeps, SpawnsKeeps, ReceivesFrameKeeps, KnowsAnchorKeeps, RequestsKeeps,
     SendsKeeps, SendRaisesKeeps, ReceivesAckKeeps, ObservesKeeps, WaitsForChildKeeps,
     RunningGateFailsKeeps, AsksAnchorKeeps, AdvancesJournalKeeps, ReapsThroughJournalKeeps,
     DeletesKeeps, RecordsKeeps, TearsDownKeeps, PassesKeeps, KillsKeeps, WaitsUnknownKeeps,
     WaitsOrKeepsKeeps, TestReleaseKeeps, StartsReconcilingKeeps, ClosesKeeps,
     CancelsReservationKeeps, RemovesDirectoryKeeps
  DEF DriverStep
<1>2. CASE (\E t \in Threads : Recovery(t)) /\ UNCHANGED run
  BY <1>2, ReconcileKeeps, ReleaseKeeps DEF Recovery
<1>3. CASE (\E t \in Releasers : run.clause = "ended" /\ Begins(t)) /\ UNCHANGED run
  BY <1>3, BeginsKeeps
<1>. QED BY <1>1, <1>2, <1>3, OpensKeeps, RaisesKeeps, EnvironmentKeeps, StutteringKeeps DEF Next

(* The inductive invariant of the drivers, the owner they leave behind and the  *)
(* threads that release it, whatever step raises, exits or is overtaken.        *)
THEOREM InvHolds == FairSpec => []Inv
<1>1. Inv /\ [Next]_vars => Inv'
  BY StepKeeps
<1>. QED BY <1>1, InitEstablishes, PTL DEF FairSpec

(* The three parts of OwnersAreKeptUntilProved follow from the invariant.       *)
LEMMA InvSuffices ==
  ASSUME Inv
  PROVE  OwnersAreKeptUntilProved
<1>1. NothingIsForgotten
  <2>. SUFFICES ASSUME run.clause = "ended", run.scenario \notin Bootstrapping
                PROVE  child.state \in {"none", "reaped"} \/ entry = "owned" \/ artifacts.kept
    BY DEF NothingIsForgotten
  <2>1. CASE entry = "released"
    BY <2>1 DEF Inv, Released, AllGone
  <2>2. CASE entry # "released"
    BY <2>2 DEF Inv, Cared, StillAhead, LocallyOwned, ChildIsOver
  <2>. QED BY <2>1, <2>2
<1>2. ReleasedIsProved
  BY DEF Inv, ReleasedIsProved, Released, Slot, AllGone, NoneOpen
<1>3. ParentClosedOnce
  <2>1. owner.close = "AMBIGUOUS" => entry = "owned"
    BY DEF Inv, Slot, LocallyOwned, Typed, TypedWorld
  <2>. QED BY <2>1 DEF Inv, ClosedOnce, ParentClosedOnce
<1>. QED BY <1>1, <1>2, <1>3
  DEF Inv, OwnersAreKeptUntilProved, LeftoversAreRecoverable, ReleaseIsProvedAndOnce

(* What a driver leaves behind is known and can be recovered, and the release  *)
(* of an owner is proved and done once: for every set of drivers, every set of *)
(* releasing threads and any number of calls.                                  *)
THEOREM OwnersAreKept == FairSpec => []OwnersAreKeptUntilProved
<1>1. Inv => OwnersAreKeptUntilProved
  BY InvSuffices
<1>. QED BY <1>1, InvHolds, PTL

-----------------------------------------------------------------------------
(* Who appends UNCONFIRMED asks MayMark, which an admitted batch forbids.      *)
OnlyMarked == journal' = "UNCONFIRMED" /\ journal' # journal => journal # "BATCH_ACTIVE"

LEMMA DriverOnlyMarks ==
  ASSUME DriverStep
  PROVE  OnlyMarked
<1>1. CASE Allocates
  BY <1>1 DEF Allocates, OnlyMarked
<1>2. CASE AdvancesJournal
  BY <1>2 DEF AdvancesJournal, Retires, Retired, Replayed, Marks, MayMark, OnlyMarked
<1>3. CASE ReapsThroughJournal
  BY <1>3 DEF ReapsThroughJournal, OnlyMarked
<1>4. CASE Spawns \/ ReceivesFrame \/ KnowsAnchor \/ Requests \/ Sends \/ SendRaises \/ ReceivesAck
  BY <1>4 DEF Spawns, ReceivesFrame, KnowsAnchor, Requests, Sends, SendRaises, ReceivesAck, OnlyMarked
<1>5. CASE Observes \/ WaitsForChild \/ RunningGateFails \/ AsksAnchor \/ Deletes \/ Records \/ TearsDown
  BY <1>5 DEF Observes, WaitsForChild, RunningGateFails, AsksAnchor, Deletes, Records, TearsDown,
              OnlyMarked
<1>6. CASE Passes \/ Kills \/ WaitsUnknown \/ WaitsOrKeeps \/ TestRelease
  BY <1>6 DEF Passes, Kills, WaitsUnknown, WaitsOrKeeps, TestRelease, OnlyMarked
<1>7. CASE StartsReconciling \/ Closes \/ CancelsReservation \/ RemovesDirectory
  BY <1>7 DEF StartsReconciling, Closes, CancelsReservation, RemovesDirectory, OnlyMarked
<1>. QED BY <1>1, <1>2, <1>3, <1>4, <1>5, <1>6, <1>7 DEF DriverStep

LEMMA RecoveryOnlyMarks ==
  ASSUME NEW t, Recovery(t)
  PROVE  OnlyMarked
<1>1. CASE RecoversExit(t)
  BY <1>1 DEF RecoversExit, Retires, Retired, OnlyMarked
<1>2. CASE RecoversReap(t)
  BY <1>2 DEF RecoversReap, Replayed, OnlyMarked
<1>3. CASE EnsuresUnconfirmed(t)
  BY <1>3 DEF EnsuresUnconfirmed, Marks, MayMark, OnlyMarked
<1>4. CASE \/ LocksToReconcile(t) \/ ReconcileRaises(t) \/ CertifiesHead(t) \/ ScansRecord(t)
           \/ ObservesChild(t) \/ WaitsForExit(t) \/ Decides(t)
  BY <1>4 DEF LocksToReconcile, ReconcileRaises, CertifiesHead, ScansRecord, ObservesChild,
              WaitsForExit, Decides, OnlyMarked
<1>5. CASE Release(t)
  BY <1>5 DEF Release, LocksToRelease, Proves, ClosesHandles, ClosesParent, Removes, OnlyMarked
<1>. QED BY <1>1, <1>2, <1>3, <1>4, <1>5 DEF Recovery, Reconcile

LEMMA EnvironmentOnlyMarks ==
  ASSUME Environment
  PROVE  OnlyMarked
<1>1. CASE SupervisorSends
  BY <1>1 DEF SupervisorSends, OnlyMarked
<1>2. CASE SupervisorCleans
  BY <1>2 DEF SupervisorCleans, OnlyMarked
<1>3. CASE SupervisorEnds
  BY <1>3 DEF SupervisorEnds, OnlyMarked
<1>4. CASE AnchorRemains
  BY <1>4 DEF AnchorRemains, Marks, MayMark, OnlyMarked
<1>. QED BY <1>1, <1>2, <1>3, <1>4 DEF Environment

(* UNCONFIRMED is never appended over a batch of which a live supervisor holds *)
(* the authority, whoever appends it: a driver, a recovery or the anchor.      *)
THEOREM BatchIsNotOverwritten == FairSpec => NoTerminalDuringBatch
<1>1. ASSUME [Next]_vars
      PROVE  [journal = "BATCH_ACTIVE" /\ child.state = "live" => journal' # "UNCONFIRMED"]_retainedVars
  <2>1. CASE UNCHANGED vars
    BY <2>1 DEF vars
  <2>2. CASE Opens \/ Raises
    BY <2>2 DEF Opens, Raises
  <2>3. CASE DriverStep \/ (\E t \in Threads : Recovery(t)) \/ Environment
    BY <2>3, DriverOnlyMarks, RecoveryOnlyMarks, EnvironmentOnlyMarks DEF OnlyMarked
  <2>4. CASE \E t \in Releasers : Begins(t)
    BY <2>4 DEF Begins
  <2>. QED BY <1>1, <2>1, <2>2, <2>3, <2>4 DEF Next
<1>. QED BY <1>1, PTL DEF FairSpec, NoTerminalDuringBatch
=============================================================================
