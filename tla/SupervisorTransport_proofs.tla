---------------------- MODULE SupervisorTransport_proofs ----------------------
(***************************************************************************)
(* Machine-checked proofs about SupervisorLaunch and SupervisorTransport,  *)
(* for every set of writers, every capacity, and any number of probes,     *)
(* replacements of the CLI's file and calls.                               *)
(***************************************************************************)
EXTENDS SupervisorTransport, TLAPS

----------------------------------------------------------------------------
(* The invariants.                                                         *)

RunStages == {"idle", "spawn", "attach", "capture", "read", "finish", "reap", "clean",
              "term", "kill", "reapKilled", "close", "measured", "prepare", "failed"}

Steps == [at : RunStages, runs : Nat, threads : BOOLEAN, ok : BOOLEAN]
Owners == [entry : {"none", "reserved", "live", "reaped"}, handle : BOOLEAN,
           selector : BOOLEAN, disposition : {"pending", "closed", "ambiguous"}]
Children == [state : {"none", "running", "zombie", "reaped"}, group : BOOLEAN,
             pipes : BOOLEAN, stray : BOOLEAN]
Clis == [image : {"pinned", "other"}, ran : {"none", "pinned", "other"}, swaps : Nat]

LaunchTypes == step \in Steps /\ owner \in Owners /\ child \in Children /\ cli \in Clis

\* Where the reservation and the proof of the end of the group are needed.
EntryFollowsTheRun ==
  /\ step.at \in {"spawn", "attach"} => owner.entry = "reserved"
  /\ At("close") => owner.entry = "reaped"
  /\ child.state \in {"none", "reaped"} => ~child.group

ProbeInv == LaunchTypes /\ EntryFollowsTheRun /\ ProbeIsContained

TaskStages == {"idle", "waiting", "spawn", "handshake", "sending", "closing",
               "reconcile", "cleanup", "observe", "reap", "delete"}
States == {"none", "active", "discarded", "closing", "closed", "unconfirmed"}
Auths == [state : States, retained : BOOLEAN, process : BOOLEAN, stdin : BOOLEAN,
          stdout : BOOLEAN, ready : BOOLEAN, seen : BOOLEAN, buffered : Nat,
          discarded : Nat, receipt : BOOLEAN, flagged : BOOLEAN, broken : BOOLEAN]
Sups == [state : {"none", "running", "exited", "reaped"},
         stdin : {"none", "open", "closed"},
         stdout : {"none", "open", "closed", "unconfirmed"},
         runs : {"none", "pinned", "other"}, initialize : Nat, ended : BOOLEAN]
Journals == [kind : {"READY", "ACTIVE_READY", "BATCH_ACTIVE", "DONE", "UNCONFIRMED"},
             frames : Nat, deleted : BOOLEAN]

TransportTypes == auth \in Auths /\ sup \in Sups /\ journal \in Journals
LockTypes == pc \in [Tasks -> TaskStages] /\ queue \in Seq(Tasks)

\* The lock: a task is in its queue once, while it runs a method, and has it when
\* it does more than wait.
LockIsExclusive ==
  /\ \A i, j \in DOMAIN queue : queue[i] = queue[j] => i = j
  /\ \A t \in Tasks : pc[t] # "idle" <=> \E i \in DOMAIN queue : queue[i] = t
  /\ \A t \in Tasks : pc[t] \notin {"idle", "waiting"} => Holds(t)

\* Who has which stages, and what the authority is meanwhile.
Working(t) == pc[t] \notin {"idle", "waiting"}
StagesMatch ==
  /\ pc["close"] # "idle" => auth.state = "closing"
  /\ \A t \in Tasks : Working(t) => auth.state \in {"active", "closing"}
  /\ \A t \in Tasks : pc[t] = "sending" => t \in Writers
  /\ pc["close"] \in {"idle", "waiting", "reconcile", "cleanup", "observe", "reap",
                      "delete"}

\* The handshake: its frames need a process, the last of them the pinned CLI.
HandshakeIsCertified ==
  /\ pc["connect"] = "spawn" => journal.frames = 0 /\ auth.retained /\ ~auth.process
  /\ pc["connect"] = "handshake" \/ journal.frames > 0 =>
       auth.process \/ auth.state \in {"closed", "unconfirmed"}
  /\ pc["connect"] = "handshake" /\ journal.frames = 4 => sup.runs = "pinned"
  /\ auth.ready => auth.receipt
  /\ auth.receipt => sup.runs = "pinned"

\* The one message: sent by one writer, which has marked it as seen.
InitializeIsSentOnce ==
  /\ \A v, w \in Writers : pc[v] = "sending" /\ pc[w] = "sending" => v = w
  /\ \A w \in Writers : pc[w] = "sending" =>
       auth.seen /\ auth.receipt /\ sup.initialize = 0
  /\ sup.initialize > 0 => auth.seen /\ auth.receipt /\ sup.initialize = 1

\* What becomes of the supervisor.
CleanupIsInOrder ==
  /\ sup.state = "none" =>
       /\ sup.stdin = "none" /\ sup.stdout = "none" /\ ~auth.stdin /\ ~auth.stdout
       /\ pc["connect"] # "handshake" /\ pc["end"] # "closing"
  /\ sup.state = "reaped" =>
       auth.state \in {"closed", "unconfirmed"} \/ pc["close"] = "delete"
  /\ pc["close"] \in {"observe", "reap", "delete"} => journal.kind = "DONE"
  /\ pc["close"] = "delete" => sup.state = "reaped"
  /\ auth.state \in {"closing", "closed", "unconfirmed"} => auth.buffered = 0

----------------------------------------------------------------------------
(* The probe.                                                              *)

\* No probe has been run.
LEMMA ProbeInit == Init => ProbeInv
BY LaunchAssumption
   DEF Init, LaunchInit, NoOwner, NoChild, ProbeInv, LaunchTypes, RunStages, Steps,
       Owners, Children, Clis, EntryFollowsTheRun, ProbeIsContained,
       NothingLeftBehind, NoStraySignal, Unreaped, At

\* Every step of the probe, its child and the transport keeps ProbeInv.
LEMMA ProbeStep == ProbeInv /\ [Next]_vars => ProbeInv'
<1> SUFFICES ASSUME ProbeInv, [Next]_vars PROVE ProbeInv'
  OBVIOUS
<1> USE DEF ProbeInv, LaunchTypes, EntryFollowsTheRun, ProbeIsContained,
            NothingLeftBehind, NoStraySignal, Unreaped, At
<1>1. CASE ChildForks
  <2>1. step' \in Steps
    BY <1>1 DEF ChildForks, Steps, RunStages
  <2>2. owner' \in Owners /\ child' \in Children /\ cli' \in Clis
    BY <1>1 DEF ChildForks, Owners, Children, Clis
  <2>3. EntryFollowsTheRun' /\ ProbeIsContained'
    BY <1>1 DEF ChildForks, Steps, Owners, Children
  <2> QED
    BY <2>1, <2>2, <2>3
<1>2. CASE DescendantExits
  <2>1. step' \in Steps
    BY <1>2 DEF DescendantExits, Steps, RunStages
  <2>2. owner' \in Owners /\ child' \in Children /\ cli' \in Clis
    BY <1>2 DEF DescendantExits, Owners, Children, Clis
  <2>3. EntryFollowsTheRun' /\ ProbeIsContained'
    BY <1>2 DEF DescendantExits, Steps, Owners, Children
  <2> QED
    BY <2>1, <2>2, <2>3
<1>3. CASE ChildExits
  <2>1. step' \in Steps
    BY <1>3 DEF ChildExits, Steps, RunStages
  <2>2. owner' \in Owners /\ child' \in Children /\ cli' \in Clis
    BY <1>3 DEF ChildExits, Owners, Children, Clis
  <2>3. EntryFollowsTheRun' /\ ProbeIsContained'
    BY <1>3 DEF ChildExits, Steps, Owners, Children
  <2> QED
    BY <2>1, <2>2, <2>3
<1>4. CASE CliIsReplaced
  <2>1. step' \in Steps
    BY <1>4 DEF CliIsReplaced, Steps, RunStages
  <2>2. owner' \in Owners /\ child' \in Children /\ cli' \in Clis
    <3>1. PICK i \in {"pinned", "other"} :
            cli' = [cli EXCEPT !.swaps = cli.swaps + 1, !.image = i]
      BY <1>4 DEF CliIsReplaced, Clis
    <3>2. cli.swaps + 1 \in Nat
      BY DEF Clis
    <3>3. \A n \in Nat : cli' = [cli EXCEPT !.swaps = n, !.image = i] => cli' \in Clis
      BY DEF Clis
    <3>4. cli' \in Clis
      BY <3>1, <3>2, <3>3
    <3> QED
      BY <1>4, <3>4 DEF CliIsReplaced
  <2>3. EntryFollowsTheRun' /\ ProbeIsContained'
    BY <1>4 DEF CliIsReplaced, Steps, Owners, Children
  <2> QED
    BY <2>1, <2>2, <2>3
<1>5. CASE OtherCloses
  <2>1. step' \in Steps
    BY <1>5 DEF OtherCloses, Steps, RunStages
  <2>2. owner' \in Owners /\ child' \in Children /\ cli' \in Clis
    BY <1>5 DEF OtherCloses, Owners, Children, Clis
  <2>3. EntryFollowsTheRun' /\ ProbeIsContained'
    BY <1>5 DEF OtherCloses, Steps, Owners, Children
  <2> QED
    BY <2>1, <2>2, <2>3
<1>6. CASE Reserves
  <2>1. step' \in Steps
    <3>1. PICK t \in BOOLEAN : step' = [at |-> "spawn", runs |-> step.runs + 1,
                                       threads |-> t, ok |-> FALSE]
      BY <1>6 DEF Reserves
    <3> QED
      BY <3>1 DEF Steps, RunStages
  <2>2. owner' \in Owners /\ child' \in Children /\ cli' \in Clis
    BY <1>6 DEF Reserves, Owners, Children, Clis, NoOwner, NoChild
  <2>3. EntryFollowsTheRun' /\ ProbeIsContained'
    BY <1>6 DEF Reserves, Steps, Owners, Children, NoOwner, NoChild
  <2> QED
    BY <2>1, <2>2, <2>3
<1>7. CASE Spawns
  <2>1. step' \in Steps
    BY <1>7 DEF Spawns, Steps, RunStages, NoChild, Goes
  <2>2. owner' \in Owners /\ child' \in Children /\ cli' \in Clis
    BY <1>7 DEF Spawns, Owners, Children, Clis, NoChild, Goes
  <2>3. EntryFollowsTheRun' /\ ProbeIsContained'
    BY <1>7 DEF Spawns, Steps, Owners, Children, NoChild, Goes
  <2> QED
    BY <2>1, <2>2, <2>3
<1>8. CASE Attaches
  <2>1. step' \in Steps
    BY <1>8 DEF Attaches, Steps, RunStages, Goes
  <2>2. owner' \in Owners /\ child' \in Children /\ cli' \in Clis
    BY <1>8 DEF Attaches, Owners, Children, Clis, Goes
  <2>3. EntryFollowsTheRun' /\ ProbeIsContained'
    BY <1>8 DEF Attaches, Steps, Owners, Children, Goes
  <2> QED
    BY <2>1, <2>2, <2>3
<1>9. CASE Captures
  <2>1. step' \in Steps
    BY <1>9 DEF Captures, Steps, RunStages, Goes
  <2>2. owner' \in Owners /\ child' \in Children /\ cli' \in Clis
    BY <1>9 DEF Captures, Owners, Children, Clis, Goes
  <2>3. EntryFollowsTheRun' /\ ProbeIsContained'
    BY <1>9 DEF Captures, Steps, Owners, Children, Goes
  <2> QED
    BY <2>1, <2>2, <2>3
<1>10. CASE Reads
  <2>1. step' \in Steps
    BY <1>10 DEF Reads, Steps, RunStages, Goes
  <2>2. owner' \in Owners /\ child' \in Children /\ cli' \in Clis
    BY <1>10 DEF Reads, Owners, Children, Clis, Goes
  <2>3. EntryFollowsTheRun' /\ ProbeIsContained'
    BY <1>10 DEF Reads, Steps, Owners, Children, Goes
  <2> QED
    BY <2>1, <2>2, <2>3
<1>11. CASE Finishes
  <2>1. step' \in Steps
    BY <1>11 DEF Finishes, Steps, RunStages, Goes
  <2>2. owner' \in Owners /\ child' \in Children /\ cli' \in Clis
    BY <1>11 DEF Finishes, Owners, Children, Clis, Goes
  <2>3. EntryFollowsTheRun' /\ ProbeIsContained'
    BY <1>11 DEF Finishes, Steps, Owners, Children, Goes
  <2> QED
    BY <2>1, <2>2, <2>3
<1>12. CASE Reaps
  <2>1. step' \in Steps
    BY <1>12 DEF Reaps, Steps, RunStages, LiveAndOwned, GroupAbsent, Goes
  <2>2. owner' \in Owners /\ child' \in Children /\ cli' \in Clis
    BY <1>12 DEF Reaps, Owners, Children, Clis, LiveAndOwned,
           GroupAbsent, Goes
  <2>3. EntryFollowsTheRun' /\ ProbeIsContained'
    BY ZenonT(60), <1>12 DEF Reaps, Steps, Owners, Children, LiveAndOwned, GroupAbsent, Goes
  <2> QED
    BY <2>1, <2>2, <2>3
<1>13. CASE Cleans
  <2>1. step' \in Steps
    BY <1>13 DEF Cleans, Steps, RunStages, Signals, MaySignal, LiveAndOwned, Goes
  <2>2. owner' \in Owners /\ child' \in Children /\ cli' \in Clis
    BY <1>13 DEF Cleans, Owners, Children, Clis, Signals, MaySignal,
           LiveAndOwned, Goes
  <2>3. EntryFollowsTheRun' /\ ProbeIsContained'
    BY <1>13 DEF Cleans, Steps, Owners, Children, Signals, MaySignal,
           LiveAndOwned, Goes
  <2> QED
    BY <2>1, <2>2, <2>3
<1>14. CASE Terminates
  <2>1. step' \in Steps
    BY <1>14 DEF Terminates, Steps, RunStages, Signals, MaySignal, LiveAndOwned,
           Goes
  <2>2. owner' \in Owners /\ child' \in Children /\ cli' \in Clis
    BY <1>14 DEF Terminates, Owners, Children, Clis, Signals, MaySignal,
           LiveAndOwned, Goes
  <2>3. EntryFollowsTheRun' /\ ProbeIsContained'
    BY <1>14 DEF Terminates, Steps, Owners, Children, Signals, MaySignal,
           LiveAndOwned, Goes
  <2> QED
    BY <2>1, <2>2, <2>3
<1>15. CASE Kills
  <2>1. step' \in Steps
    BY <1>15 DEF Kills, Steps, RunStages, Goes
  <2>2. owner' \in Owners /\ child' \in Children /\ cli' \in Clis
    BY <1>15 DEF Kills, Owners, Children, Clis, Goes
  <2>3. EntryFollowsTheRun' /\ ProbeIsContained'
    BY <1>15 DEF Kills, Steps, Owners, Children, Goes
  <2> QED
    BY <2>1, <2>2, <2>3
<1>16. CASE ClosesResources
  <2>1. step' \in Steps
    BY <1>16 DEF ClosesResources, Steps, RunStages, NoOwner, Goes
  <2>2. owner' \in Owners /\ child' \in Children /\ cli' \in Clis
    <3>1. \E pipes \in BOOLEAN : child' = [child EXCEPT !.pipes = pipes]
      BY <1>16 DEF ClosesResources
    <3>2. child' \in Children
      BY <3>1 DEF Children
    <3>3. owner' \in Owners
      <4>1. \/ owner' = NoOwner
            \/ \E d \in {"closed", "ambiguous"} : owner' = [owner EXCEPT !.disposition = d]
        BY <1>16 DEF ClosesResources
      <4>2. NoOwner \in Owners
        BY DEF NoOwner, Owners
      <4>3. \A d \in {"closed", "ambiguous"} : [owner EXCEPT !.disposition = d] \in Owners
        BY DEF Owners
      <4> QED
        BY <4>1, <4>2, <4>3
    <3> QED
      BY <1>16, <3>2, <3>3 DEF ClosesResources
  <2>3. EntryFollowsTheRun' /\ ProbeIsContained'
    BY <1>16 DEF ClosesResources, Steps, Owners, Children, NoOwner, Goes
  <2> QED
    BY <2>1, <2>2, <2>3
<1>17. CASE Measures
  <2>1. step' \in Steps
    BY <1>17 DEF Measures, Steps, RunStages, Goes
  <2>2. owner' \in Owners /\ child' \in Children /\ cli' \in Clis
    BY <1>17 DEF Measures, Owners, Children, Clis, Goes
  <2>3. EntryFollowsTheRun' /\ ProbeIsContained'
    BY <1>17 DEF Measures, Steps, Owners, Children, Goes
  <2> QED
    BY <2>1, <2>2, <2>3
<1>18. CASE Prepares
  <2>1. step' \in Steps
    BY <1>18 DEF Prepares, Steps, RunStages, Goes
  <2>2. owner' \in Owners /\ child' \in Children /\ cli' \in Clis
    BY <1>18 DEF Prepares, Owners, Children, Clis, Goes
  <2>3. EntryFollowsTheRun' /\ ProbeIsContained'
    BY <1>18 DEF Prepares, Steps, Owners, Children, Goes
  <2> QED
    BY <2>1, <2>2, <2>3
<1>19. CASE UNCHANGED <<step, owner, child, cli>>
  BY <1>19
<1>20. TransportNext \/ UNCHANGED vars => UNCHANGED <<step, owner, child, cli>>
  BY Zenon DEF TransportNext, Creates, Claims, Discards, Enters, CancelledWaiting, Stays,
         launchVars, vars, StartsReading, StopsReading, BeginsClosing, Progress,
         Connects, SpawnsSupervisor, ExchangesFrame, HandshakeFails, HandshakeEnds,
         Refused, Writes, Sends, EndsInput, StdinIsClosed, Releases, ClosesPipes,
         ReconcilesFailedHandshake, ClosesRunningProcess, CliStarts,
         SupervisorAdvances, SupervisorExits
<1> QED
  BY <1>1, <1>2, <1>3, <1>4, <1>5, <1>6, <1>7, <1>8, <1>9, <1>10, <1>11, <1>12,
     <1>13,
     <1>14, <1>15, <1>16, <1>17, <1>18, <1>19, <1>20 DEF Next, LaunchNext, Environment

\* The version probe ends its own process group and no other, entirely, wherever the
\* thread that runs it fails or is interrupted, and however often it is run.
THEOREM ProbeContained == Spec => []ProbeIsContained
<1>1. ProbeInv => ProbeIsContained
  BY DEF ProbeInv
<1> QED
  BY ProbeInit, ProbeStep, <1>1, PTL DEF Spec

----------------------------------------------------------------------------
(* The lock.                                                               *)

\* What is left of a queue when the element at a place is taken out.
LEMMA RemoveAtFacts ==
  ASSUME NEW s \in Seq(Tasks), NEW i \in DOMAIN s
  PROVE  /\ RemoveAt(s, i) \in Seq(Tasks)
         /\ Len(RemoveAt(s, i)) = Len(s) - 1
         /\ \A j \in 1..(Len(s) - 1) :
              RemoveAt(s, i)[j] = IF j < i THEN s[j] ELSE s[j + 1]
<1> DEFINE a == SubSeq(s, 1, i - 1)
           b == SubSeq(s, i + 1, Len(s))
<1>0. i \in 1..Len(s) /\ Len(s) \in Nat
  OBVIOUS
<1>1. a \in Seq(Tasks) /\ b \in Seq(Tasks) /\ Len(a) = i - 1 /\ Len(b) = Len(s) - i
  BY <1>0
<1>2. \A j \in 1..(i - 1) : a[j] = s[j]
  BY <1>0
<1>3. \A j \in 1..(Len(s) - i) : b[j] = s[j + i]
  BY <1>0
<1>4. RemoveAt(s, i) = a \o b
  BY DEF RemoveAt
<1> HIDE DEF a, b
<1>5. RemoveAt(s, i) \in Seq(Tasks) /\ Len(RemoveAt(s, i)) = Len(s) - 1
  BY <1>0, <1>1, <1>4
<1>6. ASSUME NEW j \in 1..(Len(s) - 1)
      PROVE  RemoveAt(s, i)[j] = IF j < i THEN s[j] ELSE s[j + 1]
  <2>1. (a \o b)[j] = IF j <= Len(a) THEN a[j] ELSE b[j - Len(a)]
    BY <1>0, <1>1
  <2>2. CASE j < i
    BY <2>1, <2>2, <1>0, <1>1, <1>2, <1>4
  <2>3. CASE j >= i
    <3>1. j - Len(a) \in 1..(Len(s) - i) /\ (j - Len(a)) + i = j + 1
      BY <1>0, <1>1, <2>3
    <3> QED
      <4>1. b[j - Len(a)] = s[j + 1]
        BY <3>1, <1>3
      <4>2. ~(j <= Len(a)) /\ ~(j < i)
        BY <2>3, <1>0, <1>1
      <4> QED
        BY <4>1, <4>2, <2>1, <1>4
  <2> QED
    BY <2>2, <2>3, <1>0
<1> QED
  BY <1>5, <1>6

\* A task that leaves is in the queue no more; nobody else moves up past the holder.
LEMMA LockLeaves ==
  ASSUME NEW t \in Tasks, pc \in [Tasks -> TaskStages], queue \in Seq(Tasks),
         LockIsExclusive, Leaves(t)
  PROVE  pc' \in [Tasks -> TaskStages] /\ queue' \in Seq(Tasks) /\ LockIsExclusive'
<1>1. PICK i \in DOMAIN queue : queue[i] = t /\ queue' = RemoveAt(queue, i)
  BY DEF Leaves
<1>2. /\ queue' \in Seq(Tasks) /\ Len(queue') = Len(queue) - 1
      /\ \A j \in 1..(Len(queue) - 1) :
           queue'[j] = IF j < i THEN queue[j] ELSE queue[j + 1]
  BY <1>1, RemoveAtFacts
<1>3. DOMAIN queue = 1..Len(queue) /\ DOMAIN queue' = 1..(Len(queue) - 1)
      /\ Len(queue) \in Nat /\ i \in 1..Len(queue)
  BY <1>1, <1>2
<1>4. pc' \in [Tasks -> TaskStages] /\ pc'[t] = "idle"
      /\ \A u \in Tasks \ {t} : pc'[u] = pc[u]
  BY DEF Leaves, TaskStages
<1>5. \A j, k \in DOMAIN queue' : queue'[j] = queue'[k] => j = k
  <2> TAKE j, k \in DOMAIN queue'
  <2> DEFINE From(n) == IF n < i THEN n ELSE n + 1
  <2>1. /\ From(j) \in DOMAIN queue /\ From(k) \in DOMAIN queue
        /\ queue'[j] = queue[From(j)] /\ queue'[k] = queue[From(k)]
    BY <1>2, <1>3
  <2>2. From(j) = From(k) => j = k
    BY <1>3
  <2> HIDE DEF From
  <2>3. queue[From(j)] = queue[From(k)] => From(j) = From(k)
    BY <2>1 DEF LockIsExclusive
  <2>4. queue'[j] = queue'[k] => j = k
    BY <2>1, <2>2, <2>3
  <2> QED
    BY <2>4
<1>6. \A u \in Tasks : pc'[u] # "idle" <=> \E j \in DOMAIN queue' : queue'[j] = u
  <2> TAKE u \in Tasks
  <2>1. CASE u = t
    <3>1. ASSUME NEW j \in DOMAIN queue', queue'[j] = t PROVE FALSE
      <4>1. CASE j < i
        BY <3>1, <4>1, <1>1, <1>2, <1>3 DEF LockIsExclusive
      <4>2. CASE j >= i
        <5>1. j + 1 \in DOMAIN queue /\ queue[j + 1] = t
          BY <3>1, <4>2, <1>1, <1>2, <1>3
        <5> QED
          BY SMTT(60), <5>1, <4>2, <1>1, <1>2, <1>3 DEF LockIsExclusive
      <4> QED
        BY <4>1, <4>2, <1>1, <1>2, <1>3, <3>1
    <3> QED
      BY <2>1, <3>1, <1>4
  <2>2. CASE u # t
    <3>1. ASSUME NEW k \in DOMAIN queue, queue[k] = u
          PROVE  \E j \in DOMAIN queue' : queue'[j] = u
      <4>1. CASE k < i
        BY <3>1, <4>1, <1>1, <1>2, <1>3
      <4>2. CASE k > i
        <5>1. k - 1 \in DOMAIN queue' /\ queue'[k - 1] = u
          BY <3>1, <4>2, <1>1, <1>2, <1>3
        <5> QED
          BY <5>1
      <4> QED
        BY <4>1, <4>2, <3>1, <2>2, <1>1
    <3>2. ASSUME NEW j \in DOMAIN queue', queue'[j] = u
          PROVE  \E k \in DOMAIN queue : queue[k] = u
      BY SMTT(60), <3>2, <1>1, <1>2, <1>3
    <3> QED
      BY <2>2, <3>1, <3>2, <1>4 DEF LockIsExclusive
  <2> QED
    BY <2>1, <2>2
<1>7. \A u \in Tasks : pc'[u] \notin {"idle", "waiting"} => Holds(u)'
  BY <1>1, <1>2, <1>4 DEF LockIsExclusive, Holds
<1> QED
  BY <1>2, <1>4, <1>5, <1>6, <1>7 DEF LockIsExclusive

\* A task that calls a method waits at the end of the queue.
LEMMA LockEnters ==
  ASSUME NEW t \in Tasks, pc \in [Tasks -> TaskStages], queue \in Seq(Tasks),
         LockIsExclusive, pc[t] = "idle", queue' = Append(queue, t), Moves(t, "waiting")
  PROVE  pc' \in [Tasks -> TaskStages] /\ queue' \in Seq(Tasks) /\ LockIsExclusive'
<1>1. /\ queue' \in Seq(Tasks) /\ Len(queue') = Len(queue) + 1
      /\ queue'[Len(queue) + 1] = t /\ \A j \in DOMAIN queue : queue'[j] = queue[j]
  OBVIOUS
<1>2. pc' \in [Tasks -> TaskStages] /\ pc'[t] = "waiting"
      /\ \A u \in Tasks \ {t} : pc'[u] = pc[u]
  BY DEF Moves, TaskStages
<1>3. \A j, k \in DOMAIN queue' : queue'[j] = queue'[k] => j = k
  BY <1>1 DEF LockIsExclusive
<1>4. \A u \in Tasks : pc'[u] # "idle" <=> \E j \in DOMAIN queue' : queue'[j] = u
  BY <1>1, <1>2 DEF LockIsExclusive
<1>5. \A u \in Tasks : pc'[u] \notin {"idle", "waiting"} => Holds(u)'
  BY <1>1, <1>2 DEF LockIsExclusive, Holds
<1> QED
  BY <1>1, <1>2, <1>3, <1>4, <1>5 DEF LockIsExclusive

\* The holder may go on.
LEMMA LockMoves ==
  ASSUME NEW t \in Tasks, NEW stage \in TaskStages, pc \in [Tasks -> TaskStages],
         LockIsExclusive, Holds(t), pc[t] # "idle", stage # "idle",
         Moves(t, stage), queue' = queue
  PROVE  pc' \in [Tasks -> TaskStages] /\ LockIsExclusive'
BY DEF LockIsExclusive, Holds, Moves

\* A step that does not touch the lock keeps what is said of it.
LEMMA LockStays ==
  ASSUME LockIsExclusive, UNCHANGED <<pc, queue>> PROVE LockIsExclusive'
BY DEF LockIsExclusive, Holds

\* Two tasks never work at a time.
LEMMA OneWorks ==
  ASSUME LockIsExclusive, NEW t \in Tasks, NEW u \in Tasks, Working(t), Working(u)
  PROVE  t = u
BY DEF LockIsExclusive, Working, Holds

\* The tasks by their names.
LEMMA TaskNames ==
  /\ {"connect", "end", "release", "close"} \subseteq Tasks /\ Writers \subseteq Tasks
  /\ \A w \in Writers : w \notin {"connect", "end", "release", "close"}
BY TransportAssumption DEF Tasks

\* The lock is handed on in order, whoever is cancelled, refused or finished.
LEMMA LockStep ==
  ASSUME LockTypes, LockIsExclusive, [Next]_vars
  PROVE  LockTypes' /\ LockIsExclusive'
<1>1. ASSUME NEW t \in Tasks, Leaves(t) PROVE LockTypes' /\ LockIsExclusive'
  BY <1>1, LockLeaves DEF LockTypes
<1>2. ASSUME NEW t \in Tasks, NEW stage \in TaskStages \ {"idle"}, Holds(t),
             pc[t] # "idle", Moves(t, stage), queue' = queue
      PROVE  LockTypes' /\ LockIsExclusive'
  BY <1>2, LockMoves DEF LockTypes
<1>3. ASSUME NEW t \in Tasks, pc[t] = "idle", queue' = Append(queue, t),
             Moves(t, "waiting")
      PROVE  LockTypes' /\ LockIsExclusive'
  BY <1>3, LockEnters DEF LockTypes
<1>4. ASSUME pc' = pc, queue' = queue PROVE LockTypes' /\ LockIsExclusive'
  BY <1>4, LockStays DEF LockTypes
<1>5. ASSUME NEW t \in Tasks, pc[t] \notin {"idle", "waiting"}
      PROVE  Holds(t)
  BY <1>5 DEF LockIsExclusive
<1> USE TaskNames DEF TaskStages
<1>6. CASE UNCHANGED vars \/ UNCHANGED transportVars
  BY <1>4, <1>6 DEF vars, transportVars
<1>7. CASE \E t \in Tasks : Enters(t) \/ CancelledWaiting(t)
  BY <1>1, <1>3, <1>7 DEF Enters, CancelledWaiting
<1>8. CASE \E t \in Tasks : Refused(t)
  BY <1>1, <1>8 DEF Refused
<1>9. CASE BeginsClosing
  BY <1>3, <1>9 DEF BeginsClosing
<1>10. CASE Creates \/ Discards \/ StartsReading \/ StopsReading \/ CliStarts
            \/ SupervisorAdvances \/ SupervisorExits
  BY <1>4, <1>10 DEF Creates, Discards, StartsReading, StopsReading, CliStarts,
     SupervisorAdvances, SupervisorExits
<1>11. CASE Connects
  BY <1>1, <1>2, <1>11 DEF Connects, Admitted
<1>12. CASE SpawnsSupervisor
  BY <1>1, <1>2, <1>5, <1>12 DEF SpawnsSupervisor
<1>13. CASE ExchangesFrame \/ HandshakeFails \/ HandshakeEnds
  BY <1>1, <1>4, <1>13 DEF ExchangesFrame, HandshakeFails, HandshakeEnds
<1>14. CASE \E w \in Writers : Writes(w) \/ Sends(w)
  BY <1>1, <1>2, <1>14 DEF Writes, Sends, Admitted
<1>15. CASE EndsInput \/ StdinIsClosed \/ Releases
  BY <1>1, <1>2, <1>15 DEF EndsInput, StdinIsClosed, Releases, Admitted
<1>16. CASE ClosesPipes
  BY <1>1, <1>2, <1>16 DEF ClosesPipes
<1>17. CASE ReconcilesFailedHandshake
  BY <1>1, <1>17 DEF ReconcilesFailedHandshake, EndsClosing
<1>18. CASE ClosesRunningProcess
  BY <1>1, <1>2, <1>5, <1>18 DEF ClosesRunningProcess, EndsClosing
<1> QED
  BY <1>6, <1>7, <1>8, <1>9, <1>10, <1>11, <1>12, <1>13, <1>14, <1>15, <1>16,
     <1>17, <1>18
  DEF Next, TransportNext, Progress

----------------------------------------------------------------------------
(* The transport.                                                          *)

\* What the methods make of the authority is an authority.
LEMMA AuthUpdates ==
  ASSUME NEW a \in Auths
  PROVE  /\ Retained(a) \in Auths /\ Burned(a) \in Auths
         /\ GivesUp(a) \in Auths /\ ForgetsProcess(a) \in Auths
         /\ [a EXCEPT !.state = "closed", !.retained = FALSE] \in Auths
         /\ [a EXCEPT !.buffered = @ + 1] \in Auths
         /\ [a EXCEPT !.discarded = @ + a.buffered, !.buffered = 0] \in Auths
         /\ \A b, c \in BOOLEAN : [a EXCEPT !.stdout = b, !.broken = c] \in Auths
<1>1. Retained(a) \in Auths /\ GivesUp(a) \in Auths /\ ForgetsProcess(a) \in Auths
  BY DEF Retained, GivesUp, ForgetsProcess, Auths, States
<1>2. [a EXCEPT !.state = "closed", !.retained = FALSE] \in Auths
  BY DEF Auths, States
<1>3. /\ a.buffered + 1 \in Nat /\ a.discarded + a.buffered \in Nat
      /\ Retained(a).discarded = a.discarded
  BY DEF Auths, Retained
<1>4. \A n \in Nat : [a EXCEPT !.buffered = n] \in Auths
  BY DEF Auths
<1>5. \A n \in Nat : [a EXCEPT !.discarded = n, !.buffered = 0] \in Auths
  BY DEF Auths
<1>6. \A r \in Auths : \A n \in Nat :
        [r EXCEPT !.state = "closing", !.ready = FALSE,
                  !.discarded = n, !.buffered = 0] \in Auths
  BY DEF Auths, States
<1>7. Burned(a) \in Auths
  BY <1>1, <1>3, <1>6 DEF Burned
<1>8. \A b, c \in BOOLEAN : [a EXCEPT !.stdout = b, !.broken = c] \in Auths
  BY DEF Auths
<1> QED
  BY <1>1, <1>2, <1>3, <1>4, <1>5, <1>7, <1>8

\* The records of the transport keep their fields and ranges.
LEMMA TypesStep ==
  ASSUME LaunchTypes, TransportTypes, [Next]_vars
  PROVE  TransportTypes'
<1> USE DEF TransportTypes
<1>1. CASE Creates
  <2>1. auth' \in Auths
    BY <1>1 DEF Creates, Auths, States
  <2> QED
    BY <1>1, <2>1 DEF Creates
<1>2. CASE Discards
  <2>1. auth' \in Auths
    BY <1>2 DEF Discards, Auths, States
  <2> QED
    BY <1>2, <2>1 DEF Discards
<1>3. CASE Connects
  <2>1. auth' \in Auths
    BY <1>3 DEF Connects, Auths, States, Retained
  <2> QED
    BY <1>3, <2>1 DEF Connects
<1>4. CASE SpawnsSupervisor
  <2>1. auth' \in Auths
    BY <1>4 DEF SpawnsSupervisor, Auths, States
  <2>2. sup' \in Sups
    BY <1>4 DEF SpawnsSupervisor, Sups
  <2> QED
    BY <1>4, <2>1, <2>2 DEF SpawnsSupervisor
<1>5. CASE ExchangesFrame
  <2>1. auth' \in Auths
    BY <1>5 DEF ExchangesFrame, Auths, States
  <2>2. journal' \in Journals
    BY <1>5 DEF ExchangesFrame, Journals
  <2> QED
    BY <1>5, <2>1, <2>2 DEF ExchangesFrame
<1>6. CASE CliStarts
  <2>1. sup' \in Sups
    BY <1>6 DEF CliStarts, Sups, LaunchTypes, Clis
  <2> QED
    BY <1>6, <2>1 DEF CliStarts
<1>7. CASE HandshakeFails
  <2>1. auth' \in Auths
    BY <1>7 DEF HandshakeFails, Auths, States
  <2> QED
    BY <1>7, <2>1 DEF HandshakeFails
<1>8. CASE HandshakeEnds
  <2>1. auth' \in Auths
    BY <1>8 DEF HandshakeEnds, Auths, States
  <2> QED
    BY <1>8, <2>1 DEF HandshakeEnds
<1>9. CASE \E w \in Writers : Writes(w)
  <2>1. auth' \in Auths
    <3>1. [auth EXCEPT !.seen = TRUE] \in Auths
      BY DEF Auths
    <3> QED
      BY Zenon, <1>9, <3>1, AuthUpdates DEF Writes
  <2> QED
    BY <1>9, <2>1 DEF Writes
<1>10. CASE \E w \in Writers : Sends(w)
  <2>1. sup' \in Sups
    BY <1>10 DEF Sends, Sups
  <2> QED
    BY <1>10, <2>1 DEF Sends
<1>11. CASE EndsInput
  BY <1>11 DEF EndsInput
<1>12. CASE StdinIsClosed
  <2>1. auth' \in Auths
    BY ZenonT(60), <1>12 DEF StdinIsClosed, Auths, States
  <2>2. sup' \in Sups
    BY <1>12 DEF StdinIsClosed, Sups
  <2> QED
    BY <1>12, <2>1, <2>2 DEF StdinIsClosed
<1>13. CASE Releases
  <2>1. auth' \in Auths
    BY Zenon, <1>13, AuthUpdates DEF Releases
  <2> QED
    BY <1>13, <2>1 DEF Releases
<1>14. CASE BeginsClosing
  <2>1. auth' \in Auths
    <3>1. Burned(auth) \in Auths
      BY Zenon, AuthUpdates
    <3>2. \E b, c \in BOOLEAN : auth' = [Burned(auth) EXCEPT !.stdout = b, !.broken = c]
      <4>1. Burned(auth).stdout \in BOOLEAN /\ auth.stdout \in BOOLEAN
        BY <3>1 DEF Auths
      <4> QED
        BY <1>14, <4>1 DEF BeginsClosing
    <3> QED
      BY Zenon, <3>1, <3>2, AuthUpdates
  <2>2. sup' \in Sups
    BY <1>14 DEF BeginsClosing, Sups, Burned, Retained, StdoutClosed
  <2> QED
    BY <1>14, <2>1, <2>2 DEF BeginsClosing
<1>15. CASE ClosesPipes
  <2>1. auth' \in Auths
    BY ZenonT(60), <1>15 DEF ClosesPipes, Auths, States, StdoutClosed, StdinClosed, GivesUp
  <2>2. sup' \in Sups
    BY Zenon, <1>15 DEF ClosesPipes, Sups, StdoutClosed, StdinClosed, GivesUp
  <2> QED
    BY <1>15, <2>1, <2>2 DEF ClosesPipes
<1>16. CASE ReconcilesFailedHandshake
  <2>1. auth' \in Auths
    BY ZenonT(60), <1>16, AuthUpdates DEF ReconcilesFailedHandshake, EndsClosing
  <2>2. sup' \in Sups
    BY <1>16 DEF ReconcilesFailedHandshake, Sups, EndsClosing, GivesUp,
       ForgetsProcess, Reconciled
  <2>3. journal' \in Journals
    BY <1>16 DEF ReconcilesFailedHandshake, Journals, EndsClosing, GivesUp,
       ForgetsProcess, Reconciled
  <2> QED
    BY <1>16, <2>1, <2>2, <2>3 DEF ReconcilesFailedHandshake
<1>17. CASE ClosesRunningProcess
  <2>1. auth' \in Auths
    <3>1. \/ auth' = auth
          \/ \E a \in {auth, ForgetsProcess(auth)} :
               \/ auth' = GivesUp(a)
               \/ auth' = [a EXCEPT !.state = "closed", !.retained = FALSE]
      BY <1>17 DEF ClosesRunningProcess, EndsClosing
    <3> QED
      BY Zenon, <3>1, AuthUpdates
  <2>2. sup' \in Sups
    BY <1>17 DEF ClosesRunningProcess, Sups, EndsClosing, GivesUp, ForgetsProcess
  <2>3. journal' \in Journals
    BY <1>17 DEF ClosesRunningProcess, Journals, EndsClosing, GivesUp, ForgetsProcess
  <2> QED
    BY <1>17, <2>1, <2>2, <2>3 DEF ClosesRunningProcess
<1>18. CASE SupervisorAdvances
  <2>1. journal' \in Journals
    BY <1>18 DEF SupervisorAdvances, Journals, SupervisorKinds
  <2> QED
    BY <1>18, <2>1 DEF SupervisorAdvances
<1>19. CASE SupervisorExits
  <2>1. sup' \in Sups
    BY <1>19 DEF SupervisorExits, Sups
  <2> QED
    BY <1>19, <2>1 DEF SupervisorExits
<1>20. CASE UNCHANGED <<auth, sup, journal>>
  BY <1>20
<1> QED
  BY <1>1, <1>2, <1>3, <1>4, <1>5, <1>6, <1>7, <1>8, <1>9, <1>10, <1>11, <1>12,
     <1>13, <1>14, <1>15, <1>16, <1>17, <1>18, <1>19, <1>20 DEF Next,
     TransportNext, Progress, Enters, CancelledWaiting,
     Refused, StartsReading, StopsReading, transportVars, vars

----------------------------------------------------------------------------
(* The invariant of the transport.                                         *)

IInv ==
  /\ LaunchTypes /\ TransportTypes /\ LockTypes /\ LockIsExclusive
  /\ StagesMatch /\ HandshakeIsCertified /\ InitializeIsSentOnce
  /\ CleanupIsInOrder /\ SupervisorIsOwned

\* Who works has the lock, and nobody works beside it.
LEMMA OneHolds ==
  ASSUME LockIsExclusive, NEW t \in Tasks, NEW u \in Tasks, Holds(t), Working(u)
  PROVE  t = u
BY DEF LockIsExclusive, Working, Holds

\* A step that only lets tasks wait or leave keeps what is said of their work.
Quiet ==
  /\ UNCHANGED <<auth, sup, journal>> /\ pc'["close"] = pc["close"]
  /\ \A t \in Tasks : pc'[t] = pc[t] \/ pc'[t] \in {"idle", "waiting"}

\* Who asks for the lock, is cancelled or is refused, and the reader, are quiet.
LEMMA QuietSteps ==
  ASSUME LockTypes,
         \/ \E t \in Tasks : Enters(t) \/ CancelledWaiting(t) \/ Refused(t)
         \/ StartsReading \/ StopsReading \/ UNCHANGED transportVars
  PROVE  Quiet
<1> USE TaskNames DEF Quiet, LockTypes
<1>1. CASE \E t \in Tasks : Enters(t)
  BY <1>1 DEF Enters, Moves
<1>2. CASE \E t \in Tasks : CancelledWaiting(t) \/ Refused(t)
  BY <1>2 DEF CancelledWaiting, Refused, Leaves
<1>3. CASE StartsReading \/ StopsReading \/ UNCHANGED transportVars
  BY <1>3 DEF StartsReading, StopsReading, transportVars
<1> QED
  BY <1>1, <1>2, <1>3

\* What close() keeps of the authority at every step.
CloseKeeps ==
  /\ auth'.receipt = auth.receipt /\ auth'.ready = auth.ready
  /\ auth'.seen = auth.seen /\ auth'.buffered = auth.buffered
  /\ sup'.runs = sup.runs /\ sup'.initialize = sup.initialize
  /\ journal'.frames = journal.frames
  /\ \A t \in Tasks \ {"close"} : ~Working(t) /\ pc'[t] = pc[t]

\* A close that gives up changes the state of the authority only.
LEMMA AuthFields ==
  ASSUME NEW a \in Auths
  PROVE  /\ GivesUp(a).state = "unconfirmed" /\ GivesUp(a).process = a.process
         /\ GivesUp(a).retained = a.retained /\ GivesUp(a).receipt = a.receipt
         /\ GivesUp(a).ready = a.ready /\ GivesUp(a).seen = a.seen
         /\ GivesUp(a).buffered = a.buffered /\ GivesUp(a).stdin = a.stdin
         /\ GivesUp(a).stdout = a.stdout
BY DEF GivesUp, Auths

\* A process that is forgotten takes its pipes with it, and nothing else.
LEMMA ForgottenFields ==
  ASSUME NEW a \in Auths
  PROVE  /\ ForgetsProcess(a) \in Auths /\ ~ForgetsProcess(a).process
         /\ ForgetsProcess(a).retained = a.retained
         /\ ForgetsProcess(a).receipt = a.receipt /\ ForgetsProcess(a).ready = a.ready
         /\ ForgetsProcess(a).seen = a.seen /\ ForgetsProcess(a).buffered = a.buffered
<1>1. ForgetsProcess(a) \in Auths
  BY Zenon, AuthUpdates
<1> QED
  BY <1>1 DEF ForgetsProcess, Auths

\* close() has closed the pipes, and goes on to the process, or gives up.
LEMMA PipesClosed ==
  ASSUME IInv, ClosesPipes
  PROVE  /\ CloseKeeps /\ UNCHANGED journal /\ sup'.state = sup.state
         /\ auth'.process = auth.process /\ auth'.retained = auth.retained
         /\ ~auth.stdin => ~auth'.stdin /\ sup'.stdin = sup.stdin
         /\ ~auth.stdout => ~auth'.stdout /\ sup'.stdout = sup.stdout
         /\ auth.state = "closing" /\ pc["close"] = "waiting"
         /\ \/ pc'["close"] = "idle" /\ auth'.state = "unconfirmed"
            \/ pc'["close"] \in {"cleanup", "reconcile"} /\ auth'.state = "closing"
<1> USE TaskNames DEF IInv, TransportTypes, LockTypes
<1>1. \A t \in Tasks \ {"close"} : ~Working(t) /\ pc'[t] = pc[t]
  BY OneHolds DEF ClosesPipes, Moves, Leaves
<1>2. /\ auth.state = "closing" /\ pc["close"] = "waiting"
      /\ UNCHANGED journal /\ auth \in Auths /\ sup \in Sups
  BY DEF ClosesPipes, StagesMatch
<1>3. CASE auth' = GivesUp(auth) /\ Leaves("close") /\ sup' = sup
  BY <1>1, <1>2, <1>3, AuthFields DEF CloseKeeps, Leaves
<1>4. CASE auth' = GivesUp(auth) /\ Leaves("close") /\ auth.stdout /\ sup' = StdoutClosed(FALSE)
  BY <1>1, <1>2, <1>4, AuthFields DEF CloseKeeps, Leaves, StdoutClosed, Sups
<1>5. ASSUME NEW c \in BOOLEAN,
             sup' = [StdoutClosed(TRUE) EXCEPT !.stdin = IF auth.stdin /\ c THEN "closed" ELSE @],
             auth' = [StdinClosed(auth, c) EXCEPT !.stdout = FALSE],
             NEW next \in {"cleanup", "reconcile"}, Moves("close", next)
      PROVE  /\ CloseKeeps /\ sup'.state = sup.state
             /\ auth'.process = auth.process /\ auth'.retained = auth.retained
             /\ ~auth.stdin => ~auth'.stdin /\ sup'.stdin = sup.stdin
             /\ ~auth.stdout => ~auth'.stdout /\ sup'.stdout = sup.stdout
             /\ pc'["close"] \in {"cleanup", "reconcile"} /\ auth'.state = "closing"
  <2>1. /\ sup'.state = sup.state /\ sup'.runs = sup.runs
        /\ sup'.initialize = sup.initialize
        /\ ~auth.stdin => sup'.stdin = sup.stdin
        /\ ~auth.stdout => sup'.stdout = sup.stdout
    BY <1>2, <1>5 DEF StdoutClosed, Sups
  <2>2. /\ auth'.process = auth.process /\ auth'.retained = auth.retained
        /\ auth'.receipt = auth.receipt /\ auth'.ready = auth.ready
        /\ auth'.seen = auth.seen /\ auth'.buffered = auth.buffered
        /\ auth'.state = auth.state /\ ~auth'.stdout
        /\ ~auth.stdin => ~auth'.stdin
    BY <1>2, <1>5 DEF StdinClosed, Auths
  <2> QED
    BY <1>1, <1>2, <1>5, <2>1, <2>2 DEF CloseKeeps, Moves
<1> QED
  BY <1>2, <1>3, <1>4, <1>5 DEF ClosesPipes

\* Without a receipt, close() only lets a launch go that never had a process.
LEMMA Reconciles ==
  ASSUME IInv, ReconcilesFailedHandshake
  PROVE  /\ CloseKeeps /\ pc["close"] = "reconcile" /\ pc'["close"] = "idle"
         /\ auth.state = "closing" /\ auth'.state \in {"closed", "unconfirmed"}
         /\ auth'.state = "closed" => /\ ~auth.process /\ ~auth'.process
                                     /\ ~auth'.retained /\ sup' = sup
         /\ auth'.state = "unconfirmed" => auth'.retained = auth.retained
         /\ \/ UNCHANGED <<sup, journal>> /\ auth'.process = auth.process
               /\ auth'.stdin = auth.stdin /\ auth'.stdout = auth.stdout
            \/ sup'.state = "reaped" /\ auth'.state = "unconfirmed"
<1> USE TaskNames DEF IInv, TransportTypes, LockTypes
<1>1. /\ \A t \in Tasks \ {"close"} : ~Working(t) /\ pc'[t] = pc[t]
      /\ pc["close"] = "reconcile" /\ pc'["close"] = "idle"
  BY OneWorks DEF ReconcilesFailedHandshake, EndsClosing, Leaves, Working
<1>2. auth.state = "closing" /\ auth \in Auths /\ sup \in Sups /\ journal \in Journals
  BY <1>1 DEF StagesMatch
<1>3. CASE ~auth.process /\ EndsClosing(TRUE, auth) /\ UNCHANGED <<sup, journal>>
  <2>1. auth' = GivesUp(auth) \/ auth' = [auth EXCEPT !.state = "closed", !.retained = FALSE]
    BY <1>3 DEF EndsClosing
  <2>2. CASE auth' = GivesUp(auth)
    BY <1>1, <1>2, <1>3, <2>2, AuthFields DEF CloseKeeps
  <2>3. CASE auth' = [auth EXCEPT !.state = "closed", !.retained = FALSE]
    BY <1>1, <1>2, <1>3, <2>3 DEF CloseKeeps, Auths
  <2> QED
    BY <2>1, <2>2, <2>3
<1>4. CASE auth.process /\ EndsClosing(FALSE, auth) /\ UNCHANGED <<sup, journal>>
  <2>1. auth' = GivesUp(auth)
    BY <1>4 DEF EndsClosing
  <2> QED
    BY <1>1, <1>2, <1>4, <2>1, AuthFields DEF CloseKeeps
<1>5. CASE /\ auth.process /\ \E kind \in Reconciled : journal' = [journal EXCEPT !.kind = kind]
           /\ \/ sup' = [sup EXCEPT !.state = "reaped", !.stdin = "closed",
                                    !.stdout = "closed"]
              \/ sup' = [sup EXCEPT !.state = "reaped"]
           /\ EndsClosing(FALSE, ForgetsProcess(auth)) \/ EndsClosing(FALSE, auth)
  <2>1. auth' = GivesUp(ForgetsProcess(auth)) \/ auth' = GivesUp(auth)
    BY <1>5 DEF EndsClosing
  <2>2. /\ sup'.state = "reaped" /\ sup'.runs = sup.runs
        /\ sup'.initialize = sup.initialize
    BY <1>2, <1>5 DEF Sups
  <2>3. journal'.frames = journal.frames
    BY <1>2, <1>5 DEF Journals
  <2>4. auth'.state = "unconfirmed" /\ auth'.retained = auth.retained
        /\ auth'.receipt = auth.receipt /\ auth'.ready = auth.ready
        /\ auth'.seen = auth.seen /\ auth'.buffered = auth.buffered
    BY <1>2, <2>1, AuthFields, ForgottenFields
  <2> QED
    BY <1>1, <1>2, <2>2, <2>3, <2>4 DEF CloseKeeps
<1> QED
  BY <1>3, <1>4, <1>5 DEF ReconcilesFailedHandshake

\* With a receipt, close() lets the supervisor go when it is reaped, its journal is
\* deleted and it is forgotten; it goes from one step of the cleanup to the next, or
\* gives up.
LEMMA RunningProcessClosed ==
  ASSUME IInv, ClosesRunningProcess
  PROVE  /\ CloseKeeps /\ auth.state = "closing" /\ journal'.kind = journal.kind
         /\ \/ /\ pc["close"] = "cleanup" /\ pc'["close"] = "observe"
               /\ journal.kind = "DONE" /\ UNCHANGED <<auth, sup, journal>>
            \/ /\ pc["close"] = "observe" /\ pc'["close"] = "reap"
               /\ sup.state = "exited" /\ UNCHANGED <<auth, sup, journal>>
            \/ /\ pc["close"] = "reap" /\ pc'["close"] = "delete"
               /\ sup' = [sup EXCEPT !.state = "reaped"] /\ UNCHANGED <<auth, journal>>
            \/ /\ pc["close"] = "delete" /\ pc'["close"] = "idle"
               /\ sup'.state = sup.state /\ ~auth'.process
               /\ \/ auth'.state = "unconfirmed"
                  \/ /\ auth'.state = "closed" /\ ~auth'.retained /\ journal'.deleted
                     /\ sup'.stdin = "closed" /\ sup'.stdout = "closed"
            \/ /\ pc'["close"] = "idle" /\ auth'.state = "unconfirmed" /\ sup' = sup
               /\ auth'.retained = auth.retained /\ auth'.process = auth.process
               /\ auth'.stdin = auth.stdin /\ auth'.stdout = auth.stdout
<1> USE TaskNames DEF IInv, TransportTypes, LockTypes
<1>1. \A t \in Tasks \ {"close"} : ~Working(t) /\ pc'[t] = pc[t]
  BY OneWorks DEF ClosesRunningProcess, EndsClosing, Leaves, Moves, Working
<1>2. auth.state = "closing" /\ auth \in Auths /\ sup \in Sups /\ journal \in Journals
  BY DEF StagesMatch, ClosesRunningProcess
<1>3. ASSUME NEW next \in TaskStages, Moves("close", next), UNCHANGED <<auth, sup, journal>>
      PROVE  CloseKeeps /\ pc'["close"] = next
  BY <1>1, <1>3 DEF CloseKeeps, Moves
<1>4. CASE /\ pc["close"] = "cleanup" /\ journal.kind = "DONE"
           /\ Moves("close", "observe") /\ UNCHANGED <<auth, sup, journal>>
  BY <1>2, <1>3, <1>4 DEF TaskStages
<1>5. CASE /\ pc["close"] = "observe" /\ Reapable
           /\ Moves("close", "reap") /\ UNCHANGED <<auth, sup, journal>>
  BY <1>2, <1>3, <1>5 DEF TaskStages, Reapable
<1>6. CASE /\ pc["close"] = "reap" /\ sup' = [sup EXCEPT !.state = "reaped"]
           /\ Moves("close", "delete") /\ UNCHANGED <<auth, journal>>
  BY <1>1, <1>2, <1>6 DEF CloseKeeps, Moves, Sups
<1>7. CASE /\ pc["close"] = "delete" /\ journal' = [journal EXCEPT !.deleted = TRUE]
           /\ sup' = [sup EXCEPT !.stdin = "closed", !.stdout = "closed"]
           /\ EndsClosing(TRUE, ForgetsProcess(auth))
  <2>1. \/ auth' = GivesUp(ForgetsProcess(auth))
        \/ auth' = [ForgetsProcess(auth) EXCEPT !.state = "closed", !.retained = FALSE]
    BY <1>7 DEF EndsClosing
  <2>2. /\ auth'.receipt = auth.receipt /\ auth'.ready = auth.ready
        /\ auth'.seen = auth.seen /\ auth'.buffered = auth.buffered /\ ~auth'.process
        /\ \/ auth'.state = "unconfirmed"
           \/ auth'.state = "closed" /\ ~auth'.retained
    <3>1. CASE auth' = GivesUp(ForgetsProcess(auth))
      BY <1>2, <3>1, AuthFields, ForgottenFields
    <3>2. CASE auth' = [ForgetsProcess(auth) EXCEPT !.state = "closed", !.retained = FALSE]
      <4>1. ForgetsProcess(auth) \in Auths
        BY Zenon, <1>2, AuthUpdates
      <4>2. /\ auth'.state = "closed" /\ ~auth'.retained
            /\ auth'.process = ForgetsProcess(auth).process
            /\ auth'.receipt = ForgetsProcess(auth).receipt
            /\ auth'.ready = ForgetsProcess(auth).ready
            /\ auth'.seen = ForgetsProcess(auth).seen
            /\ auth'.buffered = ForgetsProcess(auth).buffered
        BY <3>2, <4>1 DEF Auths
      <4> QED
        BY <1>2, <4>2, ForgottenFields
    <3> QED
      BY <2>1, <3>1, <3>2
  <2>3. /\ sup'.state = sup.state /\ sup'.runs = sup.runs
        /\ sup'.initialize = sup.initialize
        /\ sup'.stdin = "closed" /\ sup'.stdout = "closed"
    BY <1>2, <1>7 DEF Sups
  <2>4. /\ journal'.frames = journal.frames /\ journal'.kind = journal.kind
        /\ journal'.deleted
    BY <1>2, <1>7 DEF Journals
  <2>5. pc'["close"] = "idle"
    BY <1>7 DEF EndsClosing, Leaves
  <2> QED
    BY <1>1, <1>2, <1>7, <2>2, <2>3, <2>4, <2>5 DEF CloseKeeps
<1>8. CASE /\ EndsClosing(FALSE, auth) /\ sup' = sup
           /\ journal' = journal \/ journal' = [journal EXCEPT !.deleted = TRUE]
  <2>1. auth' = GivesUp(auth) /\ pc'["close"] = "idle"
    BY <1>8 DEF EndsClosing, Leaves
  <2>2. journal'.frames = journal.frames /\ journal'.kind = journal.kind
    BY <1>2, <1>8 DEF Journals
  <2> QED
    BY <1>1, <1>2, <1>8, <2>1, <2>2, AuthFields DEF CloseKeeps
<1> QED
  BY <1>4, <1>5, <1>6, <1>7, <1>8 DEF ClosesRunningProcess

\* Only who holds the lock works, and only while the transport is in use.
LEMMA StagesStep ==
  ASSUME IInv, [Next]_vars PROVE StagesMatch'
<1> USE TaskNames DEF IInv, StagesMatch, Working, TransportTypes, LockTypes
<1>0. \A t \in Tasks : Leaves(t) => pc' = [pc EXCEPT ![t] = "idle"]
  BY DEF Leaves
<1>1. CASE Creates
  BY <1>1 DEF Creates, Auths
<1>2. CASE Discards
  <2>1. \A t \in Tasks : pc[t] = "idle"
    BY <1>2 DEF Discards, LockIsExclusive
  <2> QED
    BY <1>2, <2>1 DEF Discards
<1>3. CASE Connects
  BY <1>0, <1>3, OneHolds DEF Connects, Auths, Moves, Working, Admitted, Retained
<1>4. CASE SpawnsSupervisor
  BY <1>0, <1>4, OneWorks DEF SpawnsSupervisor, Auths, Sups, Moves, Working
<1>5. CASE ExchangesFrame
  BY <1>0, <1>5, OneWorks DEF ExchangesFrame, Auths, Journals, Working, NamesTheCli
<1>6. CASE CliStarts
  BY <1>6 DEF CliStarts, Sups
<1>7. CASE HandshakeFails
  BY <1>0, <1>7, OneWorks DEF HandshakeFails, Auths, Working
<1>8. CASE HandshakeEnds
  BY <1>0, <1>8, OneWorks DEF HandshakeEnds, Auths, Working
<1>9. CASE \E w \in Writers : Writes(w)
  BY <1>0, <1>9, OneHolds DEF Writes, Auths, Moves, Working, Admitted,
     SendsInitialize
<1>10. CASE \E w \in Writers : Sends(w)
  BY <1>0, <1>10, OneWorks DEF Sends, Sups, Working
<1>11. CASE EndsInput
  BY <1>0, <1>11, OneHolds DEF EndsInput, Moves, Working, Admitted
<1>12. CASE StdinIsClosed
  BY <1>0, <1>12, OneWorks DEF StdinIsClosed, Auths, Sups, Working
<1>13. CASE Releases
  BY <1>0, <1>13, OneHolds DEF Releases, Auths, Working, Admitted
<1>14. CASE BeginsClosing
  BY <1>14 DEF BeginsClosing, Auths, Sups, Moves, Burned, Retained, StdoutClosed
<1>15. CASE ClosesPipes
  BY <1>15, PipesClosed DEF CloseKeeps, Working
<1>16. CASE ReconcilesFailedHandshake
  BY <1>0, <1>16, OneWorks DEF ReconcilesFailedHandshake, Auths, Working,
     EndsClosing, GivesUp, ForgetsProcess
<1>17. CASE ClosesRunningProcess
  BY <1>0, <1>17, OneHolds, OneWorks DEF ClosesRunningProcess, Auths, Sups,
     Journals, Moves, Working, EndsClosing, GivesUp, ForgetsProcess, Reapable
<1>18. CASE SupervisorAdvances
  BY <1>18 DEF SupervisorAdvances, Journals, SupervisorKinds
<1>19. CASE SupervisorExits
  BY <1>19 DEF SupervisorExits, Sups
<1>20. CASE Quiet
  BY <1>20 DEF Quiet, Working
<1> QED
  BY <1>1, <1>2, <1>3, <1>4, <1>5, <1>6, <1>7, <1>8, <1>9, <1>10, <1>11, <1>12,
     <1>13, <1>14, <1>15, <1>16, <1>17, <1>18, <1>19, <1>20, QuietSteps
  DEF Next, TransportNext, Progress, vars

\* The frames of the handshake are certified in order, the last with the pinned CLI,
\* and a transport is ready only with the receipt of all of them.
LEMMA HandshakeStep ==
  ASSUME IInv, [Next]_vars PROVE HandshakeIsCertified'
<1> USE TaskNames DEF IInv, HandshakeIsCertified, TransportTypes, LockTypes
<1>0. \A t \in Tasks : Leaves(t) => pc' = [pc EXCEPT ![t] = "idle"]
  BY DEF Leaves
<1>1. CASE Creates
  BY <1>1 DEF Creates, Auths
<1>2. CASE Discards
  BY <1>2 DEF Discards, Auths
<1>3. CASE Connects
  BY <1>0, <1>3, OneHolds, OneWorks DEF Connects, Auths, Sups, Journals, Moves,
     Working, Admitted, Retained
<1>4. CASE SpawnsSupervisor
  <2>1. \A t \in Tasks \ {"connect"} : ~Working(t) /\ pc'[t] = pc[t]
    BY <1>0, <1>4, OneWorks DEF SpawnsSupervisor, Moves, Working
  <2>2. CASE Leaves("connect") /\ UNCHANGED <<auth, sup, journal>>
    BY <1>0, <2>1, <2>2 DEF Working
  <2>3. CASE /\ sup' = [sup EXCEPT !.state = "running", !.stdin = "open", !.stdout = "open"]
             /\ auth' = [auth EXCEPT !.process = TRUE]
             /\ Moves("connect", "handshake") /\ UNCHANGED journal
    BY <1>4, <2>1, <2>3 DEF SpawnsSupervisor, StagesMatch, HandshakeIsCertified,
       CleanupIsInOrder,
       Working, Moves, Auths, Sups, Journals
  <2> QED
    BY <1>4, <2>2, <2>3 DEF SpawnsSupervisor
<1>5. CASE ExchangesFrame
  BY <1>0, <1>5, OneHolds, OneWorks DEF ExchangesFrame, Auths, Sups, Journals,
     Moves, Working, NamesTheCli
<1>6. CASE CliStarts
  BY <1>6 DEF CliStarts, Sups
<1>7. CASE HandshakeFails
  BY <1>0, <1>7, OneWorks DEF HandshakeFails, Auths, Working
<1>8. CASE HandshakeEnds
  BY <1>0, <1>8, OneWorks DEF HandshakeEnds, Auths, Working
<1>9. CASE \E w \in Writers : Writes(w)
  <2>1. PICK w \in Writers : Writes(w)
    BY <1>9
  <2>2. \A t \in Tasks \ {w} : ~Working(t) /\ pc'[t] = pc[t]
    BY <1>0, <2>1, OneHolds DEF Writes, Admitted, Moves, Working
  <2> DEFINE Fails   == Leaves(w) /\ auth' = auth
             Buffers == Leaves(w) /\ auth' = [auth EXCEPT !.buffered = auth.buffered + 1]
             Sending == /\ Moves(w, "sending") /\ ~auth.seen /\ auth.ready
                        /\ auth' = [auth EXCEPT !.seen = TRUE]
  <2>3. CASE Fails
    BY <1>0, <2>1, <2>2, <2>3 DEF Writes, Working
  <2>4. CASE Buffers
    BY <1>0, <2>1, <2>2, <2>4 DEF Writes, Auths, Working
  <2>5. CASE Sending
    BY <2>1, <2>2, <2>5 DEF Writes, Auths, Sups, Working, Moves, HandshakeIsCertified
  <2>6. Fails \/ Buffers \/ Sending
    <3>1. PICK safe \in BOOLEAN :
            IF ~auth.ready \/ ~auth.stdin
            THEN Leaves(w) /\ auth' = auth
            ELSE IF safe /\ ~auth.seen
            THEN auth' = [auth EXCEPT !.seen = TRUE] /\ Moves(w, "sending")
            ELSE auth' = [auth EXCEPT !.buffered = auth.buffered + 1] /\ Leaves(w)
      BY <2>1 DEF Writes, SendsInitialize
    <3> QED
      BY <3>1
  <2> HIDE DEF Fails, Buffers, Sending
  <2> QED
    BY <2>3, <2>4, <2>5, <2>6
<1>10. CASE \E w \in Writers : Sends(w)
  BY <1>0, <1>10, OneWorks DEF Sends, Sups, Working
<1>11. CASE EndsInput
  BY <1>0, <1>11, OneHolds DEF EndsInput, Moves, Working, Admitted
<1>12. CASE StdinIsClosed
  <2>1. /\ pc' = [pc EXCEPT !["end"] = "idle"]
        /\ UNCHANGED journal /\ sup'.runs = sup.runs
    BY <1>0, <1>12 DEF StdinIsClosed, Sups
  <2>2. /\ auth'.state = auth.state /\ auth'.process = auth.process
        /\ auth'.ready = auth.ready /\ auth'.receipt = auth.receipt
        /\ auth'.retained = auth.retained
    BY <1>12 DEF StdinIsClosed, Auths
  <2> QED
    BY <2>1, <2>2
<1>13. CASE Releases
  BY <1>0, <1>13, OneHolds DEF Releases, Auths, Working, Admitted
<1>14. CASE BeginsClosing
  BY <1>14 DEF BeginsClosing, Auths, Sups, Moves, Burned, Retained, StdoutClosed
<1>15. CASE ClosesPipes
  BY <1>15, PipesClosed DEF CloseKeeps, Working, Sups
<1>16. CASE ReconcilesFailedHandshake
  BY <1>16, Reconciles DEF CloseKeeps, Working, Sups
<1>17. CASE ClosesRunningProcess
  BY <1>17, RunningProcessClosed DEF CloseKeeps, Working, Sups
<1>18. CASE SupervisorAdvances
  BY <1>18 DEF SupervisorAdvances, Journals, SupervisorKinds
<1>19. CASE SupervisorExits
  BY <1>19 DEF SupervisorExits, Sups
<1>20. CASE Quiet
  BY <1>20 DEF Quiet, Working
<1> QED
  BY <1>1, <1>2, <1>3, <1>4, <1>5, <1>6, <1>7, <1>8, <1>9, <1>10, <1>11, <1>12,
     <1>13, <1>14, <1>15, <1>16, <1>17, <1>18, <1>19, <1>20, QuietSteps
  DEF Next, TransportNext, Progress, vars

\* A message that is being sent is the first, and the only one.
LEMMA InitializeStep ==
  ASSUME IInv, [Next]_vars PROVE InitializeIsSentOnce'
<1> USE TaskNames DEF IInv, InitializeIsSentOnce, TransportTypes, LockTypes
<1>0. \A t \in Tasks : Leaves(t) => pc' = [pc EXCEPT ![t] = "idle"]
  BY DEF Leaves
<1>1. CASE Creates
  BY <1>1 DEF Creates, Auths
<1>2. CASE Discards
  BY <1>2 DEF Discards, Auths
<1>3. CASE Connects
  BY <1>0, <1>3, OneHolds DEF Connects, Auths, Moves, Working, Admitted, Retained
<1>4. CASE SpawnsSupervisor
  <2>1. \A t \in Tasks \ {"connect"} : ~Working(t) /\ pc'[t] = pc[t]
    BY <1>0, <1>4, OneWorks DEF SpawnsSupervisor, Moves, Working
  <2>2. CASE Leaves("connect") /\ UNCHANGED <<auth, sup, journal>>
    BY <1>0, <2>1, <2>2 DEF Working
  <2>3. CASE /\ sup' = [sup EXCEPT !.state = "running", !.stdin = "open", !.stdout = "open"]
             /\ auth' = [auth EXCEPT !.process = TRUE]
             /\ Moves("connect", "handshake") /\ UNCHANGED journal
    BY <1>4, <2>1, <2>3 DEF SpawnsSupervisor, StagesMatch, HandshakeIsCertified,
       CleanupIsInOrder,
       Working, Moves, Auths, Sups, Journals
  <2> QED
    BY <1>4, <2>2, <2>3 DEF SpawnsSupervisor
<1>5. CASE ExchangesFrame
  BY <1>0, <1>5, OneHolds, OneWorks DEF ExchangesFrame, Auths, Sups, Journals,
     Moves, Working, NamesTheCli
<1>6. CASE CliStarts
  BY <1>6 DEF CliStarts, Sups
<1>7. CASE HandshakeFails
  BY <1>0, <1>7, OneWorks DEF HandshakeFails, Auths, Working
<1>8. CASE HandshakeEnds
  BY <1>0, <1>8, OneWorks DEF HandshakeEnds, Auths, Working
<1>9. CASE \E w \in Writers : Writes(w)
  <2>1. PICK w \in Writers : Writes(w)
    BY <1>9
  <2>2. \A t \in Tasks \ {w} : ~Working(t) /\ pc'[t] = pc[t]
    BY <1>0, <2>1, OneHolds DEF Writes, Admitted, Moves, Working
  <2> DEFINE Fails   == Leaves(w) /\ auth' = auth
             Buffers == Leaves(w) /\ auth' = [auth EXCEPT !.buffered = auth.buffered + 1]
             Sending == /\ Moves(w, "sending") /\ ~auth.seen /\ auth.ready
                        /\ auth' = [auth EXCEPT !.seen = TRUE]
  <2>3. CASE Fails
    BY <1>0, <2>1, <2>2, <2>3 DEF Writes, Working
  <2>4. CASE Buffers
    BY <1>0, <2>1, <2>2, <2>4 DEF Writes, Auths, Working
  <2>5. CASE Sending
    BY <2>1, <2>2, <2>5 DEF Writes, Auths, Sups, Working, Moves, HandshakeIsCertified
  <2>6. Fails \/ Buffers \/ Sending
    <3>1. PICK safe \in BOOLEAN :
            IF ~auth.ready \/ ~auth.stdin
            THEN Leaves(w) /\ auth' = auth
            ELSE IF safe /\ ~auth.seen
            THEN auth' = [auth EXCEPT !.seen = TRUE] /\ Moves(w, "sending")
            ELSE auth' = [auth EXCEPT !.buffered = auth.buffered + 1] /\ Leaves(w)
      BY <2>1 DEF Writes, SendsInitialize
    <3> QED
      BY <3>1
  <2> HIDE DEF Fails, Buffers, Sending
  <2> QED
    BY <2>3, <2>4, <2>5, <2>6
<1>10. CASE \E w \in Writers : Sends(w)
  BY <1>0, <1>10, OneWorks DEF Sends, Sups, Working
<1>11. CASE EndsInput
  BY <1>0, <1>11, OneHolds DEF EndsInput, Moves, Working, Admitted
<1>12. CASE StdinIsClosed
  BY <1>0, <1>12, OneWorks DEF StdinIsClosed, Auths, Sups, Working
<1>13. CASE Releases
  BY <1>0, <1>13, OneHolds DEF Releases, Auths, Working, Admitted
<1>14. CASE BeginsClosing
  BY <1>14 DEF BeginsClosing, Auths, Sups, Moves, Burned, Retained, StdoutClosed
<1>15. CASE ClosesPipes
  BY <1>15, PipesClosed DEF CloseKeeps, Working, Sups
<1>16. CASE ReconcilesFailedHandshake
  BY <1>16, Reconciles DEF CloseKeeps, Working, Sups
<1>17. CASE ClosesRunningProcess
  BY <1>17, RunningProcessClosed DEF CloseKeeps, Working, Sups
<1>18. CASE SupervisorAdvances
  BY <1>18 DEF SupervisorAdvances, Journals, SupervisorKinds
<1>19. CASE SupervisorExits
  BY <1>19 DEF SupervisorExits, Sups
<1>20. CASE Quiet
  BY <1>20 DEF Quiet, Working
<1> QED
  BY <1>1, <1>2, <1>3, <1>4, <1>5, <1>6, <1>7, <1>8, <1>9, <1>10, <1>11, <1>12,
     <1>13, <1>14, <1>15, <1>16, <1>17, <1>18, <1>19, <1>20, QuietSteps
  DEF Next, TransportNext, Progress, vars

\* A supervisor is reaped only by the close, after a cleanup that reached DONE.
LEMMA CleanupStep ==
  ASSUME IInv, [Next]_vars PROVE CleanupIsInOrder'
<1> USE TaskNames DEF IInv, CleanupIsInOrder, TransportTypes, LockTypes
<1>0. \A t \in Tasks : Leaves(t) => pc' = [pc EXCEPT ![t] = "idle"]
  BY DEF Leaves
<1>1. CASE Creates
  BY <1>1 DEF Creates, Auths
<1>2. CASE Discards
  BY <1>2 DEF Discards, Auths
<1>3. CASE Connects
  BY <1>0, <1>3, OneHolds DEF Connects, Auths, Moves, Working, Admitted, Retained
<1>4. CASE SpawnsSupervisor
  <2>1. \A t \in Tasks \ {"connect"} : ~Working(t) /\ pc'[t] = pc[t]
    BY <1>0, <1>4, OneWorks DEF SpawnsSupervisor, Moves, Working
  <2>2. CASE Leaves("connect") /\ UNCHANGED <<auth, sup, journal>>
    BY <1>0, <2>1, <2>2 DEF Working
  <2>3. CASE /\ sup' = [sup EXCEPT !.state = "running", !.stdin = "open", !.stdout = "open"]
             /\ auth' = [auth EXCEPT !.process = TRUE]
             /\ Moves("connect", "handshake") /\ UNCHANGED journal
    BY <1>4, <2>1, <2>3 DEF SpawnsSupervisor, StagesMatch, HandshakeIsCertified,
       CleanupIsInOrder,
       Working, Moves, Auths, Sups, Journals
  <2> QED
    BY <1>4, <2>2, <2>3 DEF SpawnsSupervisor
<1>5. CASE ExchangesFrame
  BY <1>0, <1>5, OneWorks DEF ExchangesFrame, Auths, Journals, Working, NamesTheCli
<1>6. CASE CliStarts
  BY <1>6 DEF CliStarts, Sups
<1>7. CASE HandshakeFails
  BY <1>0, <1>7, OneWorks DEF HandshakeFails, Auths, Working
<1>8. CASE HandshakeEnds
  BY <1>0, <1>8, OneWorks DEF HandshakeEnds, Auths, Working
<1>9. CASE \E w \in Writers : Writes(w)
  BY <1>0, <1>9, OneHolds DEF Writes, Auths, Moves, Working, Admitted,
     SendsInitialize
<1>10. CASE \E w \in Writers : Sends(w)
  BY <1>0, <1>10, OneWorks DEF Sends, Sups, Working
<1>11. CASE EndsInput
  BY <1>0, <1>11, OneHolds DEF EndsInput, Moves, Working, Admitted
<1>12. CASE StdinIsClosed
  BY <1>0, <1>12, OneWorks DEF StdinIsClosed, Auths, Sups, Working
<1>13. CASE Releases
  BY <1>0, <1>13, OneHolds DEF Releases, Auths, Working, Admitted
<1>14. CASE BeginsClosing
  BY <1>14 DEF BeginsClosing, Auths, Sups, Moves, Burned, Retained, StdoutClosed
<1>15. CASE ClosesPipes
  BY <1>15, PipesClosed DEF CloseKeeps, Working, Sups
<1>16. CASE ReconcilesFailedHandshake
  BY <1>16, Reconciles DEF CloseKeeps, Working, Sups
<1>17. CASE ClosesRunningProcess
  BY <1>17, RunningProcessClosed DEF CloseKeeps, Working, Sups
<1>18. CASE SupervisorAdvances
  BY <1>18 DEF SupervisorAdvances, Journals, SupervisorKinds
<1>19. CASE SupervisorExits
  BY <1>19 DEF SupervisorExits, Sups
<1>20. CASE Quiet
  BY <1>20 DEF Quiet, Working
<1> QED
  BY <1>1, <1>2, <1>3, <1>4, <1>5, <1>6, <1>7, <1>8, <1>9, <1>10, <1>11, <1>12,
     <1>13, <1>14, <1>15, <1>16, <1>17, <1>18, <1>19, <1>20, QuietSteps
  DEF Next, TransportNext, Progress, vars

\* Every step leaves the supervisor owned, or reaped and its journal deleted.
LEMMA OwnedStep ==
  ASSUME IInv, [Next]_vars PROVE SupervisorIsOwned'
<1> USE TaskNames DEF IInv, SupervisorIsOwned, OwnedUntilReaped, ClosedIsClean, TransportTypes, LockTypes
<1>0. \A t \in Tasks : Leaves(t) => pc' = [pc EXCEPT ![t] = "idle"]
  BY DEF Leaves
<1>1. CASE Creates
  BY <1>1 DEF Creates, Auths
<1>2. CASE Discards
  BY <1>2 DEF Discards, Auths
<1>3. CASE Connects
  BY <1>0, <1>3, OneHolds DEF Connects, Auths, Moves, Working, Admitted, Retained
<1>4. CASE SpawnsSupervisor
  <2>1. \A t \in Tasks \ {"connect"} : ~Working(t) /\ pc'[t] = pc[t]
    BY <1>0, <1>4, OneWorks DEF SpawnsSupervisor, Moves, Working
  <2>2. CASE Leaves("connect") /\ UNCHANGED <<auth, sup, journal>>
    BY <1>0, <2>1, <2>2 DEF Working
  <2>3. CASE /\ sup' = [sup EXCEPT !.state = "running", !.stdin = "open", !.stdout = "open"]
             /\ auth' = [auth EXCEPT !.process = TRUE]
             /\ Moves("connect", "handshake") /\ UNCHANGED journal
    BY <1>4, <2>1, <2>3 DEF SpawnsSupervisor, StagesMatch, HandshakeIsCertified,
       CleanupIsInOrder,
       Working, Moves, Auths, Sups, Journals
  <2> QED
    BY <1>4, <2>2, <2>3 DEF SpawnsSupervisor
<1>5. CASE ExchangesFrame
  BY <1>0, <1>5, OneWorks DEF ExchangesFrame, Auths, Journals, Working, NamesTheCli
<1>6. CASE CliStarts
  BY <1>6 DEF CliStarts, Sups
<1>7. CASE HandshakeFails
  BY <1>0, <1>7, OneWorks DEF HandshakeFails, Auths, Working
<1>8. CASE HandshakeEnds
  BY <1>0, <1>8, OneWorks DEF HandshakeEnds, Auths, Working
<1>9. CASE \E w \in Writers : Writes(w)
  BY <1>0, <1>9, OneHolds DEF Writes, Auths, Moves, Working, Admitted,
     SendsInitialize
<1>10. CASE \E w \in Writers : Sends(w)
  BY <1>0, <1>10, OneWorks DEF Sends, Sups, Working
<1>11. CASE EndsInput
  BY <1>0, <1>11, OneHolds DEF EndsInput, Moves, Working, Admitted
<1>12. CASE StdinIsClosed
  BY <1>0, <1>12, OneWorks DEF StdinIsClosed, Auths, Sups, Working
<1>13. CASE Releases
  BY <1>0, <1>13, OneHolds DEF Releases, Auths, Working, Admitted
<1>14. CASE BeginsClosing
  BY <1>14 DEF BeginsClosing, Auths, Sups, Moves, Burned, Retained, StdoutClosed
<1>15. CASE ClosesPipes
  BY <1>15, PipesClosed DEF CloseKeeps, Working, StagesMatch, CleanupIsInOrder, Sups
<1>16. CASE ReconcilesFailedHandshake
  BY <1>16, Reconciles DEF CloseKeeps, Working, StagesMatch, CleanupIsInOrder, Sups
<1>17. CASE ClosesRunningProcess
  BY <1>17, RunningProcessClosed DEF CloseKeeps, Working, StagesMatch,
     CleanupIsInOrder, Sups
<1>18. CASE SupervisorAdvances
  BY <1>18 DEF SupervisorAdvances, Journals, SupervisorKinds
<1>19. CASE SupervisorExits
  BY <1>19 DEF SupervisorExits, Sups
<1>20. CASE Quiet
  BY <1>20 DEF Quiet, Working
<1> QED
  BY <1>1, <1>2, <1>3, <1>4, <1>5, <1>6, <1>7, <1>8, <1>9, <1>10, <1>11, <1>12,
     <1>13, <1>14, <1>15, <1>16, <1>17, <1>18, <1>19, <1>20, QuietSteps
  DEF Next, TransportNext, Progress, vars


\* Nothing has been claimed, started or sent.
LEMMA IInvInit == Init => IInv
<1> SUFFICES ASSUME Init PROVE IInv
  OBVIOUS
<1> USE DEF Init, TransportInit, NoSupervisor
<1>1. LaunchTypes
  BY ProbeInit DEF ProbeInv
<1>2. TransportTypes
  BY DEF TransportTypes, Auths, States, Sups, Journals
<1>3. LockTypes /\ LockIsExclusive
  BY DEF LockTypes, TaskStages, LockIsExclusive, Holds
<1>4. StagesMatch
  BY TaskNames DEF StagesMatch, Working
<1>5. HandshakeIsCertified /\ InitializeIsSentOnce
  BY TaskNames DEF HandshakeIsCertified, InitializeIsSentOnce
<1>6. CleanupIsInOrder /\ SupervisorIsOwned
  BY TaskNames DEF CleanupIsInOrder, SupervisorIsOwned, OwnedUntilReaped,
     ClosedIsClean
<1> QED
  BY <1>1, <1>2, <1>3, <1>4, <1>5, <1>6 DEF IInv

\* The probe's part and the transport's are kept by every step of either.
LEMMA IInvStep == ProbeInv /\ IInv /\ [Next]_vars => ProbeInv' /\ IInv'
<1> SUFFICES ASSUME ProbeInv, IInv, [Next]_vars PROVE ProbeInv' /\ IInv'
  OBVIOUS
<1>1. ProbeInv' /\ LaunchTypes'
  BY ProbeStep DEF ProbeInv
<1>2. TransportTypes' /\ LockTypes' /\ LockIsExclusive'
  BY TypesStep, LockStep DEF IInv
<1>3. StagesMatch' /\ HandshakeIsCertified' /\ InitializeIsSentOnce'
  BY StagesStep, HandshakeStep, InitializeStep
<1>4. CleanupIsInOrder' /\ SupervisorIsOwned'
  BY CleanupStep, OwnedStep
<1> QED
  BY <1>1, <1>2, <1>3, <1>4 DEF IInv

\* The records and the lock keep their types, and the lock has one holder: two methods
\* of a transport never work at a time.
THEOREM TransportIsWellFormed ==
  Spec => [](TransportTypes /\ LockTypes /\ LockIsExclusive)
<1>1. IInv => TransportTypes /\ LockTypes /\ LockIsExclusive
  BY DEF IInv
<1> QED
  BY ProbeInit, IInvInit, IInvStep, <1>1, PTL DEF Spec

\* A supervisor is owned from its start until it is reaped and cleaned up, whichever
\* calls fail, are cancelled or race with close().
THEOREM SupervisorOwned == Spec => []SupervisorIsOwned
<1>1. IInv => SupervisorIsOwned
  BY DEF IInv
<1> QED
  BY ProbeInit, IInvInit, IInvStep, <1>1, PTL DEF Spec

\* What is written reaches only the CLI that was measured, once, for any number of
\* writers and of replacements of the file.
THEOREM InitializeOnly == Spec => []OnlyInitializeIsSent
<1>1. IInv => OnlyInitializeIsSent
  BY DEF IInv, InitializeIsSentOnce, HandshakeIsCertified, OnlyInitializeIsSent
<1> QED
  BY ProbeInit, IInvInit, IInvStep, <1>1, PTL DEF Spec
=============================================================================
