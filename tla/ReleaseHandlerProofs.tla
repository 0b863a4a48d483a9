------------------------- MODULE ReleaseHandlerProofs -------------------------
(***************************************************************************)
(* What TLAPS proves of ReleaseHandler, for every value of its constants:  *)
(* type correctness, that versions are handed out without a gap and have a *)
(* history, and, when the history informer is never late and no answer is  *)
(* lost, that it is of the config the manifest was rendered from.          *)
(***************************************************************************)
EXTENDS ReleaseHandler, TLAPS

-------------------------------------------------------------------------------
(* The storage's operators.                                                *)

(* No release on the server is a nil one.                                  *)
LEMMA NilIsNoRelease == Nil \notin Release
  BY ConfigAssumption DEF Nil, NewRelease, Release

(* A merge patch of releases is a release.                                 *)
LEMMA PatchesType ==
    ASSUME NEW b \in Release, NEW w \in Release, NEW c \in Release
    PROVE  Patches(b, w, c) \subseteq Release
  <1>1. MergePatch(b, w, c) \in Release
    BY DEF MergePatch, Release
  <1>2. w.cond \in Condition
    BY DEF Release
  <1>3. [MergePatch(b, w, c) EXCEPT !.cond = w.cond] \in Release
    BY <1>1, <1>2 DEF Release
  <1>4. QED
    BY <1>1, <1>3 DEF Patches

(* The modifiers keep releases releases.                                   *)
LEMMA ModifierTypes ==
    ASSUME NEW b \in Release
    PROVE  /\ \A j \in Release : Updated(b, j) \in Release
           /\ \A v \in Nat, c \in Config : RolledBack(b, v, c) \in Release
           /\ \A cond \in Condition : Flushed(b, cond) \in Release
  <1>1. \A j \in Release : Updated(b, j) \in Release
    BY DEF Updated, Release, Condition
  <1>2. \A v \in Nat, c \in Config : RolledBack(b, v, c) \in Release
    BY DEF RolledBack, Render, Release, Manifest, Condition, NoRollback
  <1>3. \A cond \in Condition : Flushed(b, cond) \in Release
    BY DEF Flushed, Release, Condition
  <1>4. QED
    BY <1>1, <1>2, <1>3

(* The newest of the versions 1 .. n is n.                                 *)
LEMMA LatestOfPrefix ==
    ASSUME NEW h, NEW n \in Nat, DOMAIN h = 1 .. n
    PROVE  LatestVersion(h) = n
  BY DEF LatestVersion

(* The versions of h are the numbers from 1 on, without a gap.             *)
Numbered(h) ==
    /\ LatestVersion(h) \in Nat
    /\ DOMAIN h = 1 .. LatestVersion(h)

LEMMA NoHistoriesNumbered ==
    IsHistories(NoHistories) /\ Numbered(NoHistories) /\ LatestVersion(NoHistories) = 0
  BY DEF NoHistories, Numbered, LatestVersion, IsHistories

(* Adding the next version adds the next number and disturbs no other.     *)
LEMMA AddNext ==
    ASSUME NEW h, IsHistories(h), Numbered(h), NEW c \in Config
    PROVE  LET n == LatestVersion(h) + 1
               g == AddHistory(h, n, c)
           IN /\ IsHistories(g) /\ Numbered(g) /\ LatestVersion(g) = n
              /\ g[n] = c
              /\ \A v \in DOMAIN h : g[v] = h[v]
  <1> DEFINE n == LatestVersion(h) + 1
             g == AddHistory(h, n, c)
  <1>1. n \in Nat \ {0} /\ DOMAIN h = 1 .. n - 1
    BY DEF Numbered
  <1>2. DOMAIN g = 1 .. n
    <2>1. DOMAIN g = DOMAIN h \cup {n}
      BY DEF AddHistory
    <2> HIDE DEF n, g
    <2>2. (1 .. n - 1) \cup {n} = 1 .. n
      BY <1>1
    <2>3. QED
      BY <1>1, <2>1, <2>2
  <1>3. LatestVersion(g) = n
    <2> HIDE DEF g, n
    <2> QED BY <1>1, <1>2, LatestOfPrefix
  <1>4. g[n] = c /\ \A v \in DOMAIN h : g[v] = h[v]
    BY <1>1 DEF AddHistory
  <1>5. IsHistories(g)
    BY <1>1, <1>2 DEF AddHistory, IsHistories
  <1>6. Numbered(g)
    BY <1>1, <1>2, <1>3 DEF Numbered
  <1>7. QED
    BY <1>3, <1>4, <1>5, <1>6

(* applyRelease gives a release a version it finds in the list, or the one *)
(* after the latest of the list.                                           *)
LEMMA NextVersionRange ==
    ASSUME NEW h, Numbered(h), NEW rel \in Release
    PROVE  /\ NextVersion(h, rel) \in 1 .. LatestVersion(h) + 1
           /\ NextVersion(h, rel) \in DOMAIN h => h[NextVersion(h, rel)] = rel.config
  BY DEF NextVersion, CurrentVersion, Numbered, Release

-------------------------------------------------------------------------------
(* Type correctness and the numbering of versions.                         *)

(* The handler's variables are set before they are used.                   *)
Assigned ==
    /\ chan # <<>> \/ target # Nil => base # Nil
    /\ queued \/ delayed => target # Nil
    /\ pc # "idle" => job # Nil /\ target # Nil

(* Both lists of histories are numbered, the informer's is not ahead, nor  *)
(* behind when it is never late and every answer arrives, and the worker   *)
(* is not about to create a version beyond the informer's next one.        *)
VersionsNumbered ==
    /\ Numbered(histories) /\ Numbered(histView)
    /\ "lag" \notin Faults /\ "lost" \notin Faults => histView = histories
    /\ LatestVersion(histView) <= LatestVersion(histories)
    /\ pc \in {"apply", "update"} /\ job.rollbackTo = NoRollback
          => job.version \in 1 .. LatestVersion(histView) + 1
    /\ pc = "update" => job.rollbackTo = NoRollback
    /\ pc = "rollback" => job.rollbackTo # NoRollback

Inv == TypeOK /\ Assigned /\ VersionsNumbered

LEMMA InvInit == Init => Inv
  <1> SUFFICES ASSUME Init PROVE Inv
    OBVIOUS
  <1>1. server \in Release
    <2>1. PICK c \in Config, s \in BOOLEAN : server = NewRelease(c, s)
      BY HandlerAssumption DEF Init
    <2>2. QED
      BY <2>1 DEF NewRelease, Release, Condition, NoRollback
  <1>2. TypeOK
    <2>1. /\ key \in BOOLEAN /\ queued \in BOOLEAN /\ delayed \in BOOLEAN
          /\ cluster \in [manifest : Manifest \cup {EmptyManifest}, whole : BOOLEAN]
      BY DEF Init
    <2>2. QED
      BY <1>1, <2>1, NoHistoriesNumbered DEF Init, TypeOK, Steps, MaxRequeues
  <1>3. Assigned /\ VersionsNumbered
    BY NoHistoriesNumbered DEF Init, Assigned, VersionsNumbered
  <1>4. QED
    BY <1>2, <1>3 DEF Inv

(* A patch, answered or not, leaves releases on the server and in base.    *)
LEMMA SendTypes ==
    ASSUME server \in Release, base \in Release, NEW want \in Release,
           Send(want) \/ SendUnanswered(want)
    PROVE  server' \in Release /\ base' \in Release
  BY PatchesType DEF Send, SendUnanswered

(* Adding a history keeps histories histories.                             *)
LEMMA AddIsHistories ==
    ASSUME NEW h, IsHistories(h), NEW v \in Nat \ {0}, NEW c \in Config
    PROVE  IsHistories(AddHistory(h, v, c))
  BY DEF AddHistory, IsHistories

(* No step spoils a type, wherever the versions on the server came from:   *)
(* it takes a latest version and a positive number for a new history.      *)
LEMMA TypeStep ==
    ASSUME TypeOK, Assigned, [Next]_vars, LatestVersion(histView) \in Nat,
           pc = "update" => job.version # 0
    PROVE  TypeOK' /\ Assigned'
  <1>edit. CASE Edit
    <2>1. server' \in Release
      BY <1>edit, HandlerAssumption DEF Edit, TypeOK, Release
    <2>2. TypeOK'
      BY <1>edit, <2>1 DEF Edit, TypeOK, informVars, queueVars
    <2>3. QED
      BY <1>edit, <2>2 DEF Edit, Assigned, informVars, queueVars
  <1>request. CASE RequestRollback
    <2>1. server' \in Release
      BY <1>request, HandlerAssumption DEF RequestRollback, TypeOK, Release
    <2>2. TypeOK'
      BY <1>request, <2>1 DEF RequestRollback, TypeOK, informVars, queueVars
    <2>3. QED
      BY <1>request, <2>2 DEF RequestRollback, Assigned, informVars, queueVars
  <1>view. CASE ViewCatchesUp \/ Resync \/ HistViewCatchesUp
    <2>1. TypeOK'
      BY <1>view DEF ViewCatchesUp, Resync, HistViewCatchesUp, TypeOK, apiVars, queueVars,
                     budgetVars
    <2>2. QED
      BY <1>view, <2>1 DEF ViewCatchesUp, Resync, HistViewCatchesUp, Assigned, apiVars,
                           queueVars
  <1>trigger. CASE Trigger
    <2>1. base' \in Release
      BY <1>trigger DEF Trigger, TypeOK
    <2>2. TypeOK'
      <3>1. key' \in BOOLEAN
        BY <1>trigger DEF Trigger
      <3>2. /\ chan' \in Seq(Release)
            /\ UNCHANGED <<apiVars, view, histView, target, queueVars, pc, job, budgetVars>>
        BY <1>trigger DEF Trigger, TypeOK
      <3>3. QED
        BY <2>1, <3>1, <3>2 DEF TypeOK, apiVars, queueVars, budgetVars
    <2>3. QED
      BY <1>trigger, <2>1, <2>2, NilIsNoRelease DEF Trigger, Assigned, queueVars
  <1>receive. CASE Receive
    <2>1. Head(chan) \in Release /\ Tail(chan) \in Seq(Release)
      BY <1>receive DEF Receive, TypeOK
    <2>2. queued' \in BOOLEAN
      BY <1>receive DEF Receive, TypeOK
    <2>3. requeues' \in 0 .. MaxRequeues /\ target' \in Release \cup {Nil}
      BY <1>receive, <2>1 DEF Receive, TypeOK, MaxRequeues
    <2>4. TypeOK'
      <3>1. /\ chan' = Tail(chan)
            /\ UNCHANGED <<apiVars, informVars, base, delayed, pc, job, budgetVars>>
        BY <1>receive DEF Receive
      <3>2. QED
        BY <3>1, <2>1, <2>2, <2>3 DEF TypeOK, apiVars, informVars, budgetVars
    <2>5. QED
      BY <1>receive, <2>1, <2>4, NilIsNoRelease DEF Receive, Assigned
  <1>retry. CASE RetryFires
    <2>1. queued' \in BOOLEAN /\ delayed' \in BOOLEAN
      BY <1>retry DEF RetryFires
    <2>2. TypeOK'
      BY <1>retry, <2>1 DEF RetryFires, TypeOK, apiVars, informVars, budgetVars
    <2>3. QED
      BY <1>retry, <2>2 DEF RetryFires, Assigned
  <1>take. CASE Take
    <2>1. TypeOK'
      BY <1>take DEF Take, TypeOK, Steps, apiVars, informVars, budgetVars
    <2>2. QED
      BY <1>take, <2>1 DEF Take, Assigned
  <1>list. CASE List
    <2>1. job \in Release
      BY <1>list DEF List, TypeOK, Assigned
    <2>2. NextVersion(histView, job) \in Nat
      BY <2>1 DEF NextVersion, CurrentVersion, Release
    <2>3. job' \in Release
      <3>1. Render(job.config, job.suspend) \in Manifest
        BY <2>1 DEF Release, Render, Manifest
      <3>2. QED
        BY <1>list, <2>1, <2>2, <3>1 DEF List, Release
    <2>4. TypeOK'
      BY <1>list, <2>3 DEF List, TypeOK, Steps, apiVars, informVars, queueVars, budgetVars
    <2>5. QED
      BY <1>list, <2>3, <2>4, NilIsNoRelease DEF List, Assigned, queueVars
  <1>apply. CASE Apply \/ ApplyStopsHalfway
    <2>1. job \in Release
      BY <1>apply DEF Apply, ApplyStopsHalfway, TypeOK, Assigned
    <2>2. cluster' \in [manifest : Manifest \cup {EmptyManifest}, whole : BOOLEAN]
      <3>1. job.manifest \in Manifest \cup {EmptyManifest}
        BY <2>1 DEF Release
      <3>2. \A whole \in BOOLEAN :
              [manifest |-> job.manifest, whole |-> whole]
                 \in [manifest : Manifest \cup {EmptyManifest}, whole : BOOLEAN]
        BY <3>1
      <3>3. \/ cluster' = cluster
            \/ \E whole \in BOOLEAN :
                 cluster' = [manifest |-> job.manifest, whole |-> whole]
        BY <1>apply DEF Apply, ApplyStopsHalfway
      <3>4. QED
        BY <3>2, <3>3 DEF TypeOK
    <2>3. TypeOK'
      BY <1>apply, <2>2 DEF Apply, ApplyStopsHalfway, TypeOK, Steps, informVars, queueVars,
                            budgetVars, Fails
    <2>4. QED
      BY <1>apply, <2>3 DEF Apply, ApplyStopsHalfway, Assigned, informVars, queueVars
  <1>ensure. CASE EnsureHistory \/ EnsureHistoryUnanswered
    <2>1. job.version \in Nat \ {0} /\ job.config \in Config
      BY <1>ensure DEF EnsureHistory, EnsureHistoryUnanswered, TypeOK, Assigned, Release
    <2>2. /\ histories' \in {histories, AddHistory(histories, job.version, job.config)}
          /\ histView' \in {histView, AddHistory(histView, job.version, job.config)}
      BY <1>ensure DEF EnsureHistory, EnsureHistoryUnanswered, informVars, Learned
    <2>3. IsHistories(histories') /\ IsHistories(histView')
      BY <2>1, <2>2, AddIsHistories DEF TypeOK
    <2>4. TypeOK'
      BY <1>ensure, <2>3 DEF EnsureHistory, EnsureHistoryUnanswered, informVars, TypeOK,
                             Steps, queueVars, budgetVars, Fails
    <2>5. QED
      BY <1>ensure, <2>4 DEF EnsureHistory, EnsureHistoryUnanswered, informVars, Assigned,
                             queueVars
  <1>patch. CASE PatchStatus
    <2>1. job \in Release /\ base \in Release /\ server \in Release
      BY <1>patch DEF PatchStatus, TypeOK, Assigned
    <2>2. Updated(base, job) \in Release
      BY <2>1, ModifierTypes
    <2>3. server' \in Release /\ base' \in Release
      BY <1>patch, <2>1, <2>2, SendTypes DEF PatchStatus
    <2>4. TypeOK'
      BY <1>patch, <2>3 DEF PatchStatus, TypeOK, Steps, informVars, queueVars, SendUnanswered,
                            Fails
    <2>5. QED
      BY <1>patch, <2>3, <2>4, NilIsNoRelease DEF PatchStatus, Assigned, informVars, queueVars
  <1>rollback. CASE Rollback
    <2> DEFINE want == IF job.rollbackTo \in DOMAIN histView
                       THEN RolledBack(base, job.rollbackTo, histView[job.rollbackTo])
                       ELSE Flushed(base, "Failure")
    <2>1. job \in Release /\ base \in Release /\ server \in Release
      BY <1>rollback DEF Rollback, TypeOK, Assigned
    <2>2. want \in Release
      BY <2>1, ModifierTypes DEF TypeOK, IsHistories, Condition
    <2>3. Send(want) \/ SendUnanswered(want)
      BY <1>rollback DEF Rollback
    <2>4. server' \in Release /\ base' \in Release
      BY <2>1, <2>2, <2>3, SendTypes
    <2>5. job' \in Release
      BY <1>rollback, <2>1, <2>4 DEF Rollback, Release
    <2>6. pc' \in {"apply", "record"}
      BY <1>rollback DEF Rollback
    <2>7. faults' \in Nat
      BY <1>rollback DEF Rollback, TypeOK, SendUnanswered, Fails
    <2>8. TypeOK'
      BY <1>rollback, <2>4, <2>5, <2>6, <2>7
      DEF Rollback, TypeOK, Steps, informVars, queueVars
    <2>9. QED
      BY <1>rollback, <2>4, <2>5, <2>8, NilIsNoRelease DEF Rollback, Assigned, queueVars
  <1>fails. CASE CallFails
    <2>1. TypeOK'
      BY <1>fails DEF CallFails, TypeOK, Steps, apiVars, informVars, queueVars, Fails
    <2>2. QED
      BY <1>fails, <2>1 DEF CallFails, Assigned, queueVars
  <1>ends. CASE FlushAvailable \/ RecordError \/ RecordFails
    <2>1. base \in Release /\ server \in Release /\ target # Nil
      BY <1>ends DEF FlushAvailable, RecordError, RecordFails, TypeOK, Assigned
    <2>2. Flushed(base, "Available") \in Release /\ Flushed(base, "Failure") \in Release
      BY <2>1, ModifierTypes DEF Condition
    <2>3. server' \in Release /\ base' \in Release
      BY <1>ends, <2>1, <2>2, SendTypes
      DEF FlushAvailable, RecordError, RecordFails, apiVars
    <2>4. /\ pc' = "idle" /\ job' = Nil
          /\ requeues' \in 0 .. MaxRequeues /\ delayed' \in BOOLEAN /\ faults' \in Nat
      <3>1. pc' = "idle" /\ job' = Nil /\ requeues' \in 0 .. MaxRequeues
        BY <1>ends DEF FlushAvailable, RecordError, RecordFails, Succeed, GiveBack, TypeOK,
                       MaxRequeues
      <3>2. delayed' \in BOOLEAN
        BY <1>ends DEF FlushAvailable, RecordError, RecordFails, Succeed, GiveBack, TypeOK
      <3>3. faults' \in Nat
        BY <1>ends DEF FlushAvailable, RecordError, RecordFails, SendUnanswered, Fails, TypeOK
      <3>4. QED
        BY <3>1, <3>2, <3>3
    <2>5. TypeOK'
      BY <1>ends, <2>3, <2>4 DEF FlushAvailable, RecordError, RecordFails, TypeOK, Steps,
                                 apiVars, informVars
    <2>6. QED
      BY <1>ends, <2>1, <2>3, <2>4, <2>5, NilIsNoRelease
      DEF FlushAvailable, RecordError, RecordFails, Assigned
  <1>crash. CASE Crash
    <2>1. key' \in BOOLEAN /\ queued' \in BOOLEAN /\ delayed' \in BOOLEAN
      BY <1>crash DEF Crash
    <2>2. chan' \in Seq(Release) /\ requeues' \in 0 .. MaxRequeues /\ pc' \in Steps
      BY <1>crash DEF Crash, MaxRequeues, Steps
    <2>3. TypeOK'
      BY <1>crash, <2>1, <2>2 DEF Crash, TypeOK, apiVars
    <2>4. QED
      BY <1>crash, <2>3 DEF Crash, Assigned
  <1>stutter. CASE UNCHANGED vars
    BY <1>stutter DEF vars, TypeOK, Assigned, apiVars, informVars, queueVars, budgetVars
  <1>qed. QED
    BY <1>edit, <1>request, <1>view, <1>trigger, <1>receive, <1>retry, <1>take, <1>list,
       <1>apply, <1>ensure, <1>patch, <1>rollback, <1>fails, <1>ends, <1>crash, <1>stutter
    DEF Next, Worker

LEMMA InvStep == Inv /\ [Next]_vars => Inv'
  <1> SUFFICES ASSUME Inv, [Next]_vars PROVE Inv'
    OBVIOUS
  <1> USE DEF Inv
  <1>types. TypeOK' /\ Assigned'
    <2>1. pc = "update" => job.version # 0
      BY DEF VersionsNumbered
    <2>2. LatestVersion(histView) \in Nat
      BY DEF VersionsNumbered, Numbered
    <2>3. QED
      BY <2>1, <2>2, TypeStep
  <1>numbers. VersionsNumbered'
    <2>user. CASE Edit \/ RequestRollback
      BY <2>user DEF Edit, RequestRollback, VersionsNumbered, informVars
    <2>informer. CASE ViewCatchesUp \/ Resync \/ HistViewCatchesUp
      BY <2>informer DEF ViewCatchesUp, Resync, HistViewCatchesUp, VersionsNumbered,
                         Numbered, apiVars
    <2>queue. CASE Trigger \/ Receive \/ RetryFires \/ Take
      BY <2>queue DEF Trigger, Receive, RetryFires, Take, VersionsNumbered, apiVars,
                      informVars
    <2>list. CASE List
      <3>1. job \in Release
        BY <2>list DEF List, TypeOK, Assigned
      <3>2. NextVersion(histView, job) \in 1 .. LatestVersion(histView) + 1
        BY <3>1, NextVersionRange DEF VersionsNumbered
      <3>3. job'.version = NextVersion(histView, job)
        BY <2>list, <3>1 DEF List, Release
      <3>4. QED
        BY <2>list, <3>2, <3>3 DEF List, VersionsNumbered, apiVars, informVars
    <2>apply. CASE Apply \/ ApplyStopsHalfway \/ CallFails
      BY <2>apply DEF Apply, ApplyStopsHalfway, CallFails, VersionsNumbered, apiVars,
                      informVars
    <2>ensure. CASE EnsureHistory \/ EnsureHistoryUnanswered
      <3>1. job \in Release
        BY <2>ensure DEF EnsureHistory, EnsureHistoryUnanswered, TypeOK, Assigned
      <3>2. CASE histories' = histories /\ histView' = histView
        BY <2>ensure, <3>2 DEF EnsureHistory, EnsureHistoryUnanswered, VersionsNumbered
      <3>3. CASE /\ job.version \notin DOMAIN histories
                 /\ histories' = AddHistory(histories, job.version, job.config)
                 /\ \/ histView' = AddHistory(histView, job.version, job.config)
                    \/ histView' = histView /\ ("lag" \in Faults \/ "lost" \in Faults)
        <4>1. /\ job.version = LatestVersion(histories) + 1
              /\ LatestVersion(histView) = LatestVersion(histories)
          BY <2>ensure, <3>3 DEF EnsureHistory, EnsureHistoryUnanswered, VersionsNumbered,
                                 Numbered
        <4>2. /\ Numbered(histories')
              /\ LatestVersion(histories') = LatestVersion(histories) + 1
          BY <3>1, <3>3, <4>1, AddNext DEF TypeOK, VersionsNumbered, Release
        <4>3. Numbered(histView') /\ LatestVersion(histView') <= LatestVersion(histories')
          <5>1. CASE histView' = AddHistory(histView, job.version, job.config)
            <6>1. LatestVersion(histView) \in Nat
              BY DEF VersionsNumbered, Numbered
            <6>2. LatestVersion(histView') = LatestVersion(histories')
              BY <3>1, <4>1, <4>2, <5>1, <6>1, AddNext DEF TypeOK, VersionsNumbered, Release
            <6>3. QED
              BY <3>1, <4>1, <4>2, <5>1, <6>1, <6>2, AddNext
              DEF TypeOK, VersionsNumbered, Release
          <5>2. CASE histView' = histView
            BY <4>1, <4>2, <5>2 DEF VersionsNumbered, Numbered
          <5>3. QED
            BY <3>3, <5>1, <5>2
        <4>4. QED
          BY <2>ensure, <3>3, <4>1, <4>2, <4>3
          DEF EnsureHistory, EnsureHistoryUnanswered, VersionsNumbered, Numbered
      <3>4. QED
        BY <2>ensure, <3>2, <3>3
        DEF EnsureHistory, EnsureHistoryUnanswered, informVars, Learned, MayFail,
            VersionsNumbered
    <2>patch. CASE PatchStatus
      BY <2>patch DEF PatchStatus, VersionsNumbered, informVars
    <2>rollback. CASE Rollback
      <3>1. job' \in Release /\ job'.rollbackTo = job.rollbackTo
        BY <1>types, <2>rollback, NilIsNoRelease
        DEF Rollback, TypeOK, Assigned, Release
      <3>2. pc' \in {"apply", "record"} /\ pc = "rollback"
        BY <2>rollback DEF Rollback
      <3>3. QED
        BY <2>rollback, <3>1, <3>2 DEF Rollback, VersionsNumbered, informVars
    <2>ends. CASE FlushAvailable \/ RecordError \/ RecordFails
      <3>1. pc' = "idle"
        BY <2>ends DEF FlushAvailable, RecordError, RecordFails, Succeed, GiveBack
      <3>2. QED
        BY <2>ends, <3>1 DEF FlushAvailable, RecordError, RecordFails, VersionsNumbered,
                             apiVars, informVars
    <2>crash. CASE Crash
      BY <2>crash DEF Crash, VersionsNumbered, Numbered, apiVars
    <2>stutter. CASE UNCHANGED vars
      BY <2>stutter DEF vars, VersionsNumbered, apiVars, informVars
    <2>qed. QED
      BY <2>user, <2>informer, <2>queue, <2>list, <2>apply, <2>ensure, <2>patch,
         <2>rollback, <2>ends, <2>crash, <2>stutter
      DEF Next, Worker
  <1>qed. QED
    BY <1>types, <1>numbers

THEOREM InvHolds == Spec => []Inv
  BY InvInit, InvStep, PTL DEF Spec

(* Every variable keeps its type, the worker is never handed a nil release *)
(* and no history lacks a number (applyRelease, handle).                   *)
THEOREM TypeCorrect == Spec => []TypeOK
  <1>1. Inv => TypeOK
    BY DEF Inv
  <1>2. QED
    BY <1>1, InvHolds, PTL

(* Create never leaves a gap in the versions, whatever is late, lost or    *)
(* refused and however often the process restarts (applyRelease's          *)
(* nextVersion, storage.Update).                                           *)
THEOREM ContiguousHolds == Spec => []Contiguous
  <1>1. Inv => Contiguous
    BY DEF Inv, VersionsNumbered, Numbered, Contiguous
  <1>2. QED
    BY <1>1, InvHolds, PTL

-------------------------------------------------------------------------------
(* Recorded versions.                                                      *)

Recorded == DOMAIN histories \cup {0}

(* Every copy of the release is at a version that has a history, or at     *)
(* none yet; the informer has no history the server lacks; and what is     *)
(* about to be patched in has its history.                                 *)
RecordedInv ==
    /\ {server.version, view.version, base.version} \subseteq Recorded
    /\ DOMAIN histView \subseteq DOMAIN histories
    /\ pc = "patch" => job.version \in DOMAIN histories

(* After a patch, answered or not, server and storage are at a version     *)
(* they were at before or at the one the modifier set.                     *)
LEMMA SendVersion ==
    ASSUME server \in Release, base \in Release, NEW want \in Release,
           Send(want) \/ SendUnanswered(want)
    PROVE  {server'.version, base'.version}
              \subseteq {server.version, base.version, want.version}
  <1>1. \A new \in Patches(base, want, server) :
           new.version \in {server.version, want.version}
    BY DEF Patches, MergePatch, Release
  <1>2. QED
    BY <1>1 DEF Send, SendUnanswered

LEMMA RecordedInit == Init => RecordedInv
  <1> SUFFICES ASSUME Init PROVE RecordedInv
    OBVIOUS
  <1>1. server.version = 0
    <2>1. PICK c \in Config, s \in Suspends : server = NewRelease(c, s)
      BY DEF Init
    <2>2. QED
      BY <2>1 DEF NewRelease
  <1>2. Nil.version = 0
    BY DEF Nil, NewRelease
  <1>3. QED
    BY <1>1, <1>2 DEF Init, RecordedInv, Recorded

LEMMA RecordedStep == Inv /\ RecordedInv /\ [Next]_vars => RecordedInv'
  <1> SUFFICES ASSUME Inv, RecordedInv, [Next]_vars PROVE RecordedInv'
    OBVIOUS
  <1> USE DEF RecordedInv, Recorded
  <1>nil. Nil.version = 0
    BY DEF Nil, NewRelease
  <1>user. CASE Edit \/ RequestRollback
    <2>1. /\ server'.version = server.version
          /\ UNCHANGED <<histories, histView, view, base, pc, job>>
      BY <1>user DEF Edit, RequestRollback, Inv, TypeOK, Release, informVars
    <2>2. QED
      BY <2>1
  <1>informer. CASE ViewCatchesUp \/ Resync \/ HistViewCatchesUp
    BY <1>informer DEF ViewCatchesUp, Resync, HistViewCatchesUp, apiVars
  <1>queue. CASE Trigger \/ Receive \/ RetryFires \/ Take
    BY <1>queue DEF Trigger, Receive, RetryFires, Take, apiVars, informVars
  <1>compute. CASE List \/ Apply \/ ApplyStopsHalfway \/ CallFails
    <2>1. UNCHANGED <<server, histories, histView, view, base>> /\ pc' # "patch"
      BY <1>compute DEF List, Apply, ApplyStopsHalfway, CallFails, apiVars, informVars
    <2>2. QED
      BY <2>1
  <1>ensure. CASE EnsureHistory \/ EnsureHistoryUnanswered
    <2>1. UNCHANGED <<server, view, base, job>>
      BY <1>ensure DEF EnsureHistory, EnsureHistoryUnanswered, informVars
    <2>2. CASE UNCHANGED <<histories, histView>>
      <3>1. pc' = "patch" => job.version \in DOMAIN histories
        BY <1>ensure, <2>2 DEF EnsureHistory, EnsureHistoryUnanswered, informVars,
                               AddHistory
      <3>2. QED
        BY <2>1, <2>2, <3>1
    <2>3. CASE /\ histories' = AddHistory(histories, job.version, job.config)
               /\ \/ histView' = histView
                  \/ histView' = AddHistory(histView, job.version, job.config)
      <3>1. /\ DOMAIN histories' = DOMAIN histories \cup {job.version}
            /\ DOMAIN histView' \subseteq DOMAIN histView \cup {job.version}
        BY <2>3 DEF AddHistory
      <3>2. QED
        BY <2>1, <2>3, <3>1
    <2>4. QED
      BY <1>ensure, <2>2, <2>3
      DEF EnsureHistory, EnsureHistoryUnanswered, informVars,
          Learned, Inv, VersionsNumbered
  <1>patch. CASE PatchStatus
    <2>1. job \in Release /\ base \in Release /\ server \in Release
      BY <1>patch DEF PatchStatus, Inv, TypeOK, Assigned
    <2>2. Updated(base, job) \in Release /\ Updated(base, job).version = job.version
      BY <2>1, ModifierTypes DEF Updated, Release
    <2>3. Send(Updated(base, job)) \/ SendUnanswered(Updated(base, job))
      BY <1>patch DEF PatchStatus
    <2>4. {server'.version, base'.version}
             \subseteq {server.version, base.version, job.version}
      BY <2>1, <2>2, <2>3, SendVersion
    <2>5. UNCHANGED <<histories, histView, view>> /\ pc = "patch" /\ pc' # "patch"
      BY <1>patch DEF PatchStatus, informVars
    <2>6. QED
      BY <2>4, <2>5
  <1>rollback. CASE Rollback
    <2> DEFINE v    == job.rollbackTo
               want == IF v \in DOMAIN histView THEN RolledBack(base, v, histView[v])
                       ELSE Flushed(base, "Failure")
    <2>1. job \in Release /\ base \in Release /\ server \in Release
      BY <1>rollback DEF Rollback, Inv, TypeOK, Assigned
    <2>2. want \in Release
      BY <2>1, ModifierTypes DEF Inv, TypeOK, IsHistories, Condition
    <2>3. want.version \in {base.version} \cup DOMAIN histView
      BY <2>1 DEF RolledBack, Flushed, Release
    <2>4. Send(want) \/ SendUnanswered(want)
      BY <1>rollback DEF Rollback
    <2>5. {server'.version, base'.version}
             \subseteq {server.version, base.version, want.version}
      <3> HIDE DEF want
      <3> QED BY <2>1, <2>2, <2>4, SendVersion
    <2>6. UNCHANGED <<histories, histView, view>> /\ pc' # "patch"
      BY <1>rollback DEF Rollback, informVars
    <2>7. QED
      BY <2>3, <2>5, <2>6
  <1>ends. CASE FlushAvailable \/ RecordError \/ RecordFails
    <2>1. base \in Release /\ server \in Release
      BY <1>ends DEF FlushAvailable, RecordError, RecordFails, Inv, TypeOK, Assigned
    <2>2. \/ \E cond \in Condition : \/ Send(Flushed(base, cond))
                                     \/ SendUnanswered(Flushed(base, cond))
          \/ UNCHANGED <<server, base>>
      BY <1>ends DEF FlushAvailable, RecordError, RecordFails, apiVars, Condition
    <2>3. \A cond \in Condition : /\ Flushed(base, cond) \in Release
                                 /\ Flushed(base, cond).version = base.version
      BY <2>1, ModifierTypes DEF Flushed, Release
    <2>4. {server'.version, base'.version} \subseteq {server.version, base.version}
      BY <2>1, <2>2, <2>3, SendVersion
    <2>5. UNCHANGED <<histories, histView, view>> /\ pc' = "idle"
      BY <1>ends DEF FlushAvailable, RecordError, RecordFails, Succeed, GiveBack, apiVars,
                     informVars
    <2>6. QED
      BY <2>4, <2>5
  <1>crash. CASE Crash
    BY <1>crash, <1>nil DEF Crash, apiVars
  <1>stutter. CASE UNCHANGED vars
    BY <1>stutter DEF vars, apiVars, informVars
  <1>qed. QED
    BY <1>user, <1>informer, <1>queue, <1>compute, <1>ensure, <1>patch, <1>rollback,
       <1>ends, <1>crash, <1>stutter
    DEF Next, Worker

(* The version a release is at has a history, whatever fails, is lost or   *)
(* late (storage.Update creates it first, storage.Rollback looks for it).  *)
THEOREM VersionRecordedHolds == Spec => []VersionRecorded
  <1>1. RecordedInv => VersionRecorded
    BY DEF RecordedInv, Recorded, VersionRecorded
  <1>2. QED
    BY <1>1, InvHolds, RecordedInit, RecordedStep, PTL DEF Spec

-------------------------------------------------------------------------------
(* Snapshots.                                                              *)

(* The storage's copy, or the informer's the storage will start from,      *)
(* knows the version and the manifest the server has: nobody else writes   *)
(* them.                                                                   *)
BaseCurrent ==
    LET copy == IF base = Nil THEN view ELSE base
    IN copy.version = server.version /\ copy.manifest = server.manifest

(* What the worker carries towards Update is a version whose history, if   *)
(* it exists, records the config the manifest is rendered from.            *)
JobFaithful ==
    pc \in {"apply", "update", "patch"} /\ job.rollbackTo = NoRollback =>
        /\ job.manifest.config = job.config
        /\ job.version \in DOMAIN histories => histories[job.version] = job.config

PatchFaithful ==
    pc = "patch" =>
        /\ job.rollbackTo = NoRollback
        /\ job.version \in DOMAIN histories

FaithfulInv ==
    histView = histories /\ BaseCurrent /\ JobFaithful /\ PatchFaithful /\ SnapshotFaithful

(* A patch whose base is current gives the server what the modifier set.   *)
LEMMA SendFields ==
    ASSUME server \in Release, base \in Release, NEW want \in Release,
           base.version = server.version, base.manifest = server.manifest,
           Send(want)
    PROVE  /\ server'.version = want.version /\ server'.manifest = want.manifest
           /\ base'.version = want.version /\ base'.manifest = want.manifest
  <1>1. \A new \in Patches(base, want, server) :
           new.version = want.version /\ new.manifest = want.manifest
    BY DEF Patches, MergePatch, Release
  <1>2. QED
    BY <1>1 DEF Send

LEMMA FaithfulInit == Init => FaithfulInv
  <1> SUFFICES ASSUME Init PROVE FaithfulInv
    OBVIOUS
  <1>1. server.version = 0
    <2>1. PICK c \in Config, s \in Suspends : server = NewRelease(c, s)
      BY DEF Init
    <2>2. QED
      BY <2>1 DEF NewRelease
  <1>2. SnapshotFaithful
    BY <1>1 DEF SnapshotFaithful
  <1>3. QED
    BY <1>2 DEF Init, FaithfulInv, BaseCurrent, JobFaithful, PatchFaithful

LEMMA FaithfulStep ==
    ASSUME "lag" \notin Faults, "lost" \notin Faults
    PROVE  Inv /\ Inv' /\ FaithfulInv /\ [Next]_vars => FaithfulInv'
  <1> SUFFICES ASSUME Inv, Inv', FaithfulInv, [Next]_vars PROVE FaithfulInv'
    OBVIOUS
  <1>user. CASE Edit \/ RequestRollback
    <2>1. /\ server'.version = server.version /\ server'.manifest = server.manifest
          /\ UNCHANGED <<histories, histView, view, base, pc, job>>
      BY <1>user DEF Edit, RequestRollback, Inv, TypeOK, Release, informVars
    <2>2. QED
      BY <2>1 DEF FaithfulInv, BaseCurrent, JobFaithful, PatchFaithful, SnapshotFaithful
  <1>informer. CASE ViewCatchesUp \/ Resync \/ HistViewCatchesUp
    <2>1. UNCHANGED <<server, histories, base, pc, job>>
      BY <1>informer DEF ViewCatchesUp, Resync, HistViewCatchesUp, apiVars
    <2>2. (view' = view \/ view' = server) /\ histView' = histories
      BY <1>informer DEF ViewCatchesUp, Resync, HistViewCatchesUp, FaithfulInv, apiVars
    <2>3. QED
      BY <2>1, <2>2 DEF FaithfulInv, BaseCurrent, JobFaithful, PatchFaithful,
                        SnapshotFaithful
  <1>trigger. CASE Trigger
    <2>1. view # Nil
      BY NilIsNoRelease DEF Inv, TypeOK
    <2>2. QED
      BY <1>trigger, <2>1 DEF Trigger, FaithfulInv, BaseCurrent, JobFaithful,
                              PatchFaithful, SnapshotFaithful, apiVars
  <1>queue. CASE Receive \/ RetryFires \/ Take
    <2>1. UNCHANGED <<server, histories, histView, view, base>>
      BY <1>queue DEF Receive, RetryFires, Take, apiVars, informVars
    <2>2. UNCHANGED <<pc, job>> \/ pc' \in {"list", "rollback"}
      BY <1>queue DEF Receive, RetryFires, Take
    <2>3. QED
      BY <2>1, <2>2 DEF FaithfulInv, BaseCurrent, JobFaithful, PatchFaithful,
                        SnapshotFaithful
  <1>list. CASE List
    <2>1. job \in Release
      BY <1>list DEF List, Inv, TypeOK, Assigned
    <2>2. NextVersion(histories, job) \in DOMAIN histories =>
             histories[NextVersion(histories, job)] = job.config
      BY <2>1, NextVersionRange DEF Inv, VersionsNumbered
    <2>3. UNCHANGED <<server, histories, histView, view, base>>
      BY <1>list DEF List, apiVars, informVars
    <2>4. pc' # "record" => /\ job'.version = NextVersion(histories, job)
                            /\ job'.config = job.config
                            /\ job'.manifest.config = job.config
                            /\ pc' = "apply"
      <3>1. histView = histories
        BY DEF FaithfulInv
      <3>2. CASE job.config \in BadConfig
        BY <1>list, <3>2 DEF List
      <3>3. CASE job.config \notin BadConfig
        <4>1. /\ pc' = "apply"
              /\ job' = [job EXCEPT !.version = NextVersion(histories, job),
                                    !.manifest = Render(job.config, job.suspend)]
          BY <1>list, <3>1, <3>3 DEF List
        <4>2. Render(job.config, job.suspend).config = job.config
          BY DEF Render
        <4>3. QED
          BY <2>1, <4>1, <4>2 DEF Release
      <3>4. QED
        BY <3>2, <3>3
    <2>5. QED
      BY <2>2, <2>3, <2>4 DEF FaithfulInv, BaseCurrent, JobFaithful, PatchFaithful,
                              SnapshotFaithful
  <1>apply. CASE Apply \/ ApplyStopsHalfway \/ CallFails
    <2>1. UNCHANGED <<server, histories, histView, view, base, job>>
      BY <1>apply DEF Apply, ApplyStopsHalfway, CallFails, apiVars, informVars
    <2>2. (pc = "apply" /\ pc' \in {"update", "flush"}) \/ pc' = "record"
      BY <1>apply DEF Apply, ApplyStopsHalfway, CallFails
    <2>3. QED
      BY <2>1, <2>2 DEF FaithfulInv, BaseCurrent, JobFaithful, PatchFaithful,
                        SnapshotFaithful
  <1>ensure. CASE EnsureHistory
    <2>1. job \in Release /\ pc = "update" /\ job.rollbackTo = NoRollback
      BY <1>ensure DEF EnsureHistory, Inv, TypeOK, Assigned, VersionsNumbered
    <2>2. UNCHANGED <<server, view, base, job>>
      BY <1>ensure DEF EnsureHistory
    <2>3. CASE /\ UNCHANGED <<histories, histView>>
               /\ (pc' = "patch" /\ job.version \in DOMAIN histView) \/ pc' = "record"
      <3>1. (pc' = "patch" /\ job.version \in DOMAIN histories) \/ pc' = "record"
        BY <2>3 DEF FaithfulInv
      <3>2. QED
        BY <2>1, <2>2, <2>3, <3>1 DEF FaithfulInv, BaseCurrent, JobFaithful, PatchFaithful,
                                      SnapshotFaithful
    <2>4. CASE /\ job.version \notin DOMAIN histories
               /\ histories' = AddHistory(histories, job.version, job.config)
               /\ histView' = histories'
               /\ pc' = "patch"
      <3>1. job.version = LatestVersion(histories) + 1
        BY <2>1, <2>4 DEF Inv, VersionsNumbered, Numbered
      <3>2. /\ DOMAIN histories \subseteq DOMAIN histories'
            /\ \A v \in DOMAIN histories : histories'[v] = histories[v]
            /\ job.version \in DOMAIN histories'
            /\ histories'[job.version] = job.config
        BY <2>4 DEF AddHistory
      <3>3. QED
        BY <2>1, <2>2, <2>4, <3>2 DEF FaithfulInv, BaseCurrent, JobFaithful, PatchFaithful,
                                      SnapshotFaithful
    <2>5. QED
      BY <1>ensure, <2>3, <2>4, "lag" \notin Faults DEF EnsureHistory, Learned, FaithfulInv
  <1>patch. CASE PatchStatus
    <2>1. job \in Release /\ base \in Release /\ server \in Release
      BY <1>patch DEF PatchStatus, Inv, TypeOK, Assigned
    <2>2. /\ Updated(base, job) \in Release
          /\ Updated(base, job).version = job.version
          /\ Updated(base, job).manifest = job.manifest
      BY <2>1, ModifierTypes DEF Updated, Release
    <2>3. Send(Updated(base, job)) /\ pc' = "flush"
      BY <1>patch DEF PatchStatus, MayFail
    <2>4. base.version = server.version /\ base.manifest = server.manifest
      BY <2>1, NilIsNoRelease DEF FaithfulInv, BaseCurrent
    <2>5. /\ server'.version = job.version /\ server'.manifest = job.manifest
          /\ base'.version = job.version /\ base'.manifest = job.manifest
      BY <2>1, <2>2, <2>3, <2>4, SendFields
    <2>6. base' \in Release
      BY <2>1, <2>2, <2>3, SendTypes
    <2>7. UNCHANGED <<histories, histView, view, job>>
      BY <1>patch DEF PatchStatus, informVars
    <2>8. /\ job.manifest.config = job.config /\ job.version \in DOMAIN histories
          /\ histories[job.version] = job.config
      BY <1>patch DEF PatchStatus, FaithfulInv, JobFaithful, PatchFaithful
    <2>9. QED
      BY <2>3, <2>5, <2>6, <2>7, <2>8, NilIsNoRelease
      DEF FaithfulInv, BaseCurrent, JobFaithful, PatchFaithful, SnapshotFaithful
  <1>rollback. CASE Rollback
    <2> DEFINE v    == job.rollbackTo
               want == IF v \in DOMAIN histView THEN RolledBack(base, v, histView[v])
                       ELSE Flushed(base, "Failure")
    <2>1. job \in Release /\ base \in Release /\ server \in Release
      BY <1>rollback DEF Rollback, Inv, TypeOK, Assigned
    <2>2. want \in Release
      BY <2>1, ModifierTypes DEF Inv, TypeOK, IsHistories, Condition
    <2>3. \/ want.version = base.version /\ want.manifest = base.manifest
          \/ /\ v \in DOMAIN histories
             /\ want.version = v /\ want.manifest.config = histories[v]
      BY <2>1 DEF RolledBack, Flushed, Render, Release, FaithfulInv
    <2>4. Send(want) /\ pc' = "apply" /\ job' = [job EXCEPT !.manifest = base'.manifest]
      BY <1>rollback DEF Rollback, MayFail
    <2>5. base.version = server.version /\ base.manifest = server.manifest
      BY <2>1, NilIsNoRelease DEF FaithfulInv, BaseCurrent
    <2>6. base' \in Release
      <3> HIDE DEF want
      <3> QED BY <2>1, <2>2, <2>4, SendTypes
    <2>7. /\ server'.version = want.version /\ server'.manifest = want.manifest
          /\ base'.version = want.version /\ base'.manifest = want.manifest
      <3> HIDE DEF want
      <3> QED BY <2>1, <2>2, <2>4, <2>5, SendFields
    <2>8. UNCHANGED <<histories, histView, view>> /\ job'.rollbackTo # NoRollback
      BY <1>rollback, <2>1, <2>4 DEF Rollback, informVars, Inv, VersionsNumbered, Release
    <2>9. SnapshotFaithful'
      BY <2>3, <2>5, <2>7, <2>8 DEF SnapshotFaithful, FaithfulInv
    <2>10. BaseCurrent'
      BY <2>6, <2>7, NilIsNoRelease DEF BaseCurrent
    <2>11. JobFaithful' /\ PatchFaithful'
      BY <2>4, <2>8 DEF JobFaithful, PatchFaithful
    <2>12. QED
      BY <2>8, <2>9, <2>10, <2>11 DEF FaithfulInv
  <1>ends. CASE FlushAvailable \/ RecordError \/ RecordFails
    <2>1. base \in Release /\ server \in Release
      BY <1>ends DEF FlushAvailable, RecordError, RecordFails, Inv, TypeOK, Assigned
    <2>2. base.version = server.version /\ base.manifest = server.manifest
      BY <2>1, NilIsNoRelease DEF FaithfulInv, BaseCurrent
    <2>3. \A cond \in Condition : /\ Flushed(base, cond) \in Release
                                 /\ Flushed(base, cond).version = base.version
                                 /\ Flushed(base, cond).manifest = base.manifest
      BY <2>1, ModifierTypes DEF Flushed, Release
    <2>4. \/ \E cond \in Condition : Send(Flushed(base, cond))
          \/ UNCHANGED <<server, base>>
      BY <1>ends DEF FlushAvailable, RecordError, RecordFails, MayFail, apiVars, Condition
    <2>5. /\ server'.version = server.version /\ server'.manifest = server.manifest
          /\ base'.version = base.version /\ base'.manifest = base.manifest
          /\ base' \in Release
      <3>1. CASE UNCHANGED <<server, base>>
        BY <2>1, <3>1
      <3>2. CASE \E cond \in Condition : Send(Flushed(base, cond))
        <4>1. PICK cond \in Condition : Send(Flushed(base, cond))
          BY <3>2
        <4>2. /\ Flushed(base, cond) \in Release
              /\ Flushed(base, cond).version = base.version
              /\ Flushed(base, cond).manifest = base.manifest
          BY <2>3
        <4>3. base' \in Release
          BY <2>1, <4>1, <4>2, SendTypes
        <4>4. QED
          BY <2>1, <2>2, <4>1, <4>2, <4>3, SendFields
      <3>3. QED
        BY <2>4, <3>1, <3>2
    <2>6. UNCHANGED <<histories, histView, view>> /\ pc' = "idle"
      BY <1>ends DEF FlushAvailable, RecordError, RecordFails, Succeed, GiveBack, apiVars,
                     informVars
    <2>7. QED
      BY <2>2, <2>5, <2>6, NilIsNoRelease
      DEF FaithfulInv, BaseCurrent, JobFaithful, PatchFaithful, SnapshotFaithful
  <1>crash. CASE Crash
    BY <1>crash DEF Crash, FaithfulInv, BaseCurrent, JobFaithful, PatchFaithful,
                    SnapshotFaithful, apiVars
  <1>stutter. CASE UNCHANGED vars
    BY <1>stutter DEF vars, apiVars, informVars, FaithfulInv, BaseCurrent, JobFaithful,
                      PatchFaithful, SnapshotFaithful
  <1>qed. QED
    BY <1>user, <1>informer, <1>trigger, <1>queue, <1>list, <1>apply, <1>ensure, <1>patch,
       <1>rollback, <1>ends, <1>crash, <1>stutter
    DEF Next, Worker, EnsureHistoryUnanswered, MayFail

(* When the history informer is never late and every answer arrives, the   *)
(* history Status.Version names records what Status.Manifest was rendered  *)
(* from, after any edits, rollbacks, failures and restarts (applyRelease,  *)
(* storage.Update, storage.Rollback).                                      *)
THEOREM SnapshotFaithfulHolds ==
    ASSUME "lag" \notin Faults, "lost" \notin Faults
    PROVE  Spec => []SnapshotFaithful
  <1>1. Inv /\ Inv' /\ FaithfulInv /\ [Next]_vars => FaithfulInv'
    BY FaithfulStep
  <1>2. FaithfulInv => SnapshotFaithful
    BY DEF FaithfulInv
  <1>3. QED
    BY <1>1, <1>2, InvHolds, FaithfulInit, PTL DEF Spec

===============================================================================
