-------------------------- MODULE HandlerDeployProofs --------------------------
(***************************************************************************)
(* What TLAPS proves of the resources a release is deployed as, when every *)
(* answer arrives: that the handler implements ReleasePromise, that a      *)
(* half-done apply stays visible and that no edit is missed.               *)
(***************************************************************************)
EXTENDS ReleaseHandlerProofs

-------------------------------------------------------------------------------
(* Where manifest, status and cluster are while the worker is at work.     *)

SameStatus(r, s) == r.version = s.version /\ r.manifest = s.manifest /\ r.cond = s.cond

(* The storage's copy, or the informer's the storage will start from, has  *)
(* the status the server has: nobody else writes it.                       *)
StatusCurrent == SameStatus(IF base = Nil THEN view ELSE base, server)

(* The manifest rel asks for.                                              *)
Asked(rel) == Render(rel.config, rel.suspend)

(* What the worker is about to apply is what its copy asks for; in a       *)
(* rollback, what the status says already.                                 *)
JobRendered ==
    /\ pc = "list" => job.rollbackTo = NoRollback
    /\ pc \in {"apply", "update", "patch"} =>
          job.manifest = IF job.rollbackTo = NoRollback THEN Asked(job)
                         ELSE server.manifest

(* The cluster is what was applied, and then what the status says.         *)
ClusterFollows ==
    /\ pc \in {"update", "patch"} =>
          /\ job.rollbackTo = NoRollback
          /\ cluster = [manifest |-> job.manifest, whole |-> TRUE]
    /\ pc = "flush" =>
          /\ server.manifest # EmptyManifest => InSync
          /\ job.rollbackTo = NoRollback => server.manifest = Asked(job)

DeployInv == StatusCurrent /\ JobRendered /\ ClusterFollows

(* Releases that agree on every field are the same.                        *)
LEMMA FieldsMakeRelease ==
    ASSUME NEW r \in Release, NEW s \in Release, SameStatus(r, s),
           r.config = s.config, r.suspend = s.suspend, r.rollbackTo = s.rollbackTo
    PROVE  r = s
  BY DEF Release, SameStatus

(* What a patch leaves of the fields of the spec.                          *)
LEMMA PatchedSpec ==
    ASSUME NEW b \in Release, NEW w \in Release, NEW c \in Release,
           NEW new \in Patches(b, w, c)
    PROVE  /\ new \in Release
           /\ new.config = IF w.config = b.config THEN c.config ELSE w.config
           /\ new.suspend = IF w.suspend = b.suspend THEN c.suspend ELSE w.suspend
           /\ new.rollbackTo = IF w.rollbackTo = b.rollbackTo THEN c.rollbackTo
                               ELSE w.rollbackTo
  <1>1. new \in Release
    BY PatchesType
  <1>2. QED
    BY <1>1 DEF Patches, MergePatch, Release

(* What a patch against a copy with the server's status leaves of it.      *)
LEMMA PatchedStatus ==
    ASSUME NEW b \in Release, NEW w \in Release, NEW c \in Release,
           SameStatus(b, c), NEW new \in Patches(b, w, c)
    PROVE  SameStatus(new, w)
  BY DEF Patches, MergePatch, Release, SameStatus

(* An answered patch against a current copy leaves server and copy with    *)
(* the status the modifier set, and takes the rest from server or modifier.*)
LEMMA SendStatus ==
    ASSUME server \in Release, base \in Release, NEW want \in Release,
           SameStatus(base, server), Send(want)
    PROVE  /\ SameStatus(server', want) /\ SameStatus(base', want)
           /\ server' \in Release /\ base' \in Release
  <1>1. \A new \in Patches(base, want, server) : SameStatus(new, want)
    BY PatchedStatus
  <1>2. server' \in Release /\ base' \in Release
    BY SendTypes
  <1>3. QED
    BY <1>1, <1>2 DEF Send, SameStatus

LEMMA DeployInit == Init => DeployInv
  <1> SUFFICES ASSUME Init PROVE DeployInv
    OBVIOUS
  <1>1. QED
    BY DEF Init, DeployInv, StatusCurrent, SameStatus, JobRendered, ClusterFollows

(* A config is not the one an empty manifest has.                          *)
LEMMA AskedIsManifest ==
    ASSUME NEW rel \in Release
    PROVE  Asked(rel) \in Manifest /\ Asked(rel) # EmptyManifest
  BY ConfigAssumption DEF Asked, Render, Manifest, EmptyManifest, Release

(* Flushing a condition changes the condition only.                        *)
LEMMA FlushedFields ==
    ASSUME NEW b \in Release, NEW cond \in Condition
    PROVE  /\ Flushed(b, cond) \in Release
           /\ Flushed(b, cond).version = b.version
           /\ Flushed(b, cond).manifest = b.manifest
           /\ Flushed(b, cond).cond = cond
           /\ \A f \in {"config", "suspend", "rollbackTo"} : Flushed(b, cond)[f] = b[f]
  BY ModifierTypes DEF Flushed, Release

LEMMA DeployStep ==
    ASSUME "lost" \notin Faults
    PROVE  Inv /\ DeployInv /\ [Next]_vars => DeployInv'
  <1> SUFFICES ASSUME Inv, DeployInv, [Next]_vars PROVE DeployInv'
    OBVIOUS
  <1> USE DEF DeployInv
  <1>user. CASE Edit \/ RequestRollback
    <2>1. /\ SameStatus(server', server)
          /\ UNCHANGED <<cluster, view, base, pc, job>>
      BY <1>user DEF Edit, RequestRollback, Inv, TypeOK, Release, SameStatus, informVars
    <2>2. QED
      BY <2>1 DEF StatusCurrent, SameStatus, JobRendered, ClusterFollows, InSync
  <1>informer. CASE ViewCatchesUp \/ Resync \/ HistViewCatchesUp
    <2>1. UNCHANGED <<server, cluster, base, pc, job>> /\ view' \in {view, server}
      BY <1>informer DEF ViewCatchesUp, Resync, HistViewCatchesUp, apiVars
    <2>2. QED
      BY <2>1 DEF StatusCurrent, SameStatus, JobRendered, ClusterFollows, InSync
  <1>trigger. CASE Trigger
    <2>1. view # Nil
      BY NilIsNoRelease DEF Inv, TypeOK
    <2>2. QED
      BY <1>trigger, <2>1
      DEF Trigger, StatusCurrent, SameStatus, JobRendered, ClusterFollows, InSync, apiVars
  <1>queue. CASE Receive \/ RetryFires \/ Take
    <2>1. UNCHANGED <<server, cluster, view, base>>
      BY <1>queue DEF Receive, RetryFires, Take, apiVars, informVars
    <2>2. \/ UNCHANGED <<pc, job>>
          \/ pc' = "rollback" \/ (pc' = "list" /\ job'.rollbackTo = NoRollback)
      BY <1>queue DEF Receive, RetryFires, Take
    <2>3. QED
      BY <2>1, <2>2 DEF StatusCurrent, SameStatus, JobRendered, ClusterFollows, InSync
  <1>list. CASE List
    <2>1. job \in Release
      BY <1>list DEF List, Inv, TypeOK, Assigned
    <2>2. UNCHANGED <<server, cluster, view, base>>
      BY <1>list DEF List, apiVars, informVars
    <2>3. pc' = "record" \/ (pc' = "apply" /\ job'.manifest = Asked(job'))
      <3>1. CASE job.config \in BadConfig
        BY <1>list, <3>1 DEF List
      <3>2. CASE job.config \notin BadConfig
        <4>1. job' = [job EXCEPT !.version = NextVersion(histView, job),
                                 !.manifest = Render(job.config, job.suspend)]
              /\ pc' = "apply"
          BY <1>list, <3>2 DEF List
        <4>2. QED
          BY <2>1, <4>1 DEF Asked, Release
      <3>3. QED
        BY <3>1, <3>2
    <2>4. pc' = "apply" => job'.rollbackTo = NoRollback
      BY <1>list, <2>1 DEF List, JobRendered, Release
    <2>5. QED
      BY <2>2, <2>3, <2>4
      DEF StatusCurrent, SameStatus, JobRendered, ClusterFollows, InSync
  <1>apply. CASE Apply
    <2>1. job \in Release /\ pc = "apply" /\ UNCHANGED <<server, view, base, job>>
      BY <1>apply DEF Apply, Inv, TypeOK, Assigned, informVars
    <2>2. /\ cluster' = IF job.manifest = EmptyManifest THEN cluster
                        ELSE [manifest |-> job.manifest, whole |-> TRUE]
          /\ pc' = IF job.rollbackTo = NoRollback THEN "update" ELSE "flush"
      BY <1>apply DEF Apply
    <2>3. job.rollbackTo = NoRollback => job.manifest # EmptyManifest
      BY <2>1, AskedIsManifest DEF JobRendered
    <2>4. QED
      BY <2>1, <2>2, <2>3
      DEF StatusCurrent, SameStatus, JobRendered, ClusterFollows, InSync
  <1>halfway. CASE ApplyStopsHalfway \/ CallFails
    <2>1. pc' = "record" /\ UNCHANGED <<server, view, base>>
      BY <1>halfway DEF ApplyStopsHalfway, CallFails, apiVars, informVars
    <2>2. QED
      BY <2>1 DEF StatusCurrent, SameStatus, JobRendered, ClusterFollows
  <1>ensure. CASE EnsureHistory
    <2>1. /\ pc = "update" /\ pc' \in {"patch", "record"}
          /\ UNCHANGED <<server, cluster, view, base, job>>
      BY <1>ensure DEF EnsureHistory
    <2>2. QED
      BY <2>1 DEF StatusCurrent, SameStatus, JobRendered, ClusterFollows
  <1>patch. CASE PatchStatus
    <2>1. job \in Release /\ base \in Release /\ server \in Release
      BY <1>patch DEF PatchStatus, Inv, TypeOK, Assigned
    <2>2. /\ Updated(base, job) \in Release
          /\ Updated(base, job).manifest = job.manifest
      BY <2>1, ModifierTypes DEF Updated, Release
    <2>3. Send(Updated(base, job)) /\ pc = "patch" /\ pc' = "flush"
      BY <1>patch DEF PatchStatus, MayFail
    <2>4. SameStatus(base, server)
      BY <2>1, NilIsNoRelease DEF StatusCurrent
    <2>5. /\ SameStatus(server', Updated(base, job)) /\ SameStatus(base', Updated(base, job))
          /\ base' \in Release
      BY <2>1, <2>2, <2>3, <2>4, SendStatus
    <2>6. UNCHANGED <<cluster, view, job>>
      BY <1>patch DEF PatchStatus, informVars
    <2>7. StatusCurrent'
      BY <2>5, NilIsNoRelease DEF StatusCurrent, SameStatus
    <2>8. QED
      BY <2>2, <2>3, <2>5, <2>6, <2>7
      DEF JobRendered, ClusterFollows, InSync, SameStatus
  <1>rollback. CASE Rollback
    <2> DEFINE v    == job.rollbackTo
               want == IF v \in DOMAIN histView THEN RolledBack(base, v, histView[v])
                       ELSE Flushed(base, "Failure")
    <2>1. job \in Release /\ base \in Release /\ server \in Release
      BY <1>rollback DEF Rollback, Inv, TypeOK, Assigned
    <2>2. want \in Release
      BY <2>1, ModifierTypes DEF Inv, TypeOK, IsHistories, Condition
    <2>3. Send(want) /\ pc' = "apply" /\ job' = [job EXCEPT !.manifest = base'.manifest]
      BY <1>rollback DEF Rollback, MayFail
    <2>4. SameStatus(base, server)
      BY <2>1, NilIsNoRelease DEF StatusCurrent
    <2>5. SameStatus(server', want) /\ SameStatus(base', want) /\ base' \in Release
      <3> HIDE DEF want
      <3> QED BY <2>1, <2>2, <2>3, <2>4, SendStatus
    <2>6. /\ job'.rollbackTo = job.rollbackTo /\ job'.manifest = base'.manifest
          /\ job.rollbackTo # NoRollback
      BY <1>rollback, <2>1, <2>3 DEF Rollback, Inv, VersionsNumbered, Release
    <2>7. StatusCurrent'
      <3> HIDE DEF want
      <3> QED BY <2>5, NilIsNoRelease DEF StatusCurrent, SameStatus
    <2>8. JobRendered' /\ ClusterFollows'
      <3> HIDE DEF want
      <3> QED BY <2>3, <2>5, <2>6 DEF JobRendered, ClusterFollows, SameStatus
    <2>9. QED
      BY <2>7, <2>8
  <1>ends. CASE FlushAvailable \/ RecordError \/ RecordFails
    <2>1. base \in Release /\ server \in Release
      BY <1>ends DEF FlushAvailable, RecordError, RecordFails, Inv, TypeOK, Assigned
    <2>2. SameStatus(base, server)
      BY <2>1, NilIsNoRelease DEF StatusCurrent
    <2>3. pc' = "idle" /\ view' = view
      BY <1>ends DEF FlushAvailable, RecordError, RecordFails, Succeed, GiveBack, informVars
    <2>4. SameStatus(base', server') /\ base' \in Release
      <3>1. CASE UNCHANGED <<server, base>>
        BY <2>1, <2>2, <3>1
      <3>2. CASE \E cond \in Condition : Send(Flushed(base, cond))
        <4>1. PICK cond \in Condition : Send(Flushed(base, cond))
          BY <3>2
        <4>2. Flushed(base, cond) \in Release
          BY <2>1, FlushedFields
        <4>3. QED
          BY <2>1, <2>2, <4>1, <4>2, SendStatus DEF SameStatus
      <3>3. QED
        BY <1>ends, <3>1, <3>2
        DEF FlushAvailable, RecordError, RecordFails, MayFail, apiVars, Condition
    <2>5. QED
      BY <2>3, <2>4, NilIsNoRelease
      DEF StatusCurrent, JobRendered, ClusterFollows
  <1>crash. CASE Crash
    BY <1>crash DEF Crash, StatusCurrent, SameStatus, JobRendered, ClusterFollows, apiVars
  <1>stutter. CASE UNCHANGED vars
    BY <1>stutter DEF vars, apiVars, informVars, StatusCurrent, SameStatus, JobRendered,
                      ClusterFollows, InSync
  <1>qed. QED
    BY <1>user, <1>informer, <1>trigger, <1>queue, <1>list, <1>apply, <1>halfway,
       <1>ensure, <1>patch, <1>rollback, <1>ends, <1>crash, <1>stutter
    DEF Next, Worker, EnsureHistoryUnanswered, MayFail

LEMMA DeployHolds == ASSUME "lost" \notin Faults PROVE Spec => []DeployInv
  <1>1. Inv /\ DeployInv /\ [Next]_vars => DeployInv'
    BY DeployStep
  <1>2. QED
    BY <1>1, InvHolds, DeployInit, PTL DEF Spec

-------------------------------------------------------------------------------
(* The refinement.                                                         *)

LEMMA PromiseInit == Init => Promise!Init
  <1> SUFFICES ASSUME Init PROVE Promise!Init
    OBVIOUS
  <1>1. PICK c \in Config, s \in Suspends : server = NewRelease(c, s)
    BY DEF Init
  <1>2. s \in BOOLEAN
    BY HandlerAssumption
  <1>3. Promise!NewRelease(c, s) = NewRelease(c, s)
    BY DEF Promise!NewRelease, NewRelease, Promise!NoRollback, NoRollback,
           Promise!EmptyManifest, EmptyManifest
  <1>4. QED
    BY <1>1, <1>2, <1>3
    DEF Init, Promise!Init, Promise!NoHistories, NoHistories, Promise!EmptyManifest,
        EmptyManifest

(* Recording a failure, or "Available" in front of resources that are what *)
(* the status says, is telling.                                            *)
LEMMA FlushTells ==
    ASSUME server \in Release, base \in Release, SameStatus(base, server),
           UNCHANGED <<histories, cluster>>, NEW cond \in {"Failure", "Available"},
           Send(Flushed(base, cond)),
           cond = "Available" => (server.manifest # EmptyManifest => InSync)
    PROVE  Promise!Tell \/ UNCHANGED server
  <1>1. cond \in Condition
    BY DEF Condition
  <1>2. /\ Flushed(base, cond).cond = cond
        /\ \A f \in DOMAIN server \ {"cond"} : Flushed(base, cond)[f] = base[f]
    BY DEF Flushed, Release
  <1>3. \A new \in Patches(base, Flushed(base, cond), server) :
           new = [server EXCEPT !.cond = cond]
    BY <1>1, <1>2 DEF Patches, MergePatch, Release, SameStatus
  <1>4. server' = [server EXCEPT !.cond = cond] \/ UNCHANGED server
    BY <1>3 DEF Send
  <1>5. QED
    BY <1>4 DEF Promise!Tell, Promise!EmptyManifest, EmptyManifest, InSync

LEMMA PromiseStep ==
    ASSUME "lag" \notin Faults, "lost" \notin Faults
    PROVE  Inv /\ FaithfulInv /\ DeployInv /\ [Next]_vars
              => [Promise!Next]_(Promise!vars)
  <1> SUFFICES ASSUME Inv, FaithfulInv, DeployInv, [Next]_vars
               PROVE  Promise!Next \/ UNCHANGED <<server, histories, cluster>>
    BY DEF Promise!vars
  <1>ask. CASE Edit \/ RequestRollback
    <2>1. /\ server' \in Release
          /\ \A f \in {"version", "manifest", "cond"} : server'[f] = server[f]
          /\ UNCHANGED <<histories, cluster>>
      BY <1>ask, HandlerAssumption DEF Edit, RequestRollback, Inv, TypeOK, Release
    <2>2. Promise!Release = Release
      BY DEF Promise!Release, Release, Promise!Manifest, Manifest, Promise!NoRollback,
             NoRollback, Promise!EmptyManifest, EmptyManifest, Promise!Condition, Condition
    <2>3. QED
      BY <2>1, <2>2 DEF Promise!Ask, Promise!Next
  <1>hidden. CASE \/ ViewCatchesUp \/ HistViewCatchesUp \/ Resync \/ Trigger \/ Receive
                  \/ RetryFires \/ Take \/ List \/ CallFails \/ RecordFails \/ Crash
    BY <1>hidden DEF ViewCatchesUp, HistViewCatchesUp, Resync, Trigger, Receive, RetryFires,
                     Take, List, CallFails, RecordFails, Crash, apiVars
  <1>deploy. CASE Apply \/ ApplyStopsHalfway
    <2>1. job \in Release
      BY <1>deploy DEF Apply, ApplyStopsHalfway, Inv, TypeOK, Assigned
    <2>2. UNCHANGED <<server, histories>>
      BY <1>deploy DEF Apply, ApplyStopsHalfway
    <2>3. CASE cluster' = cluster
      BY <2>2, <2>3
    <2>4. CASE /\ job.manifest # EmptyManifest
               /\ \E w \in BOOLEAN : cluster' = [manifest |-> job.manifest, whole |-> w]
      <3>1. job.manifest \in Promise!Manifest
        BY <2>1, <2>4 DEF Release, Promise!Manifest, Manifest
      <3>2. QED
        BY <2>2, <2>4, <3>1 DEF Promise!Deploy, Promise!Next
    <2>5. QED
      BY <1>deploy, <2>3, <2>4 DEF Apply, ApplyStopsHalfway
  <1>record. CASE EnsureHistory
    <2>1. pc = "update" /\ UNCHANGED <<server, cluster>>
      BY <1>record DEF EnsureHistory
    <2>2. CASE UNCHANGED histories
      BY <2>1, <2>2
    <2>3. CASE /\ job.version \notin DOMAIN histories
               /\ histories' = AddHistory(histories, job.version, job.config)
      <3>1. job.version = LatestVersion(histories) + 1
        BY <2>1, <2>3 DEF Inv, FaithfulInv, VersionsNumbered, Numbered
      <3>2. /\ cluster = [manifest |-> job.manifest, whole |-> TRUE]
            /\ job.manifest.config = job.config
        BY <2>1 DEF DeployInv, ClusterFollows, FaithfulInv, JobFaithful
      <3>3. /\ Promise!LatestVersion(histories) = LatestVersion(histories)
            /\ \A v, c : Promise!AddHistory(histories, v, c) = AddHistory(histories, v, c)
        BY DEF Promise!LatestVersion, LatestVersion, Promise!AddHistory, AddHistory
      <3>4. QED
        BY <2>1, <2>3, <3>1, <3>2, <3>3 DEF Promise!Record, Promise!Next
    <2>4. QED
      BY <1>record, <2>2, <2>3 DEF EnsureHistory
  <1>publish. CASE PatchStatus
    <2> DEFINE want == Updated(base, job)
    <2>1. job \in Release /\ base \in Release /\ server \in Release
      BY <1>publish DEF PatchStatus, Inv, TypeOK, Assigned
    <2>2. Send(want) /\ pc = "patch" /\ UNCHANGED <<histories, cluster>>
      BY <1>publish DEF PatchStatus, MayFail
    <2>3. SameStatus(base, server)
      BY <2>1, NilIsNoRelease DEF DeployInv, StatusCurrent
    <2>4. /\ cluster = [manifest |-> job.manifest, whole |-> TRUE]
          /\ job.rollbackTo = NoRollback /\ job.manifest.config = job.config
          /\ job.version \in DOMAIN histories /\ histories[job.version] = job.config
      BY <2>2 DEF DeployInv, ClusterFollows, FaithfulInv, JobFaithful, PatchFaithful
    <2>5. \A new \in Patches(base, want, server) :
             new = [server EXCEPT !.version = job.version, !.manifest = job.manifest,
                                  !.cond = "Updating"]
      <3> DEFINE next == [server EXCEPT !.version = job.version, !.manifest = job.manifest,
                                        !.cond = "Updating"]
      <3>1. TAKE new \in Patches(base, want, server)
      <3>2. /\ want \in Release /\ want.config = base.config
            /\ want.suspend = base.suspend /\ want.rollbackTo = base.rollbackTo
        BY <2>1, ModifierTypes DEF Updated, Release
      <3>3. /\ next \in Release /\ SameStatus(next, want)
            /\ next.config = server.config /\ next.suspend = server.suspend
            /\ next.rollbackTo = server.rollbackTo
        BY <2>1 DEF Release, Condition, Updated, SameStatus
      <3>4. /\ new \in Release /\ SameStatus(new, want)
            /\ new.config = server.config /\ new.suspend = server.suspend
            /\ new.rollbackTo = server.rollbackTo
        <4> HIDE DEF want
        <4> QED BY <2>1, <2>3, <3>1, <3>2, PatchedSpec, PatchedStatus
      <3>5. SameStatus(new, next)
        BY <3>3, <3>4 DEF SameStatus
      <3> HIDE DEF next
      <3>6. new = next
        BY <3>3, <3>4, <3>5, FieldsMakeRelease
      <3>7. QED
        BY <3>6 DEF next
    <2>6. \/ UNCHANGED server
          \/ server' = [server EXCEPT !.version = job.version, !.manifest = job.manifest,
                                      !.cond = "Updating"]
      BY <2>2, <2>5 DEF Send
    <2>7. QED
      BY <2>2, <2>4, <2>6 DEF Promise!Publish, Promise!Next
  <1>rollback. CASE Rollback
    <2> DEFINE v == job.rollbackTo
    <2>1. job \in Release /\ base \in Release /\ server \in Release
      BY <1>rollback DEF Rollback, Inv, TypeOK, Assigned
    <2>2. SameStatus(base, server)
      BY <2>1, NilIsNoRelease DEF DeployInv, StatusCurrent
    <2>3. UNCHANGED <<histories, cluster>> /\ histView = histories
      BY <1>rollback DEF Rollback, FaithfulInv
    <2>4. CASE v \in DOMAIN histories
      <3> DEFINE want == RolledBack(base, v, histories[v])
      <3>1. Send(want)
        BY <1>rollback, <2>3, <2>4 DEF Rollback, MayFail
      <3>2. histories[v] \in Config /\ base.suspend \in BOOLEAN
        BY <2>1, <2>4 DEF Inv, TypeOK, IsHistories, Release
      <3> DEFINE next(new) ==
                   [server EXCEPT !.config = new.config, !.rollbackTo = new.rollbackTo,
                                  !.version = v,
                                  !.manifest = Render(histories[v], base.suspend),
                                  !.cond = "Rollbacking"]
      <3>3. ASSUME NEW new \in Patches(base, want, server)
            PROVE  /\ new.config \in {server.config, histories[v]}
                   /\ new.rollbackTo \in {server.rollbackTo, NoRollback}
                   /\ new = next(new)
        <4>1. v \in Nat
          BY <2>4 DEF Inv, TypeOK, IsHistories
        <4>2. /\ want \in Release /\ want.suspend = base.suspend
              /\ want.config = histories[v] /\ want.rollbackTo = NoRollback
          BY <2>1, <3>2, <4>1, ModifierTypes DEF RolledBack, Release
        <4>3. /\ new \in Release /\ SameStatus(new, want)
              /\ new.config \in {server.config, histories[v]}
              /\ new.suspend = server.suspend
              /\ new.rollbackTo \in {server.rollbackTo, NoRollback}
          <5> HIDE DEF want
          <5> QED BY <2>1, <2>2, <4>2, PatchedSpec, PatchedStatus
        <4>4. /\ next(new) \in Release
              /\ next(new).config = new.config /\ next(new).suspend = server.suspend
              /\ next(new).rollbackTo = new.rollbackTo
          BY <2>1, <3>2, <4>1, <4>3 DEF Release, Render, Manifest, Condition
        <4>5. SameStatus(next(new), want)
          BY <2>1 DEF RolledBack, Release, SameStatus
        <4>6. SameStatus(new, next(new))
          BY <4>3, <4>5 DEF SameStatus
        <4> HIDE DEF next
        <4>7. QED
          BY <4>3, <4>4, <4>6, FieldsMakeRelease
      <3>4. UNCHANGED server \/ server' \in Patches(base, want, server)
        BY <3>1 DEF Send
      <3>5. server.config \in Config
        BY <2>1 DEF Release
      <3>6. CASE UNCHANGED server
        BY <2>3, <3>6
      <3>7. CASE server' \in Patches(base, want, server)
        <4>1. /\ server'.config \in {server.config, histories[v]}
              /\ server'.rollbackTo \in {server.rollbackTo, NoRollback}
              /\ server' = next(server')
          <5> HIDE DEF want, next
          <5> QED BY <3>3, <3>7
        <4>2. Promise!RollBack
          BY <2>3, <2>4, <3>2, <3>5, <4>1
          DEF Promise!RollBack, Promise!Render, Render, Promise!NoRollback, NoRollback
        <4>3. QED
          BY <4>2 DEF Promise!Next
      <3>8. QED
        BY <3>4, <3>6, <3>7
    <2>5. CASE v \notin DOMAIN histories
      <3>1. Send(Flushed(base, "Failure"))
        BY <1>rollback, <2>3, <2>5 DEF Rollback, MayFail
      <3>2. QED
        BY <2>1, <2>2, <2>3, <3>1, FlushTells DEF Promise!Next
    <2>6. QED
      BY <2>4, <2>5
  <1>tell. CASE FlushAvailable \/ RecordError
    <2>1. base \in Release /\ server \in Release
      BY <1>tell DEF FlushAvailable, RecordError, Inv, TypeOK, Assigned
    <2>2. SameStatus(base, server)
      BY <2>1, NilIsNoRelease DEF DeployInv, StatusCurrent
    <2>3. UNCHANGED <<histories, cluster>>
      BY <1>tell DEF FlushAvailable, RecordError
    <2>4. \/ Send(Flushed(base, "Available")) /\ (server.manifest # EmptyManifest => InSync)
          \/ Send(Flushed(base, "Failure"))
      BY <1>tell DEF FlushAvailable, RecordError, MayFail, DeployInv, ClusterFollows
    <2>5. QED
      BY <2>1, <2>2, <2>3, <2>4, FlushTells DEF Promise!Next
  <1>stutter. CASE UNCHANGED vars
    BY <1>stutter DEF vars, apiVars
  <1>qed. QED
    BY <1>ask, <1>hidden, <1>deploy, <1>record, <1>publish, <1>rollback, <1>tell,
       <1>stutter
    DEF Next, Worker, EnsureHistoryUnanswered, MayFail

(* Whoever looks at the API server sees what ReleasePromise says, when the *)
(* history informer is never late and every answer arrives: a version only *)
(* of what is deployed, a status only of what is recorded, "Available"     *)
(* only of what the status says (applyRelease, storage.Update,             *)
(* storage.Rollback).                                                      *)
THEOREM PromiseKept ==
    ASSUME "lag" \notin Faults, "lost" \notin Faults
    PROVE  Spec => KeepsPromise
  <1>1. Inv /\ FaithfulInv /\ DeployInv /\ [Next]_vars => [Promise!Next]_(Promise!vars)
    BY PromiseStep
  <1>2. Inv /\ Inv' /\ FaithfulInv /\ [Next]_vars => FaithfulInv'
    BY FaithfulStep
  <1>3. Inv /\ DeployInv /\ [Next]_vars => DeployInv'
    BY DeployStep
  <1>4. QED
    BY <1>1, <1>2, <1>3, InvHolds, FaithfulInit, DeployInit, PromiseInit, PTL
    DEF Spec, KeepsPromise, Promise!Spec

-------------------------------------------------------------------------------
(* What is still to be done stays visible.                                 *)

(* No copy on its way to the worker asks for a rollback.                   *)
Unasked == {rel \in Release \cup {Nil} : rel.rollbackTo = NoRollback}

NothingAsked == {view, target, job} \subseteq Unasked /\ chan \in Seq(Unasked)

(* Who has seen a request that is no longer on the server sees a release   *)
(* that was rolled back, hence has a manifest.                             *)
RequestInv ==
    /\ rollbacks = 0 => server.rollbackTo = NoRollback
    /\ server.rollbackTo = NoRollback /\ (rollbacks = 0 \/ server.manifest = EmptyManifest)
          => NothingAsked

LEMMA NilUnasked == Nil \in Unasked
  BY DEF Nil, NewRelease, Unasked

LEMMA RequestInit == Init => RequestInv
  <1> SUFFICES ASSUME Init PROVE RequestInv
    OBVIOUS
  <1>1. server \in Release
    BY InvInit DEF Inv, TypeOK
  <1>2. server.rollbackTo = NoRollback
    <2>1. PICK c \in Config, s \in Suspends : server = NewRelease(c, s)
      BY DEF Init
    <2>2. QED
      BY <2>1 DEF NewRelease
  <1>3. QED
    BY <1>1, <1>2, NilUnasked DEF Init, RequestInv, NothingAsked, Unasked

(* Flushing a condition leaves what the user and Update write.             *)
LEMMA FlushKeeps ==
    ASSUME server \in Release, base \in Release, SameStatus(base, server),
           NEW cond \in Condition, Send(Flushed(base, cond))
    PROVE  /\ server'.rollbackTo = server.rollbackTo
           /\ server'.manifest = server.manifest
           /\ server'.cond = cond
  <1> DEFINE want == Flushed(base, cond)
  <1>1. /\ want \in Release /\ want.rollbackTo = base.rollbackTo
        /\ want.manifest = base.manifest /\ want.cond = cond
    BY FlushedFields
  <1> HIDE DEF want
  <1>2. SameStatus(server', want)
    BY <1>1, SendStatus DEF want
  <1>3. server'.rollbackTo = server.rollbackTo
    BY <1>1, PatchedSpec DEF Send, want
  <1>4. QED
    BY <1>1, <1>2, <1>3 DEF SameStatus

(* What the worker's last steps do to the server.                          *)
LEMMA EndsKeep ==
    ASSUME "lost" \notin Faults, Inv, DeployInv, FlushAvailable \/ RecordError
    PROVE  /\ server'.rollbackTo = server.rollbackTo
           /\ server'.manifest = server.manifest
           /\ server'.cond = IF pc = "flush" THEN "Available" ELSE "Failure"
  <1>1. base \in Release /\ server \in Release
    BY DEF FlushAvailable, RecordError, Inv, TypeOK, Assigned
  <1>2. SameStatus(base, server)
    BY <1>1, NilIsNoRelease DEF DeployInv, StatusCurrent
  <1>3. \/ pc = "flush" /\ Send(Flushed(base, "Available"))
        \/ pc = "record" /\ Send(Flushed(base, "Failure"))
    BY DEF FlushAvailable, RecordError, MayFail
  <1>4. QED
    BY <1>1, <1>2, <1>3, FlushKeeps DEF Condition

(* What a rollback does to the server: without the history it only records *)
(* a failure, with it the status gets a manifest.                          *)
LEMMA RollbackKeeps ==
    ASSUME "lost" \notin Faults, Inv, DeployInv, Rollback
    PROVE  \/ /\ server'.rollbackTo = server.rollbackTo
              /\ server'.manifest = server.manifest
           \/ server'.manifest # EmptyManifest
  <1> DEFINE v == job.rollbackTo
  <1>1. job \in Release /\ base \in Release /\ server \in Release
    BY DEF Rollback, Inv, TypeOK, Assigned
  <1>2. SameStatus(base, server)
    BY <1>1, NilIsNoRelease DEF DeployInv, StatusCurrent
  <1>3. CASE v \in DOMAIN histView
    <2> DEFINE want == RolledBack(base, v, histView[v])
    <2>1. Send(want)
      BY <1>3 DEF Rollback, MayFail
    <2>2. histView[v] \in Config /\ v \in Nat
      BY <1>3 DEF Inv, TypeOK, IsHistories
    <2>3. want \in Release /\ want.manifest # EmptyManifest
      <3>1. want \in Release
        BY <1>1, <2>2, ModifierTypes
      <3>2. want.manifest = Render(histView[v], base.suspend)
        BY <1>1 DEF RolledBack, Release
      <3>3. QED
        BY <2>2, <3>1, <3>2, ConfigAssumption DEF Render, EmptyManifest
    <2> HIDE DEF want
    <2>4. QED
      BY <1>1, <1>2, <2>1, <2>3, SendStatus DEF SameStatus
  <1>4. CASE v \notin DOMAIN histView
    <2>1. Send(Flushed(base, "Failure"))
      BY <1>4 DEF Rollback, MayFail
    <2>2. QED
      BY <1>1, <1>2, <2>1, FlushKeeps DEF Condition
  <1>5. QED
    BY <1>3, <1>4

LEMMA RequestStep ==
    ASSUME "lost" \notin Faults
    PROVE  Inv /\ DeployInv /\ RequestInv /\ [Next]_vars => RequestInv'
  <1> SUFFICES ASSUME Inv, DeployInv, RequestInv, [Next]_vars PROVE RequestInv'
    OBVIOUS
  <1>edit. CASE Edit
    <2>1. /\ server'.rollbackTo = server.rollbackTo /\ server'.manifest = server.manifest
          /\ UNCHANGED <<view, target, job, chan, rollbacks>>
      BY <1>edit DEF Edit, Inv, TypeOK, Release, informVars
    <2>2. QED
      BY <2>1 DEF RequestInv, NothingAsked
  <1>request. CASE RequestRollback
    <2>1. server'.rollbackTo # NoRollback /\ rollbacks' # 0
      BY <1>request, HandlerAssumption
      DEF RequestRollback, Inv, TypeOK, Release, NoRollback
    <2>2. QED
      BY <2>1 DEF RequestInv
  <1>informer. CASE ViewCatchesUp \/ Resync \/ HistViewCatchesUp
    <2>1. UNCHANGED <<server, target, job, chan, rollbacks>> /\ view' \in {view, server}
      BY <1>informer DEF ViewCatchesUp, Resync, HistViewCatchesUp, apiVars, budgetVars
    <2>2. server \in Release
      BY DEF Inv, TypeOK
    <2>3. QED
      BY <2>1, <2>2 DEF RequestInv, NothingAsked, Unasked
  <1>trigger. CASE Trigger
    <2>1. UNCHANGED <<server, view, target, job, rollbacks>> /\ chan' = Append(chan, view)
      BY <1>trigger DEF Trigger, apiVars, budgetVars
    <2>2. NothingAsked => NothingAsked'
      BY <2>1 DEF NothingAsked
    <2>3. QED
      BY <2>1, <2>2 DEF RequestInv
  <1>receive. CASE Receive
    <2>1. /\ UNCHANGED <<server, view, job, rollbacks>>
          /\ chan # <<>> /\ chan' = Tail(chan) /\ target' \in {target, Head(chan)}
      BY <1>receive DEF Receive, apiVars, informVars, budgetVars
    <2>2. NothingAsked => NothingAsked'
      BY <2>1 DEF NothingAsked
    <2>3. QED
      BY <2>1, <2>2 DEF RequestInv
  <1>take. CASE Take
    BY <1>take DEF Take, RequestInv, NothingAsked, apiVars, informVars, budgetVars
  <1>list. CASE List
    <2>1. job \in Release /\ job' \in Release
      BY <1>list, InvStep, NilIsNoRelease DEF List, Inv, TypeOK, Assigned, Release
    <2>2. job'.rollbackTo = job.rollbackTo
      BY <1>list, <2>1 DEF List, Release
    <2>3. UNCHANGED <<server, view, target, chan, rollbacks>>
      BY <1>list DEF List, apiVars, informVars, budgetVars
    <2>4. QED
      BY <2>1, <2>2, <2>3 DEF RequestInv, NothingAsked, Unasked
  <1>same. CASE \/ RetryFires \/ Apply \/ ApplyStopsHalfway \/ EnsureHistory \/ CallFails
                \/ UNCHANGED vars
    <2>1. UNCHANGED <<server, view, target, job, chan, rollbacks>>
      BY <1>same DEF RetryFires, Apply, ApplyStopsHalfway, EnsureHistory, CallFails, vars,
                     apiVars, informVars, budgetVars
    <2>2. QED
      BY <2>1 DEF RequestInv, NothingAsked
  <1>patch. CASE PatchStatus
    <2>1. job \in Release /\ base \in Release /\ server \in Release
      BY <1>patch DEF PatchStatus, Inv, TypeOK, Assigned
    <2>2. /\ Updated(base, job) \in Release
          /\ Updated(base, job).manifest = job.manifest
          /\ Updated(base, job).rollbackTo = base.rollbackTo
      BY <2>1, ModifierTypes DEF Updated, Release
    <2>3. Send(Updated(base, job)) /\ UNCHANGED <<view, target, job, chan, rollbacks>>
      BY <1>patch DEF PatchStatus, MayFail, informVars
    <2>4. SameStatus(base, server)
      BY <2>1, NilIsNoRelease DEF DeployInv, StatusCurrent
    <2>5. server'.manifest = job.manifest
      BY <2>1, <2>2, <2>3, <2>4, SendStatus DEF SameStatus
    <2>6. server'.rollbackTo = server.rollbackTo
      BY <2>1, <2>2, <2>3, PatchedSpec DEF Send
    <2>7. job.manifest # EmptyManifest
      BY <1>patch, <2>1, AskedIsManifest
      DEF PatchStatus, DeployInv, JobRendered, ClusterFollows
    <2>8. QED
      BY <2>3, <2>5, <2>6, <2>7 DEF RequestInv, NothingAsked
  <1>rollback. CASE Rollback
    <2>1. job \in Release /\ job' \in Release /\ job'.rollbackTo = job.rollbackTo
          /\ job.rollbackTo # NoRollback
      BY <1>rollback, InvStep, NilIsNoRelease
      DEF Rollback, MayFail, Inv, TypeOK, Assigned, VersionsNumbered, Release
    <2>2. ~ NothingAsked /\ rollbacks' = rollbacks
      BY <1>rollback, <2>1 DEF Rollback, NothingAsked, Unasked
    <2>3. QED
      BY <1>rollback, <2>2, RollbackKeeps DEF RequestInv
  <1>ends. CASE FlushAvailable \/ RecordError
    <2>1. /\ UNCHANGED <<view, target, chan, rollbacks>> /\ job' = Nil
      BY <1>ends DEF FlushAvailable, RecordError, Succeed, GiveBack, informVars
    <2>2. QED
      BY <1>ends, <2>1, EndsKeep, NilUnasked DEF RequestInv, NothingAsked
  <1>fails. CASE RecordFails
    <2>1. UNCHANGED <<server, view, target, chan, rollbacks>> /\ job' = Nil
      BY <1>fails DEF RecordFails, GiveBack, apiVars, informVars
    <2>2. QED
      BY <2>1, NilUnasked DEF RequestInv, NothingAsked
  <1>crash. CASE Crash
    <2>1. /\ UNCHANGED <<server, rollbacks>> /\ view' = server
          /\ target' = Nil /\ job' = Nil /\ chan' = <<>> /\ server \in Release
      BY <1>crash DEF Crash, apiVars, Inv, TypeOK
    <2>2. QED
      BY <2>1, NilUnasked DEF RequestInv, NothingAsked, Unasked
  <1>qed. QED
    BY <1>edit, <1>request, <1>informer, <1>trigger, <1>receive, <1>take, <1>list, <1>same,
       <1>patch, <1>rollback, <1>ends, <1>fails, <1>crash
    DEF Next, Worker, EnsureHistoryUnanswered, MayFail

LEMMA RequestHolds == ASSUME "lost" \notin Faults PROVE Spec => []RequestInv
  <1>1. Inv /\ DeployInv /\ RequestInv /\ [Next]_vars => RequestInv'
    BY RequestStep
  <1>2. QED
    BY <1>1, InvHolds, DeployHolds, RequestInit, PTL DEF Spec

LEMMA DriftStep ==
    ASSUME "lost" \notin Faults, "record" \notin Faults
    PROVE  Inv /\ DeployInv /\ RequestInv /\ DriftIsVisible /\ [Next]_vars
              => DriftIsVisible'
  <1> SUFFICES ASSUME Inv, DeployInv, RequestInv, DriftIsVisible, [Next]_vars
               PROVE  DriftIsVisible'
    OBVIOUS
  <1>user. CASE Edit \/ RequestRollback
    <2>1. /\ server'.manifest = server.manifest /\ server'.cond = server.cond
          /\ server'.rollbackTo = server.rollbackTo \/ server'.rollbackTo # NoRollback
          /\ UNCHANGED <<cluster, pc, queued, delayed, target>>
      <3>1. CASE Edit
        BY <1>user, <3>1 DEF Edit, Inv, TypeOK, Release, queueVars
      <3>2. CASE RequestRollback
        <4>1. PICK v \in RollbackTargets : server' = [server EXCEPT !.rollbackTo = v]
          BY <3>2 DEF RequestRollback
        <4>2. v # NoRollback
          BY HandlerAssumption DEF NoRollback
        <4>3. QED
          BY <3>2, <4>1, <4>2 DEF RequestRollback, Inv, TypeOK, Release, queueVars
      <3>3. QED
        BY <1>user, <3>1, <3>2
    <2>2. QED
      BY <2>1 DEF DriftIsVisible, InSync
  <1>same. CASE \/ ViewCatchesUp \/ HistViewCatchesUp \/ Resync \/ Trigger
                \/ UNCHANGED vars
    <2>1. UNCHANGED <<server, cluster, pc, queued, delayed, target>>
      BY <1>same DEF ViewCatchesUp, HistViewCatchesUp, Resync, Trigger, vars, apiVars,
                     queueVars
    <2>2. QED
      BY <2>1 DEF DriftIsVisible, InSync
  <1>receive. CASE Receive
    <2>1. UNCHANGED <<server, cluster, pc, delayed>>
      BY <1>receive DEF Receive, apiVars
    <2>2. UNCHANGED <<queued, target>> \/ queued'
      BY <1>receive DEF Receive
    <2>3. QED
      BY <2>1, <2>2 DEF DriftIsVisible, InSync
  <1>retry. CASE RetryFires
    BY <1>retry DEF RetryFires, DriftIsVisible
  <1>busy. CASE Take \/ List \/ Apply \/ ApplyStopsHalfway \/ EnsureHistory
                \/ PatchStatus \/ Rollback \/ CallFails
    BY <1>busy DEF Take, List, Apply, ApplyStopsHalfway, EnsureHistory, PatchStatus,
                   Rollback, CallFails, DriftIsVisible
  <1>available. CASE FlushAvailable
    <2>1. /\ pc = "flush" /\ cluster' = cluster
          /\ server'.manifest = server.manifest /\ server'.rollbackTo = server.rollbackTo
      BY <1>available, EndsKeep DEF FlushAvailable
    <2>2. job \in Release
      BY <2>1 DEF Inv, TypeOK, Assigned
    <2>3. InSync \/ server.rollbackTo # NoRollback
      <3>1. CASE server.manifest # EmptyManifest
        BY <2>1, <3>1 DEF DeployInv, ClusterFollows
      <3>2. CASE server.manifest = EmptyManifest
        <4>1. job.rollbackTo # NoRollback
          BY <2>1, <2>2, <3>2, AskedIsManifest DEF DeployInv, ClusterFollows
        <4>2. QED
          BY <3>2, <4>1 DEF RequestInv, NothingAsked, Unasked
      <3>3. QED
        BY <3>1, <3>2
    <2>4. QED
      BY <2>1, <2>3 DEF DriftIsVisible, InSync
  <1>failure. CASE RecordError
    BY <1>failure, EndsKeep DEF RecordError, DriftIsVisible
  <1>crash. CASE Crash
    BY <1>crash DEF Crash, DriftIsVisible
  <1>qed. QED
    BY <1>user, <1>same, <1>receive, <1>retry, <1>busy, <1>available, <1>failure, <1>crash
    DEF Next, Worker, EnsureHistoryUnanswered, RecordFails, MayFail

(* As long as every answer arrives and every failure can be recorded, a    *)
(* cluster that is not what the status says is being worked on, waits for  *)
(* a retry, bears a Failure or a request for a rollback, or is looked at   *)
(* for the first time (handle, recordError).                               *)
THEOREM DriftIsVisibleHolds ==
    ASSUME "lost" \notin Faults, "record" \notin Faults
    PROVE  Spec => []DriftIsVisible
  <1>1. Inv /\ DeployInv /\ RequestInv /\ DriftIsVisible /\ [Next]_vars => DriftIsVisible'
    BY DriftStep
  <1>2. Init => DriftIsVisible
    BY DEF Init, DriftIsVisible
  <1>3. QED
    BY <1>1, <1>2, InvHolds, DeployHolds, RequestHolds, PTL DEF Spec

-------------------------------------------------------------------------------
(* No edit is missed.                                                      *)

(* The worker is at what target asks for, or will be asked again; and what *)
(* it has finished without a failure is applied.                           *)
AppliedInv ==
    /\ pc # "idle" =>
          queued \/ (job.config = target.config /\ job.suspend = target.suspend)
    /\ rollbacks = 0 /\ pc = "idle" /\ target # Nil /\ NormalCondition(server) =>
          queued \/ delayed \/ (InSync /\ server.manifest = Asked(target))

LEMMA AppliedStep ==
    ASSUME "lost" \notin Faults, "record" \notin Faults
    PROVE  Inv /\ DeployInv /\ RequestInv /\ AppliedInv /\ [Next]_vars => AppliedInv'
  <1> SUFFICES ASSUME Inv, DeployInv, RequestInv, AppliedInv, [Next]_vars
               PROVE  AppliedInv'
    OBVIOUS
  <1> USE DEF NormalCondition
  <1>edit. CASE Edit
    <2>1. /\ server'.manifest = server.manifest /\ server'.cond = server.cond
          /\ UNCHANGED <<cluster, pc, job, queued, delayed, target, rollbacks>>
      BY <1>edit DEF Edit, Inv, TypeOK, Release, queueVars
    <2>2. QED
      BY <2>1 DEF AppliedInv, InSync
  <1>request. CASE RequestRollback
    <2>1. rollbacks' # 0
      BY <1>request DEF RequestRollback, Inv, TypeOK
    <2>2. UNCHANGED <<pc, job, queued, target>>
      BY <1>request DEF RequestRollback, queueVars
    <2>3. QED
      BY <2>1, <2>2 DEF AppliedInv
  <1>same. CASE \/ ViewCatchesUp \/ HistViewCatchesUp \/ Resync \/ Trigger
                \/ UNCHANGED vars
    <2>1. UNCHANGED <<server, cluster, pc, job, queued, delayed, target, rollbacks>>
      BY <1>same DEF ViewCatchesUp, HistViewCatchesUp, Resync, Trigger, vars, apiVars,
                     queueVars, budgetVars
    <2>2. QED
      BY <2>1 DEF AppliedInv, InSync
  <1>receive. CASE Receive
    <2>1. UNCHANGED <<server, cluster, pc, job, delayed, rollbacks>>
      BY <1>receive DEF Receive, apiVars, budgetVars
    <2>2. UNCHANGED <<queued, target>> \/ queued'
      BY <1>receive DEF Receive
    <2>3. CASE UNCHANGED <<queued, target>>
      BY <2>1, <2>3 DEF AppliedInv, InSync
    <2>4. CASE queued'
      BY <2>4 DEF AppliedInv
    <2>5. QED
      BY <2>2, <2>3, <2>4
  <1>retry. CASE RetryFires
    BY <1>retry DEF RetryFires, AppliedInv
  <1>take. CASE Take
    BY <1>take DEF Take, AppliedInv
  <1>list. CASE List
    <2>1. job \in Release
      BY <1>list DEF List, Inv, TypeOK, Assigned
    <2>2. job'.config = job.config /\ job'.suspend = job.suspend /\ pc' # "idle"
      BY <1>list, <2>1 DEF List, Release
    <2>3. pc # "idle" /\ UNCHANGED <<queued, target>>
      BY <1>list DEF List, queueVars
    <2>4. QED
      BY <2>2, <2>3 DEF AppliedInv
  <1>busy. CASE Apply \/ ApplyStopsHalfway \/ EnsureHistory \/ PatchStatus \/ CallFails
    <2>1. pc # "idle" /\ pc' # "idle" /\ UNCHANGED <<job, queued, target>>
      BY <1>busy DEF Apply, ApplyStopsHalfway, EnsureHistory, PatchStatus, CallFails,
                     queueVars
    <2>2. QED
      BY <2>1 DEF AppliedInv
  <1>rollback. CASE Rollback
    <2>1. job \in Release
      BY <1>rollback DEF Rollback, Inv, TypeOK, Assigned
    <2>2. /\ job'.config = job.config /\ job'.suspend = job.suspend
          /\ pc # "idle" /\ pc' # "idle" /\ UNCHANGED <<queued, target>>
      BY <1>rollback, <2>1 DEF Rollback, MayFail, Release, queueVars
    <2>3. QED
      BY <2>2 DEF AppliedInv
  <1>available. CASE FlushAvailable
    <2>1. /\ pc = "flush" /\ pc' = "idle"
          /\ UNCHANGED <<cluster, queued, delayed, target, rollbacks>>
          /\ server'.manifest = server.manifest
      BY <1>available, EndsKeep DEF FlushAvailable, Succeed, MayFail
    <2>2. ASSUME rollbacks = 0, ~ queued
          PROVE  InSync /\ server.manifest = Asked(target)
      <3>1. job \in Release /\ job.rollbackTo = NoRollback
        BY <2>1, <2>2 DEF Inv, TypeOK, Assigned, RequestInv, NothingAsked, Unasked
      <3>2. server.manifest = Asked(job) /\ InSync
        BY <2>1, <3>1, AskedIsManifest DEF DeployInv, ClusterFollows
      <3>3. QED
        BY <2>1, <2>2, <3>2 DEF AppliedInv, Asked
    <2>3. QED
      BY <2>1, <2>2 DEF AppliedInv, InSync
  <1>failure. CASE RecordError
    <2>1. pc = "record" /\ pc' = "idle" /\ server'.cond = "Failure"
      BY <1>failure, EndsKeep DEF RecordError, GiveBack
    <2>2. QED
      BY <2>1 DEF AppliedInv
  <1>crash. CASE Crash
    BY <1>crash DEF Crash, AppliedInv
  <1>qed. QED
    BY <1>edit, <1>request, <1>same, <1>receive, <1>retry, <1>take, <1>list, <1>busy,
       <1>rollback, <1>available, <1>failure, <1>crash
    DEF Next, Worker, EnsureHistoryUnanswered, RecordFails, MayFail

(* Under the same conditions the receiver's test for "nothing changed"     *)
(* loses no edit as long as nobody asks for a rollback: once it has no     *)
(* more to do the cluster is what the spec asks for (handle).              *)
THEOREM SettledIsAppliedHolds ==
    ASSUME "lost" \notin Faults, "record" \notin Faults
    PROVE  Spec => []SettledIsApplied
  <1>1. Inv /\ DeployInv /\ RequestInv /\ AppliedInv /\ [Next]_vars => AppliedInv'
    BY AppliedStep
  <1>2. Init => AppliedInv
    BY DEF Init, AppliedInv
  <1>3. AppliedInv => SettledIsApplied
    BY DEF AppliedInv, SettledIsApplied, Settled, Skips, Wanted, Asked
  <1>4. QED
    BY <1>1, <1>2, <1>3, InvHolds, DeployHolds, RequestHolds, PTL DEF Spec
===============================================================================
