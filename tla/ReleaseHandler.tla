---------------------------- MODULE ReleaseHandler ----------------------------
(***************************************************************************)
(* The handler of ONE release (pkg/release) at work on its storage         *)
(* (pkg/storage) and on the API server.                                    *)
(*                                                                         *)
(* Who moves:                                                              *)
(*   the user       edits the spec or asks for a rollback on the server;   *)
(*   the informers  bring the controller's copies of the Release and of    *)
(*                  its ReleaseHistory objects up to date, each in its own *)
(*                  time;                                                  *)
(*   the trigger    (pkg/controller/release) reads the Release informer    *)
(*                  and sends what it finds down the handler's channel;    *)
(*   the receiver   (the FOR loop of handle) compares it with target and   *)
(*                  adds the release's name to the retry queue;            *)
(*   the worker     (the goroutine of handle) runs applyRelease, one API   *)
(*                  call per step;                                         *)
(*   the process    may crash and be restarted between any two steps.      *)
(***************************************************************************)
EXTENDS ReleaseStorage, Sequences

CONSTANTS
    Suspends,        \* the values Spec.Suspend may take
    RollbackTargets, \* the versions a user may ask to roll back to
    Faults,          \* which of AllFaults happen
    ChannelSize,     \* capacity of releaseHandler.queue (10 in the code)
    MaxEdits, MaxRollbacks, MaxFaults, MaxCrashes   \* bounds

(* "call":   a read, render, apply, create or patch returns an error;      *)
(* "record": the patch that would record a condition returns an error;     *)
(* "lost":   a create or a patch is executed but its answer does not       *)
(*           arrive;                                                       *)
(* "lag":    the history informer is behind the server.                    *)
AllFaults == {"call", "record", "lost", "lag"}

ASSUME HandlerAssumption ==
    /\ Suspends \subseteq BOOLEAN
    /\ RollbackTargets \subseteq Nat
    /\ Faults \subseteq AllFaults
    /\ ChannelSize \in Nat \ {0}
    /\ {MaxEdits, MaxRollbacks, MaxFaults, MaxCrashes} \subseteq Nat

(* queue.NumRequeues(target.Name) < 3                                      *)
MaxRequeues == 3

VARIABLES
    server,     \* the Release object on the API server
    histories,  \* the ReleaseHistory objects on the API server
    cluster,    \* what the resources in the cluster were last applied from
    view,       \* the Release informer's copy
    histView,   \* the ReleaseHistory informer's copy
    key,        \* the release's key is in the controller's queue
    chan,       \* releaseHandler.queue
    target,     \* target, shared by receiver and worker
    base,       \* releaseStorage.release, the copy patches are diffed against
    queued,     \* the release's name is in the retry queue
    delayed,    \* it waits for the rate limiter
    requeues,   \* queue.NumRequeues
    pc, job,    \* where the worker is in applyRelease, and its deep copy
    edits, rollbacks, faults, crashes               \* how much was spent

apiVars     == <<server, histories, cluster>>
informVars  == <<view, histView, key>>
queueVars   == <<queued, delayed, requeues>>
budgetVars  == <<edits, rollbacks, faults, crashes>>
vars == <<apiVars, informVars, chan, target, base, queueVars, pc, job, budgetVars>>

Steps == {"idle", "rollback", "list", "apply", "update", "patch", "flush", "record"}

TypeOK ==
    /\ server \in Release
    /\ IsHistories(histories) /\ IsHistories(histView)
    /\ cluster \in [manifest : Manifest \cup {EmptyManifest}, whole : BOOLEAN]
    /\ view \in Release /\ key \in BOOLEAN
    /\ chan \in Seq(Release)
    /\ target \in Release \cup {Nil}
    /\ base \in Release \cup {Nil}
    /\ queued \in BOOLEAN /\ delayed \in BOOLEAN
    /\ requeues \in 0 .. MaxRequeues
    /\ pc \in Steps
    /\ job \in Release \cup {Nil}
    /\ edits \in Nat /\ rollbacks \in Nat /\ faults \in Nat /\ crashes \in Nat

(* The release has just been created and the process has just started.     *)
Init ==
    /\ \E c \in Config, s \in Suspends : server = NewRelease(c, s)
    /\ histories = NoHistories /\ histView = NoHistories
    /\ cluster = [manifest |-> EmptyManifest, whole |-> TRUE]
    /\ view = server /\ key = TRUE
    /\ chan = <<>> /\ target = Nil /\ base = Nil
    /\ queued = FALSE /\ delayed = FALSE /\ requeues = 0
    /\ pc = "idle" /\ job = Nil
    /\ edits = 0 /\ rollbacks = 0 /\ faults = 0 /\ crashes = 0

-------------------------------------------------------------------------------
(* The user.                                                               *)
Edit ==
    /\ edits < MaxEdits
    /\ \E c \in Config, s \in Suspends :
         /\ <<c, s>> # <<server.config, server.suspend>>
         /\ server' = [server EXCEPT !.config = c, !.suspend = s]
    /\ edits' = edits + 1
    /\ UNCHANGED <<histories, cluster, informVars, chan, target, base, queueVars,
                   pc, job, rollbacks, faults, crashes>>

RequestRollback ==
    /\ rollbacks < MaxRollbacks
    /\ \E v \in RollbackTargets :
         server' = [server EXCEPT !.rollbackTo = v]
    /\ rollbacks' = rollbacks + 1
    /\ UNCHANGED <<histories, cluster, informVars, chan, target, base, queueVars,
                   pc, job, edits, faults, crashes>>

-------------------------------------------------------------------------------
(* The informers.  A watch may deliver several changes before anyone reads *)
(* the copy, so catching up in one step loses no behaviour.                *)
ViewCatchesUp ==
    /\ view # server
    /\ view' = server
    /\ key' = TRUE
    /\ UNCHANGED <<apiVars, histView, chan, target, base, queueVars, pc, job,
                   budgetVars>>

HistViewCatchesUp ==
    /\ histView # histories
    /\ histView' = histories
    /\ UNCHANGED <<apiVars, view, key, chan, target, base, queueVars, pc, job,
                   budgetVars>>

(* The periodic resync (30 s) of the event handler.  Bound: the informer   *)
(* is never a whole period late, so what a resync finds is current.        *)
Resync ==
    /\ view = server /\ ~ key
    /\ key' = TRUE
    /\ UNCHANGED <<apiVars, view, histView, chan, target, base, queueVars, pc, job,
                   budgetVars>>

(* The controller's worker takes the key, reads the informer and sends the *)
(* release down the channel; it blocks while the channel is full.  The     *)
(* first send creates the handler and its storage.                         *)
Trigger ==
    /\ key /\ Len(chan) < ChannelSize
    /\ key' = FALSE
    /\ chan' = Append(chan, view)
    /\ base' = IF base = Nil THEN view ELSE base
    /\ UNCHANGED <<apiVars, view, histView, target, queueVars, pc, job, budgetVars>>

-------------------------------------------------------------------------------
(* The receiver.                                                           *)
NormalCondition(rel) == rel.cond \notin {"", "Failure"}

(* Faulty variants of Skips, which the properties must tell from it: one   *)
(* forgets the condition, one Suspend, one the rollback.                   *)
SkipsFailed(rel) ==
    /\ target # Nil
    /\ rel.rollbackTo = NoRollback
    /\ target.config = rel.config /\ target.suspend = rel.suspend

SkipsSuspended(rel) ==
    /\ target # Nil
    /\ rel.rollbackTo = NoRollback
    /\ target.config = rel.config
    /\ NormalCondition(rel)

SkipsRollback(rel) ==
    /\ target # Nil
    /\ target.config = rel.config /\ target.suspend = rel.suspend
    /\ NormalCondition(rel)

(* Nothing to do for rel: it asks for what target asked for.               *)
Skips(rel) ==
    /\ target # Nil
    /\ rel.rollbackTo = NoRollback
    /\ target.config = rel.config
    /\ target.suspend = rel.suspend
    /\ NormalCondition(rel)

Receive ==
    /\ chan # <<>>
    /\ chan' = Tail(chan)
    /\ \/ /\ Skips(Head(chan))
          /\ UNCHANGED <<target, queued, requeues>>
       \/ /\ ~ Skips(Head(chan))
          /\ target' = Head(chan)
          /\ requeues' = 0
          /\ queued' = TRUE
    /\ UNCHANGED <<apiVars, informVars, base, delayed, pc, job, budgetVars>>

RetryFires ==
    /\ delayed
    /\ delayed' = FALSE
    /\ queued' = TRUE
    /\ UNCHANGED <<apiVars, informVars, chan, target, base, requeues, pc, job,
                   budgetVars>>

-------------------------------------------------------------------------------
(* The worker: handle's goroutine around applyRelease.                     *)
MayFail(kind) == kind \in Faults /\ faults < MaxFaults
Fails == faults' = faults + 1

Take ==
    /\ pc = "idle" /\ queued
    /\ queued' = FALSE
    /\ job' = target
    /\ pc' = IF target.rollbackTo = NoRollback THEN "list" ELSE "rollback"
    /\ UNCHANGED <<apiVars, informVars, chan, target, base, delayed, requeues,
                   budgetVars>>

(* applyRelease returned nil: queue.Forget.                                *)
Succeed ==
    /\ pc' = "idle" /\ job' = Nil
    /\ requeues' = 0
    /\ UNCHANGED delayed

(* A faulty variant of GiveBack: one retry too many.                       *)
GiveBackLate ==
    /\ pc' = "idle" /\ job' = Nil
    /\ \/ /\ requeues <= MaxRequeues
          /\ requeues' = requeues + 1
          /\ delayed' = TRUE
       \/ /\ requeues > MaxRequeues
          /\ UNCHANGED <<requeues, delayed>>

(* applyRelease returned an error: retry it later or drop it.              *)
GiveBack ==
    /\ pc' = "idle" /\ job' = Nil
    /\ \/ /\ requeues < MaxRequeues
          /\ requeues' = requeues + 1
          /\ delayed' = TRUE
       \/ /\ requeues >= MaxRequeues
          /\ UNCHANGED <<requeues, delayed>>

(* storage.Patch with a modifier that turns base into want.  When the two  *)
(* do not differ, their timestamps included, no request is sent.           *)
Send(want) ==
    \/ /\ server' \in Patches(base, want, server)
       /\ base' = server'
    \/ /\ want = base
       /\ UNCHANGED <<server, base>>

SendUnanswered(want) ==
    /\ server' \in Patches(base, want, server)
    /\ UNCHANGED base
    /\ Fails

(* Histories(), the version, the rendering.                                *)
List ==
    /\ pc = "list"
    /\ \/ /\ job.config \notin BadConfig
          /\ job' = [job EXCEPT !.version = NextVersion(histView, job),
                                !.manifest = Render(job.config, job.suspend)]
          /\ pc' = "apply"
       \/ /\ job.config \in BadConfig
          /\ job' = [job EXCEPT !.version = NextVersion(histView, job)]
          /\ pc' = "record"
    /\ UNCHANGED <<apiVars, informVars, chan, target, base, queueVars, budgetVars>>

(* client.Apply of every resource of the manifest; an empty one has none.  *)
Apply ==
    /\ pc = "apply"
    /\ cluster' = IF job.manifest = EmptyManifest THEN cluster
                  ELSE [manifest |-> job.manifest, whole |-> TRUE]
    /\ pc' = IF job.rollbackTo = NoRollback THEN "update" ELSE "flush"
    /\ UNCHANGED <<server, histories, informVars, chan, target, base, queueVars,
                   job, budgetVars>>

(* A faulty variant of ApplyStopsHalfway: the error is passed over.        *)
ApplyGoesOn ==
    /\ pc = "apply" /\ job.manifest # EmptyManifest
    /\ MayFail("call") \/ MayFail("lost")
    /\ Fails
    /\ cluster' = [manifest |-> job.manifest, whole |-> FALSE]
    /\ pc' = IF job.rollbackTo = NoRollback THEN "update" ELSE "flush"
    /\ UNCHANGED <<server, histories, informVars, chan, target, base, queueVars,
                   job, edits, rollbacks, crashes>>

(* client.Apply stops at the first resource that fails, or whose answer    *)
(* does not arrive.                                                        *)
ApplyStopsHalfway ==
    /\ pc = "apply" /\ job.manifest # EmptyManifest
    /\ MayFail("call") \/ MayFail("lost")
    /\ Fails
    /\ cluster' = [manifest |-> job.manifest, whole |-> FALSE]
    /\ pc' = "record"
    /\ UNCHANGED <<server, histories, informVars, chan, target, base, queueVars,
                   job, edits, rollbacks, crashes>>

(* The layer over the informer is told of what was created; it does not    *)
(* help where the informer is late.                                        *)
Learned(v, c) == IF "lag" \in Faults THEN histView ELSE AddHistory(histView, v, c)

(* Update, first half: find the history of the version in the informer, or *)
(* create it on the server, which refuses a name it already has.           *)
EnsureHistory ==
    /\ pc = "update"
    /\ \/ /\ job.version \in DOMAIN histView
          /\ pc' = "patch"
          /\ UNCHANGED <<histories, histView>>
       \/ /\ job.version \notin DOMAIN histView
          /\ job.version \notin DOMAIN histories
          /\ histories' = AddHistory(histories, job.version, job.config)
          /\ histView' = Learned(job.version, job.config)
          /\ pc' = "patch"
       \/ /\ job.version \notin DOMAIN histView
          /\ job.version \in DOMAIN histories
          /\ pc' = "record"
          /\ UNCHANGED <<histories, histView>>
    /\ UNCHANGED <<server, cluster, view, key, chan, target, base, queueVars, job,
                   budgetVars>>

(* The history is created, but the answer does not arrive: the layer has   *)
(* it only when the informer brings it.                                    *)
EnsureHistoryUnanswered ==
    /\ pc = "update" /\ MayFail("lost") /\ Fails
    /\ job.version \notin DOMAIN histView \cup DOMAIN histories
    /\ histories' = AddHistory(histories, job.version, job.config)
    /\ pc' = "record"
    /\ UNCHANGED <<server, cluster, informVars, chan, target, base, queueVars, job,
                   edits, rollbacks, crashes>>

(* Update, second half.                                                    *)
PatchStatus ==
    /\ pc = "patch"
    /\ \/ /\ Send(Updated(base, job))
          /\ pc' = "flush"
          /\ UNCHANGED faults
       \/ /\ MayFail("lost") /\ SendUnanswered(Updated(base, job))
          /\ pc' = "record"
    /\ UNCHANGED <<histories, cluster, informVars, chan, target, queueVars, job,
                   edits, rollbacks, crashes>>

(* Rollback.  Without the history it only records a failure, and returns   *)
(* the release as if it had rolled back.                                   *)
Rollback ==
    /\ pc = "rollback"
    /\ LET known == job.rollbackTo \in DOMAIN histView
           want  == IF known
                    THEN RolledBack(base, job.rollbackTo, histView[job.rollbackTo])
                    ELSE Flushed(base, "Failure")
       IN \/ /\ Send(want)
             /\ job' = [job EXCEPT !.manifest = base'.manifest]
             /\ pc' = "apply"
             /\ UNCHANGED faults
          \/ /\ MayFail("lost") /\ SendUnanswered(want)
             /\ pc' = "record"
             /\ UNCHANGED job
    /\ UNCHANGED <<histories, cluster, informVars, chan, target, queueVars,
                   edits, rollbacks, crashes>>

(* A faulty variant of CallFails: an error of Update's first half is       *)
(* passed over.                                                            *)
CallFailsUnnoticed ==
    /\ pc \in {"rollback", "list", "apply", "update", "patch"}
    /\ MayFail("call") /\ Fails
    /\ pc' = IF pc = "update" THEN "patch" ELSE "record"
    /\ UNCHANGED <<apiVars, informVars, chan, target, base, queueVars, job,
                   edits, rollbacks, crashes>>

(* Any of these calls may return an error before it has changed anything;  *)
(* applyRelease then goes to recordError.                                  *)
CallFails ==
    /\ pc \in {"rollback", "list", "apply", "update", "patch"}
    /\ MayFail("call") /\ Fails
    /\ pc' = "record"
    /\ UNCHANGED <<apiVars, informVars, chan, target, base, queueVars, job,
                   edits, rollbacks, crashes>>

(* The last FlushConditions(Available); an error of it is only returned.   *)
FlushAvailable ==
    /\ pc = "flush"
    /\ \/ /\ Send(Flushed(base, "Available"))
          /\ Succeed
          /\ UNCHANGED faults
       \/ /\ MayFail("lost") /\ SendUnanswered(Flushed(base, "Available"))
          /\ GiveBack
    /\ UNCHANGED <<histories, cluster, informVars, chan, target, queued,
                   edits, rollbacks, crashes>>

(* A faulty variant of RecordError: it only returns the error.             *)
ReturnError ==
    /\ pc = "record"
    /\ GiveBack
    /\ UNCHANGED <<server, base, faults, histories, cluster, informVars, chan, target,
                   queued, edits, rollbacks, crashes>>

RecordError ==
    /\ pc = "record"
    /\ \/ Send(Flushed(base, "Failure")) /\ UNCHANGED faults
       \/ MayFail("lost") /\ SendUnanswered(Flushed(base, "Failure"))
    /\ GiveBack
    /\ UNCHANGED <<histories, cluster, informVars, chan, target, queued,
                   edits, rollbacks, crashes>>

(* Neither the condition nor the failure reaches the server.               *)
RecordFails ==
    /\ pc \in {"flush", "record"}
    /\ MayFail("record") /\ Fails
    /\ GiveBack
    /\ UNCHANGED <<apiVars, informVars, chan, target, base, queued,
                   edits, rollbacks, crashes>>

Worker ==
    \/ Take \/ List \/ Apply \/ ApplyStopsHalfway
    \/ EnsureHistory \/ EnsureHistoryUnanswered \/ PatchStatus
    \/ Rollback \/ CallFails
    \/ FlushAvailable \/ RecordError \/ RecordFails

-------------------------------------------------------------------------------
(* The process dies; its successor lists both kinds afresh.                *)
Crash ==
    /\ crashes < MaxCrashes
    /\ crashes' = crashes + 1
    /\ view' = server /\ histView' = histories /\ key' = TRUE
    /\ chan' = <<>> /\ target' = Nil /\ base' = Nil
    /\ queued' = FALSE /\ delayed' = FALSE /\ requeues' = 0
    /\ pc' = "idle" /\ job' = Nil
    /\ UNCHANGED <<apiVars, edits, rollbacks, faults>>

Next ==
    \/ Edit \/ RequestRollback
    \/ ViewCatchesUp \/ HistViewCatchesUp
    \/ Resync \/ Trigger \/ Receive \/ RetryFires
    \/ Worker
    \/ Crash

Spec == Init /\ [][Next]_vars

(* What the code keeps doing: both informers watch, the key queue is       *)
(* served and resynced, the two goroutines of handle run, timers fire.     *)
Fairness ==
    /\ WF_vars(ViewCatchesUp) /\ WF_vars(HistViewCatchesUp)
    /\ WF_vars(Resync) /\ WF_vars(Trigger) /\ WF_vars(Receive) /\ WF_vars(RetryFires)
    /\ WF_vars(Worker)

FairSpec == Spec /\ Fairness

-------------------------------------------------------------------------------
(* What the spec asks of the cluster.                                      *)
Wanted == Render(server.config, server.suspend)

(* The resources in the cluster are exactly those of the status manifest.  *)
InSync == cluster = [manifest |-> server.manifest, whole |-> TRUE]

(* Nothing is under way and the next event will be skipped.                *)
Settled ==
    /\ pc = "idle" /\ ~ queued /\ ~ delayed /\ chan = <<>>
    /\ view = server /\ Skips(server)

(* Versions are handed out one after the other: however stale the list the *)
(* next number was computed from, Create never leaves a gap behind         *)
(* (applyRelease's nextVersion, storage.Update).                           *)
Contiguous == DOMAIN histories = 1 .. LatestVersion(histories)

(* The history that Status.Version names records the very config that      *)
(* Status.Manifest was rendered from (storage.Update, storage.Rollback):   *)
(* a rollback to that version brings back what was running.                *)
SnapshotFaithful ==
    server.version # 0 =>
        /\ server.version \in DOMAIN histories
        /\ server.manifest.config = histories[server.version]

(* Whenever the cluster differs from the status manifest, the worker is    *)
(* still at it, a retry is due, a Failure is recorded, a rollback is asked *)
(* for, or the process has just started and will apply on the first event  *)
(* (handle, recordError).                                                  *)
DriftIsVisible ==
    \/ InSync
    \/ server.rollbackTo # NoRollback
    \/ pc # "idle" \/ queued \/ delayed
    \/ server.cond = "Failure"
    \/ target = Nil

(* When the receiver has nothing more to do, the cluster is what the spec  *)
(* asks for: its test for "nothing changed" loses no edit (handle).  After *)
(* a rollback target is not what was applied last: see NoEditMissed.       *)
SettledIsApplied == rollbacks = 0 /\ Settled => InSync /\ server.manifest = Wanted

(* "Config was changed. Add it to queue" (handle), rollback or not.        *)
NoEditMissed == Settled => InSync /\ server.manifest = Wanted

(* The version a release is said to be at has a history, whatever failed   *)
(* and however late the informers are (storage.Update, storage.Rollback).  *)
VersionRecorded == server.version \in DOMAIN histories \cup {0}

(* Once the user is done and the API server answers again, a release that  *)
(* is never rolled back becomes and stays Available, with what its spec    *)
(* asks for applied (handle's retries, and the resync after the last one). *)
Converges ==
    <>[](rollbacks = 0 => server.cond = "Available" /\ InSync /\ server.manifest = Wanted)

(* A rollback to a version that has a history ends with RollbackTo cleared *)
(* (applyRelease, storage.Rollback).                                       *)
RollbackServed ==
    server.rollbackTo \in DOMAIN histories ~> server.rollbackTo = NoRollback

(* What is seen on the API server is what ReleasePromise allows: resources *)
(* first, then the history, then the status, and no "Available" over a     *)
(* half-done apply (applyRelease, storage.Update, storage.Rollback).       *)
Promise == INSTANCE ReleasePromise WITH
               server <- server, histories <- histories, cluster <- cluster

KeepsPromise == Promise!Spec

===============================================================================
