--------------------------- MODULE GarbageCollector ---------------------------
(***************************************************************************)
(* The garbage collector (pkg/controller/gc) beside the handler of a       *)
(* release name, whose release may be deleted and created anew.            *)
(*                                                                         *)
(* The handler's part is what the collector can see of applyRelease: it    *)
(* creates or updates the objects of a manifest one by one, creates the    *)
(* history, and only then patches Status.Manifest and Status.Version.      *)
(*                                                                         *)
(* An object is a resource with a name of its own or the history of a      *)
(* version.  Its id stands for its UID, its owners for the owner           *)
(* references: releases, or Other for any owner that is not a release.     *)
(***************************************************************************)
EXTENDS Integers, FiniteSets

CONSTANTS
    Releases,      \* the UIDs of the releases that bear the name in turn
    NoRelease,     \* there is none
    Other,         \* an owner that is not a release
    Names,         \* the names of resources
    Workers,       \* the collector's goroutines
    HistoryLimit,  \* gc.historyLimit
    MaxApplies, MaxRollbacks, MaxShares, MaxFaults   \* bounds

ASSUME CollectorAssumption ==
    /\ NoRelease \notin Releases /\ Other \notin Releases
    /\ HistoryLimit \in Nat
    /\ {MaxApplies, MaxRollbacks, MaxShares, MaxFaults} \subseteq Nat

VARIABLES
    rel,       \* the release on the API server
    objects,   \* the resources and histories on the API server
    nextId,    \* the next UID
    used,      \* the releases created so far
    dropped,   \* names some manifest of the present release did without
    plan,      \* what the handler is applying, for whom, and what it has done
    relView,   \* the Release informer's copy
    objView,   \* the copies of the other informers
    removed,   \* histories that are gone but for objView: the id, and nextId then
    tracked,   \* gc.resources: an entry per owner and object id
    old,       \* the ids of objects older than three seconds
    queue,     \* the UIDs of the releases in gc.queue
    worker,    \* what each goroutine is doing
    applies, rollbacks, shares, faults   \* how much was spent

handlerVars == <<used, dropped, plan, applies, rollbacks>>
viewVars    == <<relView, objView, removed, tracked, old>>
vars == <<rel, objects, nextId, handlerVars, viewVars, queue, worker, shares, faults>>

(* Status.Manifest as the set of names in it, and Status.Version.          *)
Release == [uid : Releases, manifest : SUBSET Names, version : Nat]
Nothing == [uid |-> NoRelease, manifest |-> {}, version |-> 0]

(* key is a name for a resource and a version for a history; names is what *)
(* a history's config renders to.                                          *)
Object == [id : Nat, history : BOOLEAN, key : Names \cup Nat, names : SUBSET Names,
           owners : SUBSET (Releases \cup {Other})]

Resource(n)         == {o \in objects : ~ o.history /\ o.key = n}
History(v)          == {o \in objects : o.history /\ o.key = v}
HistoriesIn(set, u) == {o \in set : o.history /\ o.owners = {u}}

NoPlan == [uid |-> NoRelease, names |-> {}, done |-> {}, version |-> 0]
Idle   == [pc |-> "idle", uid |-> NoRelease, alive |-> FALSE, desired |-> {},
           version |-> 0, todo |-> {}]

Worker == [pc : {"idle", "scan", "loop"}, uid : Releases \cup {NoRelease}, alive : BOOLEAN,
           desired : SUBSET Names, version : Nat, todo : SUBSET Object]

TypeOK ==
    /\ rel \in Release \cup {Nothing} /\ relView \in Release \cup {Nothing}
    /\ objects \subseteq Object /\ objView \subseteq Object
    /\ nextId \in Nat /\ old \subseteq Nat /\ removed \subseteq [id : Nat, next : Nat]
    /\ used \subseteq Releases /\ dropped \subseteq Names
    /\ plan \in [uid : Releases \cup {NoRelease}, names : SUBSET Names,
                 done : SUBSET Names, version : Nat]
    /\ tracked \subseteq [owner : Releases, obj : Object]
    /\ queue \subseteq Releases
    /\ worker \in [Workers -> Worker]
    /\ {applies, rollbacks, shares, faults} \subseteq Nat

Init ==
    /\ rel = Nothing /\ relView = Nothing
    /\ objects = {} /\ objView = {} /\ removed = {} /\ tracked = {} /\ old = {} /\ nextId = 0
    /\ used = {} /\ dropped = {} /\ plan = NoPlan
    /\ queue = {} /\ worker = [w \in Workers |-> Idle]
    /\ applies = 0 /\ rollbacks = 0 /\ shares = 0 /\ faults = 0

-------------------------------------------------------------------------------
(* The user creates and deletes the release.                               *)
CreateRelease ==
    /\ rel = Nothing
    /\ \E u \in Releases \ used :
         /\ rel' = [uid |-> u, manifest |-> {}, version |-> 0]
         /\ used' = used \cup {u}
    /\ dropped' = {}
    /\ UNCHANGED <<objects, nextId, plan, applies, rollbacks, viewVars, queue, worker,
                   shares, faults>>

DeleteRelease ==
    /\ rel # Nothing
    /\ rel' = Nothing
    /\ UNCHANGED <<objects, nextId, handlerVars, viewVars, queue, worker, shares, faults>>

(* Another controller adds its owner reference to an object, or takes it   *)
(* off again.                                                              *)
Share ==
    /\ shares < MaxShares
    /\ \E o \in objects :
         LET owners == IF Other \in o.owners THEN o.owners \ {Other}
                                             ELSE o.owners \cup {Other}
         IN objects' = (objects \ {o}) \cup {[o EXCEPT !.owners = owners]}
    /\ shares' = shares + 1
    /\ UNCHANGED <<rel, nextId, handlerVars, viewVars, queue, worker, faults>>

-------------------------------------------------------------------------------
(* The handler.  It serves the release its informer shows, until it is     *)
(* through; plan.version is the version it has a history for.              *)
StartApply ==
    /\ plan = NoPlan /\ relView # Nothing /\ applies < MaxApplies
    /\ \E names \in SUBSET Names \ {{}} :
         plan' = [uid |-> relView.uid, names |-> names, done |-> {}, version |-> 0]
    /\ applies' = applies + 1
    /\ UNCHANGED <<rel, objects, nextId, used, dropped, rollbacks, viewVars, queue, worker,
                   shares, faults>>

(* client.Apply of one resource: created if absent, updated in place if    *)
(* the release owns it.                                                    *)
ApplyOne ==
    /\ \E n \in plan.names \ plan.done :
         /\ plan' = [plan EXCEPT !.done = @ \cup {n}]
         /\ \/ /\ Resource(n) = {}
               /\ objects' = objects \cup {[id |-> nextId, history |-> FALSE, key |-> n,
                                            names |-> {}, owners |-> {plan.uid}]}
               /\ nextId' = nextId + 1
            \/ /\ \E o \in Resource(n) : plan.uid \in o.owners
               /\ UNCHANGED <<objects, nextId>>
    /\ UNCHANGED <<rel, used, dropped, applies, rollbacks, viewVars, queue, worker, shares,
                   faults>>

NewVersion(u) ==
    LET mine == HistoriesIn(objView, u)
    IN  IF mine = {} THEN 1
        ELSE 1 + CHOOSE m \in {o.key : o \in mine} : \A o \in mine : o.key <= m

(* storage.Update, first half.  The name of a history only has the name of *)
(* the release in it: a version of a former release stands in the way.     *)
CreateHistory ==
    /\ plan # NoPlan /\ plan.done = plan.names /\ plan.version = 0
    /\ LET v == NewVersion(plan.uid)
       IN /\ History(v) = {}
          /\ objects' = objects \cup {[id |-> nextId, history |-> TRUE, key |-> v,
                                       names |-> plan.names, owners |-> {plan.uid}]}
          /\ plan' = [plan EXCEPT !.version = v]
    /\ nextId' = nextId + 1
    /\ UNCHANGED <<rel, used, dropped, applies, rollbacks, viewVars, queue, worker, shares,
                   faults>>

(* storage.Update, second half: a patch by name.  After a rollback it      *)
(* changes nothing.  It fails when the release is gone.                    *)
PatchStatus ==
    /\ plan # NoPlan /\ plan.done = plan.names /\ plan.version # 0
    /\ plan' = NoPlan
    /\ \/ /\ rel # Nothing
          /\ rel' = [rel EXCEPT !.manifest = plan.names, !.version = plan.version]
          /\ dropped' = dropped \cup (Names \ plan.names)
       \/ /\ rel = Nothing
          /\ UNCHANGED <<rel, dropped>>
    /\ UNCHANGED <<objects, nextId, used, applies, rollbacks, viewVars, queue, worker,
                   shares, faults>>

(* storage.Rollback patches the release before anything is applied.        *)
Rollback ==
    /\ plan = NoPlan /\ relView # Nothing /\ rel.uid = relView.uid
    /\ rollbacks < MaxRollbacks
    /\ \E h \in HistoriesIn(objView, rel.uid) :
         /\ rel' = [rel EXCEPT !.manifest = h.names, !.version = h.key]
         /\ dropped' = dropped \cup (Names \ h.names)
         /\ plan' = [uid |-> rel.uid, names |-> h.names, done |-> {}, version |-> h.key]
    /\ rollbacks' = rollbacks + 1
    /\ UNCHANGED <<objects, nextId, used, applies, viewVars, queue, worker, shares, faults>>

(* The handler gives up: a resource or a history belongs to another, or    *)
(* its retries are spent.                                                  *)
GiveUp ==
    /\ plan # NoPlan
    /\ plan' = NoPlan
    /\ UNCHANGED <<rel, objects, nextId, used, dropped, applies, rollbacks, viewVars, queue,
                   worker, shares, faults>>

-------------------------------------------------------------------------------
(* The informers and the event handlers of the collector.                  *)
(* A faulty variant of SeeRelease: the update event enqueues the old one.  *)
SeeReleaseOld ==
    /\ relView # rel
    /\ relView' = rel
    /\ queue' = queue \cup {relView.uid}
    /\ UNCHANGED <<rel, objects, nextId, handlerVars, objView, removed, tracked, old, worker, shares,
                   faults>>

SeeRelease ==
    /\ relView # rel
    /\ relView' = rel
    /\ queue' = queue \cup {IF rel = Nothing THEN relView.uid ELSE rel.uid}
    /\ UNCHANGED <<rel, objects, nextId, handlerVars, objView, removed, tracked, old, worker, shares,
                   faults>>

(* The only owner of o when that is a release: {} otherwise.               *)
SoleOwner(o) == {u \in Releases : o.owners = {u}}
Entries(o)   == {e \in tracked : e.owner \in SoleOwner(o) /\ e.obj.id = o.id}

(* OnAdd, OnUpdate: releaseResources.set.                                  *)
SeeObject ==
    /\ \E o \in objects \ objView :
         /\ objView' = {p \in objView : p.id # o.id} \cup {o}
         /\ tracked' = (tracked \ Entries(o)) \cup {[owner |-> u, obj |-> o] : u \in SoleOwner(o)}
    /\ UNCHANGED <<rel, objects, nextId, handlerVars, relView, removed, old, queue, worker,
                   shares, faults>>

(* OnDelete: releaseResources.remove.  One informer shows the histories:   *)
(* those that were created before o was deleted it has shown by then.      *)
SeeDeletion ==
    /\ \E o \in objView :
         /\ \A p \in objects : p.id # o.id
         /\ \A d \in removed, p \in objects :
              d.id = o.id /\ p.history /\ p.id < d.next => \E q \in objView : q.id = p.id
         /\ objView' = objView \ {o}
         /\ removed' = {d \in removed : d.id # o.id}
         /\ tracked' = tracked \ Entries(o)
    /\ UNCHANGED <<rel, objects, nextId, handlerVars, relView, old, queue, worker, shares,
                   faults>>

(* Three seconds pass.                                                     *)
Age ==
    /\ \E o \in objects : o.id \notin old
    /\ old' = {o.id : o \in objects}
    /\ UNCHANGED <<rel, objects, nextId, handlerVars, relView, objView, removed, tracked, queue,
                   worker, shares, faults>>

(* resync adds a fake release for every owner in the map.                  *)
Resync(u) ==
    /\ u \notin queue /\ \E e \in tracked : e.owner = u
    /\ queue' = queue \cup {u}
    /\ UNCHANGED <<rel, objects, nextId, handlerVars, viewVars, worker, shares, faults>>

-------------------------------------------------------------------------------
(* A worker: processNextWorkItem around collect.                           *)
(* A faulty variant of Retain: one too few.                                *)
RetainFewer(v, version) == v + HistoryLimit - 1 > version

Retain(v, version) == v + HistoryLimit > version

(* collect reads the release: an empty manifest ends it, another UID means *)
(* the release it was called for is dead.                                  *)
Begin(w, u) ==
    /\ worker[w].pc = "idle" /\ u \in queue
    /\ queue' = queue \ {u}
    /\ \/ /\ relView.uid = u /\ relView.manifest = {}
          /\ UNCHANGED worker
       \/ /\ relView.uid = u /\ relView.manifest # {}
          /\ worker' = [worker EXCEPT ![w] =
                [pc |-> "scan", uid |-> u, alive |-> TRUE, todo |-> {},
                 desired |-> relView.manifest, version |-> relView.version]]
       \/ /\ relView.uid # u
          /\ worker' = [worker EXCEPT ![w] =
                [pc |-> "scan", uid |-> u, alive |-> FALSE, todo |-> {},
                 desired |-> {}, version |-> 0]]
    /\ UNCHANGED <<rel, objects, nextId, handlerVars, viewVars, shares, faults>>

(* It copies the release's entries and passes over the young ones.         *)
Scan(w) ==
    /\ worker[w].pc = "scan"
    /\ worker' = [worker EXCEPT ![w].pc = "loop",
                     ![w].todo = {e.obj : e \in {e \in tracked : e.owner = worker[w].uid
                                                            /\ e.obj.id \in old}}]
    /\ UNCHANGED <<rel, objects, nextId, handlerVars, viewVars, queue, shares, faults>>

(* A faulty variant of Keeps: a living release keeps every history.        *)
KeepsHistories(w, o) ==
    IF o.history THEN worker[w].alive ELSE o.key \in worker[w].desired

Keeps(w, o) ==
    IF o.history THEN worker[w].alive /\ Retain(o.key, worker[w].version)
                 ELSE o.key \in worker[w].desired

Keep(w) ==
    /\ worker[w].pc = "loop"
    /\ \E o \in worker[w].todo :
         /\ Keeps(w, o)
         /\ worker' = [worker EXCEPT ![w].todo = @ \ {o}]
    /\ UNCHANGED <<rel, objects, nextId, handlerVars, viewVars, queue, shares, faults>>

(* Delete by name, on condition of the UID; not found is as good.          *)
SameName(o) == {p \in objects : p.history = o.history /\ p.key = o.key}

Departed(set) == {[id |-> p.id, next |-> nextId] : p \in {p \in set : p.history}}

(* A faulty variant of Delete: without the precondition.                   *)
DeleteAnyUid(w) ==
    /\ worker[w].pc = "loop"
    /\ \E o \in worker[w].todo :
         /\ ~ Keeps(w, o)
         /\ objects' = objects \ SameName(o)
         /\ removed' = removed \cup Departed(SameName(o))
         /\ tracked' = tracked \ Entries(o)
         /\ worker' = [worker EXCEPT ![w].todo = @ \ {o}]
    /\ UNCHANGED <<rel, nextId, handlerVars, relView, objView, old, queue, shares, faults>>

Delete(w) ==
    /\ worker[w].pc = "loop"
    /\ \E o \in worker[w].todo :
         /\ ~ Keeps(w, o)
         /\ \A p \in SameName(o) : p.id = o.id
         /\ objects' = objects \ SameName(o)
         /\ removed' = removed \cup Departed(SameName(o))
         /\ tracked' = tracked \ Entries(o)
         /\ worker' = [worker EXCEPT ![w].todo = @ \ {o}]
    /\ UNCHANGED <<rel, nextId, handlerVars, relView, objView, old, queue, shares, faults>>

(* The UID is another's, or the call fails: collect ends with an error and *)
(* the release is added again.                                             *)
DeleteFails(w) ==
    /\ worker[w].pc = "loop"
    /\ \E o \in worker[w].todo :
         /\ ~ Keeps(w, o)
         /\ \/ /\ \E p \in SameName(o) : p.id # o.id
               /\ UNCHANGED faults
            \/ /\ faults < MaxFaults
               /\ faults' = faults + 1
    /\ queue' = queue \cup {worker[w].uid}
    /\ worker' = [worker EXCEPT ![w] = Idle]
    /\ UNCHANGED <<rel, objects, nextId, handlerVars, viewVars, shares>>

Finish(w) ==
    /\ worker[w].pc = "loop" /\ worker[w].todo = {}
    /\ worker' = [worker EXCEPT ![w] = Idle]
    /\ UNCHANGED <<rel, objects, nextId, handlerVars, viewVars, queue, shares, faults>>

Collect(w) == Scan(w) \/ Keep(w) \/ Delete(w) \/ DeleteFails(w) \/ Finish(w)

-------------------------------------------------------------------------------
Next ==
    \/ CreateRelease \/ DeleteRelease \/ Share
    \/ StartApply \/ ApplyOne \/ CreateHistory \/ PatchStatus \/ Rollback \/ GiveUp
    \/ SeeRelease \/ SeeObject \/ SeeDeletion \/ Age
    \/ \E u \in Releases : Resync(u)
    \/ \E w \in Workers : Collect(w) \/ \E u \in Releases : Begin(w, u)

Spec == Init /\ [][Next]_vars

(* The informers watch, time passes, resync and the workers go on, no key  *)
(* of the first-in first-out queue is passed over for ever, and the        *)
(* handler does not stay in the middle of a release.                       *)
Fairness ==
    /\ WF_vars(SeeRelease) /\ WF_vars(SeeObject) /\ WF_vars(SeeDeletion)
    /\ WF_vars(Age) /\ WF_vars(GiveUp)
    /\ \A u \in Releases : WF_vars(Resync(u)) /\ SF_vars(\E w \in Workers : Begin(w, u))
    /\ \A w \in Workers : WF_vars(Collect(w))

FairSpec == Spec /\ Fairness

-------------------------------------------------------------------------------
Deleted == {o \in objects : \A p \in objects' : p.id # o.id}

(* A resource that has been in every manifest of the living release, its   *)
(* only owner, is never deleted: neither a stale copy of the release, nor  *)
(* the empty manifest before the first patch, nor a former release of the  *)
(* same name whose resource bore the same name misleads the collector      *)
(* (collect's checks of UID, manifest and precondition).                   *)
StableKept ==
    [][\A o \in Deleted : ~ o.history /\ rel # Nothing /\ o.owners = {rel.uid}
                           => o.key \in dropped]_vars

(* As long as it is not rolled back, nobody had its name before it and     *)
(* nobody shares its objects, a release loses none of the histories the    *)
(* limit allows it: a stale Status.Version only makes the collector retain *)
(* more (ifRetainHistory).                                                 *)
HistoriesKept ==
    [][rollbacks = 0 /\ shares = 0 /\ used = {rel.uid}
        => \A o \in Deleted : o.history /\ o.owners = {rel.uid}
                               => o.key + HistoryLimit <= rel.version]_vars

(* What an object with a release for its only owner is there for.          *)
Useful(o) ==
    \/ SoleOwner(o) = {}
    \/ /\ o.owners = {rel.uid}
       /\ \/ rel.manifest = {}
          \/ IF o.history THEN o.key + HistoryLimit > rel.version ELSE o.key \in rel.manifest

(* Once users and handler are done, whatever a dead release or a former    *)
(* manifest left behind is collected, and histories beyond the limit too   *)
(* (collect, resync).                                                      *)
Collected == <>[](\A o \in objects : Useful(o))
===============================================================================
