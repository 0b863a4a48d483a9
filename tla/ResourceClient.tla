---------------------------- MODULE ResourceClient ----------------------------
(***************************************************************************)
(* client.Apply (pkg/kube/client.go) on one object of a manifest, and what *)
(* it reads: a layer (pkg/store/store.go) of the objects written lately    *)
(* over an informer that is late.  Meanwhile another controller reads      *)
(* through the same layer, others delete the object or take its name, and  *)
(* the pods of a workload take addresses out of its list.                  *)
(*                                                                         *)
(* The objects before and after this one in the manifest matter in that an *)
(* error on one of them ends Apply: CallFails covers it.                   *)
(***************************************************************************)
EXTENDS Integers, Sequences

CONSTANTS
    Specs, NoSpec,   \* what a manifest can say of the object
    Addresses,
    IPs,             \* the addresses each spec lists
    Kinds,           \* the kinds to look at
    MaxEdits, MaxOthers, MaxFaults, MaxReads, MaxSeconds,  \* bounds
    MaxPending       \* bound: how many versions the informer is behind

ASSUME ClientAssumption ==
    /\ NoSpec \notin Specs
    /\ IPs \in [Specs -> SUBSET Addresses]
    /\ Kinds \subseteq {"Job", "Deployment", "Service"}
    /\ {MaxEdits, MaxOthers, MaxFaults, MaxReads, MaxSeconds} \subseteq Nat
    /\ MaxPending \in Nat \ {0}

VARIABLES
    kind,     \* the kind of the object
    target,   \* what the release's manifest says
    server,   \* the object on the API server
    pods,     \* the addresses the pods of the release have
    rv,       \* the last resourceVersion given
    second,   \* the time, as creation timestamps show it
    pending,  \* the versions the informer has not seen yet
    view,     \* the informer's copy
    overlay,  \* the layer's entry, while it has not expired
    pc,       \* where Apply is
    job,      \* the spec it applies
    seen,     \* what it got from the informer
    copy,     \* existence: what it got from the layer
    reader,   \* the other controller's look at the layer
    edits, others, faults, reads,   \* how much was spent
    meddled,  \* history: since Apply began others changed the object
    forgot,   \* history: the layer lost, or was never told of, an object the
              \* informer had not shown yet
    missed    \* history: an Update was judged by a copy that was too old

clusterVars == <<kind, target, server, pods, rv, second, pending, view>>
applyVars   == <<pc, job, seen, copy>>
spentVars   == <<edits, others, faults, reads>>
vars == <<clusterVars, overlay, applyVars, reader, spentVars, meddled, forgot, missed>>

(* mine: it has the owner reference of this release; mark: the annotation  *)
(* AnnoKeySpecifiedIPsDecreasing.                                          *)
Object == [uid : Nat, second : Nat, version : Nat, mine : BOOLEAN,
           spec : Specs \cup {NoSpec}, ips : SUBSET Addresses, mark : BOOLEAN]

(* No object, and no entry: the zero values selectObject starts with.      *)
NoObject == [uid |-> 0, second |-> 0, version |-> 0, mine |-> FALSE,
             spec |-> NoSpec, ips |-> {}, mark |-> FALSE]

Calls  == {"create", "update", "shrink", "pods", "finish", "delete", "recreate"}
Places == {"idle", "read", "look", "done"} \cup Calls

Idle == [at |-> "idle", seen |-> NoObject]

TypeOK ==
    /\ kind \in Kinds /\ target \in Specs /\ server \in Object
    /\ pods \subseteq Addresses /\ rv \in Nat /\ second \in Nat
    /\ pending \in Seq(Object) /\ Len(pending) <= MaxPending
    /\ view \in Object /\ overlay \in Object
    /\ server = IF pending = <<>> THEN view ELSE pending[Len(pending)]
    /\ pc \in Places /\ job \in Specs /\ seen \in Object /\ copy \in Object
    /\ pc \in {"delete", "recreate"} => kind = "Job"
    /\ pc \in {"shrink", "pods", "finish"} \/ server.mark => kind = "Deployment"
    /\ reader \in [at : {"idle", "look", "remove"}, seen : Object]
    /\ {edits, others, faults, reads} \subseteq Nat
    /\ {meddled, forgot, missed} \subseteq BOOLEAN

Init ==
    /\ kind \in Kinds /\ target \in Specs
    /\ server = NoObject /\ pods = {} /\ rv = 0 /\ second = 1
    /\ pending = <<>> /\ view = NoObject /\ overlay = NoObject
    /\ pc = "idle" /\ job = target /\ seen = NoObject /\ copy = NoObject
    /\ reader = Idle
    /\ edits = 0 /\ others = 0 /\ faults = 0 /\ reads = 0
    /\ meddled = FALSE /\ forgot = FALSE /\ missed = FALSE

-------------------------------------------------------------------------------
(* The server.                                                             *)
(* It takes a new version of the object; one that changes nothing is none. *)
Store(new) ==
    IF [new EXCEPT !.version = server.version] = server
    THEN UNCHANGED <<server, rv, pending>>
    ELSE /\ Len(pending) < MaxPending
         /\ rv' = rv + 1
         /\ server' = IF new = NoObject THEN new ELSE [new EXCEPT !.version = rv + 1]
         /\ pending' = Append(pending, server')

Listed(spec) == IF kind = "Deployment" THEN IPs[spec] ELSE {}

New(spec) == [uid |-> rv + 1, second |-> second, version |-> 0, mine |-> TRUE,
              spec |-> spec, ips |-> Listed(spec), mark |-> FALSE]

-------------------------------------------------------------------------------
(* The user, the cluster and time.                                         *)
Edit ==
    /\ edits < MaxEdits
    /\ target' \in Specs \ {target}
    /\ edits' = edits + 1
    /\ UNCHANGED <<kind, server, pods, rv, second, pending, view, overlay, applyVars, reader,
                   others, faults, reads, meddled, forgot, missed>>

(* Another client, or the collector, deletes the object; its pods go.      *)
OtherDeletes ==
    /\ others < MaxOthers /\ server # NoObject
    /\ Store(NoObject) /\ pods' = {}
    /\ others' = others + 1 /\ meddled' = TRUE
    /\ UNCHANGED <<kind, target, second, view, overlay, applyVars, reader, edits, faults, reads,
                   forgot, missed>>

(* The name is taken by an object of another owner, who has deleted the    *)
(* former one, if there was one.                                           *)
OtherTakes ==
    /\ others < MaxOthers
    /\ Store([NoObject EXCEPT !.uid = rv + 1, !.second = second]) /\ pods' = {}
    /\ others' = others + 1 /\ meddled' = TRUE
    /\ UNCHANGED <<kind, target, second, view, overlay, applyVars, reader, edits, faults,
                   reads, forgot, missed>>

(* A pod of the workload gets an address that is free.                     *)
PodAppears ==
    /\ server.mine
    /\ \E a \in server.ips \ pods : pods' = pods \cup {a}
    /\ UNCHANGED <<kind, target, server, rv, second, pending, view, overlay, applyVars, reader,
                   spentVars, meddled, forgot, missed>>

Tick ==
    /\ second < MaxSeconds
    /\ second' = second + 1
    /\ UNCHANGED <<kind, target, server, pods, rv, pending, view, overlay, applyVars, reader,
                   spentVars, meddled, forgot, missed>>

(* The informer: a watch shows every version, a new list skips some.       *)
See ==
    /\ \E i \in 1 .. Len(pending) :
         /\ view' = pending[i]
         /\ pending' = SubSeq(pending, i + 1, Len(pending))
    /\ UNCHANGED <<kind, target, server, pods, rv, second, overlay, applyVars, reader,
                   spentVars, meddled, forgot, missed>>

-------------------------------------------------------------------------------
(* The layer.                                                              *)
(* selectObject: the informer's object wins unless it was created before   *)
(* the entry's and is of a lower version.  (An entry of Deleted never      *)
(* wins: its object is out of a manifest, without time or version.)        *)
Newer(current, entry) ==
    ~ (current.second < entry.second) \/ current.version >= entry.version

SelectObject(current, entry) == IF Newer(current, entry) THEN current ELSE entry

(* The entry goes though neither the informer nor what Apply has read of   *)
(* it so far shows its object.                                             *)
Lost(entry) ==
    entry.version > view.version \/ (pc = "look" /\ entry.version > seen.version)

(* A faulty variant of Record: the layer is not told.                      *)
RecordNothing(o) == UNCHANGED overlay

(* Created and Updated.                                                    *)
Record(o) == overlay' = o

(* An entry that has expired counts for nothing.                           *)
Expire ==
    /\ overlay # NoObject
    /\ overlay' = NoObject
    /\ forgot' = (forgot \/ Lost(overlay))
    /\ UNCHANGED <<clusterVars, applyVars, reader, spentVars, meddled, missed>>

(* getByKey for another controller: it looks at the informer, then at the  *)
(* entry, and removes the entry of this key, whatever it is by then.       *)
ReaderBegins ==
    /\ reader.at = "idle" /\ reads < MaxReads
    /\ reader' = [at |-> "look", seen |-> view]
    /\ reads' = reads + 1
    /\ UNCHANGED <<clusterVars, overlay, applyVars, edits, others, faults, meddled, forgot,
                   missed>>

ReaderLooks ==
    /\ reader.at = "look"
    /\ reader' = IF overlay # NoObject /\ Newer(reader.seen, overlay)
                 THEN [reader EXCEPT !.at = "remove"] ELSE Idle
    /\ UNCHANGED <<clusterVars, overlay, applyVars, spentVars, meddled, forgot, missed>>

ReaderRemoves ==
    /\ reader.at = "remove"
    /\ reader' = Idle
    /\ overlay' = NoObject
    /\ forgot' = (forgot \/ Lost(overlay))
    /\ UNCHANGED <<clusterVars, applyVars, spentVars, meddled, missed>>

-------------------------------------------------------------------------------
(* Apply.                                                                  *)
Begin ==
    /\ pc \in {"idle", "done"}
    /\ pc' = "read" /\ job' = target /\ copy' = NoObject
    /\ meddled' = FALSE
    /\ UNCHANGED <<clusterVars, overlay, seen, reader, spentVars, forgot, missed>>

(* getObject: first the informer, then the layer's entry.                  *)
LookAtInformer ==
    /\ pc = "read"
    /\ pc' = "look" /\ seen' = view
    /\ UNCHANGED <<clusterVars, overlay, job, copy, reader, spentVars, meddled, forgot, missed>>

(* A faulty variant of Decreasing: what an Apply that was interrupted has  *)
(* left behind is not looked at.                                           *)
DecreasingNow(c) == ~ c.ips \subseteq Listed(job)

(* judgeIPSpecDecreasing                                                   *)
Decreasing(c) == c.mark \/ ~ c.ips \subseteq Listed(job)

(* Faulty variants of Verdict: one lets a Job be as it is, one has an eye  *)
(* on the addresses of every kind.                                         *)
VerdictJobsStay(c) ==
    CASE c = NoObject -> "create"
      [] c # NoObject /\ ~ c.mine -> "idle"
      [] c.mine /\ kind = "Job" -> "done"
      [] c.mine /\ kind = "Deployment" -> IF Decreasing(c) THEN "shrink" ELSE "update"
      [] c.mine /\ kind = "Service" -> "update"

VerdictEveryKind(c) ==
    CASE c = NoObject -> "create"
      [] c # NoObject /\ ~ c.mine -> "idle"
      [] c.mine /\ c.spec # job -> "shrink"
      [] c.mine /\ c.spec = job -> "update"

(* jobEqual, on a copy: nothing in the manifest's spec differs.            *)
JobEqual(c) == c.spec = job

(* What Apply does about an object it has read; "idle" is an error.        *)
Verdict(c) ==
    CASE c = NoObject -> "create"
      [] c # NoObject /\ ~ c.mine -> "idle"
      [] c.mine /\ kind = "Job" -> IF JobEqual(c) THEN "done" ELSE "delete"
      [] c.mine /\ kind = "Deployment" -> IF Decreasing(c) THEN "shrink" ELSE "update"
      [] c.mine /\ kind = "Service" -> "update"

LookAtLayer ==
    /\ pc = "look"
    /\ copy' = SelectObject(seen, overlay) /\ seen' = NoObject
    /\ pc' = Verdict(copy')
    /\ IF Newer(seen, overlay)
       THEN /\ overlay' = NoObject
            /\ forgot' = (forgot \/ Lost(overlay))
       ELSE UNCHANGED <<overlay, forgot>>
    /\ UNCHANGED <<clusterVars, job, reader, spentVars, meddled, missed>>

Make ==
    /\ \/ /\ server = NoObject
          /\ Store(New(job)) /\ Record(server')
          /\ pc' = "done"
       \/ /\ server # NoObject    \* AlreadyExists
          /\ pc' = "idle"
          /\ UNCHANGED <<server, rv, pending, overlay>>
    /\ UNCHANGED <<kind, target, pods, second, view, job, seen, copy, reader, spentVars,
                   meddled, forgot, missed>>

Create == pc = "create" /\ Make

(* For a Job, after the former one was deleted.                            *)
Recreate == pc = "recreate" /\ Make

(* A faulty variant of Conflicts: applyService does not care for the       *)
(* version.                                                                *)
NeverConflicts == FALSE

(* Only a Service has the version of the copy in it (applyService).        *)
Conflicts == kind = "Service" /\ copy.version # server.version

Overwritten ==
    [server EXCEPT !.mine = TRUE, !.spec = job, !.ips = Listed(job), !.mark = FALSE]

Misjudged == pc = "update" /\ copy.version # server.version

Update ==
    /\ pc \in {"update", "finish"}
    /\ \/ /\ server # NoObject /\ ~ Conflicts
          /\ Store(Overwritten) /\ Record(server')
          /\ pc' = "done"
          /\ missed' = (missed \/ Misjudged)
       \/ /\ server = NoObject \/ Conflicts
          /\ pc' = "idle"
          /\ UNCHANGED <<server, rv, pending, overlay, missed>>
    /\ UNCHANGED <<kind, target, pods, second, view, job, seen, copy, reader, spentVars,
                   meddled, forgot>>

(* applyIPSpecDecreasing: the copy goes back with the new list and a mark, *)
(* the layer is not told; then pods with other addresses are deleted.      *)
Marked == [copy EXCEPT !.ips = Listed(job), !.mark = TRUE]

Shrink ==
    /\ pc = "shrink"
    /\ \/ /\ server.version = copy.version
          /\ Store(Marked)
          /\ pc' = "pods"
       \/ /\ server.version # copy.version
          /\ pc' = "idle"
          /\ UNCHANGED <<server, rv, pending>>
    /\ UNCHANGED <<kind, target, pods, second, view, overlay, job, seen, copy, reader,
                   spentVars, meddled, forgot, missed>>

DeletePods ==
    /\ pc = "pods"
    /\ pods' = pods \cap Listed(job)
    /\ pc' = "finish"
    /\ UNCHANGED <<kind, target, server, rv, second, pending, view, overlay, job, seen, copy,
                   reader, spentVars, meddled, forgot, missed>>

DeletePodsFails ==
    /\ pc = "pods" /\ faults < MaxFaults
    /\ \E some \in SUBSET (pods \ Listed(job)) : pods' = pods \ some
    /\ pc' = "idle" /\ faults' = faults + 1
    /\ UNCHANGED <<kind, target, server, rv, second, pending, view, overlay, job, seen, copy,
                   reader, edits, others, reads, meddled, forgot, missed>>

(* A faulty variant of DeleteJob: the Job is not made again.               *)
DeleteJobOnly ==
    /\ pc = "delete"
    /\ Store(NoObject) /\ Record(NoObject)
    /\ pc' = "done"
    /\ UNCHANGED <<kind, target, pods, second, view, job, seen, copy, reader, spentVars,
                   meddled, forgot, missed>>

(* applyJob: the Job of that name, if there is one, is deleted.            *)
DeleteJob ==
    /\ pc = "delete"
    /\ Store(NoObject) /\ Record(NoObject)
    /\ pc' = "recreate"
    /\ UNCHANGED <<kind, target, pods, second, view, job, seen, copy, reader, spentVars,
                   meddled, forgot, missed>>

(* A call fails, or another object of the manifest before this one does.   *)
CallFails ==
    /\ pc \in Calls \cup {"read"} /\ faults < MaxFaults
    /\ pc' = "idle" /\ faults' = faults + 1
    /\ UNCHANGED <<clusterVars, overlay, job, seen, copy, reader, edits, others, reads,
                   meddled, forgot, missed>>

(* A call is executed and its answer lost: the layer is not told.          *)
CallUnanswered ==
    /\ faults < MaxFaults
    /\ \/ pc \in {"create", "recreate"} /\ server = NoObject /\ Store(New(job))
       \/ pc \in {"update", "finish"} /\ server # NoObject /\ ~ Conflicts
          /\ Store(Overwritten)
       \/ pc = "shrink" /\ server.version = copy.version /\ Store(Marked)
       \/ pc = "delete" /\ Store(NoObject)
    /\ forgot' = (forgot \/ pc # "delete")
    /\ pc' = "idle" /\ faults' = faults + 1
    /\ missed' = (missed \/ Misjudged)
    /\ UNCHANGED <<kind, target, pods, second, view, overlay, job, seen, copy, reader, edits,
                   others, reads, meddled>>

(* The process ends.  Its successor lists before it does anything.         *)
Crash ==
    /\ pc \notin {"idle", "done"} /\ faults < MaxFaults
    /\ pc' = "idle" /\ faults' = faults + 1
    /\ view' = server /\ pending' = <<>> /\ overlay' = NoObject /\ reader' = Idle
    /\ seen' = NoObject /\ copy' = NoObject
    /\ UNCHANGED <<kind, target, server, pods, rv, second, job, edits, others, reads, meddled,
                   forgot, missed>>

Proceed ==
    \/ LookAtInformer \/ LookAtLayer
    \/ Create \/ Update \/ Shrink \/ DeletePods \/ DeleteJob \/ Recreate

-------------------------------------------------------------------------------
Next ==
    \/ Edit \/ OtherDeletes \/ OtherTakes \/ PodAppears \/ Tick
    \/ See \/ Expire \/ ReaderBegins \/ ReaderLooks \/ ReaderRemoves
    \/ Begin \/ Proceed \/ DeletePodsFails \/ CallFails \/ CallUnanswered \/ Crash

Spec == Init /\ [][Next]_vars

(* The handler retries and resyncs, the informer goes on, entries expire.  *)
FairSpec == Spec /\ WF_vars(Begin) /\ WF_vars(Proceed) /\ WF_vars(See) /\ WF_vars(Expire)

-------------------------------------------------------------------------------
(* When Apply has returned nil the object is what was applied, however old *)
(* the copy was it judged by, unless others changed it meanwhile.  For a   *)
(* Job this cannot be had: an old copy that says what is wanted ends       *)
(* applyJob (and its like is what jobEqual compares with).                 *)
AppliedIsThere ==
    pc = "done" /\ ~ meddled =>
        \/ server.mine /\ server.spec = job
        \/ kind = "Job" /\ copy.spec = job /\ copy # server

(* "Record the result into cache" (Apply): what this release has created   *)
(* is not taken for missing, however late the informer, unless the layer   *)
(* has lost the entry or was never told.                                   *)
ReadYourWrites == pc = "create" /\ server.mine => forgot

(* "delete pods not in new list" (applyIPSpecDecreasing): a workload that  *)
(* is not marked has no pod with an address outside its list, wherever     *)
(* Apply was interrupted, unless it was updated by the judgement of a copy *)
(* that was too old.                                                       *)
AddressesFreed ==
    server.mine /\ ~ server.mark /\ ~ missed => pods \subseteq server.ips

(* A Service never changes hands: that of another owner is not made this   *)
(* release's, although the owner was judged by an old copy (applyService). *)
ServicesKept ==
    [][kind = "Service" /\ server # NoObject /\ server'.uid = server.uid
         => server'.mine = server.mine]_vars

(* In the end the object is what the release asks for, or is another       *)
(* owner's.                                                                *)
Converges ==
    <>[](server # NoObject /\ (server.mine => server.spec = target /\ ~ server.mark))
===============================================================================
