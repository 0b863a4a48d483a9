---------------------------- MODULE StatusController ---------------------------
(***************************************************************************)
(* The status controller (pkg/controller/status) for one release: it       *)
(* judges the resources of the manifest it finds in the Release informer   *)
(* and patches Status.Details against that copy, while the release         *)
(* controller patches Status.Manifest and resources change their state.    *)
(*                                                                         *)
(* A detail is "bad" if it has a Reason, "ok" if not, "none" if there is   *)
(* no detail for the node.                                                 *)
(***************************************************************************)
EXTENDS Integers, Sequences

CONSTANTS
    Nodes,        \* the nodes of the chart's tree, siblings of one another
    MaxEdits,     \* bound: how often the user changes the spec
    MaxChanges,   \* bound: how often a node's resources change their state
    MaxFaults,    \* bound: how many syncs fail
    MaxRaces,     \* bound: how often two nodes write details at once
    MaxPending    \* bound: how many changes the informer is behind

ASSUME StatusAssumption ==
    /\ {MaxEdits, MaxChanges, MaxFaults, MaxRaces} \subseteq Nat
    /\ MaxPending \in Nat \ {0}

VARIABLES
    server,    \* the release on the API server
    applying,  \* the nodes of the manifest the release controller is applying
    health,    \* what the umpire says of each node's resources
    pending,   \* the changes of the release the informer has not seen yet
    view,      \* the informer's copy
    key,       \* the release's key is in the queue
    job,       \* what the worker is doing
    edits, changes, faults, races   \* how much was spent

vars == <<server, applying, health, pending, view, key, job, edits, changes, faults, races>>

Details   == [Nodes -> {"none", "ok", "bad"}]
Release   == [spec : Nat, manifest : SUBSET Nodes, details : Details]
NoDetails == [n \in Nodes |-> "none"]
NoJob     == [manifest |-> {}, base |-> NoDetails, todo |-> {}, result |-> NoDetails]

TypeOK ==
    /\ server \in Release /\ view \in Release
    /\ pending \in Seq(Release) /\ Len(pending) <= MaxPending
    /\ applying \subseteq Nodes
    /\ health \in [Nodes -> {"ok", "bad"}]
    /\ key \in BOOLEAN
    /\ job \in [manifest : SUBSET Nodes, base : Details, todo : SUBSET Nodes,
                result : Details]
    /\ \A n \in Nodes : job.result[n] # "none" => n \in job.manifest \ job.todo
    /\ edits \in Nat /\ changes \in Nat /\ faults \in Nat /\ races \in Nat

(* The release has just been created, and its first manifest is being      *)
(* applied.                                                                *)
Init ==
    /\ server = [spec |-> 0, manifest |-> {}, details |-> NoDetails]
    /\ applying \in SUBSET Nodes \ {{}}
    /\ health = [n \in Nodes |-> "ok"]
    /\ pending = <<>> /\ view = server /\ key = TRUE /\ job = NoJob
    /\ edits = 0 /\ changes = 0 /\ faults = 0 /\ races = 0

(* The server takes a new version of the release; one that changes nothing *)
(* is none.                                                                *)
Write(new) ==
    /\ server' = new
    /\ \/ new = server /\ UNCHANGED pending
       \/ /\ new # server /\ Len(pending) < MaxPending
          /\ pending' = Append(pending, new)

-------------------------------------------------------------------------------
(* The user, the release controller and the cluster.                       *)
Edit ==
    /\ edits < MaxEdits
    /\ Write([server EXCEPT !.spec = @ + 1])
    /\ applying' \in SUBSET Nodes \ {{}}
    /\ edits' = edits + 1
    /\ UNCHANGED <<health, view, key, job, changes, faults, races>>

PatchManifest ==
    /\ applying # {}
    /\ Write([server EXCEPT !.manifest = applying])
    /\ applying' = {}
    /\ UNCHANGED <<health, view, key, job, edits, changes, faults, races>>

(* A resource changes its state: an event of it, of one of its pods or of  *)
(* a child enqueues the release.                                           *)
HealthChanges ==
    /\ changes < MaxChanges
    /\ \E n \in Nodes, h \in {"ok", "bad"} :
         /\ h # health[n]
         /\ health' = [health EXCEPT ![n] = h]
    /\ key' = TRUE
    /\ changes' = changes + 1
    /\ UNCHANGED <<server, applying, pending, view, job, edits, faults, races>>

(* The informers of the children resync (5 minutes), or show a change that *)
(* does not matter: enqueueChildresource, enqueueAccessor, enqueueEvent.   *)
ChildEvent ==
    /\ ~ key
    /\ key' = TRUE
    /\ UNCHANGED <<server, applying, health, pending, view, job, edits, changes, faults, races>>

-------------------------------------------------------------------------------
(* The Release informer.                                                   *)
normalDetails(details) == \A n \in Nodes : details[n] # "bad"

(* A faulty variant of Passes: only the spec is compared.                  *)
PassesSpec(old, new) == old.spec # new.spec

(* UpdateFunc enqueues the release.                                        *)
Passes(old, new) == old.spec # new.spec \/ ~ normalDetails(old.details)

(* A watch shows every version, a new list skips some.                     *)
See ==
    /\ \E i \in 1 .. Len(pending) :
         /\ view' = pending[i]
         /\ pending' = SubSeq(pending, i + 1, Len(pending))
         /\ key' = (key \/ Passes(view, pending[i]))
    /\ UNCHANGED <<server, applying, health, job, edits, changes, faults, races>>

(* The resync of the release's own handler (30 s): an update from the copy *)
(* to itself.                                                              *)
Resync ==
    /\ ~ key /\ Passes(view, view)
    /\ key' = TRUE
    /\ UNCHANGED <<server, applying, health, pending, view, job, edits, changes, faults, races>>

-------------------------------------------------------------------------------
(* syncRelease.                                                            *)
Begin ==
    /\ key /\ job = NoJob
    /\ key' = FALSE
    /\ \/ /\ view.manifest = {}
          /\ UNCHANGED job
       \/ /\ view.manifest # {}
          /\ job' = [manifest |-> view.manifest, base |-> view.details,
                     todo |-> view.manifest, result |-> NoDetails]
    /\ UNCHANGED <<server, applying, health, pending, view, edits, changes, faults, races>>

(* detect: the nodes are judged one after the other, or side by side.      *)
Judge ==
    /\ \E n \in job.todo :
         job' = [job EXCEPT !.todo = @ \ {n}, !.result[n] = health[n]]
    /\ UNCHANGED <<server, applying, health, pending, view, key, edits, changes, faults, races>>

(* The handlers of two siblings run side by side and write the map details *)
(* at once; no lock guards it.  One of the entries is lost, or the runtime *)
(* notices and ends the process: the next one lists the releases anew.     *)
Collide ==
    /\ races < MaxRaces /\ races' = races + 1
    /\ \E n, m \in job.todo :
         /\ n # m
         /\ \/ /\ job' = [job EXCEPT !.todo = @ \ {n, m}, !.result[n] = health[n]]
               /\ UNCHANGED <<pending, view, key>>
            \/ /\ job' = NoJob
               /\ pending' = <<>> /\ view' = server /\ key' = TRUE
    /\ UNCHANGED <<server, applying, health, edits, changes, faults>>

(* detect or Patch returns an error: the queue tries again, or drops the   *)
(* key after the third time.                                               *)
SyncFails ==
    /\ job # NoJob /\ faults < MaxFaults
    /\ job' = NoJob
    /\ key' \in {key, TRUE}
    /\ faults' = faults + 1
    /\ UNCHANGED <<server, applying, health, pending, view, edits, changes, races>>

(* A faulty variant of NewDetails: the old details are not cleared.        *)
NewDetailsWithoutClearing(n) ==
    IF job.result[n] \in {job.base[n], "none"} THEN server.details[n] ELSE job.result[n]

(* What the merge patch leaves for a node: the server's own detail where   *)
(* the result is the same as the informer's copy.                          *)
NewDetails(n) ==
    IF job.result[n] = job.base[n] THEN server.details[n] ELSE job.result[n]

Patch ==
    /\ job # NoJob /\ job.todo = {}
    /\ Write([server EXCEPT !.details = [n \in Nodes |-> NewDetails(n)]])
    /\ job' = NoJob
    /\ UNCHANGED <<applying, health, view, key, edits, changes, faults, races>>

-------------------------------------------------------------------------------
Next ==
    \/ Edit \/ PatchManifest \/ HealthChanges \/ ChildEvent
    \/ See \/ Resync
    \/ Begin \/ Judge \/ Collide \/ SyncFails \/ Patch

Spec == Init /\ [][Next]_vars

(* The release controller patches the manifest, the Release informer       *)
(* watches and resyncs its handler, the worker goes on.                    *)
Fairness ==
    /\ WF_vars(PatchManifest)
    /\ WF_vars(See) /\ WF_vars(Resync)
    /\ WF_vars(Begin) /\ WF_vars(Judge) /\ WF_vars(Patch)

FairSpec == Spec /\ Fairness

-------------------------------------------------------------------------------
(* No false alarm stays: in the end a bad detail is one of a node of the   *)
(* manifest whose resources are bad.  The handler's own resync sees to it, *)
(* for UpdateFunc lets a release with a bad detail pass (normalDetails).   *)
NoFalseAlarm ==
    <>[](\A n \in Nodes : server.details[n] = "bad"
                           => n \in server.manifest /\ health[n] = "bad")

(* "Finally, controller watches resources' status and embodies them in the *)
(* status of Release" (design.md): in the end there is one detail for      *)
(* every node of the manifest, and it says what is the case.  UpdateFunc   *)
(* passes over most changes of the status, the manifest among them, the    *)
(* patch is against a copy that may be old, and a node's detail may have   *)
(* been lost (Collide): it is the resync of the children's informers that  *)
(* this rests on (every release has a ReleaseHistory that is its child).   *)
Embodied ==
    WF_vars(ChildEvent) =>
        <>[](server.details = [n \in Nodes |-> IF n \in server.manifest THEN health[n]
                                                                         ELSE "none"])
===============================================================================
