---------------------------- MODULE ControllerStart ----------------------------
(***************************************************************************)
(* The controller process (cmd/controller/app) from its start to the point *)
(* where all its controllers work, and its restarts: the definitions of    *)
(* the two custom kinds are ensured, discovery is asked once, then the     *)
(* controllers are made and started in any order, for they are in a map.   *)
(* The collector asks the store (pkg/store) for an informer of each kind   *)
(* and waits for it under the store's lock, which the handlers of a        *)
(* controller that already works need as well.                             *)
(*                                                                         *)
(* Another replica may create the definitions at the same time.  An error  *)
(* ends the process, and the cluster starts it again.  Of the working      *)
(* collector, the module has the workers and resync, as GcResync does.     *)
(***************************************************************************)
EXTENDS GcResync, SequencesExt

CONSTANTS
    Lists,        \* what --controllers may say
    Builtins,     \* kinds every API server knows
    CRDs,         \* the kinds EnsureCRD defines, in its order
    Targets,      \* the kinds the collector watches, in its order, none twice
    StatusKinds   \* the kinds whose informers the status controller uses

Defined == ToSet(CRDs)
Kinds == Builtins \union Defined
Controllers == {"release", "status", "gc"}
None == "none"

ASSUME StartAssumption ==
    /\ Lists \subseteq SUBSET Controllers \ {{}}
    /\ "Release" \in Defined /\ Builtins \intersect Defined = {} /\ None \notin Kinds
    /\ CRDs \in Seq(Kinds) /\ Targets \in Seq(Kinds) \ {<<>>} /\ IsInjective(Targets)
    /\ StatusKinds \subseteq Builtins

VARIABLES
    enabled,     \* s.Controllers
    crds,        \* in the cluster: the kinds that are defined
    served,      \* in the cluster: those of them that discovery lists
    main,        \* where app.Run is
    ensured,     \* how many of CRDs EnsureCRD is done with
    known,       \* the kinds in resources
    running,     \* the controllers StartControllers has started
    active,      \* those past their WaitForCacheSync
    registered,  \* the informers the factory has made
    started,     \* those its Start has started
    hasSynced,   \* those that have listed all objects of their kind
    stored,      \* the kinds in is.informers
    lock,        \* who holds is.lock
    want         \* the kind each goroutine asks informerFor for

cluster == <<enabled, crds, served>>
boot == <<main, ensured, known>>
factory == <<registered, started, hasSynced>>
store == <<stored, lock, want>>
all == <<vars, cluster, boot, running, active, factory, store>>

(* Goroutines that call the store: app.Run itself, in NewGarbageCollector, *)
(* and the handlers of the release and the status controller.              *)
Callers == {"main", "release", "status"}

StartOK ==
    /\ TypeOK
    /\ enabled \in Lists
    /\ crds \subseteq Defined /\ served \subseteq crds /\ known \subseteq Kinds
    /\ main \in {"get", "create", "discover", "start", "serve"} /\ ensured \in 0 .. Len(CRDs)
    /\ running \subseteq enabled /\ active \subseteq running
    /\ registered \subseteq Kinds /\ started \subseteq registered /\ hasSynced \subseteq started
    /\ stored \subseteq registered /\ lock \in Callers \union {None}
    /\ want \in [Callers -> Kinds \union {None}]

(* The state a process starts with.                                        *)
Fresh ==
    /\ main = "get" /\ ensured = 0 /\ known = {}
    /\ running = {} /\ active = {}
    /\ registered = {} /\ started = {} /\ hasSynced = {}
    /\ stored = {} /\ lock = None /\ want = [u \in Callers |-> None]

(* The cluster is as earlier lives of the process have left it.  A process *)
(* that crashes, at whatever point, is one that starts here again.         *)
InitStart ==
    /\ Init /\ Fresh
    /\ enabled \in Lists
    /\ crds \in SUBSET Defined /\ served \in SUBSET crds

(* main exits, and the cluster starts the process again.                   *)
Restart ==
    /\ main' = "get" /\ ensured' = 0 /\ known' = {}
    /\ running' = {} /\ active' = {}
    /\ registered' = {} /\ started' = {} /\ hasSynced' = {}
    /\ stored' = {} /\ lock' = None /\ want' = [u \in Callers |-> None]
    /\ queue' = 0 /\ working' = 0 /\ synced' = 0 /\ events' = 0 /\ lost' = FALSE
    /\ pc' = [w \in Workers |-> "get"] /\ seen' = [w \in Workers |-> 0]
    /\ UNCHANGED <<enabled, crds, served>>

-------------------------------------------------------------------------------
(* The cluster                                                             *)

(* Another replica creates a definition.                                   *)
Rival ==
    /\ \E k \in Defined \ crds : crds' = crds \union {k}
    /\ UNCHANGED <<vars, enabled, served, boot, running, active, factory, store>>

(* Discovery lists a new kind some time after its definition.              *)
Serve ==
    /\ \E k \in crds \ served : served' = served \union {k}
    /\ UNCHANGED <<vars, enabled, crds, boot, running, active, factory, store>>

(* A started informer has listed all objects of its kind.                  *)
Sync(k) ==
    /\ k \in started \ hasSynced /\ k \in Builtins \union served
    /\ hasSynced' = hasSynced \union {k}
    /\ UNCHANGED <<vars, cluster, boot, running, active, registered, started, store>>

-------------------------------------------------------------------------------
(* app.Run                                                                 *)

(* EnsureCRD asks for a definition ...                                     *)
GetCRD ==
    /\ main = "get"
    /\ IF ensured = Len(CRDs)
       THEN main' = "discover" /\ UNCHANGED ensured
       ELSE IF CRDs[ensured + 1] \in crds
            THEN ensured' = ensured + 1 /\ UNCHANGED main
            ELSE main' = "create" /\ UNCHANGED ensured
    /\ UNCHANGED <<vars, cluster, known, running, active, factory, store>>

(* ... and creates the one that is not there.  That somebody else has done *)
(* so by now is an error.                                                  *)
CreateCRD ==
    /\ main = "create"
    /\ IF CRDs[ensured + 1] \in crds
       THEN Restart
       ELSE /\ crds' = crds \union {CRDs[ensured + 1]}
            /\ ensured' = ensured + 1 /\ main' = "get"
            /\ UNCHANGED <<vars, enabled, served, known, running, active, factory, store>>

(* NewAPIResources asks discovery once for the life of the process.        *)
Discover ==
    /\ main = "discover"
    /\ known' = Builtins \union served
    /\ main' = "start"
    /\ UNCHANGED <<vars, cluster, ensured, running, active, factory, store>>

(* NewReleaseController makes the informer of releases, and its Run goes.  *)
StartRelease ==
    /\ registered' = registered \union {"Release"}
    /\ running' = running \union {"release"}
    /\ UNCHANGED <<started, hasSynced, store>>

(* NewStatusController makes informers but starts none.                    *)
StartStatus ==
    /\ registered' = registered \union StatusKinds \union {"Release"}
    /\ running' = running \union {"status"}
    /\ UNCHANGED <<started, hasSynced, store>>

(* NewGarbageCollector begins to ask for its informers.                    *)
StartGC ==
    /\ want' = [want EXCEPT !["main"] = Targets[1]]
    /\ UNCHANGED <<running, factory, stored, lock>>

(* StartControllers takes one of the map's controllers that are left.      *)
StartController ==
    /\ main = "start" /\ want["main"] = None
    /\ \/ "release" \in enabled \ running /\ StartRelease
       \/ "status" \in enabled \ running /\ StartStatus
       \/ "gc" \in enabled \ running /\ StartGC
    /\ UNCHANGED <<vars, cluster, boot, active>>

(* A faulty variant of StartFactory: informers nobody asked the store for  *)
(* are not started.                                                        *)
StartNothing ==
    /\ main = "start" /\ running = enabled
    /\ main' = "serve"
    /\ UNCHANGED <<vars, cluster, ensured, known, running, active, factory, store>>

(* The last act of app.Run.                                                *)
StartFactory ==
    /\ main = "start" /\ running = enabled
    /\ started' = registered
    /\ main' = "serve"
    /\ UNCHANGED <<vars, cluster, ensured, known, running, active, registered, hasSynced, store>>

-------------------------------------------------------------------------------
(* The store                                                               *)

(* What comes after informerFor has returned.  The constructor goes on to  *)
(* the next kind, and after the last one the collector is started.         *)
Return(u) ==
    LET last == CHOOSE i \in 1 .. Len(Targets) : Targets[i] = want["main"] IN
    IF u # "main" THEN want' = [want EXCEPT ![u] = None] /\ UNCHANGED running
    ELSE IF last < Len(Targets)
         THEN want' = [want EXCEPT !["main"] = Targets[last + 1]] /\ UNCHANGED running
         ELSE /\ want' = [want EXCEPT !["main"] = None]
              /\ running' = running \union {"gc"}

(* A handler needs the layer or informer of a kind.                        *)
Ask(u, k) ==
    /\ u \in active /\ want[u] = None /\ k \notin stored
    /\ want' = [want EXCEPT ![u] = k]
    /\ UNCHANGED <<vars, cluster, boot, running, active, factory, stored, lock>>

(* A faulty variant of Unknown: the constructor leaves out a kind that     *)
(* discovery did not list.                                                 *)
UnknownLeftOut(u) ==
    /\ want[u] \notin known \union {None} /\ lock = None
    /\ Return(u)
    /\ UNCHANGED <<vars, cluster, boot, active, factory, stored, lock>>

(* ResourceFor knows no such kind.  NewGarbageCollector fails, and with it *)
(* the process; a handler fails and is called again.                       *)
Unknown(u) ==
    /\ want[u] \notin known \union {None} /\ lock = None
    /\ IF u = "main"
       THEN Restart
       ELSE Return(u) /\ UNCHANGED <<vars, cluster, boot, active, factory, stored, lock>>

(* The kind has an informer already.                                       *)
Find(u) ==
    /\ want[u] \in stored /\ lock = None
    /\ Return(u)
    /\ UNCHANGED <<vars, cluster, boot, active, factory, stored, lock>>

(* A new informer: it is put into the map, and started with all the other  *)
(* ones the factory has.  The lock is held.                                *)
Add(u) ==
    /\ want[u] \in known \ stored /\ lock = None
    /\ registered' = registered \union {want[u]}
    /\ started' = registered'
    /\ stored' = stored \union {want[u]}
    /\ lock' = u
    /\ UNCHANGED <<vars, cluster, boot, running, active, hasSynced, want>>

(* A faulty variant of Wait: it does not.                                  *)
WaitNot(u) ==
    /\ lock = u
    /\ lock' = None
    /\ Return(u)
    /\ UNCHANGED <<vars, cluster, boot, active, factory, stored>>

(* WaitForCacheSync, then unlock.                                          *)
Wait(u) ==
    /\ lock = u /\ want[u] \in hasSynced
    /\ lock' = None
    /\ Return(u)
    /\ UNCHANGED <<vars, cluster, boot, active, factory, stored>>

-------------------------------------------------------------------------------
(* The controllers                                                         *)

(* What Run waits for.  gc.synced is never filled: it waits for nothing.   *)
Awaited(c) ==
    CASE c = "release" -> {"Release"}
      [] c = "status"  -> StatusKinds \union {"Release"}
      [] c = "gc"      -> {}

Activate(c) ==
    /\ c \in running \ active /\ Awaited(c) \subseteq hasSynced
    /\ active' = active \union {c}
    /\ UNCHANGED <<vars, cluster, boot, running, factory, store>>

(* What the collector's event handlers, workers and resync leave alone.    *)
Process == <<cluster, boot, running, active, factory, store>>

Enqueue == Event /\ "gc" \in running /\ UNCHANGED Process
Work(w) == Step(w) /\ "gc" \in active /\ UNCHANGED Process
Round == Resync /\ "gc" \in active /\ UNCHANGED Process
Again == NextRound /\ "gc" \in active /\ UNCHANGED Process

Boot == GetCRD \/ CreateCRD \/ Discover \/ StartController \/ StartFactory
InformerFor(u) == Unknown(u) \/ Find(u) \/ Add(u) \/ Wait(u)

NextStart ==
    \/ Rival \/ Serve \/ Boot
    \/ Enqueue \/ Round \/ Again
    \/ \E k \in Kinds : Sync(k)
    \/ \E u \in Callers, k \in ToSet(Targets) : Ask(u, k)
    \/ \E u \in Callers : InformerFor(u)
    \/ \E c \in Controllers : Activate(c)
    \/ \E w \in Workers : Work(w)

SpecStart == InitStart /\ [][NextStart]_all

(* Goroutines go on, and informers list again until they succeed: one      *)
(* condition for all these steps, since a process takes finitely many.     *)
(* Discovery catches up.  The lock is given back, and app.Run is not       *)
(* passed over for ever, for sync.RWMutex hands it on in the order of      *)
(* asking.  Workers and resync go on; resync wakes up often enough to find *)
(* a worker idle if one is idle again and again.                           *)
FairStart ==
    /\ SpecStart
    /\ WF_all(Boot \/ (\E k \in Kinds : Sync(k)) \/ (\E c \in Controllers : Activate(c)))
    /\ WF_all(Serve)
    /\ WF_all(\E u \in Callers : InformerFor(u)) /\ SF_all(InformerFor("main"))
    /\ SF_all(Round) /\ WF_all(Again) /\ \A w \in Workers : WF_all(Work(w))

-------------------------------------------------------------------------------
(* What a controller reads from its first step on.                         *)
Reads(c) == IF c = "gc" THEN ToSet(Targets) ELSE Awaited(c)

(* No controller works on a cache that has not been filled: what its Run   *)
(* or its constructor has waited for covers all it reads, though the       *)
(* collector's own list of caches to wait for is empty, and an informer    *)
(* the store hands out, to whomever, has listed its objects.  (A collector *)
(* that sees too few releases deletes what belongs to the others.)         *)
NothingUnsynced ==
    /\ \A c \in active : Reads(c) \subseteq hasSynced
    /\ lock = None => stored \subseteq hasSynced

(* In whatever order the controllers start, with a rival that creates the  *)
(* same definitions and a discovery that does not list them yet, whatever  *)
(* a crash has left undone: at last all of them work, for good, and where  *)
(* there is a collector the process has come to know the custom kinds.     *)
Settles ==
    <>[](active = enabled /\ ("gc" \in enabled => Defined \subseteq known))

(* SyncsAll for the collector of a process that has come so far.           *)
SyncsOnceUp == "gc" \notin enabled \/ SyncsAll
===============================================================================
