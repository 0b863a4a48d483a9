------------------------------- MODULE GcResync --------------------------------
(***************************************************************************)
(* The collector's workers and its resync loop (pkg/controller/gc): resync *)
(* puts the releases it knows of into the queue again, no more of them at  *)
(* a time than there are idle workers.  How many are busy it reads from    *)
(* gc.working, which every worker increments and decrements without a      *)
(* lock: each is a load and a store of its own.                            *)
(*                                                                         *)
(* When a process has come so far, ControllerStart says.                   *)
(*                                                                         *)
(* The objects in the queue are all alike here: resync makes a new one for *)
(* every release in every round.                                           *)
(***************************************************************************)
EXTENDS Integers

CONSTANTS
    Workers,      \* the goroutines
    WorkerCount,  \* gc.workers
    Known,        \* how many releases there are in gc.resources
    MaxEvents,    \* bound: how many events the informers send
    MaxQueue,     \* bound: objects of resync beyond so many are left out
    MaxWorking    \* bound: no worker takes an object when gc.working is as
                  \* far from 0 as this

ASSUME ResyncAssumption ==
    /\ WorkerCount \in Nat \ {0} /\ Known \in Nat
    /\ {MaxEvents, MaxQueue, MaxWorking} \subseteq Nat

VARIABLES
    queue,     \* the number of objects in gc.queue
    working,   \* gc.working
    pc,        \* where each worker is in processNextWorkItem
    seen,      \* what it has loaded from gc.working, 0 before and after
    synced,    \* synced in resync
    events,    \* how many events have come
    lost       \* history: a store has undone the decrement of another worker

vars == <<queue, working, pc, seen, synced, events, lost>>

Places == {"get", "load", "increment", "collect", "unload", "decrement"}

TypeOK ==
    /\ queue \in 0 .. MaxQueue /\ working \in Int /\ lost \in BOOLEAN
    /\ pc \in [Workers -> Places] /\ seen \in [Workers -> Int]
    /\ synced \in 0 .. Known /\ events \in 0 .. MaxEvents

Init ==
    /\ queue = 0 /\ working = 0 /\ synced = 0 /\ events = 0 /\ lost = FALSE
    /\ pc = [w \in Workers |-> "get"] /\ seen = [w \in Workers |-> 0]

-------------------------------------------------------------------------------
(* An informer enqueues a release.                                         *)
Event ==
    /\ events < MaxEvents /\ queue < MaxQueue
    /\ queue' = queue + 1 /\ events' = events + 1
    /\ UNCHANGED <<working, pc, seen, synced, lost>>

Get(w) ==
    /\ pc[w] = "get" /\ queue > 0
    /\ - MaxWorking < working /\ working < MaxWorking
    /\ queue' = queue - 1
    /\ pc' = [pc EXCEPT ![w] = "load"]
    /\ UNCHANGED <<working, seen, synced, events, lost>>

(* gc.working++                                                            *)
Load(w) ==
    /\ \/ /\ pc[w] = "load"    /\ pc' = [pc EXCEPT ![w] = "increment"]
       \/ /\ pc[w] = "unload"  /\ pc' = [pc EXCEPT ![w] = "decrement"]
    /\ seen' = [seen EXCEPT ![w] = working]
    /\ UNCHANGED <<queue, working, synced, events, lost>>

Increment(w) ==
    /\ pc[w] = "increment"
    /\ working' = seen[w] + 1
    /\ lost' = (lost \/ working < seen[w])
    /\ pc' = [pc EXCEPT ![w] = "collect"] /\ seen' = [seen EXCEPT ![w] = 0]
    /\ UNCHANGED <<queue, synced, events>>

(* A faulty variant of Collect: an error returns past the decrement.       *)
CollectPastDecrement(w) ==
    /\ pc[w] = "collect"
    /\ \/ /\ pc' = [pc EXCEPT ![w] = "unload"]
          /\ UNCHANGED queue
       \/ /\ queue < MaxQueue
          /\ queue' = queue + 1
          /\ pc' = [pc EXCEPT ![w] = "get"]
    /\ UNCHANGED <<working, seen, synced, events, lost>>

(* collect returns; after an error the object is added to the queue again. *)
Collect(w) ==
    /\ pc[w] = "collect"
    /\ pc' = [pc EXCEPT ![w] = "unload"]
    /\ \/ UNCHANGED queue
       \/ queue < MaxQueue /\ queue' = queue + 1
    /\ UNCHANGED <<working, seen, synced, events, lost>>

(* The deferred gc.working--                                               *)
Decrement(w) ==
    /\ pc[w] = "decrement"
    /\ working' = seen[w] - 1
    /\ lost' = (lost \/ working < seen[w])
    /\ pc' = [pc EXCEPT ![w] = "get"] /\ seen' = [seen EXCEPT ![w] = 0]
    /\ UNCHANGED <<queue, synced, events>>

Step(w) == Get(w) \/ Load(w) \/ Increment(w) \/ Collect(w) \/ Decrement(w)

(* One look of resync at gc.working, once a second.                        *)
Idle == WorkerCount - working

(* A faulty variant of Batch: what is left of the round is not looked at.  *)
BatchOfIdle == Idle

Batch == IF synced + Idle < Known THEN Idle ELSE Known - synced

Resync ==
    /\ synced < Known /\ Idle > 0
    /\ queue' = IF queue + Batch <= MaxQueue THEN queue + Batch ELSE MaxQueue
    /\ synced' = synced + Batch
    /\ UNCHANGED <<working, pc, seen, events, lost>>

(* All are in the queue: the next round begins.                            *)
NextRound ==
    /\ synced >= Known
    /\ synced' = 0
    /\ UNCHANGED <<queue, working, pc, seen, events, lost>>

-------------------------------------------------------------------------------
(* "resync syncs all releases if there is nothing in queue": round after   *)
(* round, every known release is added, unless one worker's update of      *)
(* gc.working has undone the decrement of another.  That is a race the     *)
(* code does not exclude: with as many such decrements as workers, resync  *)
(* finds no worker idle any more.                                          *)
SyncsAll == <>[]lost \/ []<>(synced = Known)
===============================================================================
