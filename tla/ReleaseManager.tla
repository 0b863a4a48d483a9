----------------------------- MODULE ReleaseManager ----------------------------
(***************************************************************************)
(* From the Release informer to the handlers: the release controller       *)
(* (pkg/controller/release), the manager that keeps a handler per name and *)
(* the life of a handler's two goroutines (pkg/release), while releases    *)
(* are deleted and created anew under the same name.                       *)
(*                                                                         *)
(* A release is its UID, a number: later incarnations have greater ones.   *)
(* What a handler does to a release is ReleaseHandler's subject; here it   *)
(* is one patch, by name, which hits whatever release has that name.       *)
(***************************************************************************)
EXTENDS Integers, Sequences

CONSTANTS
    Names,
    ChannelSize,   \* capacity of releaseHandler.queue (10 in the code)
    MaxCreates,    \* bound: how many releases are ever created
    MaxFaults      \* bound: how many patches fail

ASSUME ManagerAssumption ==
    /\ ChannelSize \in Nat \ {0}
    /\ MaxCreates \in Nat /\ MaxFaults \in Nat

None == 0

VARIABLES
    api,       \* the release of each name on the server
    view,      \* the informer's copies
    keys,      \* the keys in the controller's queue
    delayed,   \* those that wait for the rate limiter
    item,      \* what processNextWorkItem is at: a name and what the lister said
    handlers,  \* the manager's map: the number of each name's handler
    handler,   \* all the handlers there have been
    creates, faults,  \* how much was spent
    coalesced  \* history: a release was created while informer or manager
               \* still knew of a former one of its name

queueVars == <<keys, delayed, item>>
vars == <<api, view, queueVars, handlers, handler, creates, faults, coalesced>>

NoItem == [name |-> None, uid |-> None]

(* base is the UID of the storage's copy, job what the worker applies;     *)
(* stopped: the receiver has shut the retry queue down.                    *)
Handler == [name : Names, base : Nat, chan : Seq(Nat), canceled : BOOLEAN,
            stopped : BOOLEAN, target : Nat, queued : BOOLEAN, later : BOOLEAN, job : Nat]

Numbers == 1 .. Len(handler)

TypeOK ==
    /\ api \in [Names -> Nat] /\ view \in [Names -> Nat]
    /\ keys \subseteq Names /\ delayed \subseteq Names
    /\ item \in [name : Names, uid : Nat] \cup {NoItem}
    /\ handler \in Seq(Handler)
    /\ \A h \in Numbers : Len(handler[h].chan) <= ChannelSize
    /\ handlers \in [Names -> 0 .. Len(handler)]
    /\ creates \in Nat /\ faults \in Nat /\ coalesced \in BOOLEAN

Init ==
    /\ api = [n \in Names |-> None] /\ view = api
    /\ keys = {} /\ delayed = {} /\ item = NoItem
    /\ handlers = [n \in Names |-> None] /\ handler = <<>>
    /\ creates = 0 /\ faults = 0 /\ coalesced = FALSE

-------------------------------------------------------------------------------
(* The user and the informer.                                              *)
Create ==
    /\ creates < MaxCreates
    /\ \E n \in Names :
         /\ api[n] = None
         /\ api' = [api EXCEPT ![n] = creates + 1]
         /\ coalesced' = (coalesced \/ view[n] # None \/ handlers[n] # None
                                     \/ n \in keys \/ item.name = n)
    /\ creates' = creates + 1
    /\ UNCHANGED <<view, queueVars, handlers, handler, faults>>

Remove ==
    /\ \E n \in Names :
         /\ api[n] # None
         /\ api' = [api EXCEPT ![n] = None]
    /\ UNCHANGED <<view, queueVars, handlers, handler, creates, faults, coalesced>>

(* enqueueRelease, for a change (and for a resync, which changes nothing). *)
See(n) ==
    /\ view' = [view EXCEPT ![n] = api[n]]
    /\ view[n] # api[n] \/ (view[n] # None /\ n \notin keys)
    /\ keys' = keys \cup {n}
    /\ UNCHANGED <<api, delayed, item, handlers, handler, creates, faults, coalesced>>

(* AddRateLimited has waited.                                              *)
Retry(n) ==
    /\ n \in delayed
    /\ delayed' = delayed \ {n}
    /\ keys' = keys \cup {n}
    /\ UNCHANGED <<api, view, item, handlers, handler, creates, faults, coalesced>>

-------------------------------------------------------------------------------
(* The controller's only worker.                                           *)
Lookup ==
    /\ item = NoItem
    /\ \E n \in keys :
         /\ keys' = keys \ {n}
         /\ item' = [name |-> n, uid |-> view[n]]
    /\ UNCHANGED <<api, view, delayed, handlers, handler, creates, faults, coalesced>>

(* A faulty variant of NewHandler: the storage gets its copy with the      *)
(* first patch.                                                            *)
NewHandlerWithoutCopy(n, u) ==
    [name |-> n, base |-> None, chan |-> <<u>>, canceled |-> FALSE, stopped |-> FALSE,
     target |-> None, queued |-> FALSE, later |-> FALSE, job |-> None]

NewHandler(n, u) ==
    [name |-> n, base |-> u, chan |-> <<u>>, canceled |-> FALSE, stopped |-> FALSE,
     target |-> None, queued |-> FALSE, later |-> FALSE, job |-> None]

(* A faulty variant of Enqueue: what came last is handed out first.        *)
EnqueueFirst(h, u) ==
    /\ Len(handler[h].chan) < ChannelSize
    /\ handler' = [handler EXCEPT ![h].chan = <<u>> \o @]

(* Enqueue blocks while the channel is full.  That it refuses a cancelled  *)
(* handler never matters (NeverCanceled).                                  *)
Enqueue(h, u) ==
    /\ Len(handler[h].chan) < ChannelSize
    /\ handler' = [handler EXCEPT ![h].chan = Append(@, u)]

Trigger ==
    /\ item.uid # None
    /\ \/ /\ handlers[item.name] = None
          /\ handler' = Append(handler, NewHandler(item.name, item.uid))
          /\ handlers' = [handlers EXCEPT ![item.name] = Len(handler) + 1]
       \/ /\ handlers[item.name] # None
          /\ Enqueue(handlers[item.name], item.uid)
          /\ UNCHANGED handlers
    /\ item' = NoItem
    /\ UNCHANGED <<api, view, keys, delayed, creates, faults, coalesced>>

(* Faulty variants of Delete: one leaves the handler in the map, one only  *)
(* forgets it.                                                             *)
DeleteKeepingEntry ==
    /\ item # NoItem /\ item.uid = None
    /\ \/ /\ handlers[item.name] # None
          /\ handler' = [handler EXCEPT ![handlers[item.name]].canceled = TRUE]
          /\ UNCHANGED delayed
       \/ /\ handlers[item.name] = None
          /\ delayed' = delayed \cup {item.name}
          /\ UNCHANGED handler
    /\ item' = NoItem
    /\ UNCHANGED <<api, view, keys, handlers, creates, faults, coalesced>>

DeleteWithoutStop ==
    /\ item # NoItem /\ item.uid = None
    /\ handlers' = [handlers EXCEPT ![item.name] = None]
    /\ item' = NoItem
    /\ UNCHANGED <<api, view, keys, delayed, handler, creates, faults, coalesced>>

(* Delete stops the handler and forgets it; without one it is an error,    *)
(* and the key comes back.                                                 *)
Delete ==
    /\ item # NoItem /\ item.uid = None
    /\ \/ /\ handlers[item.name] # None
          /\ handler' = [handler EXCEPT ![handlers[item.name]].canceled = TRUE]
          /\ handlers' = [handlers EXCEPT ![item.name] = None]
          /\ UNCHANGED delayed
       \/ /\ handlers[item.name] = None
          /\ delayed' = delayed \cup {item.name}
          /\ UNCHANGED <<handler, handlers, coalesced>>
    /\ item' = NoItem
    /\ UNCHANGED <<api, view, keys, creates, faults, coalesced>>

-------------------------------------------------------------------------------
(* A handler.  Its receiver takes from the channel, or sees that ctx is    *)
(* done, in either order when it could do both.  Whether a release it has  *)
(* already taken is "changed" is left open; a new one always is, for it    *)
(* has no condition yet.                                                   *)
Receive(h) ==
    /\ ~ handler[h].stopped /\ handler[h].chan # <<>>
    /\ LET u == Head(handler[h].chan)
       IN \/ /\ u = handler[h].target
             /\ handler' = [handler EXCEPT ![h].chan = Tail(@)]
          \/ handler' = [handler EXCEPT ![h].chan = Tail(@), ![h].target = u,
                                        ![h].queued = TRUE]
    /\ UNCHANGED <<api, view, queueVars, handlers, creates, faults, coalesced>>

Stop(h) ==
    /\ handler[h].canceled /\ ~ handler[h].stopped
    /\ handler' = [handler EXCEPT ![h].stopped = TRUE]
    /\ UNCHANGED <<api, view, queueVars, handlers, creates, faults, coalesced>>

(* The worker goes on until the queue is drained, stopped or not.          *)
Take(h) ==
    /\ handler[h].queued /\ handler[h].job = None
    /\ handler' = [handler EXCEPT ![h].queued = FALSE, ![h].job = handler[h].target]
    /\ UNCHANGED <<api, view, queueVars, handlers, creates, faults, coalesced>>

Patch(h) ==
    /\ handler[h].job # None
    /\ api[handler[h].name] # None
    /\ handler' = [handler EXCEPT ![h].job = None, ![h].base = api[handler[h].name]]
    /\ UNCHANGED <<api, view, queueVars, handlers, creates, faults, coalesced>>

(* There is no release of that name, or the server does not answer.  A     *)
(* retry may be due; after ShutDown the queue ignores it.                  *)
PatchFails(h) ==
    /\ handler[h].job # None
    /\ \/ /\ api[handler[h].name] = None
          /\ UNCHANGED faults
       \/ /\ faults < MaxFaults
          /\ faults' = faults + 1
    /\ \E again \in {FALSE, ~ handler[h].stopped} :
         handler' = [handler EXCEPT ![h].job = None,
                                    ![h].later = again \/ handler[h].later]
    /\ UNCHANGED <<api, view, queueVars, handlers, creates, coalesced>>

RetryFires(h) ==
    /\ handler[h].later
    /\ handler' = [handler EXCEPT ![h].later = FALSE,
                                  ![h].queued = @ \/ ~ handler[h].stopped]
    /\ UNCHANGED <<api, view, queueVars, handlers, creates, faults, coalesced>>

Handle(h) ==
    Receive(h) \/ Take(h) \/ Patch(h) \/ PatchFails(h) \/ RetryFires(h)

-------------------------------------------------------------------------------
Next ==
    \/ Create \/ Remove
    \/ \E n \in Names : See(n) \/ Retry(n)
    \/ Lookup \/ Trigger \/ Delete
    \/ \E h \in Numbers : Handle(h) \/ Stop(h)

Spec == Init /\ [][Next]_vars

(* Informer, timers, the controller's worker and each goroutine go on; a   *)
(* select with two ready cases does not pass one over for ever; no key of  *)
(* the first-in first-out queue waits for ever.                            *)
Fairness ==
    /\ \A n \in Names : WF_vars(See(n)) /\ WF_vars(Retry(n))
                        /\ SF_vars(Lookup /\ item'.name = n)
    /\ WF_vars(Trigger) /\ WF_vars(Delete)
    /\ \A h \in 1 .. MaxCreates :
         /\ SF_vars(h \in Numbers /\ Stop(h))
         /\ WF_vars(h \in Numbers /\ Receive(h))
         /\ WF_vars(h \in Numbers /\ (Take(h) \/ Patch(h) \/ PatchFails(h)))
         /\ WF_vars(h \in Numbers /\ RetryFires(h))

FairSpec == Spec /\ Fairness

-------------------------------------------------------------------------------
Current == {handlers[n] : n \in Names} \ {None}

(* The manager never holds a cancelled handler, and holds each under the   *)
(* name it works for: Enqueue cannot fail (the "covert bug" of             *)
(* releaseHandler.Enqueue).                                                *)
NeverCanceled ==
    \A n \in Names : handlers[n] # None =>
        handler[handlers[n]].name = n /\ ~ handler[handlers[n]].canceled

(* A handler turns to newer incarnations only, never back to one that is   *)
(* gone (the order of the channel and of the controller's worker).         *)
NeverBack ==
    [][\A h \in Numbers : handler'[h].target >= handler[h].target]_vars

(* In the end every release is what its name's handler is after, and a     *)
(* name without a release has no handler.                                  *)
Served ==
    <>[](\A n \in Names :
            IF api[n] = None THEN handlers[n] = None
            ELSE handlers[n] # None /\ handler[handlers[n]].target = api[n])

(* In the end no goroutine of a handler the manager has dropped is left.   *)
Reaped ==
    <>[](\A h \in Numbers : h \notin Current =>
            /\ handler[h].stopped
            /\ ~ handler[h].queued /\ ~ handler[h].later /\ handler[h].job = None)

(* "All releases have same unique id" (Getter): what a handler applies is  *)
(* the release its storage is for, as long as a name is taken again only   *)
(* when informer and manager have forgotten the former release.            *)
SameRelease ==
    ~ coalesced => \A h \in Current : handler[h].job \in {None, handler[h].base}
===============================================================================
