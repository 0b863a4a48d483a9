-------------------------- MODULE ReleaseManagerProofs -------------------------
(***************************************************************************)
(* Theorems of ReleaseManager, for any names, any size of the channel, any *)
(* number of releases and of failing patches.                              *)
(*                                                                         *)
(* Two arguments.  A release travels api -> view -> item -> channel ->     *)
(* target; incarnations overtake nowhere on the way, so that a handler     *)
(* only ever turns to a younger one (OrderInv).  And no step but Create    *)
(* brings a release to a name that was not about it already: if Create     *)
(* waits until nothing of the former one is left, there is only one        *)
(* (OneInv).                                                               *)
(***************************************************************************)
EXTENDS ReleaseManager, TLAPS

(* The manager's map, and the storage's copy.                              *)
MapInv == TypeOK /\ NeverCanceled /\ \A h \in Numbers : handler[h].base # None

(* u is no younger than what is on the server, in the informer's cache, in *)
(* the controller's hands.                                                 *)
OnServer(n, u) == u <= creates /\ (api[n] # None => u <= api[n])
Viewed(n, u) == OnServer(n, u) /\ (view[n] # None => u <= view[n])
Looked(n, u) == Viewed(n, u) /\ (item.name = n /\ item.uid # None => u <= item.uid)

Sorted(h) ==
    /\ \A i \in 1 .. Len(handler[h].chan) : handler[h].target <= handler[h].chan[i]
    /\ \A i, j \in 1 .. Len(handler[h].chan) :
         i <= j => handler[h].chan[i] <= handler[h].chan[j]

OrderInv ==
    /\ \A n \in Names : api[n] <= creates /\ OnServer(n, view[n])
    /\ item # NoItem => Viewed(item.name, item.uid)
    /\ \A n \in Names : handlers[n] # None =>
         /\ Looked(n, handler[handlers[n]].target)
         /\ \A i \in 1 .. Len(handler[handlers[n]].chan) :
              Looked(n, handler[handlers[n]].chan[i])
    /\ \A h \in Numbers : Sorted(h)

(* Whether release u is known anywhere under name n.                       *)
Holds(h, u) ==
    \/ u \in {handler[h].base, handler[h].target, handler[h].job}
    \/ \E i \in 1 .. Len(handler[h].chan) : handler[h].chan[i] = u

About(n, u) ==
    /\ u # None
    /\ \/ u \in {api[n], view[n]}
       \/ item.name = n /\ item.uid = u
       \/ handlers[n] # None /\ Holds(handlers[n], u)

OneInv == ~ coalesced => \A n \in Names : \A u, v \in Nat : About(n, u) /\ About(n, v) => u = v

-------------------------------------------------------------------------------
(* What a handler's goroutines may do to it: the receiver takes the first  *)
(* release of the channel, the worker applies or drops its job.            *)
Own(h, r) ==
    /\ r \in Handler
    /\ r.name = handler[h].name /\ r.canceled = handler[h].canceled
    /\ \/ r.chan = handler[h].chan /\ r.target = handler[h].target
       \/ /\ handler[h].chan # <<>>
          /\ r.chan = Tail(handler[h].chan) /\ r.target = Head(handler[h].chan)
    /\ r.job \in {None, handler[h].job, handler[h].target}
    /\ r.base \in {handler[h].base, api[handler[h].name]} \ {None}

(* Every step of a handler is of that kind, and touches nothing else but   *)
(* the count of faults.                                                    *)
LEMMA OwnStep ==
    ASSUME MapInv, NEW h \in Numbers, Handle(h) \/ Stop(h)
    PROVE  /\ \E r : Own(h, r) /\ handler' = [handler EXCEPT ![h] = r]
           /\ UNCHANGED <<api, view, queueVars, handlers, creates, coalesced>>
           /\ faults' \in Nat
<1> DEFINE r == handler'[h]
<1>1. /\ handler \in Seq(Handler) /\ handler[h] \in Handler
      /\ handler[h].base # None /\ faults \in Nat /\ api \in [Names -> Nat]
      /\ handler[h].name \in Names /\ api[handler[h].name] \in Nat
  <2>1. /\ handler \in Seq(Handler) /\ h \in 1 .. Len(handler)
        /\ faults \in Nat /\ api \in [Names -> Nat] /\ handler[h].base # None
    BY DEF MapInv, TypeOK, Numbers
  <2>2. handler[h] \in Handler
    BY <2>1
  <2>3. handler[h].name \in Names
    BY <2>2 DEF Handler
  <2>4. QED
    BY <2>1, <2>2, <2>3
<1>2. CASE Receive(h)
  <2>1. /\ ~ handler[h].stopped /\ handler[h].chan # <<>>
        /\ UNCHANGED <<api, view, queueVars, handlers, creates, faults, coalesced>>
    BY <1>2 DEF Receive
  <2>2. /\ Head(handler[h].chan) \in Nat /\ Tail(handler[h].chan) \in Seq(Nat)
        /\ Len(handler) \in Nat /\ DOMAIN handler = 1 .. Len(handler)
    <3>1. handler[h].chan \in Seq(Nat)
      BY <1>1 DEF Handler
    <3>2. QED
      BY <1>1, <2>1, <3>1
  <2>3. CASE /\ Head(handler[h].chan) = handler[h].target
             /\ handler' = [handler EXCEPT ![h].chan = Tail(@)]
    <3> DEFINE new == [handler[h] EXCEPT !.chan = Tail(@)]
    <3>1. handler' = [handler EXCEPT ![h] = new]
      BY <2>3
    <3>2. Own(h, new)
      BY <1>1, <2>1, <2>2, <2>3 DEF Own, Handler
    <3>3. QED
      BY <1>1, <2>1, <3>1, <3>2
  <2>4. CASE handler' = [handler EXCEPT ![h].chan = Tail(@),
                                        ![h].target = Head(handler[h].chan),
                                        ![h].queued = TRUE]
    <3> DEFINE new == [handler[h] EXCEPT !.chan = Tail(@),
                                         !.target = Head(handler[h].chan),
                                         !.queued = TRUE]
    <3>1. handler' = [handler EXCEPT ![h] = new]
      BY <1>1, <2>2, <2>4 DEF Numbers
    <3>2. Own(h, new)
      BY <1>1, <2>1, <2>2 DEF Own, Handler
    <3>3. QED
      BY <1>1, <2>1, <3>1, <3>2
  <2>5. QED
    BY <1>2, <2>3, <2>4 DEF Receive
<1>3. CASE Stop(h)
  <2> DEFINE new == [handler[h] EXCEPT !.stopped = TRUE]
  <2>1. handler' = [handler EXCEPT ![h] = new]
    BY <1>3 DEF Stop
  <2>2. Own(h, new)
    BY <1>1 DEF Own, Handler
  <2>3. QED
    BY <1>1, <1>3, <2>1, <2>2 DEF Stop
<1>4. CASE Take(h)
  <2> DEFINE new == [handler[h] EXCEPT !.queued = FALSE, !.job = handler[h].target]
  <2>1. handler' = [handler EXCEPT ![h] = new]
    BY <1>1, <1>4 DEF Take, Numbers
  <2>2. Own(h, new)
    BY <1>1 DEF Own, Handler
  <2>3. QED
    BY <1>1, <1>4, <2>1, <2>2 DEF Take
<1>5. CASE Patch(h)
  <2> DEFINE new == [handler[h] EXCEPT !.job = None, !.base = api[handler[h].name]]
  <2>1. handler' = [handler EXCEPT ![h] = new]
    BY <1>1, <1>5 DEF Patch, Numbers
  <2>2. Own(h, new)
    BY <1>1, <1>5 DEF Own, Handler, Patch, None
  <2>3. QED
    BY <1>1, <1>5, <2>1, <2>2 DEF Patch
<1>6. CASE PatchFails(h)
  <2>1. PICK again \in {FALSE, ~ handler[h].stopped} :
          handler' = [handler EXCEPT ![h].job = None,
                                     ![h].later = again \/ handler[h].later]
    BY <1>6 DEF PatchFails
  <2> DEFINE new == [handler[h] EXCEPT !.job = None, !.later = again \/ handler[h].later]
  <2>2. handler' = [handler EXCEPT ![h] = new]
    BY <1>1, <2>1 DEF Numbers
  <2>3. again \in BOOLEAN /\ (again \/ handler[h].later) \in BOOLEAN
    BY <1>1, <2>1 DEF Handler
  <2>4. Own(h, new)
    BY <1>1, <2>3 DEF Own, Handler, None
  <2>5. faults' \in Nat
    BY <1>1, <1>6 DEF PatchFails
  <2>6. QED
    BY <1>6, <2>2, <2>4, <2>5 DEF PatchFails
<1>7. CASE RetryFires(h)
  <2> DEFINE new == [handler[h] EXCEPT !.later = FALSE,
                                       !.queued = @ \/ ~ handler[h].stopped]
  <2>1. handler' = [handler EXCEPT ![h] = new]
    BY <1>1, <1>7 DEF RetryFires, Numbers
  <2>2. (handler[h].queued \/ ~ handler[h].stopped) \in BOOLEAN
    BY <1>1 DEF Handler
  <2>3. Own(h, new)
    BY <1>1, <2>2 DEF Own, Handler
  <2>4. QED
    BY <1>1, <1>7, <2>1, <2>3 DEF RetryFires
<1>8. QED
  BY <1>2, <1>3, <1>4, <1>5, <1>6, <1>7 DEF Handle

LEMMA Replaced ==
    ASSUME handler \in Seq(Handler), NEW h \in Numbers, NEW r \in Handler,
           handler' = [handler EXCEPT ![h] = r]
    PROVE  /\ handler' \in Seq(Handler) /\ Len(handler') = Len(handler)
           /\ Numbers' = Numbers /\ handler'[h] = r
           /\ \A k \in Numbers : k # h => handler'[k] = handler[k]
  BY DEF Numbers

(* What stands behind what in a channel a release is appended to.          *)
LEMMA AppendFacts ==
    ASSUME NEW s \in Seq(Nat), NEW u \in Nat
    PROVE  /\ Append(s, u) \in Seq(Nat)
           /\ Len(Append(s, u)) = Len(s) + 1 /\ Len(s) \in Nat
           /\ Append(s, u)[Len(s) + 1] = u
           /\ \A i \in 1 .. Len(s) : Append(s, u)[i] = s[i] /\ s[i] \in Nat
  OBVIOUS

(* Trigger makes the name's first handler, or appends to its channel.      *)
LEMMA TriggerStep ==
    ASSUME MapInv, Trigger
    PROVE  /\ item.name \in Names /\ item.uid \in Nat \ {None} /\ item' = NoItem
           /\ UNCHANGED <<api, view, keys, delayed, creates, faults, coalesced>>
           /\ \/ /\ handlers[item.name] = None
                 /\ NewHandler(item.name, item.uid) \in Handler
                 /\ handler' = Append(handler, NewHandler(item.name, item.uid))
                 /\ handlers' = [handlers EXCEPT ![item.name] = Len(handler) + 1]
              \/ /\ handlers[item.name] \in Numbers
                 /\ Len(handler[handlers[item.name]].chan) < ChannelSize
                 /\ [handler[handlers[item.name]] EXCEPT !.chan = Append(@, item.uid)]
                       \in Handler
                 /\ handler' = [handler EXCEPT ![handlers[item.name]] =
                        [handler[handlers[item.name]] EXCEPT !.chan = Append(@, item.uid)]]
                 /\ UNCHANGED handlers
<1>1. /\ item.name \in Names /\ item.uid \in Nat \ {None} /\ item' = NoItem
      /\ UNCHANGED <<api, view, keys, delayed, creates, faults, coalesced>>
  BY DEF MapInv, TypeOK, Trigger, NoItem, None
<1>2. CASE handlers[item.name] = None
  <2>1. /\ handler' = Append(handler, NewHandler(item.name, item.uid))
        /\ handlers' = [handlers EXCEPT ![item.name] = Len(handler) + 1]
    BY <1>2 DEF Trigger
  <2>2. NewHandler(item.name, item.uid) \in Handler
    BY <1>1 DEF NewHandler, Handler, None
  <2>3. QED
    BY <1>1, <1>2, <2>1, <2>2
<1>3. CASE handlers[item.name] # None
  <2> DEFINE h == handlers[item.name]
  <2>1. /\ Len(handler[h].chan) < ChannelSize /\ UNCHANGED handlers
        /\ handler' = [handler EXCEPT ![h].chan = Append(@, item.uid)]
    BY <1>3 DEF Trigger, Enqueue
  <2>2. h \in Numbers /\ handler \in Seq(Handler)
    BY <1>1, <1>3 DEF MapInv, TypeOK, Numbers, None
  <2>3. handler[h] \in Handler
    BY <2>2 DEF Numbers
  <2>4. Append(handler[h].chan, item.uid) \in Seq(Nat)
    BY <1>1, <2>3 DEF Handler
  <2>5. [handler[h] EXCEPT !.chan = Append(@, item.uid)] \in Handler
    BY <2>3, <2>4 DEF Handler
  <2>6. QED
    BY <1>1, <2>1, <2>2, <2>5
<1>4. QED
  BY <1>2, <1>3

(* Delete cancels the handler it takes out of the map, if there is one.    *)
LEMMA DeleteStep ==
    ASSUME MapInv, Delete
    PROVE  /\ item.name \in Names /\ item' = NoItem /\ delayed' \subseteq Names
           /\ UNCHANGED <<api, view, keys, creates, faults, coalesced>>
           /\ \/ UNCHANGED <<handler, handlers>>
              \/ /\ handlers[item.name] \in Numbers
                 /\ [handler[handlers[item.name]] EXCEPT !.canceled = TRUE] \in Handler
                 /\ handler' = [handler EXCEPT ![handlers[item.name]] =
                                  [handler[handlers[item.name]] EXCEPT !.canceled = TRUE]]
                 /\ handlers' = [handlers EXCEPT ![item.name] = None]
<1>1. /\ item.name \in Names /\ item' = NoItem /\ delayed' \subseteq Names
      /\ UNCHANGED <<api, view, keys, creates, faults, coalesced>>
  BY DEF MapInv, TypeOK, Delete, NoItem
<1>2. CASE handlers[item.name] = None
  BY <1>1, <1>2 DEF Delete
<1>3. CASE handlers[item.name] # None
  <2> DEFINE h == handlers[item.name]
  <2>1. /\ handler' = [handler EXCEPT ![h].canceled = TRUE]
        /\ handlers' = [handlers EXCEPT ![item.name] = None]
    BY <1>3 DEF Delete
  <2>2. h \in Numbers /\ handler \in Seq(Handler)
    BY <1>1, <1>3 DEF MapInv, TypeOK, Numbers, None
  <2>3. handler[h] \in Handler
    BY <2>2 DEF Numbers
  <2>4. [handler[h] EXCEPT !.canceled = TRUE] \in Handler
    BY <2>3 DEF Handler
  <2>5. QED
    BY <1>1, <2>1, <2>2, <2>4
<1>4. QED
  BY <1>2, <1>3

-------------------------------------------------------------------------------
(* The map.  A handler is cancelled in the step that takes it out, and the *)
(* name it is under is the one it was made for.                            *)
LEMMA MapStep ==
    ASSUME MapInv, [Next]_vars
    PROVE  MapInv'
<1> USE ManagerAssumption
<1>1. /\ TypeOK /\ NeverCanceled /\ \A h \in Numbers : handler[h].base # None
      /\ Len(handler) \in Nat
  BY DEF MapInv, TypeOK
<1>2. ASSUME UNCHANGED <<handlers, handler>>,
             /\ api' \in [Names -> Nat] /\ view' \in [Names -> Nat]
             /\ keys' \subseteq Names /\ delayed' \subseteq Names
             /\ item' \in [name : Names, uid : Nat] \cup {NoItem}
             /\ creates' \in Nat /\ faults' \in Nat /\ coalesced' \in BOOLEAN
      PROVE  MapInv'
  BY <1>1, <1>2 DEF MapInv, TypeOK, NeverCanceled, Numbers
<1>3. CASE UNCHANGED vars
  BY <1>1, <1>2, <1>3 DEF TypeOK, vars, queueVars
<1>4. CASE Create
  <2>1. coalesced' \in BOOLEAN
    BY <1>1, <1>4 DEF Create, TypeOK
  <2>2. /\ api' \in [Names -> Nat] /\ creates' \in Nat
        /\ UNCHANGED <<view, queueVars, handlers, handler, faults>>
    BY <1>1, <1>4 DEF Create, TypeOK
  <2>3. QED
    BY <1>1, <1>2, <2>1, <2>2 DEF TypeOK, queueVars
<1>5. CASE Remove
  BY <1>1, <1>2, <1>5 DEF TypeOK, Remove, queueVars, None
<1>6. ASSUME NEW n \in Names, See(n) PROVE MapInv'
  BY <1>1, <1>2, <1>6 DEF TypeOK, See
<1>7. ASSUME NEW n \in Names, Retry(n) PROVE MapInv'
  BY <1>1, <1>2, <1>7 DEF TypeOK, Retry
<1>8. CASE Lookup
  BY <1>1, <1>2, <1>8 DEF TypeOK, Lookup
<1>9. ASSUME NEW h \in Numbers, NEW r \in Handler,
             handler' = [handler EXCEPT ![h] = r],
             Len(r.chan) <= ChannelSize, r.base # None
      PROVE  /\ handler' \in Seq(Handler)
             /\ \A k \in Numbers' : /\ Len(handler'[k].chan) <= ChannelSize
                                    /\ handler'[k].base # None
  <2>1. \A k \in Numbers : /\ Len(handler[k].chan) <= ChannelSize
                           /\ handler[k].base # None
    BY <1>1 DEF TypeOK
  <2>2. QED
    BY <1>1, <1>9, <2>1, Replaced DEF TypeOK
<1>10. CASE Trigger
  <2>1. CASE /\ handlers[item.name] = None
             /\ NewHandler(item.name, item.uid) \in Handler
             /\ handler' = Append(handler, NewHandler(item.name, item.uid))
             /\ handlers' = [handlers EXCEPT ![item.name] = Len(handler) + 1]
    <3> DEFINE new == NewHandler(item.name, item.uid)
    <3>1. /\ item.name \in Names /\ item.uid \in Nat \ {None} /\ item' = NoItem
          /\ UNCHANGED <<api, view, keys, delayed, creates, faults, coalesced>>
      BY <1>10, TriggerStep
    <3>2. /\ handler' \in Seq(Handler) /\ Len(handler') = Len(handler) + 1
          /\ handler'[Len(handler) + 1] = new
          /\ \A h \in Numbers : handler'[h] = handler[h]
      BY <1>1, <2>1 DEF TypeOK, Numbers
    <3>3. /\ Len(new.chan) = 1 /\ new.name = item.name /\ new.canceled = FALSE
          /\ new.base = item.uid
      BY DEF NewHandler
    <3>4. \A h \in Numbers' : h \in Numbers \/ h = Len(handler) + 1
      BY <1>1, <3>2 DEF Numbers
    <3>5. TypeOK'
      <4>1. \A h \in Numbers' : Len(handler'[h].chan) <= ChannelSize
        <5>1. \A h \in Numbers : Len(handler'[h].chan) <= ChannelSize
          BY <1>1, <3>2 DEF TypeOK
        <5>2. Len(handler'[Len(handler) + 1].chan) <= ChannelSize
          BY <3>2, <3>3
        <5>3. QED
          BY <3>4, <5>1, <5>2
      <4>2. handlers' \in [Names -> 0 .. Len(handler')]
        BY <1>1, <2>1, <3>1, <3>2 DEF TypeOK
      <4>3. QED
        BY <1>1, <3>1, <3>2, <4>1, <4>2 DEF TypeOK
    <3>6. NeverCanceled'
      <4>1. \A n \in Names : handlers[n] # None => handlers[n] \in Numbers
        BY <1>1 DEF TypeOK, Numbers, None
      <4>2. \A n \in Names \ {item.name} : handlers'[n] = handlers[n]
        BY <1>1, <2>1 DEF TypeOK
      <4>3. handlers'[item.name] = Len(handler) + 1
        BY <1>1, <2>1, <3>1 DEF TypeOK
      <4>4. QED
        BY <1>1, <3>2, <3>3, <4>1, <4>2, <4>3 DEF NeverCanceled
    <3>7. QED
      BY <1>1, <3>1, <3>2, <3>3, <3>4, <3>5, <3>6 DEF MapInv
  <2>2. CASE /\ handlers[item.name] \in Numbers
             /\ Len(handler[handlers[item.name]].chan) < ChannelSize
             /\ [handler[handlers[item.name]] EXCEPT !.chan = Append(@, item.uid)]
                   \in Handler
             /\ handler' = [handler EXCEPT ![handlers[item.name]] =
                    [handler[handlers[item.name]] EXCEPT !.chan = Append(@, item.uid)]]
             /\ UNCHANGED handlers
    <3> DEFINE h == handlers[item.name]
               r == [handler[h] EXCEPT !.chan = Append(@, item.uid)]
    <3>1. /\ item.name \in Names /\ item.uid \in Nat /\ item' = NoItem
          /\ UNCHANGED <<api, view, keys, delayed, creates, faults, coalesced>>
      BY <1>10, TriggerStep
    <3>2. h \in Numbers /\ r \in Handler /\ handler[h] \in Handler
      BY <1>1, <2>2 DEF TypeOK, Numbers
    <3>3. /\ r.chan = Append(handler[h].chan, item.uid) /\ r.base = handler[h].base
          /\ r.name = handler[h].name /\ r.canceled = handler[h].canceled
      BY <3>2 DEF Handler
    <3>4. Len(r.chan) <= ChannelSize
      <4>1. handler[h].chan \in Seq(Nat) /\ Len(handler[h].chan) < ChannelSize
        BY <2>2, <3>2 DEF Handler
      <4>2. Len(r.chan) = Len(handler[h].chan) + 1 /\ Len(handler[h].chan) \in Nat
        BY <3>1, <3>3, <4>1, AppendFacts
      <4>3. QED
        BY <4>1, <4>2
    <3>5. /\ handler' \in Seq(Handler)
          /\ \A k \in Numbers' : /\ Len(handler'[k].chan) <= ChannelSize
                                 /\ handler'[k].base # None
      BY <1>1, <1>9, <2>2, <3>2, <3>3, <3>4
    <3>6. /\ Len(handler') = Len(handler) /\ handler'[h] = r
          /\ \A k \in Numbers : k # h => handler'[k] = handler[k]
      BY <1>1, <2>2, <3>2, Replaced DEF TypeOK
    <3>7. TypeOK'
      BY <1>1, <2>2, <3>1, <3>5, <3>6 DEF TypeOK
    <3>8. NeverCanceled'
      <4>1. \A n \in Names : handlers[n] # None => handlers[n] \in Numbers
        BY <1>1 DEF TypeOK, Numbers, None
      <4>2. QED
        BY <1>1, <2>2, <3>3, <3>6, <4>1 DEF NeverCanceled
    <3>9. QED
      BY <3>5, <3>7, <3>8 DEF MapInv
  <2>3. QED
    BY <1>10, <2>1, <2>2, TriggerStep
<1>11. CASE Delete
  <2>1. /\ item.name \in Names /\ item' = NoItem /\ delayed' \subseteq Names
        /\ UNCHANGED <<api, view, keys, creates, faults, coalesced>>
    BY <1>11, DeleteStep
  <2>2. CASE UNCHANGED <<handler, handlers>>
    BY <1>1, <1>2, <2>1, <2>2 DEF TypeOK
  <2>3. CASE /\ handlers[item.name] \in Numbers
             /\ [handler[handlers[item.name]] EXCEPT !.canceled = TRUE] \in Handler
             /\ handler' = [handler EXCEPT ![handlers[item.name]] =
                              [handler[handlers[item.name]] EXCEPT !.canceled = TRUE]]
             /\ handlers' = [handlers EXCEPT ![item.name] = None]
    <3> DEFINE h == handlers[item.name]
               r == [handler[h] EXCEPT !.canceled = TRUE]
    <3>1. h \in Numbers /\ r \in Handler /\ handler[h] \in Handler
      BY <1>1, <2>3 DEF TypeOK, Numbers
    <3>2. r.chan = handler[h].chan /\ r.base = handler[h].base
      BY <3>1 DEF Handler
    <3>3. Len(r.chan) <= ChannelSize /\ r.base # None
      BY <1>1, <3>1, <3>2 DEF TypeOK
    <3>4. /\ handler' \in Seq(Handler)
          /\ \A k \in Numbers' : /\ Len(handler'[k].chan) <= ChannelSize
                                 /\ handler'[k].base # None
      BY <1>1, <1>9, <2>3, <3>1, <3>3
    <3>5. /\ Len(handler') = Len(handler)
          /\ \A k \in Numbers : k # h => handler'[k] = handler[k]
      BY <1>1, <2>3, <3>1, Replaced DEF TypeOK
    <3>6. TypeOK'
      BY <1>1, <2>1, <2>3, <3>4, <3>5 DEF TypeOK, None
    <3>7. NeverCanceled'
      <4>1. \A n \in Names : handlers[n] # None =>
              handlers[n] \in Numbers /\ handler[handlers[n]].name = n
        BY <1>1 DEF TypeOK, Numbers, None, NeverCanceled
      <4>2. /\ \A n \in Names \ {item.name} : handlers'[n] = handlers[n]
            /\ handlers'[item.name] = None
        BY <1>1, <2>1, <2>3 DEF TypeOK
      <4>3. \A n \in Names \ {item.name} : handlers[n] # None => handlers[n] # h
        BY <2>3, <3>1, <4>1, <2>1 DEF Numbers, None
      <4>4. QED
        BY <1>1, <3>5, <4>1, <4>2, <4>3 DEF NeverCanceled
    <3>8. QED
      BY <3>4, <3>6, <3>7 DEF MapInv
  <2>4. QED
    BY <1>11, <2>2, <2>3, DeleteStep
<1>12. ASSUME NEW h \in Numbers, Handle(h) \/ Stop(h) PROVE MapInv'
  <2>1. PICK r : Own(h, r) /\ handler' = [handler EXCEPT ![h] = r]
    BY <1>12, OwnStep
  <2>2. UNCHANGED <<api, view, queueVars, handlers, creates, coalesced>> /\ faults' \in Nat
    BY <1>12, OwnStep
  <2>3. r \in Handler /\ handler[h] \in Handler
    BY <1>1, <2>1 DEF TypeOK, Numbers, Own
  <2>4. Len(r.chan) <= ChannelSize /\ r.base # None
    <3>1. Len(handler[h].chan) <= ChannelSize /\ handler[h].chan \in Seq(Nat)
      BY <1>1, <2>3 DEF TypeOK, Handler
    <3>2. handler[h].chan # <<>> => Len(Tail(handler[h].chan)) <= ChannelSize
      BY <3>1
    <3>3. QED
      BY <2>1, <3>1, <3>2 DEF Own
  <2>5. /\ handler' \in Seq(Handler)
        /\ \A k \in Numbers' : /\ Len(handler'[k].chan) <= ChannelSize
                               /\ handler'[k].base # None
    BY <1>1, <1>9, <2>1, <2>3, <2>4
  <2>6. /\ Len(handler') = Len(handler) /\ handler'[h] = r
        /\ \A k \in Numbers : k # h => handler'[k] = handler[k]
    BY <1>1, <2>1, <2>3, Replaced DEF TypeOK
  <2>7. TypeOK'
    BY <1>1, <2>2, <2>5, <2>6 DEF TypeOK, queueVars
  <2>8. NeverCanceled'
    <3>1. \A n \in Names : handlers[n] # None => handlers[n] \in Numbers
      BY <1>1 DEF TypeOK, Numbers, None
    <3>2. QED
      BY <1>1, <2>1, <2>2, <2>6, <3>1 DEF NeverCanceled, Own
  <2>9. QED
    BY <2>5, <2>7, <2>8 DEF MapInv
<1>13. QED
  BY <1>3, <1>4, <1>5, <1>6, <1>7, <1>8, <1>10, <1>11, <1>12 DEF Next

LEMMA MapInit == Init => MapInv
<1> SUFFICES ASSUME Init PROVE MapInv
  OBVIOUS
<1>1. handler = <<>> /\ Numbers = {} /\ handler \in Seq(Handler)
  BY DEF Init, Numbers
<1>2. TypeOK
  <2>1. Len(handler) = 0
    BY <1>1
  <2>2. /\ api = [n \in Names |-> 0] /\ view = api /\ handlers = [n \in Names |-> 0]
        /\ keys = {} /\ delayed = {} /\ item = NoItem /\ creates = 0 /\ faults = 0
        /\ coalesced = FALSE
    BY DEF Init, None
  <2>3. handlers \in [Names -> 0 .. Len(handler)]
    BY <2>1, <2>2
  <2>4. api \in [Names -> Nat] /\ view \in [Names -> Nat]
    BY <2>2
  <2>5. \A h \in Numbers : Len(handler[h].chan) <= ChannelSize
    BY <1>1
  <2>6. QED
    BY <1>1, <2>2, <2>3, <2>4, <2>5 DEF TypeOK
<1>3. NeverCanceled
  BY DEF Init, NeverCanceled
<1>4. QED
  BY <1>1, <1>2, <1>3 DEF MapInv

(* The types, for any bounds: no channel is ever over-full, and the map    *)
(* points to handlers there are.                                           *)
THEOREM TypeCorrect == Spec => []TypeOK
<1>1. MapInv => TypeOK
  BY DEF MapInv
<1>2. QED
  BY MapInit, MapStep, <1>1, PTL DEF Spec

(* The manager never hands a release to a cancelled handler, nor to one of *)
(* another name: Enqueue's "covert bug" (handler.go) cannot happen.        *)
THEOREM NeverCanceledHolds == Spec => []NeverCanceled
<1>1. MapInv => NeverCanceled
  BY DEF MapInv
<1>2. QED
  BY MapInit, MapStep, <1>1, PTL DEF Spec

-------------------------------------------------------------------------------
(* The order.  Where u is at a place of the way, so is it in the next      *)
(* state: what is ahead of it only grows older by being replaced.          *)
LEMMA PlacesKeep ==
    ASSUME MapInv, OrderInv,
           \/ Create \/ Remove \/ Lookup
           \/ \E n \in Names : See(n) \/ Retry(n)
    PROVE  /\ \A n \in Names : api'[n] <= creates' /\ OnServer(n, view[n])'
           /\ item' # NoItem => Viewed(item.name, item.uid)'
           /\ \A n \in Names, u \in Nat : Looked(n, u) => Looked(n, u)'
<1>1. /\ api \in [Names -> Nat] /\ view \in [Names -> Nat] /\ creates \in Nat
      /\ item \in [name : Names, uid : Nat] \cup {NoItem}
  BY DEF MapInv, TypeOK
<1>2. /\ \A n \in Names : api[n] <= creates /\ OnServer(n, view[n])
      /\ item # NoItem => Viewed(item.name, item.uid)
  BY DEF OrderInv
<1>3. item # NoItem => item.name \in Names /\ item.uid \in Nat
  BY <1>1
<1>4. CASE Create
  <2>1. PICK m \in Names : api[m] = None /\ api' = [api EXCEPT ![m] = creates + 1]
    BY <1>4 DEF Create
  <2>2. creates' = creates + 1 /\ view' = view /\ item' = item
    BY <1>4 DEF Create, queueVars
  <2>3. \A n \in Names : api'[n] = IF n = m THEN creates + 1 ELSE api[n]
    BY <1>1, <2>1
  <2>4. \A n \in Names, u \in Nat : OnServer(n, u) => OnServer(n, u)'
    BY <1>1, <1>2, <2>2, <2>3 DEF OnServer
  <2>5. \A n \in Names, u \in Nat : Viewed(n, u) => Viewed(n, u)'
    BY <2>2, <2>4 DEF Viewed
  <2>6. \A n \in Names, u \in Nat : Looked(n, u) => Looked(n, u)'
    BY <2>2, <2>5 DEF Looked
  <2>7. \A n \in Names : api'[n] <= creates' /\ OnServer(n, view[n])'
    BY <1>1, <1>2, <2>2, <2>3, <2>4
  <2>8. QED
    BY <1>2, <1>3, <2>2, <2>5, <2>6, <2>7
<1>5. CASE Remove
  <2>1. PICK m \in Names : api' = [api EXCEPT ![m] = None]
    BY <1>5 DEF Remove
  <2>2. creates' = creates /\ view' = view /\ item' = item
    BY <1>5 DEF Remove, queueVars
  <2>3. \A n \in Names : api'[n] = IF n = m THEN None ELSE api[n]
    BY <1>1, <2>1
  <2>4. \A n \in Names, u \in Nat : OnServer(n, u) => OnServer(n, u)'
    BY <1>1, <1>2, <2>2, <2>3 DEF OnServer
  <2>5. \A n \in Names, u \in Nat : Viewed(n, u) => Viewed(n, u)'
    BY <2>2, <2>4 DEF Viewed
  <2>6. \A n \in Names, u \in Nat : Looked(n, u) => Looked(n, u)'
    BY <2>2, <2>5 DEF Looked
  <2>7. \A n \in Names : api'[n] <= creates' /\ OnServer(n, view[n])'
    BY <1>1, <1>2, <2>2, <2>3, <2>4 DEF None
  <2>8. QED
    BY <1>2, <1>3, <2>2, <2>5, <2>6, <2>7
<1>6. CASE Lookup
  <2>1. PICK m \in Names : item' = [name |-> m, uid |-> view[m]]
    BY <1>1, <1>6 DEF Lookup, MapInv, TypeOK
  <2>2. creates' = creates /\ view' = view /\ api' = api
    BY <1>6 DEF Lookup
  <2>3. \A n \in Names, u \in Nat :
          (OnServer(n, u) => OnServer(n, u)') /\ (Viewed(n, u) => Viewed(n, u)')
    BY <2>2 DEF OnServer, Viewed
  <2>4. Viewed(m, view[m])
    BY <1>1, <1>2 DEF Viewed
  <2>5. \A n \in Names, u \in Nat : Looked(n, u) => Looked(n, u)'
    BY <2>1, <2>2, <2>3 DEF Looked, Viewed
  <2>6. QED
    BY <1>1, <1>2, <2>1, <2>2, <2>3, <2>4, <2>5
<1>7. ASSUME NEW m \in Names, See(m)
      PROVE  /\ \A n \in Names : api'[n] <= creates' /\ OnServer(n, view[n])'
             /\ item' # NoItem => Viewed(item.name, item.uid)'
             /\ \A n \in Names, u \in Nat : Looked(n, u) => Looked(n, u)'
  <2>1. view' = [view EXCEPT ![m] = api[m]]
    BY <1>7 DEF See
  <2>2. creates' = creates /\ api' = api /\ item' = item
    BY <1>7 DEF See
  <2>3. \A n \in Names : view'[n] = IF n = m THEN api[m] ELSE view[n]
    BY <1>1, <2>1
  <2>4. \A n \in Names, u \in Nat : OnServer(n, u) => OnServer(n, u)'
    BY <2>2 DEF OnServer
  <2>5. \A n \in Names, u \in Nat : Viewed(n, u) => Viewed(n, u)'
    BY <1>1, <2>3, <2>4 DEF Viewed, OnServer
  <2>6. \A n \in Names, u \in Nat : Looked(n, u) => Looked(n, u)'
    BY <2>2, <2>5 DEF Looked
  <2>7. \A n \in Names : OnServer(n, api[n])
    <3>1. \A n \in Names : api[n] \in Nat /\ api[n] <= creates
      BY <1>1, <1>2
    <3>2. ASSUME NEW n \in Names PROVE api[n] <= api[n]
      <4>1. api[n] \in Int
        BY <3>1
      <4>2. QED
        BY <4>1
    <3>3. QED
      BY <3>1, <3>2 DEF OnServer
  <2>8. QED
    BY <1>1, <1>2, <1>3, <2>2, <2>3, <2>4, <2>5, <2>6, <2>7
<1>8. ASSUME NEW m \in Names, Retry(m)
      PROVE  /\ \A n \in Names : api'[n] <= creates' /\ OnServer(n, view[n])'
             /\ item' # NoItem => Viewed(item.name, item.uid)'
             /\ \A n \in Names, u \in Nat : Looked(n, u) => Looked(n, u)'
  <2>1. creates' = creates /\ view' = view /\ api' = api /\ item' = item
    BY <1>8 DEF Retry
  <2>2. QED
    BY <1>2, <2>1 DEF OnServer, Viewed, Looked
<1>9. QED
  BY <1>4, <1>5, <1>6, <1>7, <1>8

(* A handler's own step takes the oldest release out of its channel.       *)
LEMMA OwnSorted ==
    ASSUME handler \in Seq(Handler), NEW h \in Numbers, Sorted(h),
           NEW r, Own(h, r)
    PROVE  /\ handler[h].target <= r.target
           /\ \A i \in 1 .. Len(r.chan) : r.target <= r.chan[i]
           /\ \A i, j \in 1 .. Len(r.chan) : i <= j => r.chan[i] <= r.chan[j]
           /\ \A i \in 1 .. Len(r.chan) : \E j \in 1 .. Len(handler[h].chan) :
                r.chan[i] = handler[h].chan[j]
           /\ \/ r.target = handler[h].target
              \/ \E j \in 1 .. Len(handler[h].chan) : r.target = handler[h].chan[j]
<1>1. handler[h].chan \in Seq(Nat) /\ handler[h].target \in Nat
  <2>1. handler[h] \in Handler
    BY DEF Numbers
  <2>2. QED
    BY <2>1 DEF Handler
<1>2. CASE r.chan = handler[h].chan /\ r.target = handler[h].target
  BY <1>1, <1>2 DEF Sorted
<1>3. CASE /\ handler[h].chan # <<>>
           /\ r.chan = Tail(handler[h].chan) /\ r.target = Head(handler[h].chan)
  <2> DEFINE c == handler[h].chan
  <2>1. /\ Len(c) \in Nat \ {0} /\ Len(r.chan) = Len(c) - 1 /\ r.target = c[1]
        /\ \A i \in 1 .. Len(r.chan) : r.chan[i] = c[i + 1]
    BY <1>1, <1>3
  <2>2. \A i \in 1 .. Len(r.chan) : i + 1 \in 1 .. Len(c)
    BY <2>1
  <2>3. 1 \in 1 .. Len(c)
    BY <2>1
  <2>4. \A i \in 1 .. Len(c) : handler[h].target <= c[i]
    BY DEF Sorted
  <2>5. \A i, j \in 1 .. Len(c) : i <= j => c[i] <= c[j]
    BY DEF Sorted
  <2>6. \A i \in 1 .. Len(r.chan) : r.target <= r.chan[i]
    BY <2>1, <2>2, <2>3, <2>5
  <2>7. \A i, j \in 1 .. Len(r.chan) : i <= j => r.chan[i] <= r.chan[j]
    BY <2>1, <2>2, <2>5
  <2>8. QED
    BY <2>1, <2>2, <2>3, <2>4, <2>6, <2>7
<1>4. QED
  BY <1>2, <1>3 DEF Own

(* The values of a channel are numbers, and the map points to handlers.    *)
LEMMA MapFacts ==
    ASSUME MapInv
    PROVE  /\ handler \in Seq(Handler) /\ Len(handler) \in Nat
           /\ \A h \in Numbers : /\ handler[h] \in Handler
                                 /\ handler[h].chan \in Seq(Nat) /\ handler[h].target \in Nat
                                 /\ handler[h].job \in Nat /\ handler[h].base \in Nat
                                 /\ \A i \in 1 .. Len(handler[h].chan) :
                                      handler[h].chan[i] \in Nat
           /\ \A n \in Names : handlers[n] # None =>
                handlers[n] \in Numbers /\ handler[handlers[n]].name = n
           /\ handlers \in [Names -> Nat]
<1>1. handler \in Seq(Handler) /\ handlers \in [Names -> 0 .. Len(handler)]
  BY DEF MapInv, TypeOK
<1>2. \A h \in Numbers : handler[h] \in Handler
  BY <1>1 DEF Numbers
<1>3. \A h \in Numbers : /\ handler[h].chan \in Seq(Nat) /\ handler[h].target \in Nat
                         /\ handler[h].job \in Nat /\ handler[h].base \in Nat
  BY <1>2 DEF Handler
<1>4. \A n \in Names : handlers[n] # None => handlers[n] \in Numbers
  BY <1>1 DEF Numbers, None
<1>5. \A n \in Names : handlers[n] # None => handler[handlers[n]].name = n
  BY DEF MapInv, NeverCanceled
<1>6. QED
  BY <1>1, <1>2, <1>3, <1>4, <1>5

LEMMA OrderStep ==
    ASSUME MapInv, OrderInv, [Next]_vars
    PROVE  OrderInv'
<1>1. /\ api \in [Names -> Nat] /\ view \in [Names -> Nat] /\ creates \in Nat
      /\ item \in [name : Names, uid : Nat] \cup {NoItem}
  BY DEF MapInv, TypeOK
<1>2. /\ \A n \in Names : api[n] <= creates /\ OnServer(n, view[n])
      /\ item # NoItem => Viewed(item.name, item.uid)
      /\ \A h \in Numbers : Sorted(h)
  BY DEF OrderInv
<1>3. \A n \in Names : handlers[n] # None =>
         /\ Looked(n, handler[handlers[n]].target)
         /\ \A i \in 1 .. Len(handler[handlers[n]].chan) :
              Looked(n, handler[handlers[n]].chan[i])
  BY DEF OrderInv
<1>4. CASE \/ Create \/ Remove \/ Lookup \/ \E n \in Names : See(n) \/ Retry(n)
  <2>1. handlers' = handlers /\ handler' = handler
    BY <1>4 DEF Create, Remove, Lookup, See, Retry
  <2>2. \A n \in Names, u \in Nat : Looked(n, u) => Looked(n, u)'
    BY <1>4, PlacesKeep
  <2>3. \A n \in Names : handlers'[n] # None =>
           /\ Looked(n, handler[handlers[n]].target)'
           /\ \A i \in 1 .. Len(handler'[handlers'[n]].chan) :
                Looked(n, handler[handlers[n]].chan[i])'
    <3>1. ASSUME NEW n \in Names, handlers[n] # None
          PROVE  /\ Looked(n, handler[handlers[n]].target)'
                 /\ \A i \in 1 .. Len(handler[handlers[n]].chan) :
                      Looked(n, handler[handlers[n]].chan[i])'
      <4> DEFINE h == handlers[n]
      <4>1. /\ handler[h].target \in Nat
            /\ \A i \in 1 .. Len(handler[h].chan) : handler[h].chan[i] \in Nat
        BY <3>1, MapFacts
      <4>2. Looked(n, handler[h].target) /\ handler'[handlers'[n]].target = handler[h].target
        BY <1>3, <2>1, <3>1
      <4>3. Looked(n, handler[handlers[n]].target)'
        BY <2>1, <2>2, <4>1, <4>2 DEF Looked, Viewed, OnServer
      <4>4. ASSUME NEW i \in 1 .. Len(handler[h].chan)
            PROVE  Looked(n, handler[handlers[n]].chan[i])'
        BY <1>3, <2>1, <2>2, <3>1, <4>1 DEF Looked, Viewed, OnServer
      <4>5. QED
        BY <4>3, <4>4
    <3>2. QED
      BY <2>1, <3>1
  <2>4. \A h \in Numbers' : Sorted(h)'
    BY <1>2, <2>1 DEF Numbers, Sorted
  <2>5. QED
    BY <1>4, <2>3, <2>4, PlacesKeep DEF OrderInv
<1>5. ASSUME UNCHANGED <<api, view, creates>>, item' \in {item, NoItem}
      PROVE  /\ \A n \in Names : api'[n] <= creates' /\ OnServer(n, view[n])'
             /\ item' # NoItem => Viewed(item.name, item.uid)'
             /\ \A n \in Names, u \in Nat : Looked(n, u) => Looked(n, u)'
  BY <1>2, <1>5 DEF OnServer, Viewed, Looked, NoItem, None
<1>6. CASE UNCHANGED vars
  BY <1>6 DEF vars, queueVars, OrderInv, OnServer, Viewed, Looked, Sorted, Numbers
<1>7. CASE Trigger
  <2> PICK m \in Names, w \in Nat \ {None} : item.name = m /\ item.uid = w
    BY <1>7, TriggerStep
  <2>1. item' = NoItem /\ UNCHANGED <<api, view, creates>>
    BY <1>7, TriggerStep
  <2>2. Viewed(m, w) /\ Looked(m, w)
    BY <1>2, <2>1 DEF Looked, NoItem, None
  <2>3. \A n \in Names, u \in Nat : Looked(n, u) => Looked(n, u)'
    BY <1>5, <2>1
  <2>4. CASE /\ handlers[m] = None
             /\ handler' = Append(handler, NewHandler(m, w))
             /\ handlers' = [handlers EXCEPT ![m] = Len(handler) + 1]
    <3> PICK k \in Nat : k = Len(handler) + 1
      BY MapFacts
    <3> DEFINE new == NewHandler(m, w)
    <3>1. /\ handler'[k] = new /\ Len(handler') = k
          /\ \A h \in Numbers : handler'[h] = handler[h] /\ h # k
      BY <2>4, MapFacts DEF Numbers
    <3>2. /\ new.chan = <<w>> /\ new.target = None /\ Len(new.chan) = 1
          /\ new.chan[1] = w
      BY DEF NewHandler
    <3>3. \A n \in Names : handlers'[n] = IF n = m THEN k ELSE handlers[n]
      BY <2>1, <2>4, MapFacts
    <3>4. /\ Looked(m, new.target)'
          /\ \A i \in 1 .. Len(new.chan) : Looked(m, new.chan[i])'
      <4>1. \A i \in 1 .. Len(new.chan) : new.chan[i] = w
        BY <3>2
      <4>2. \A u \in {None, w} : Looked(m, u)
        BY <1>1, <2>1, <2>2 DEF Looked, Viewed, OnServer, None
      <4>3. item' = NoItem /\ creates' = creates /\ api' = api /\ view' = view
        BY <2>1
      <4>4. \A u \in {None, w} :
              /\ u <= creates' /\ (api'[m] # None => u <= api'[m])
              /\ (view'[m] # None => u <= view'[m])
        BY <4>2, <4>3 DEF Looked, Viewed, OnServer
      <4>5. QED
        BY <2>1, <3>2, <4>1, <4>4 DEF Looked, Viewed, OnServer, NoItem
    <3>5. ASSUME NEW n \in Names, handlers'[n] # None
          PROVE  /\ Looked(n, handler[handlers[n]].target)'
                 /\ \A i \in 1 .. Len(handler'[handlers'[n]].chan) :
                      Looked(n, handler[handlers[n]].chan[i])'
      <4>1. CASE n = m
        BY <3>1, <3>2, <3>3, <3>4, <4>1 DEF Looked, Viewed, OnServer
      <4>2. CASE n # m
        <5>1. handlers'[n] = handlers[n] /\ handler'[handlers'[n]] = handler[handlers[n]]
          BY <3>1, <3>3, <3>5, <4>2, MapFacts
        <5>2. QED
          BY <1>3, <2>3, <3>5, <5>1, MapFacts DEF Looked, Viewed, OnServer
      <4>3. QED
        BY <4>1, <4>2
    <3>6. \A h \in Numbers' : Sorted(h)'
      <4>1. \A h \in Numbers' : h \in Numbers \/ h = k
        BY <3>1, MapFacts DEF Numbers
      <4>2. Sorted(k)'
        BY <2>1, <3>1, <3>2 DEF Sorted, None
      <4>3. \A h \in Numbers : Sorted(h)'
        BY <1>2, <3>1 DEF Sorted
      <4>4. QED
        BY <4>1, <4>2, <4>3
    <3>7. QED
      BY <1>5, <2>1, <3>5, <3>6 DEF OrderInv
  <2>5. CASE /\ handlers[m] \in Numbers
             /\ [handler[handlers[m]] EXCEPT !.chan = Append(@, w)]
                   \in Handler
             /\ handler' = [handler EXCEPT ![handlers[m]] =
                    [handler[handlers[m]] EXCEPT !.chan = Append(@, w)]]
             /\ UNCHANGED handlers
    <3> PICK k \in Numbers : k = handlers[m]
      BY <2>5
    <3> DEFINE c == handler[k].chan
               r == [handler[k] EXCEPT !.chan = Append(@, w)]
    <3>1. /\ k \in Numbers /\ r \in Handler /\ handler[k] \in Handler /\ c \in Seq(Nat)
          /\ handler[k].target \in Nat /\ k # None
      BY <2>5, MapFacts DEF Numbers, None
    <3>2. /\ handler'[k] = r /\ Numbers' = Numbers
          /\ \A h \in Numbers : h # k => handler'[h] = handler[h]
      <4>1. handler' = [handler EXCEPT ![k] = r]
        BY <2>5
      <4>2. handler \in Seq(Handler)
        BY MapFacts
      <4> HIDE DEF r
      <4>3. QED
        BY <3>1, <4>1, <4>2 DEF Numbers
    <3>3. r.chan = Append(c, w) /\ r.target = handler[k].target
      BY <3>1 DEF Handler
    <3>4. /\ Len(r.chan) = Len(c) + 1 /\ Len(c) \in Nat /\ r.chan[Len(c) + 1] = w
          /\ \A i \in 1 .. Len(c) : r.chan[i] = c[i] /\ c[i] \in Nat
      BY <3>1, <3>3, AppendFacts
    <3>5. /\ Looked(m, handler[k].target)
          /\ \A i \in 1 .. Len(c) : Looked(m, c[i])
      BY <1>3, <2>1, <3>1
    <3>6. /\ handler[k].target <= w
          /\ \A i \in 1 .. Len(c) : c[i] <= w
      BY <2>1, <3>5 DEF Looked
    <3>7. \A i \in 1 .. Len(r.chan) : i \in 1 .. Len(c) \/ i = Len(c) + 1
      BY <3>4
    <3>8. /\ Looked(m, r.target)
          /\ \A i \in 1 .. Len(r.chan) : Looked(m, r.chan[i]) /\ r.chan[i] \in Nat
      BY <2>1, <2>2, <3>3, <3>4, <3>5, <3>7
    <3>9. ASSUME NEW n \in Names, handlers'[n] # None
          PROVE  /\ Looked(n, handler[handlers[n]].target)'
                 /\ \A i \in 1 .. Len(handler'[handlers'[n]].chan) :
                      Looked(n, handler[handlers[n]].chan[i])'
      <4>1. CASE n = m
        BY <2>3, <2>5, <3>1, <3>2, <3>3, <3>8, <4>1 DEF Looked, Viewed, OnServer
      <4>2. CASE n # m
        <5>1. handlers'[n] = handlers[n] /\ handler'[handlers'[n]] = handler[handlers[n]]
          BY <2>1, <2>5, <3>1, <3>2, <3>9, <4>2, MapFacts
        <5>2. QED
          BY <1>3, <2>3, <3>9, <5>1, MapFacts DEF Looked, Viewed, OnServer
      <4>3. QED
        BY <4>1, <4>2
    <3>10. \A h \in Numbers' : Sorted(h)'
      <4>1. Sorted(k)
        BY <1>2, <3>1
      <4>2. \A i \in 1 .. Len(r.chan) : r.target <= r.chan[i]
        BY <3>3, <3>4, <3>6, <3>7, <4>1 DEF Sorted
      <4>3. \A i, j \in 1 .. Len(r.chan) : i <= j => r.chan[i] <= r.chan[j]
        <5>1. ASSUME NEW i \in 1 .. Len(r.chan), NEW j \in 1 .. Len(r.chan), i <= j
              PROVE  r.chan[i] <= r.chan[j]
          <6>1. CASE j \in 1 .. Len(c)
            <7>1. i \in 1 .. Len(c)
              BY <3>4, <5>1, <6>1
            <7>2. QED
              BY <3>4, <4>1, <5>1, <6>1, <7>1 DEF Sorted
          <6>2. CASE j = Len(c) + 1 /\ i \in 1 .. Len(c)
            BY <3>4, <3>6, <6>2
          <6>3. CASE j = Len(c) + 1 /\ i = Len(c) + 1
            BY <2>1, <3>4, <6>3
          <6>4. QED
            BY <3>7, <6>1, <6>2, <6>3
        <5>2. QED
          BY <5>1
      <4>4. Sorted(k)'
        BY <3>2, <4>2, <4>3 DEF Sorted
      <4>5. \A h \in Numbers : h # k => Sorted(h)'
        BY <1>2, <3>2 DEF Sorted
      <4>6. QED
        BY <3>2, <4>4, <4>5
    <3>11. QED
      BY <1>5, <2>1, <3>9, <3>10 DEF OrderInv
  <2>6. QED
    BY <1>7, <2>4, <2>5, TriggerStep
<1>8. CASE Delete
  <2>1. item.name \in Names /\ item' = NoItem /\ UNCHANGED <<api, view, creates>>
    BY <1>8, DeleteStep
  <2>2. \A n \in Names, u \in Nat : Looked(n, u) => Looked(n, u)'
    BY <1>5, <2>1
  <2>3. /\ Numbers' = Numbers
        /\ \A h \in Numbers : /\ handler'[h].chan = handler[h].chan
                              /\ handler'[h].target = handler[h].target
        /\ \A n \in Names : handlers'[n] \in {handlers[n], None}
    <3>1. CASE UNCHANGED <<handler, handlers>>
      BY <3>1 DEF Numbers
    <3>2. CASE /\ handlers[item.name] \in Numbers
               /\ [handler[handlers[item.name]] EXCEPT !.canceled = TRUE] \in Handler
               /\ handler' = [handler EXCEPT ![handlers[item.name]] =
                                [handler[handlers[item.name]] EXCEPT !.canceled = TRUE]]
               /\ handlers' = [handlers EXCEPT ![item.name] = None]
      <4> DEFINE k == handlers[item.name]
                 r == [handler[k] EXCEPT !.canceled = TRUE]
      <4>1. k \in Numbers /\ r \in Handler /\ handler[k] \in Handler
        BY <3>2, MapFacts
      <4>2. /\ handler'[k] = r /\ Numbers' = Numbers
            /\ \A h \in Numbers : h # k => handler'[h] = handler[h]
        BY <3>2, <4>1, MapFacts, Replaced
      <4>3. r.chan = handler[k].chan /\ r.target = handler[k].target
        BY <4>1 DEF Handler
      <4>4. QED
        BY <2>1, <3>2, <4>2, <4>3, MapFacts
    <3>3. QED
      BY <1>8, <3>1, <3>2, DeleteStep
  <2>4. ASSUME NEW n \in Names, handlers'[n] # None
        PROVE  /\ Looked(n, handler[handlers[n]].target)'
               /\ \A i \in 1 .. Len(handler'[handlers'[n]].chan) :
                    Looked(n, handler[handlers[n]].chan[i])'
    <3>1. /\ handlers'[n] = handlers[n] /\ handlers[n] # None /\ handlers[n] \in Numbers
          /\ handler'[handlers'[n]].chan = handler[handlers[n]].chan
          /\ handler'[handlers'[n]].target = handler[handlers[n]].target
      BY <2>3, <2>4, MapFacts
    <3>2. QED
      BY <1>3, <2>2, <3>1, MapFacts DEF Looked, Viewed, OnServer
  <2>5. \A h \in Numbers' : Sorted(h)'
    BY <1>2, <2>3 DEF Sorted
  <2>6. QED
    BY <1>5, <2>1, <2>4, <2>5 DEF OrderInv
<1>9. ASSUME NEW k \in Numbers, Handle(k) \/ Stop(k) PROVE OrderInv'
  <2>1. PICK r : Own(k, r) /\ handler' = [handler EXCEPT ![k] = r]
    BY <1>9, OwnStep
  <2>2. UNCHANGED <<api, view, creates, item, handlers>>
    BY <1>9, OwnStep DEF queueVars
  <2>3. \A n \in Names, u \in Nat : Looked(n, u) => Looked(n, u)'
    BY <1>5, <2>2
  <2>4. /\ handler'[k] = r /\ Numbers' = Numbers
        /\ \A h \in Numbers : h # k => handler'[h] = handler[h]
    BY <2>1, MapFacts, Replaced DEF Own
  <2>5. /\ \A i \in 1 .. Len(r.chan) : r.target <= r.chan[i]
        /\ \A i, j \in 1 .. Len(r.chan) : i <= j => r.chan[i] <= r.chan[j]
        /\ \A i \in 1 .. Len(r.chan) : \E j \in 1 .. Len(handler[k].chan) :
             r.chan[i] = handler[k].chan[j]
        /\ \/ r.target = handler[k].target
           \/ \E j \in 1 .. Len(handler[k].chan) : r.target = handler[k].chan[j]
    BY <1>2, <2>1, MapFacts, OwnSorted
  <2>6. ASSUME NEW n \in Names, handlers'[n] # None
        PROVE  /\ Looked(n, handler[handlers[n]].target)'
               /\ \A i \in 1 .. Len(handler'[handlers'[n]].chan) :
                    Looked(n, handler[handlers[n]].chan[i])'
    <3>1. handlers'[n] = handlers[n] /\ handlers[n] # None /\ handlers[n] \in Numbers
      BY <2>2, <2>6, MapFacts
    <3>2. CASE handlers[n] = k
      <4>1. /\ Looked(n, r.target) /\ r.target \in Nat
            /\ \A i \in 1 .. Len(r.chan) : Looked(n, r.chan[i]) /\ r.chan[i] \in Nat
        BY <1>3, <2>5, <3>1, <3>2, MapFacts
      <4>2. QED
        BY <2>3, <2>4, <3>1, <3>2, <4>1 DEF Looked, Viewed, OnServer
    <3>3. CASE handlers[n] # k
      <4>1. handler'[handlers'[n]] = handler[handlers[n]]
        BY <2>4, <3>1, <3>3
      <4>2. QED
        BY <1>3, <2>3, <3>1, <4>1, MapFacts DEF Looked, Viewed, OnServer
    <3>4. QED
      BY <3>2, <3>3
  <2>7. \A h \in Numbers' : Sorted(h)'
    <3>1. Sorted(k)'
      BY <2>4, <2>5 DEF Sorted
    <3>2. \A h \in Numbers : h # k => Sorted(h)'
      BY <1>2, <2>4 DEF Sorted
    <3>3. QED
      BY <2>4, <3>1, <3>2
  <2>8. QED
    BY <1>5, <2>2, <2>6, <2>7 DEF OrderInv
<1>10. QED
  BY <1>4, <1>6, <1>7, <1>8, <1>9 DEF Next

LEMMA OrderInit == Init => OrderInv
<1> SUFFICES ASSUME Init PROVE OrderInv
  OBVIOUS
<1>1. /\ handler = <<>> /\ Numbers = {} /\ item = NoItem /\ creates = 0
      /\ \A n \in Names : api[n] = 0 /\ view[n] = 0 /\ handlers[n] = None
  BY DEF Init, Numbers, None
<1>2. QED
  BY <1>1 DEF OrderInv, OnServer, None

(* A handler goes over to younger releases only: neither a late copy in    *)
(* the informer, a key handled twice nor the channel ever takes it back to *)
(* one that was deleted.                                                   *)
THEOREM NeverBackHolds == Spec => NeverBack
<1>1. ASSUME MapInv, OrderInv, [Next]_vars
      PROVE  [\A h \in Numbers : handler'[h].target >= handler[h].target]_vars
  <2>1. \A h \in Numbers : handler[h].target \in Nat
    BY <1>1, MapFacts
  <2>2. CASE handler' = handler \/ UNCHANGED vars
    BY <2>1, <2>2 DEF vars
  <2>3. CASE Trigger
    <3>1. \A h \in Numbers : handler'[h].target = handler[h].target
      <4>1. CASE handler' = Append(handler, NewHandler(item.name, item.uid))
        BY <1>1, <4>1, MapFacts DEF Numbers
      <4>2. ASSUME NEW k \in Numbers,
                   handler' = [handler EXCEPT ![k] = [handler[k] EXCEPT !.chan = Append(@, item.uid)]]
            PROVE  \A h \in Numbers : handler'[h].target = handler[h].target
        <5>1. handler \in Seq(Handler) /\ handler[k] \in Handler
          BY <1>1, MapFacts
        <5>2. /\ handler'[k].target = handler[k].target
              /\ \A h \in Numbers : h # k => handler'[h] = handler[h]
          BY <4>2, <5>1 DEF Numbers, Handler
        <5>3. QED
          BY <5>2
      <4>3. QED
        BY <1>1, <2>3, <4>1, <4>2, TriggerStep
    <3>2. QED
      BY <2>1, <3>1
  <2>4. CASE Delete
    <3>1. \A h \in Numbers : handler'[h].target = handler[h].target
      <4>1. CASE handler' = handler
        BY <4>1
      <4>2. ASSUME NEW k \in Numbers,
                   handler' = [handler EXCEPT ![k] = [handler[k] EXCEPT !.canceled = TRUE]]
            PROVE  \A h \in Numbers : handler'[h].target = handler[h].target
        <5>1. handler \in Seq(Handler) /\ handler[k] \in Handler
          BY <1>1, MapFacts
        <5>2. /\ handler'[k].target = handler[k].target
              /\ \A h \in Numbers : h # k => handler'[h] = handler[h]
          BY <4>2, <5>1 DEF Numbers, Handler
        <5>3. QED
          BY <5>2
      <4>3. QED
        BY <1>1, <2>4, <4>1, <4>2, DeleteStep
    <3>2. QED
      BY <2>1, <3>1
  <2>5. ASSUME NEW k \in Numbers, Handle(k) \/ Stop(k)
        PROVE  \A h \in Numbers : handler'[h].target >= handler[h].target
    <3>1. PICK r : Own(k, r) /\ handler' = [handler EXCEPT ![k] = r]
      BY <1>1, <2>5, OwnStep
    <3>2. handler[k].target <= r.target /\ r \in Handler /\ r.target \in Nat
      BY <1>1, <3>1, MapFacts, OwnSorted DEF OrderInv, Own, Handler
    <3>3. handler'[k] = r /\ \A h \in Numbers : h # k => handler'[h] = handler[h]
      BY <1>1, <3>1, <3>2, MapFacts, Replaced
    <3>4. QED
      BY <2>1, <3>2, <3>3
  <2>6. QED
    BY <1>1, <2>2, <2>3, <2>4, <2>5
      DEF Next, Create, Remove, See, Retry, Lookup
<1>2. QED
  BY MapInit, MapStep, OrderInit, OrderStep, <1>1, PTL DEF Spec, NeverBack

-------------------------------------------------------------------------------
(* One release about a name.  A step other than Create makes nothing known *)
(* under a name that was not known there.                                  *)
LEMMA NothingNew ==
    ASSUME MapInv, Next, ~ Create, NEW n \in Names, NEW u \in Nat, About(n, u)'
    PROVE  About(n, u)
<1>1. /\ api \in [Names -> Nat] /\ view \in [Names -> Nat] /\ handlers \in [Names -> Nat]
      /\ item \in [name : Names, uid : Nat] \cup {NoItem}
  BY MapFacts DEF MapInv, TypeOK
<1>2. /\ u # None
      /\ \/ u \in {api'[n], view'[n]}
         \/ item'.name = n /\ item'.uid = u
         \/ handlers'[n] # None /\ Holds(handlers[n], u)'
  BY DEF About
<1>3. ASSUME UNCHANGED <<handlers, handler>>, Holds(handlers[n], u)'
      PROVE  Holds(handlers[n], u)
  BY <1>3 DEF Holds
<1>4. CASE Remove
  <2>1. /\ api'[n] \in {api[n], None}
        /\ UNCHANGED <<view, item, handlers, handler>>
    BY <1>1, <1>4 DEF Remove, queueVars
  <2>2. QED
    BY <1>2, <1>3, <2>1 DEF About
<1>5. ASSUME NEW m \in Names, See(m) PROVE About(n, u)
  <2>1. /\ view'[n] \in {view[n], api[n]}
        /\ UNCHANGED <<api, item, handlers, handler>>
    BY <1>1, <1>5 DEF See
  <2>2. QED
    BY <1>2, <1>3, <2>1 DEF About
<1>6. ASSUME NEW m \in Names, Retry(m) PROVE About(n, u)
  BY <1>2, <1>3, <1>6 DEF About, Retry
<1>7. CASE Lookup
  <2>1. item'.name = n => item'.uid = view[n]
    BY <1>7 DEF Lookup
  <2>2. UNCHANGED <<api, view, handlers, handler>>
    BY <1>7 DEF Lookup
  <2>3. QED
    BY <1>2, <1>3, <2>1, <2>2 DEF About
<1>8. CASE Trigger
  <2> PICK m \in Names, w \in Nat \ {None} : item.name = m /\ item.uid = w
    BY <1>8, TriggerStep
  <2>1. item'.uid = None /\ UNCHANGED <<api, view>>
    BY <1>8, TriggerStep DEF NoItem
  <2>2. ASSUME handlers'[n] # None, Holds(handlers[n], u)'
        PROVE  (n = m /\ u = w) \/ (handlers[n] # None /\ Holds(handlers[n], u))
    <3>1. CASE /\ handlers[m] = None
               /\ handler' = Append(handler, NewHandler(m, w))
               /\ handlers' = [handlers EXCEPT ![m] = Len(handler) + 1]
      <4>1. CASE n = m
        <5>1. handler'[handlers'[n]] = NewHandler(m, w)
          BY <1>1, <3>1, <4>1, MapFacts
        <5>2. /\ NewHandler(m, w).base = w /\ NewHandler(m, w).target = None
              /\ NewHandler(m, w).job = None /\ NewHandler(m, w).chan = <<w>>
          BY DEF NewHandler
        <5>3. QED
          BY <1>2, <2>2, <4>1, <5>1, <5>2 DEF Holds
      <4>2. CASE n # m
        <5>1. handlers'[n] = handlers[n]
          BY <1>1, <3>1, <4>2
        <5>2. handlers[n] \in Numbers
          BY <2>2, <5>1, MapFacts
        <5>3. handler'[handlers'[n]] = handler[handlers[n]]
          BY <3>1, <5>1, <5>2, MapFacts DEF Numbers
        <5>4. QED
          BY <2>2, <5>1, <5>3 DEF Holds
      <4>3. QED
        BY <4>1, <4>2
    <3>2. ASSUME handlers' = handlers, NEW k \in Numbers, k = handlers[m],
                 handler' = [handler EXCEPT ![k] =
                               [handler[k] EXCEPT !.chan = Append(@, w)]]
          PROVE  (n = m /\ u = w) \/ (handlers[n] # None /\ Holds(handlers[n], u))
      <4>1. /\ handler \in Seq(Handler) /\ handler[k] \in Handler
            /\ handler[k].chan \in Seq(Nat)
        BY <3>2, MapFacts
      <4>2. handlers[n] \in Numbers /\ handlers[n] # None
        BY <2>2, <3>2, MapFacts
      <4>3. CASE n = m
        <5>1. /\ handler'[k].base = handler[k].base
              /\ handler'[k].target = handler[k].target
              /\ handler'[k].job = handler[k].job
              /\ handler'[k].chan = Append(handler[k].chan, w)
          <6>1. handler'[k] = [handler[k] EXCEPT !.chan = Append(@, w)]
            <7>1. k \in DOMAIN handler
              BY <4>1 DEF Numbers
            <7>2. QED
              BY <3>2, <7>1
          <6>2. QED
            BY <4>1, <6>1 DEF Handler
        <5>2. /\ Len(handler'[k].chan) = Len(handler[k].chan) + 1
              /\ Len(handler[k].chan) \in Nat
              /\ handler'[k].chan[Len(handler[k].chan) + 1] = w
              /\ \A i \in 1 .. Len(handler[k].chan) :
                   handler'[k].chan[i] = handler[k].chan[i]
          BY <4>1, <5>1, AppendFacts
        <5>3. ASSUME NEW i \in 1 .. Len(handler'[k].chan)
              PROVE  i \in 1 .. Len(handler[k].chan) \/ i = Len(handler[k].chan) + 1
          BY <5>2
        <5>4. QED
          BY <2>2, <3>2, <4>2, <4>3, <5>1, <5>2, <5>3 DEF Holds
      <4>4. CASE n # m
        <5>1. handlers[n] # k
          BY <2>2, <3>2, <4>4, MapFacts
        <5>2. handler'[handlers[n]] = handler[handlers[n]]
          BY <3>2, <4>1, <4>2, <5>1 DEF Numbers
        <5>3. QED
          BY <2>2, <3>2, <4>2, <5>2 DEF Holds
      <4>5. QED
        BY <4>3, <4>4
    <3>3. QED
      BY <1>8, <3>1, <3>2, TriggerStep
  <2>3. QED
    BY <1>2, <2>1, <2>2 DEF About
<1>9. CASE Delete
  <2>1. item'.uid = None /\ UNCHANGED <<api, view>>
    BY <1>9, DeleteStep DEF NoItem
  <2>2. ASSUME handlers'[n] # None, Holds(handlers[n], u)'
        PROVE  handlers[n] # None /\ Holds(handlers[n], u)
    <3>1. CASE UNCHANGED <<handler, handlers>>
      BY <2>2, <3>1 DEF Holds
    <3>2. ASSUME NEW m \in Names, NEW k \in Numbers, k = handlers[m],
                 handlers' = [handlers EXCEPT ![m] = None],
                 handler' = [handler EXCEPT ![k] = [handler[k] EXCEPT !.canceled = TRUE]]
          PROVE  handlers[n] # None /\ Holds(handlers[n], u)
      <4>1. n # m /\ handlers'[n] = handlers[n] /\ handlers[n] # None
        BY <1>1, <2>2, <3>2
      <4>2. handlers[n] \in Numbers /\ handlers[n] # k
        BY <3>2, <4>1, MapFacts DEF Numbers, None
      <4>3. handler'[handlers[n]] = handler[handlers[n]]
        BY <3>2, <4>2, MapFacts DEF Numbers
      <4>4. QED
        BY <2>2, <4>1, <4>3 DEF Holds
    <3>3. QED
      BY <1>9, <3>1, <3>2, DeleteStep
  <2>3. QED
    BY <1>2, <2>1, <2>2 DEF About
<1>10. ASSUME NEW k \in Numbers, Handle(k) \/ Stop(k) PROVE About(n, u)
  <2>1. PICK r : Own(k, r) /\ handler' = [handler EXCEPT ![k] = r]
    BY <1>10, OwnStep
  <2>2. UNCHANGED <<api, view, item, handlers>>
    BY <1>10, OwnStep DEF queueVars
  <2>3. /\ handler'[k] = r
        /\ \A h \in Numbers : h # k => handler'[h] = handler[h]
    BY <2>1, MapFacts, Replaced DEF Own
  <2>4. ASSUME handlers[n] # None, Holds(handlers[n], u)'
        PROVE  u = api[n] \/ Holds(handlers[n], u)
    <3>1. handlers[n] \in Numbers /\ handler[handlers[n]].name = n
      BY <2>4, MapFacts
    <3>2. CASE handlers[n] = k
      <4>1. /\ r.base \in {handler[k].base, api[n]}
            /\ r.job \in {None, handler[k].job, handler[k].target}
        BY <2>1, <3>1, <3>2 DEF Own
      <4>2. /\ handler[k].chan \in Seq(Nat)
            /\ handler[k].chan # <<>> => Head(handler[k].chan) = handler[k].chan[1]
                                         /\ 1 \in 1 .. Len(handler[k].chan)
        BY MapFacts
      <4>3. \/ r.target = handler[k].target
            \/ \E j \in 1 .. Len(handler[k].chan) : handler[k].chan[j] = r.target
        BY <2>1, <4>2 DEF Own
      <4>4. \A i \in 1 .. Len(r.chan) : \E j \in 1 .. Len(handler[k].chan) :
              r.chan[i] = handler[k].chan[j]
        <5>1. CASE r.chan = handler[k].chan
          BY <5>1
        <5>2. CASE handler[k].chan # <<>> /\ r.chan = Tail(handler[k].chan)
          <6>1. /\ Len(r.chan) = Len(handler[k].chan) - 1
                /\ Len(handler[k].chan) \in Nat
                /\ \A i \in 1 .. Len(r.chan) : r.chan[i] = handler[k].chan[i + 1]
            BY <4>2, <5>2
          <6>2. \A i \in 1 .. Len(r.chan) : i + 1 \in 1 .. Len(handler[k].chan)
            BY <6>1
          <6>3. QED
            BY <6>1, <6>2
        <5>3. QED
          BY <2>1, <5>1, <5>2 DEF Own
      <4>5. u \in {r.base, r.target, r.job} \/ \E i \in 1 .. Len(r.chan) : r.chan[i] = u
        BY <2>2, <2>3, <2>4, <3>2 DEF Holds
      <4>6. QED
        BY <1>2, <3>2, <4>1, <4>3, <4>4, <4>5 DEF Holds
    <3>3. CASE handlers[n] # k
      BY <2>2, <2>3, <2>4, <3>1, <3>3 DEF Holds
    <3>4. QED
      BY <3>2, <3>3
  <2>5. QED
    BY <1>2, <2>2, <2>4 DEF About
<1>11. QED
  BY <1>4, <1>5, <1>6, <1>7, <1>8, <1>9, <1>10 DEF Next

LEMMA OneStep ==
    ASSUME MapInv, OneInv, [Next]_vars
    PROVE  OneInv'
<1> SUFFICES ASSUME ~ coalesced', NEW n \in Names, NEW u \in Nat, NEW v \in Nat,
                    About(n, u)', About(n, v)'
             PROVE  u = v
  BY DEF OneInv
<1>1. CASE UNCHANGED vars
  BY <1>1 DEF vars, queueVars, OneInv, About, Holds
<1>2. CASE Next /\ ~ Create
  <2>1. About(n, u) /\ About(n, v)
    BY <1>2, NothingNew
  <2>2. ~ coalesced
    BY <1>2 DEF Next, Remove, See, Retry, Lookup, Trigger, Delete, Handle, Stop,
                Receive, Take, Patch, PatchFails, RetryFires
  <2>3. QED
    BY <2>1, <2>2 DEF OneInv
<1>3. CASE Create
  <2>1. PICK m \in Names :
          /\ api[m] = None /\ api' = [api EXCEPT ![m] = creates + 1]
          /\ coalesced' = (coalesced \/ view[m] # None \/ handlers[m] # None
                                      \/ m \in keys \/ item.name = m)
    BY <1>3 DEF Create
  <2>2. UNCHANGED <<view, item, handlers, handler>> /\ api \in [Names -> Nat]
    BY <1>3 DEF Create, queueVars, MapInv, TypeOK
  <2>3. /\ ~ coalesced /\ view[m] = None /\ handlers[m] = None /\ item.name # m
    BY <2>1
  <2>4. CASE n = m
    BY <2>1, <2>2, <2>3, <2>4 DEF About
  <2>5. CASE n # m
    <3>1. About(n, u) /\ About(n, v)
      BY <2>1, <2>2, <2>5 DEF About, Holds
    <3>2. QED
      BY <2>3, <3>1 DEF OneInv
  <2>6. QED
    BY <2>4, <2>5
<1>4. QED
  BY <1>1, <1>2, <1>3

(* "All releases have same unique id" (storage.go): what a handler applies *)
(* is the release its storage is a copy of, provided that no name is taken *)
(* again before informer and manager are done with its former release.     *)
THEOREM SameReleaseHolds == Spec => []SameRelease
<1>1. Init => OneInv
  BY DEF Init, OneInv, About, NoItem, None
<1>2. MapInv /\ OneInv => SameRelease
  <2> SUFFICES ASSUME MapInv, OneInv, ~ coalesced, NEW n \in Names, handlers[n] # None
               PROVE  handler[handlers[n]].job \in {None, handler[handlers[n]].base}
    BY DEF SameRelease, Current
  <2>1. /\ handlers[n] \in Numbers
        /\ handler[handlers[n]].job \in Nat /\ handler[handlers[n]].base \in Nat
    BY MapFacts
  <2>2. handler[handlers[n]].base # None
    BY <2>1 DEF MapInv
  <2>3. About(n, handler[handlers[n]].base)
    BY <2>2 DEF About, Holds
  <2>4. handler[handlers[n]].job # None => About(n, handler[handlers[n]].job)
    BY DEF About, Holds
  <2>5. QED
    BY <2>1, <2>3, <2>4 DEF OneInv
<1>3. QED
  BY MapInit, MapStep, OneStep, <1>1, <1>2, PTL DEF Spec
===============================================================================
