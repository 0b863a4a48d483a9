------------------------ MODULE GarbageCollectorProofs ------------------------
(***************************************************************************)
(* What the collector of GarbageCollector keeps, for any number of         *)
(* releases, names and goroutines: StableKept, whatever happens, and       *)
(* HistoriesKept, if any history is to be retained at all.                 *)
(***************************************************************************)
EXTENDS GarbageCollector, WellFoundedInduction, TLAPS

Tracked == {e.obj : e \in tracked}

(* The copies of objects an informer or the collector has.                 *)
Copies == objView \cup Tracked \cup UNION {worker[w].todo : w \in Workers}

-------------------------------------------------------------------------------
(* An id is given once, and what bears it stays what it is: others may     *)
(* only come and go as owners.                                             *)
Same(o, p) ==
    /\ o.history = p.history /\ o.key = p.key
    /\ o.owners \ {Other} = p.owners \ {Other}

IdInv ==
    /\ \A o \in objects \cup Copies :
         o.id < nextId /\ IF o.history THEN o.key \in 1 .. nextId ELSE o.key \in Names
    /\ \A o \in objects \cup Copies, p \in objects : o.id = p.id => Same(o, p)
    /\ \A o, p \in objView : o.id = p.id => o = p
    /\ \A o, p \in objects : o.history = p.history /\ o.key = p.key => o.id = p.id

(* Everything belongs to one release that was created once.                *)
OwnerInv ==
    /\ \A o \in objects \cup Copies :
         /\ \E u \in used : o.owners \ {Other} = {u}
         /\ shares = 0 => Other \notin o.owners
    /\ \A e \in tracked : e.obj.owners = {e.owner}
    /\ \A w \in Workers : \A o \in worker[w].todo : o.owners = {worker[w].uid}
    /\ queue \subseteq used
    /\ {rel.uid, relView.uid, plan.uid} \subseteq used \cup {NoRelease}
    /\ plan.uid = NoRelease => plan = NoPlan
    /\ \A w \in Workers : IF worker[w].pc = "idle" THEN worker[w] = Idle ELSE worker[w].uid \in used

(* Nobody knows of a release before its informer has shown it.             *)
UnseenInv ==
    rel # Nothing /\ relView.uid # rel.uid =>
        /\ rel.uid \notin queue /\ plan.uid # rel.uid
        /\ \A o \in objects \cup Copies : rel.uid \notin o.owners
        /\ \A w \in Workers : worker[w].uid # rel.uid

(* A manifest that is not empty does without dropped names only, and who   *)
(* collects for the living release knows it and has such a manifest.       *)
Covers(manifest) == Names \ manifest \subseteq dropped

ManifestInv ==
    rel # Nothing =>
        /\ rel.manifest # {} => Covers(rel.manifest)
        /\ relView.uid = rel.uid /\ relView.manifest # {} => Covers(relView.manifest)
        /\ \A w \in Workers :
             worker[w].uid = rel.uid => worker[w].alive /\ Covers(worker[w].desired)

KeepInv == TypeOK /\ IdInv /\ OwnerInv /\ UnseenInv /\ ManifestInv

-------------------------------------------------------------------------------
(* The premises of HistoriesKept.                                          *)
Alone == rollbacks = 0 /\ shares = 0 /\ used = {rel.uid}

(* The informer shows a history of version k or a later one.               *)
Shown(k) == \E q \in objView : q.history /\ q.key >= k

(* Nobody has a later version than Status.Version.                         *)
LaterInv ==
    /\ relView.version <= rel.version
    /\ \A w \in Workers : worker[w].version <= rel.version
    /\ plan.version # 0 => rel.version <= plan.version

(* The latest history is there.                                            *)
LatestInv ==
    \A v \in {rel.version, plan.version} \ {0} : \E o \in objects : o.history /\ o.key >= v

(* No version is missing between the histories the informer shows and the  *)
(* latest one.                                                             *)
GapInv ==
    /\ \A o \in Tracked \cup UNION {worker[w].todo : w \in Workers} : o.history => Shown(o.key)
    /\ \A o \in objects : o.history => \A k \in 1 .. o.key : Shown(k) \/ History(k) # {}

(* When the informer comes to show that a history is gone, it shows a      *)
(* later one.                                                              *)
GoneInv ==
    \A o \in objView :
        \/ ~ o.history \/ (\E p \in objects : p.id = o.id)
        \/ Shown(o.key + 1)
        \/ \E d \in removed, p \in objects :
             d.id = o.id /\ p.id < d.next /\ p.history /\ p.key > o.key

HistoryInv == Alone => LaterInv /\ LatestInv /\ GapInv /\ GoneInv

-------------------------------------------------------------------------------
LEMMA Shapes ==
    ASSUME TypeOK
    PROVE  /\ rel.uid \in Releases \cup {NoRelease} /\ rel.manifest \subseteq Names
           /\ rel.version \in Nat /\ (rel # Nothing => rel \in Release)
           /\ relView.uid \in Releases \cup {NoRelease} /\ relView.manifest \subseteq Names
           /\ relView.version \in Nat /\ (relView # Nothing => relView \in Release)
           /\ \A o \in objects \cup Copies : o \in Object
           /\ (rel = Nothing <=> rel.uid = NoRelease)
           /\ (relView = Nothing <=> relView.uid = NoRelease)
  <1>1. rel.uid \in Releases \cup {NoRelease} /\ rel.manifest \subseteq Names
           /\ rel.version \in Nat /\ (rel # Nothing => rel \in Release)
           /\ (rel = Nothing <=> rel.uid = NoRelease)
    BY CollectorAssumption DEF TypeOK, Release, Nothing
  <1>2. relView.uid \in Releases \cup {NoRelease} /\ relView.manifest \subseteq Names
           /\ relView.version \in Nat /\ (relView # Nothing => relView \in Release)
           /\ (relView = Nothing <=> relView.uid = NoRelease)
    BY CollectorAssumption DEF TypeOK, Release, Nothing
  <1>3. ASSUME NEW o \in objects \cup Copies PROVE o \in Object
    <2>1. CASE o \in objects \cup objView
      BY <2>1 DEF TypeOK
    <2>2. CASE o \in Tracked
      BY <2>2 DEF TypeOK, Tracked
    <2>3. CASE o \in UNION {worker[w].todo : w \in Workers}
      <3>1. PICK w \in Workers : o \in worker[w].todo
        BY <2>3
      <3>2. worker[w] \in Worker
        BY DEF TypeOK
      <3> QED BY <3>1, <3>2 DEF Worker
    <2> QED BY <1>3, <2>1, <2>2, <2>3 DEF Copies
  <1> QED BY <1>1, <1>2, <1>3

LEMMA IdleType == Idle \in Worker
  BY DEF Idle, Worker

LEMMA TypeInit == Init => TypeOK
  <1> SUFFICES ASSUME Init PROVE TypeOK
    OBVIOUS
  <1>1. worker \in [Workers -> Worker]
    BY IdleType DEF Init
  <1> QED BY <1>1 DEF Init, TypeOK, Nothing, NoPlan

(* A set of numbers with an upper bound has a greatest.                    *)
LEMMA GreatestOf ==
    ASSUME NEW T, NEW n \in Nat, T \subseteq 1 .. n, T # {}
    PROVE  \E m \in T : \A k \in T : k <= m
  <1> DEFINE Below == {n - v : v \in T}
  <1>1. Below \subseteq Nat /\ Below # {}
    <2>1. \A v \in T : n - v \in Nat
      OBVIOUS
    <2>2. QED
      BY <2>1
  <1>2. PICK x \in Below : \A y \in Below : <<y, x>> \notin OpToRel(<, Nat)
    <2> HIDE DEF Below
    <2> QED BY <1>1, NatLessThanWellFounded, WFMin, Zenon
  <1>3. \A y \in Below : ~ (y < x)
    BY <1>1, <1>2, Zenon DEF OpToRel
  <1>4. PICK m \in T : x = n - m
    BY <1>2
  <1>5. ASSUME NEW k \in T PROVE k <= m
    <2>1. n - k \in Below
      OBVIOUS
    <2>2. ~ (n - k < n - m)
      BY <1>3, <1>4, <2>1
    <2>3. k \in 1 .. n /\ m \in 1 .. n
      OBVIOUS
    <2> QED BY <2>2, <2>3
  <1>6. QED
    BY <1>5

(* The version CreateHistory takes follows the latest the informer shows.  *)
LEMMA NextVersion ==
    ASSUME TypeOK, IdInv, NEW u
    PROVE  /\ NewVersion(u) \in 1 .. nextId + 1
           /\ \A o \in HistoriesIn(objView, u) : o.key < NewVersion(u)
           /\ NewVersion(u) = 1 \/ \E o \in HistoriesIn(objView, u) : NewVersion(u) = o.key + 1
  <1> DEFINE mine == HistoriesIn(objView, u)
             T    == {o.key : o \in mine}
  <1>1. nextId \in Nat
    BY DEF TypeOK
  <1>2. T \subseteq 1 .. nextId
    BY DEF IdInv, HistoriesIn, Copies
  <1>3. CASE mine = {}
    BY <1>1, <1>3 DEF NewVersion
  <1>4. CASE mine # {}
    <2> DEFINE m == CHOOSE m \in {o.key : o \in mine} : \A o \in mine : o.key <= m
    <2>1. T # {}
      BY <1>4
    <2>2. \E k \in T : \A j \in T : j <= k
      <3> HIDE DEF T
      <3> QED BY <1>1, <1>2, <2>1, GreatestOf
    <2>3. m \in T /\ \A o \in mine : o.key <= m
      BY <2>2
    <2>4. NewVersion(u) = 1 + m
      BY <1>4 DEF NewVersion
    <2>5. \A o \in mine : o.key \in T
      OBVIOUS
    <2> HIDE DEF m, T, mine
    <2>6. m \in 1 .. nextId /\ \A o \in mine : o.key \in 1 .. nextId
      BY <1>2, <2>3, <2>5
    <2>7. \A o \in mine : o.key < 1 + m
      BY <1>1, <2>3, <2>6
    <2>8. 1 + m \in 1 .. nextId + 1
      BY <1>1, <2>6
    <2>9. \E o \in mine : 1 + m = o.key + 1
      <3>1. PICK o \in mine : m = o.key
        BY <2>3 DEF T
      <3> QED BY <2>6, <3>1
    <2> QED BY <2>4, <2>7, <2>8, <2>9 DEF mine
  <1>5. QED
    BY <1>3, <1>4

(* An object that is new, one that others have come or gone as owners of,  *)
(* and what a step makes of objects and of copies of them.                 *)
Made(o) ==
    /\ plan # NoPlan /\ o.owners = {plan.uid} /\ shares' = shares
    /\ o.id = nextId /\ nextId' = nextId + 1
    /\ IF o.history THEN o.key \in 1 .. nextId + 1 ELSE o.key \in Names
    /\ o.names \subseteq Names /\ o \in Object
    /\ \A p \in objects : o.history = p.history => o.key # p.key

Owned(o, p) == o.id = p.id /\ Same(o, p) /\ shares' = shares + 1

Change ==
    /\ Copies' \subseteq objects \cup Copies
    /\ \E n : \A o \in objects' :
         \/ o \in objects
         \/ o = n /\ Made(n)
         \/ o \in Object /\ \E p \in objects : Owned(o, p)
    /\ nextId' \in Nat /\ nextId <= nextId'
    /\ used \subseteq used' /\ shares <= shares'

LEMMA SameCopies ==
    ASSUME UNCHANGED <<objView, tracked, worker>>
    PROVE  Copies' = Copies
  BY DEF Copies, Tracked

LEMMA ChangeStep ==
    ASSUME TypeOK, IdInv, OwnerInv, [Next]_vars
    PROVE  Change
  <1> DEFINE Counts == nextId' = nextId /\ used' = used /\ shares' = shares
  <1>0. nextId \in Nat /\ used \subseteq Releases /\ shares \in Nat
    BY DEF TypeOK
  <1>1. ASSUME Counts, objects' = objects, UNCHANGED <<objView, tracked, worker>>
        PROVE  Change
    BY <1>0, <1>1, SameCopies DEF Change
  <1>2. ASSUME Counts, objects' \subseteq objects, Copies' \subseteq objects \cup Copies
        PROVE  Change
    BY <1>0, <1>2 DEF Change
  <1>create. CASE CreateRelease
    <2>1. Copies' = Copies /\ objects' = objects /\ nextId' = nextId /\ shares' = shares
      BY <1>create, SameCopies DEF CreateRelease, viewVars
    <2>2. used \subseteq used'
      BY <1>create DEF CreateRelease
    <2> QED BY <1>0, <2>1, <2>2 DEF Change
  <1>delete. CASE DeleteRelease
    BY <1>1, <1>delete DEF DeleteRelease, handlerVars, viewVars
  <1>share. CASE Share
    <2>1. Copies' = Copies /\ nextId' = nextId /\ used' = used /\ shares' = shares + 1
      BY <1>share, SameCopies DEF Share, viewVars, handlerVars
    <2>2. PICK o \in objects :
            objects' = (objects \ {o}) \cup
              {[o EXCEPT !.owners = IF Other \in o.owners THEN o.owners \ {Other}
                                                         ELSE o.owners \cup {Other}]}
      BY <1>share DEF Share
    <2> DEFINE new == [o EXCEPT !.owners = IF Other \in o.owners THEN o.owners \ {Other}
                                                                ELSE o.owners \cup {Other}]
    <2>3. o \in Object
      BY DEF TypeOK
    <2>4. new \in Object /\ new.id = o.id /\ Same(new, o)
      BY <2>3 DEF Object, Same
    <2>5. objects' = (objects \ {o}) \cup {new}
      BY <2>2
    <2> HIDE DEF new
    <2> QED BY <1>0, <2>1, <2>4, <2>5 DEF Change, Owned
  <1>start. CASE StartApply
    BY <1>1, <1>start DEF StartApply, viewVars
  <1>apply. CASE ApplyOne
    <2>1. Copies' = Copies /\ used' = used /\ shares' = shares
      BY <1>apply, SameCopies DEF ApplyOne, viewVars
    <2>2. PICK n \in plan.names :
            \/ /\ Resource(n) = {}
               /\ objects' = objects \cup {[id |-> nextId, history |-> FALSE, key |-> n,
                                            names |-> {}, owners |-> {plan.uid}]}
               /\ nextId' = nextId + 1
            \/ UNCHANGED <<objects, nextId>>
      BY <1>apply DEF ApplyOne
    <2>3. CASE UNCHANGED <<objects, nextId>>
      BY <1>0, <2>1, <2>3 DEF Change
    <2>4. CASE /\ Resource(n) = {}
               /\ objects' = objects \cup {[id |-> nextId, history |-> FALSE, key |-> n,
                                            names |-> {}, owners |-> {plan.uid}]}
               /\ nextId' = nextId + 1
      <3> DEFINE new == [id |-> nextId, history |-> FALSE, key |-> n,
                         names |-> {}, owners |-> {plan.uid}]
      <3>1. plan # NoPlan /\ n \in Names
        BY DEF TypeOK, NoPlan
      <3>2. \A p \in objects : p.history = FALSE => p.key # n
        BY <2>4 DEF Resource
      <3>3. plan.uid \in Releases
        BY <3>1 DEF TypeOK, OwnerInv
      <3>4. Made(new)
        BY <1>0, <2>1, <2>4, <3>1, <3>2, <3>3 DEF Made, Object
      <3>5. objects' = objects \cup {new} /\ nextId' = nextId + 1
        BY <2>4
      <3> HIDE DEF new
      <3> QED BY <1>0, <2>1, <3>4, <3>5 DEF Change
    <2> QED BY <2>2, <2>3, <2>4
  <1>history. CASE CreateHistory
    <2> DEFINE v   == NewVersion(plan.uid)
               new == [id |-> nextId, history |-> TRUE, key |-> v,
                       names |-> plan.names, owners |-> {plan.uid}]
    <2>1. /\ Copies' = Copies /\ used' = used /\ shares' = shares
          /\ plan # NoPlan /\ History(v) = {}
          /\ objects' = objects \cup {new} /\ nextId' = nextId + 1
      BY <1>history, SameCopies DEF CreateHistory, viewVars
    <2>2. plan.uid \in Releases /\ plan.names \subseteq Names
      BY <2>1 DEF TypeOK, OwnerInv
    <2>3. v \in 1 .. nextId + 1
      BY NextVersion
    <2>4. \A p \in objects : p.history = TRUE => p.key # v
      BY <2>1 DEF History
    <2> HIDE DEF v
    <2>5. new \in Object
      BY <1>0, <2>2, <2>3 DEF Object
    <2>6. Made(new)
      BY <1>0, <2>1, <2>2, <2>3, <2>4, <2>5 DEF Made
    <2> HIDE DEF new
    <2> QED BY <1>0, <2>1, <2>6 DEF Change
  <1>patch. CASE PatchStatus
    BY <1>1, <1>patch DEF PatchStatus, viewVars
  <1>rollback. CASE Rollback
    BY <1>1, <1>rollback DEF Rollback, viewVars
  <1>giveup. CASE GiveUp
    BY <1>1, <1>giveup DEF GiveUp, viewVars
  <1>release. CASE SeeRelease
    BY <1>1, <1>release DEF SeeRelease, handlerVars
  <1>object. CASE SeeObject
    <2>1. PICK o \in objects :
            /\ objView' = {p \in objView : p.id # o.id} \cup {o}
            /\ tracked' = (tracked \ Entries(o)) \cup {[owner |-> u, obj |-> o] : u \in SoleOwner(o)}
      BY <1>object DEF SeeObject
    <2>2. Tracked' \subseteq Tracked \cup {o}
      BY <2>1 DEF Tracked
    <2>3. worker' = worker
      BY <1>object DEF SeeObject
    <2>4. Copies' \subseteq Copies \cup {o}
      BY <2>1, <2>2, <2>3 DEF Copies
    <2> QED BY <1>2, <1>object, <2>4 DEF SeeObject, handlerVars
  <1>deletion. CASE SeeDeletion
    <2>1. objView' \subseteq objView /\ tracked' \subseteq tracked /\ worker' = worker
      BY <1>deletion DEF SeeDeletion
    <2>2. Tracked' \subseteq Tracked
      BY <2>1 DEF Tracked
    <2>3. Copies' \subseteq Copies
      BY <2>1, <2>2 DEF Copies
    <2> QED BY <1>2, <1>deletion, <2>3 DEF SeeDeletion, handlerVars
  <1>age. CASE Age
    BY <1>1, <1>age DEF Age, handlerVars
  <1>resync. CASE \E u \in Releases : Resync(u)
    BY <1>1, <1>resync DEF Resync, handlerVars, viewVars
  <1>worker. ASSUME NEW w \in Workers, Collect(w) \/ \E u \in Releases : Begin(w, u)
             PROVE  Change
    <2>0. worker \in [Workers -> Worker]
      BY DEF TypeOK
    <2>1. objView' = objView /\ tracked' \subseteq tracked /\ objects' \subseteq objects /\ Counts
      BY <1>worker DEF Collect, Begin, Scan, Keep, Delete, DeleteFails, Finish, handlerVars, viewVars
    <2>2. \A x \in Workers : worker'[x].todo \subseteq worker[x].todo \cup Tracked
      <3>1. CASE \E u \in Releases : Begin(w, u)
        BY <2>0, <3>1 DEF Begin
      <3>2. CASE Scan(w)
        BY <2>0, <3>2 DEF Scan, Worker, Tracked
      <3>3. CASE Keep(w)
        BY <2>0, <3>3 DEF Keep, Worker
      <3>4. CASE Delete(w)
        BY <2>0, <3>4 DEF Delete, Worker
      <3>5. CASE DeleteFails(w) \/ Finish(w)
        BY <2>0, <3>5 DEF DeleteFails, Finish, Worker, Idle
      <3> QED BY <1>worker, <3>1, <3>2, <3>3, <3>4, <3>5 DEF Collect
    <2>3. Tracked' \subseteq Tracked
      BY <2>1 DEF Tracked
    <2>4. Copies' \subseteq Copies
      BY <2>1, <2>2, <2>3 DEF Copies
    <2> QED BY <1>2, <2>1, <2>4
  <1>stutter. CASE UNCHANGED vars
    BY <1>1, <1>stutter DEF vars, handlerVars, viewVars
  <1> QED BY <1>create, <1>delete, <1>share, <1>start, <1>apply, <1>history, <1>patch,
             <1>rollback, <1>giveup, <1>release, <1>object, <1>deletion, <1>age, <1>resync,
             <1>worker, <1>stutter DEF Next

-------------------------------------------------------------------------------
(* Every step keeps TypeOK ...                                             *)
LEMMA TypeStep ==
    ASSUME TypeOK, IdInv, OwnerInv, [Next]_vars
    PROVE  TypeOK'
  <1> USE DEF TypeOK
  <1>1. Change
    BY ChangeStep
  <1>2. objects' \subseteq Object
    <2>1. \A o \in objects' : o \in Object
      BY <1>1 DEF Change, Made
    <2> QED BY <2>1
  <1>3. nextId' \in Nat
    BY <1>1 DEF Change
  <1> HIDE DEF TypeOK
  <1>4. CASE CreateRelease
    BY <1>2, <1>3, <1>4 DEF TypeOK, CreateRelease, Release, Nothing, viewVars
  <1>5. CASE DeleteRelease
    BY <1>2, <1>3, <1>5 DEF TypeOK, DeleteRelease, Release, Nothing, viewVars, handlerVars
  <1>6. CASE Share
    BY <1>2, <1>3, <1>6 DEF TypeOK, Share, viewVars, handlerVars
  <1>7. CASE StartApply
    BY <1>2, <1>3, <1>7, Shapes DEF TypeOK, StartApply, viewVars
  <1>8. CASE ApplyOne
    BY <1>2, <1>3, <1>8 DEF TypeOK, ApplyOne, viewVars
  <1>9. CASE CreateHistory
    <2>1. NewVersion(plan.uid) \in Nat
      BY NextVersion DEF TypeOK
    <2> QED BY <1>2, <1>3, <1>9, <2>1 DEF TypeOK, CreateHistory, viewVars
  <1>10. CASE PatchStatus
    <2>1. NoPlan \in [uid : Releases \cup {NoRelease}, names : SUBSET Names,
                      done : SUBSET Names, version : Nat]
      BY DEF NoPlan
    <2>2. rel' \in Release \cup {Nothing} /\ dropped' \subseteq Names
      BY <1>10, Shapes DEF TypeOK, PatchStatus, Release
    <2> QED BY <1>2, <1>3, <1>10, <2>1, <2>2 DEF TypeOK, PatchStatus, viewVars
  <1>11. CASE Rollback
    <2>1. PICK h \in HistoriesIn(objView, rel.uid) :
            /\ rel' = [rel EXCEPT !.manifest = h.names, !.version = h.key]
            /\ dropped' = dropped \cup (Names \ h.names)
            /\ plan' = [uid |-> rel.uid, names |-> h.names, done |-> {}, version |-> h.key]
      BY <1>11 DEF Rollback
    <2>2. h \in Object /\ h.history /\ h \in Copies
      BY Shapes DEF HistoriesIn, Copies
    <2>3. h.names \subseteq Names /\ h.key \in Nat
      <3>1. h.key \in 1 .. nextId
        BY <2>2 DEF IdInv
      <3> QED BY <2>2, <3>1 DEF Object
    <2>4. rel # Nothing
      BY <1>11, Shapes DEF Rollback
    <2>5. rel' \in Release /\ dropped' \subseteq Names
      BY <2>1, <2>3, <2>4, Shapes DEF Release, TypeOK
    <2>6. plan' \in [uid : Releases \cup {NoRelease}, names : SUBSET Names,
                     done : SUBSET Names, version : Nat]
      BY <2>1, <2>3, Shapes
    <2>7. rollbacks' \in Nat
      BY <1>11 DEF Rollback, TypeOK
    <2> QED BY <1>2, <1>3, <1>11, <2>5, <2>6, <2>7 DEF TypeOK, Rollback, viewVars
  <1>12. CASE GiveUp
    BY <1>2, <1>3, <1>12 DEF TypeOK, GiveUp, viewVars, NoPlan
  <1>13. CASE SeeRelease
    <2>1. queue' \subseteq Releases
      <3>1. IF rel = Nothing THEN relView.uid \in Releases ELSE rel.uid \in Releases
        BY <1>13, Shapes DEF SeeRelease
      <3> QED BY <1>13, <3>1 DEF TypeOK, SeeRelease
    <2> QED BY <1>2, <1>3, <1>13, <2>1 DEF TypeOK, SeeRelease, handlerVars
  <1>14. CASE SeeObject
    <2>1. objView' \subseteq Object /\ tracked' \subseteq [owner : Releases, obj : Object]
      BY <1>14 DEF TypeOK, SeeObject, SoleOwner
    <2> QED BY <1>2, <1>3, <1>14, <2>1 DEF TypeOK, SeeObject, handlerVars
  <1>15. CASE SeeDeletion
    BY <1>2, <1>3, <1>15 DEF TypeOK, SeeDeletion, handlerVars
  <1>16. CASE Age
    BY <1>2, <1>3, <1>16 DEF TypeOK, Age, handlerVars, Object
  <1>17. CASE \E u \in Releases : Resync(u)
    BY <1>2, <1>3, <1>17 DEF TypeOK, Resync, handlerVars, viewVars
  <1>18. ASSUME NEW w \in Workers, \E u \in Releases : Begin(w, u) PROVE TypeOK'
    <2>1. PICK u \in Releases : Begin(w, u)
      BY <1>18
    <2> DEFINE alive == [pc |-> "scan", uid |-> u, alive |-> TRUE, todo |-> {},
                         desired |-> relView.manifest, version |-> relView.version]
               dead  == [pc |-> "scan", uid |-> u, alive |-> FALSE, todo |-> {},
                         desired |-> {}, version |-> 0]
    <2>2. alive \in Worker /\ dead \in Worker
      BY Shapes DEF Worker
    <2>3. \/ worker' = worker
          \/ worker' = [worker EXCEPT ![w] = alive]
          \/ worker' = [worker EXCEPT ![w] = dead]
      BY <2>1 DEF Begin
    <2> HIDE DEF alive, dead
    <2>4. worker' \in [Workers -> Worker]
      BY <2>2, <2>3 DEF TypeOK
    <2> QED BY <1>2, <1>3, <1>18, <2>4 DEF TypeOK, Begin, handlerVars, viewVars
  <1>19. ASSUME NEW w \in Workers, Collect(w) PROVE TypeOK'
    <2>1. worker' \in [Workers -> Worker]
      <3>1. worker \in [Workers -> Worker] /\ worker[w] \in Worker
        BY DEF TypeOK
      <3>2. CASE Scan(w)
        <4>1. {e.obj : e \in {e \in tracked : e.owner = worker[w].uid /\ e.obj.id \in old}}
                \subseteq Object
          BY DEF TypeOK
        <4> QED BY <3>1, <3>2, <4>1 DEF Scan, Worker
      <3>3. CASE Keep(w) \/ Delete(w)
        BY <3>1, <3>3 DEF Keep, Delete, Worker
      <3>4. CASE DeleteFails(w) \/ Finish(w)
        BY <3>1, <3>4, IdleType DEF DeleteFails, Finish
      <3> QED BY <1>19, <3>2, <3>3, <3>4 DEF Collect
    <2>2. queue' \subseteq Releases
      <3>1. worker[w].todo # {} => worker[w].uid \in Releases
        BY DEF TypeOK, OwnerInv, Idle
      <3> QED BY <1>19, <3>1 DEF TypeOK, Collect, Scan, Keep, Delete, DeleteFails, Finish
    <2>3. removed' \subseteq [id : Nat, next : Nat] /\ tracked' \subseteq tracked
      BY <1>19 DEF TypeOK, Collect, Scan, Keep, Delete, DeleteFails, Finish, viewVars, Departed,
                   SameName, Object
    <2>4. rel' = rel /\ relView' = relView /\ objView' = objView /\ old' = old
          /\ used' = used /\ dropped' = dropped /\ plan' = plan /\ applies' = applies
          /\ rollbacks' = rollbacks /\ shares' = shares /\ faults' \in Nat
      BY <1>19 DEF TypeOK, Collect, Scan, Keep, Delete, DeleteFails, Finish, viewVars, handlerVars
    <2> QED BY <1>2, <1>3, <2>1, <2>2, <2>3, <2>4 DEF TypeOK
  <1>20. CASE UNCHANGED vars
    BY <1>20 DEF TypeOK, vars, handlerVars, viewVars
  <1> QED BY <1>4, <1>5, <1>6, <1>7, <1>8, <1>9, <1>10, <1>11, <1>12, <1>13, <1>14, <1>15,
             <1>16, <1>17, <1>18, <1>19, <1>20 DEF Next

(* ... and IdInv: what is new bears an id and a name nothing else has.     *)
LEMMA IdStep ==
    ASSUME TypeOK, IdInv, OwnerInv, [Next]_vars
    PROVE  IdInv'
  <1>1. Change
    BY ChangeStep
  <1> DEFINE Known == objects \cup Copies
  <1>0. nextId \in Nat /\ nextId' \in Nat /\ nextId <= nextId'
    BY <1>1 DEF TypeOK, Change
  <1>2. PICK n : \A o \in objects' :
                    \/ o \in objects
                    \/ o = n /\ Made(n)
                    \/ o \in Object /\ \E p \in objects : Owned(o, p)
    BY <1>1, Zenon DEF Change
  <1>3. \A o \in (objects \cup Copies)' :
           \/ \E p \in Known : o.id = p.id /\ Same(o, p) /\ (o \in objects' => p \in objects)
           \/ o = n /\ Made(n)
    BY <1>1, <1>2 DEF Change, Owned, Same
  <1>4. \A o \in (objects \cup Copies)' :
          o.id < nextId' /\ IF o.history THEN o.key \in 1 .. nextId' ELSE o.key \in Names
    <2> SUFFICES ASSUME NEW o \in (objects \cup Copies)'
                 PROVE  o.id < nextId' /\ IF o.history THEN o.key \in 1 .. nextId' ELSE o.key \in Names
      OBVIOUS
    <2>1. CASE o = n /\ Made(n)
      BY <1>0, <2>1 DEF Made
    <2>2. ASSUME NEW p \in Known, o.id = p.id, Same(o, p)
          PROVE  o.id < nextId' /\ IF o.history THEN o.key \in 1 .. nextId' ELSE o.key \in Names
      <3>1. p.id < nextId /\ (IF p.history THEN p.key \in 1 .. nextId ELSE p.key \in Names)
        BY DEF IdInv
      <3>2. p.id \in Nat
        BY Shapes DEF Object
      <3> QED BY <1>0, <2>2, <3>1, <3>2 DEF Same
    <2> QED BY <1>3, <2>1, <2>2
  <1>5. ASSUME NEW o \in (objects \cup Copies)', NEW p \in objects', o.id = p.id
        PROVE  Same(o, p)
    <2>1. CASE (o = n /\ Made(n)) /\ (p = n /\ Made(n))
      BY <2>1 DEF Same
    <2>2. ASSUME NEW q \in Known, NEW r \in objects, o.id = q.id, p.id = r.id,
                 Same(o, q), Same(p, r)
          PROVE  Same(o, p)
      <3>1. Same(q, r)
        BY <1>5, <2>2 DEF IdInv
      <3> QED BY <2>2, <3>1 DEF Same
    <2>3. \A q \in Known : q.id < nextId /\ q.id \in Nat
      BY Shapes DEF IdInv, Object
    <2>4. ASSUME NEW q \in Known, q.id = n.id, Made(n)
          PROVE  FALSE
      BY <1>0, <2>3, <2>4 DEF Made
    <2> QED BY <1>3, <1>5, <2>1, <2>2, <2>4
  <1>6. \A o, p \in objView' : o.id = p.id => o = p
    <2>1. CASE SeeObject
      BY <2>1 DEF SeeObject, IdInv
    <2>2. CASE objView' \subseteq objView
      BY <2>2 DEF IdInv
    <2>3. SeeObject \/ objView' \subseteq objView
      BY DEF Next, CreateRelease, DeleteRelease, Share, StartApply, ApplyOne, CreateHistory,
             PatchStatus, Rollback, GiveUp, SeeRelease, SeeDeletion, Age, Resync, Begin,
             Collect, Scan, Keep, Delete, DeleteFails, Finish, vars, viewVars
    <2> QED BY <2>1, <2>2, <2>3
  <1>7. ASSUME NEW o \in objects', NEW p \in objects', o.history = p.history, o.key = p.key
        PROVE  o.id = p.id
    <2>1. ASSUME NEW q \in objects, Same(o, q), o.id = q.id, p = n, Made(n)
          PROVE  FALSE
      BY <1>7, <2>1 DEF Made, Same
    <2>2. ASSUME NEW q \in objects, Same(p, q), p.id = q.id, o = n, Made(n)
          PROVE  FALSE
      BY <1>7, <2>2 DEF Made, Same
    <2>3. ASSUME NEW q \in objects, NEW r \in objects, o.id = q.id, p.id = r.id,
                 Same(o, q), Same(p, r)
          PROVE  o.id = p.id
      <3>1. q.history = r.history /\ q.key = r.key
        BY <1>7, <2>3 DEF Same
      <3> QED BY <2>3, <3>1 DEF IdInv
    <2> QED BY <1>3, <2>1, <2>2, <2>3
  <1> QED BY <1>4, <1>5, <1>6, <1>7 DEF IdInv

(* ... and OwnerInv.                                                       *)
LEMMA OwnerStep ==
    ASSUME TypeOK, IdInv, OwnerInv, [Next]_vars
    PROVE  OwnerInv'
  <1>0. worker \in [Workers -> Worker] /\ shares \in Nat /\ used \subseteq Releases
    BY DEF TypeOK
  <1>1. Change
    BY ChangeStep
  <1>2. ASSUME NEW o \in (objects \cup Copies)'
        PROVE  /\ \E u \in used' : o.owners \ {Other} = {u}
               /\ shares' = 0 => Other \notin o.owners
    <2> DEFINE Goal(p) == /\ \E u \in used' : p.owners \ {Other} = {u}
                          /\ shares' = 0 => Other \notin p.owners
    <2>1. used \subseteq used' /\ shares' \in Nat /\ shares <= shares'
      BY <1>1, TypeStep DEF Change, TypeOK
    <2>2. \A p \in objects \cup Copies : Goal(p)
      BY <1>0, <2>1 DEF OwnerInv
    <2>3. CASE Made(o)
      <3>1. plan.uid \in used /\ plan.uid # Other
        BY <1>0, <2>3, CollectorAssumption DEF Made, OwnerInv, TypeOK
      <3> QED BY <2>1, <2>3, <3>1 DEF Made
    <2>4. ASSUME NEW p \in objects, Owned(o, p) PROVE Goal(o)
      <3>1. shares' # 0
        BY <1>0, <2>4 DEF Owned
      <3>2. Goal(p)
        BY <2>2
      <3> QED BY <2>4, <3>1, <3>2 DEF Owned, Same
    <2> QED BY <1>1, <2>2, <2>3, <2>4 DEF Change
  <1>3. \A e \in tracked' : e.obj.owners = {e.owner}
    <2>1. CASE SeeObject
      <3>1. PICK o \in objects :
              tracked' = (tracked \ Entries(o)) \cup {[owner |-> u, obj |-> o] : u \in SoleOwner(o)}
        BY <2>1 DEF SeeObject
      <3> QED BY <3>1 DEF OwnerInv, SoleOwner
    <2>2. SeeObject \/ tracked' \subseteq tracked
      BY DEF Next, CreateRelease, DeleteRelease, Share, StartApply, ApplyOne, CreateHistory,
             PatchStatus, Rollback, GiveUp, SeeRelease, SeeDeletion, Age, Resync, Begin,
             Collect, Scan, Keep, Delete, DeleteFails, Finish, vars, viewVars
    <2> QED BY <2>1, <2>2 DEF OwnerInv
  <1>4. \A x \in Workers :
          /\ \A o \in worker'[x].todo : o.owners = {worker'[x].uid}
          /\ IF worker'[x].pc = "idle" THEN worker'[x] = Idle ELSE worker'[x].uid \in used
    <2> DEFINE Fine(r) == /\ \A o \in r.todo : o.owners = {r.uid}
                          /\ IF r.pc = "idle" THEN r = Idle ELSE r.uid \in used
    <2>0. \A x \in Workers : Fine(worker[x])
      BY DEF OwnerInv
    <2>1. ASSUME NEW w \in Workers, NEW r, worker' = [worker EXCEPT ![w] = r], Fine(r)
          PROVE  \A x \in Workers : Fine(worker'[x])
      <3> HIDE DEF Fine
      <3> QED BY <1>0, <2>0, <2>1
    <2>2. Fine(Idle)
      BY DEF Idle
    <2>3. ASSUME NEW w \in Workers, NEW u \in Releases, Begin(w, u)
          PROVE  \A x \in Workers : Fine(worker'[x])
      <3> DEFINE alive == [pc |-> "scan", uid |-> u, alive |-> TRUE, todo |-> {},
                           desired |-> relView.manifest, version |-> relView.version]
                 dead  == [pc |-> "scan", uid |-> u, alive |-> FALSE, todo |-> {},
                           desired |-> {}, version |-> 0]
      <3>1. \/ worker' = worker
            \/ worker' = [worker EXCEPT ![w] = alive]
            \/ worker' = [worker EXCEPT ![w] = dead]
        BY <2>3 DEF Begin
      <3>2. u \in used
        BY <2>3 DEF Begin, OwnerInv
      <3>3. Fine(alive) /\ Fine(dead)
        BY <3>2
      <3> HIDE DEF alive, dead, Fine
      <3> QED BY <2>0, <2>1, <3>1, <3>3
    <2>4. ASSUME NEW w \in Workers, Collect(w)
          PROVE  \A x \in Workers : Fine(worker'[x])
      <3>1. CASE Scan(w)
        <4> DEFINE todo == {e.obj : e \in {e \in tracked : e.owner = worker[w].uid
                                                          /\ e.obj.id \in old}}
                   r == [worker[w] EXCEPT !.pc = "loop", !.todo = todo]
        <4>1. worker' = [worker EXCEPT ![w] = r]
          BY <1>0, <3>1 DEF Scan
        <4>2. \A o \in todo : o.owners = {worker[w].uid}
          BY DEF OwnerInv
        <4>3. worker[w].uid \in used /\ worker[w] \in Worker
          BY <1>0, <3>1 DEF Scan, OwnerInv
        <4> HIDE DEF todo
        <4>4. r.todo = todo /\ r.uid = worker[w].uid /\ r.pc = "loop"
          BY <4>3 DEF Worker
        <4>5. Fine(r)
          BY <4>2, <4>3, <4>4
        <4> HIDE DEF r, Fine
        <4> QED BY <2>1, <4>1, <4>5
      <3>2. CASE Keep(w) \/ Delete(w)
        <4>1. PICK o \in worker[w].todo : worker' = [worker EXCEPT ![w].todo = @ \ {o}]
          BY <3>2 DEF Keep, Delete
        <4> DEFINE r == [worker[w] EXCEPT !.todo = @ \ {o}]
        <4>2. worker' = [worker EXCEPT ![w] = r]
          BY <4>1
        <4>3. worker[w] \in Worker /\ worker[w].pc = "loop" /\ Fine(worker[w])
          BY <1>0, <2>0, <3>2 DEF Keep, Delete
        <4>4. r.todo = worker[w].todo \ {o} /\ r.uid = worker[w].uid /\ r.pc = "loop"
          BY <4>3 DEF Worker
        <4>5. Fine(r)
          BY <4>3, <4>4
        <4> HIDE DEF r, Fine
        <4> QED BY <2>1, <4>2, <4>5
      <3>3. CASE DeleteFails(w) \/ Finish(w)
        <4>1. worker' = [worker EXCEPT ![w] = Idle]
          BY <3>3 DEF DeleteFails, Finish
        <4> HIDE DEF Fine
        <4> QED BY <2>1, <2>2, <4>1
      <3> QED BY <2>4, <3>1, <3>2, <3>3 DEF Collect
    <2>5. \/ worker' = worker
          \/ \E w \in Workers : Collect(w) \/ \E u \in Releases : Begin(w, u)
      BY DEF Next, CreateRelease, DeleteRelease, Share, StartApply, ApplyOne, CreateHistory,
             PatchStatus, Rollback, GiveUp, SeeRelease, SeeObject, SeeDeletion, Age, Resync, vars
    <2>6. \A x \in Workers : Fine(worker'[x])
      <3> HIDE DEF Fine
      <3> QED BY <2>0, <2>3, <2>4, <2>5
    <2> QED BY <2>6
  <1>5. /\ queue' \subseteq used'
        /\ {rel'.uid, relView'.uid, plan'.uid} \subseteq used' \cup {NoRelease}
        /\ plan'.uid = NoRelease => plan' = NoPlan
    <2>0. NoPlan.uid = NoRelease
      BY DEF NoPlan
    <2>1. CASE CreateRelease \/ DeleteRelease \/ Share
      BY <2>1 DEF CreateRelease, DeleteRelease, Share, OwnerInv, Nothing, handlerVars, viewVars
    <2>2. CASE StartApply \/ ApplyOne
      <3>1. CASE StartApply
        BY <3>1, Shapes DEF StartApply, OwnerInv, viewVars
      <3>2. CASE ApplyOne
        <4>1. plan'.uid = plan.uid /\ plan # NoPlan
          BY <3>2 DEF ApplyOne, TypeOK, NoPlan
        <4> QED BY <3>2, <4>1 DEF ApplyOne, OwnerInv, viewVars
      <3> QED BY <2>2, <3>1, <3>2
    <2>3. CASE CreateHistory
      <3>1. plan'.uid = plan.uid /\ plan # NoPlan
        BY <2>3 DEF CreateHistory, TypeOK
      <3> QED BY <2>3, <3>1 DEF CreateHistory, OwnerInv, viewVars
    <2>4. CASE PatchStatus \/ GiveUp
      <3>1. rel'.uid = rel.uid
        BY <2>4 DEF PatchStatus, GiveUp, TypeOK, Release, Nothing
      <3> QED BY <2>0, <2>4, <3>1 DEF PatchStatus, GiveUp, OwnerInv, viewVars
    <2>5. CASE Rollback
      <3>1. rel'.uid = rel.uid /\ plan'.uid = rel.uid /\ rel.uid # NoRelease
        BY <2>5, Shapes DEF Rollback, TypeOK, Release, Nothing
      <3> QED BY <2>5, <3>1 DEF Rollback, OwnerInv, viewVars
    <2>6. CASE SeeRelease
      <3>1. queue' \subseteq used
        <4>1. rel # relView
          BY <2>6 DEF SeeRelease
        <4> QED BY <2>6, <4>1, Shapes DEF SeeRelease, OwnerInv
      <3> QED BY <2>6, <3>1 DEF SeeRelease, OwnerInv, handlerVars
    <2>7. CASE SeeObject \/ SeeDeletion \/ Age
      BY <2>7 DEF SeeObject, SeeDeletion, Age, OwnerInv, handlerVars
    <2>8. ASSUME NEW u \in Releases, Resync(u) PROVE u \in used
      <3>1. PICK e \in tracked : e.owner = u
        BY <2>8 DEF Resync
      <3>2. e.obj.owners = {u} /\ e.obj \in Copies
        BY <3>1 DEF OwnerInv, Copies, Tracked
      <3>3. u # Other
        BY CollectorAssumption
      <3> QED BY <3>2, <3>3 DEF OwnerInv
    <2>9. CASE \E u \in Releases : Resync(u)
      BY <2>8, <2>9 DEF Resync, OwnerInv, handlerVars, viewVars
    <2>10. ASSUME NEW w \in Workers, Collect(w) \/ \E u \in Releases : Begin(w, u)
           PROVE  /\ queue' \subseteq used
                  /\ UNCHANGED <<rel, relView, plan, used>>
      <3>1. worker[w].todo # {} => worker[w].uid \in used
        BY DEF OwnerInv, Idle
      <3> QED BY <2>10, <3>1 DEF Collect, Begin, Scan, Keep, Delete, DeleteFails, Finish, OwnerInv,
                                 viewVars, handlerVars
    <2>11. CASE UNCHANGED vars
      BY <2>11 DEF OwnerInv, vars, handlerVars, viewVars
    <2> QED BY <2>1, <2>2, <2>3, <2>4, <2>5, <2>6, <2>7, <2>9, <2>10, <2>11 DEF OwnerInv, Next
  <1> QED BY <1>1, <1>2, <1>3, <1>4, <1>5 DEF OwnerInv, Change

(* What a step makes of a goroutine.                                       *)
LEMMA WorkerStep ==
    ASSUME TypeOK, [Next]_vars, NEW x \in Workers
    PROVE  \/ worker'[x] = worker[x] \/ worker'[x] = Idle
           \/ /\ worker'[x].uid = worker[x].uid /\ worker'[x].alive = worker[x].alive
              /\ worker'[x].desired = worker[x].desired /\ worker'[x].version = worker[x].version
              /\ worker'[x].todo \subseteq worker[x].todo \cup Tracked
              /\ UNCHANGED <<rel, relView, objView, used, dropped>>
           \/ /\ worker'[x].uid \in queue /\ worker'[x].todo = {}
              /\ UNCHANGED <<rel, relView, objView, used, dropped>>
              /\ IF worker'[x].uid = relView.uid
                 THEN /\ relView.manifest # {} /\ worker'[x].alive = TRUE
                      /\ worker'[x].desired = relView.manifest
                      /\ worker'[x].version = relView.version
                 ELSE worker'[x].version = 0
  <1>0. worker \in [Workers -> Worker]
    BY DEF TypeOK
  <1>1. ASSUME NEW w \in Workers, NEW u \in Releases, Begin(w, u), worker'[x] # worker[x]
        PROVE  /\ worker'[x].uid = u /\ u \in queue /\ worker'[x].todo = {}
               /\ UNCHANGED <<rel, relView, objView, used, dropped>>
               /\ IF u = relView.uid
                  THEN /\ relView.manifest # {} /\ worker'[x].alive = TRUE
                       /\ worker'[x].desired = relView.manifest
                       /\ worker'[x].version = relView.version
                  ELSE worker'[x].version = 0
    <2>1. UNCHANGED <<rel, relView, objView, used, dropped>> /\ u \in queue
      BY <1>1 DEF Begin, handlerVars, viewVars
    <2>2. CASE relView.uid = u /\ relView.manifest # {}
      BY <1>0, <1>1, <2>1, <2>2 DEF Begin
    <2>3. CASE relView.uid # u
      BY <1>0, <1>1, <2>1, <2>3 DEF Begin
    <2>4. CASE relView.uid = u /\ relView.manifest = {}
      BY <1>1, <2>4 DEF Begin
    <2> QED BY <2>2, <2>3, <2>4
  <1>2. ASSUME NEW w \in Workers, Scan(w) \/ Keep(w) \/ Delete(w)
        PROVE  /\ worker'[x].uid = worker[x].uid /\ worker'[x].alive = worker[x].alive
               /\ worker'[x].desired = worker[x].desired /\ worker'[x].version = worker[x].version
               /\ worker'[x].todo \subseteq worker[x].todo \cup Tracked
               /\ UNCHANGED <<rel, relView, objView, used, dropped>>
    <2>1. UNCHANGED <<rel, relView, objView, used, dropped>>
      BY <1>2 DEF Scan, Keep, Delete, handlerVars, viewVars
    <2>2. CASE Scan(w)
      BY <1>0, <2>1, <2>2 DEF Scan, Worker, Tracked
    <2>3. CASE Keep(w) \/ Delete(w)
      <3>1. PICK o \in worker[w].todo : worker' = [worker EXCEPT ![w].todo = @ \ {o}]
        BY <2>3 DEF Keep, Delete
      <3> QED BY <1>0, <2>1, <3>1 DEF Worker
    <2> QED BY <1>2, <2>2, <2>3
  <1>3. ASSUME NEW w \in Workers, DeleteFails(w) \/ Finish(w)
        PROVE  worker'[x] = worker[x] \/ worker'[x] = Idle
    BY <1>0, <1>3 DEF DeleteFails, Finish
  <1>4. \/ worker' = worker
        \/ \E w \in Workers : Collect(w) \/ \E u \in Releases : Begin(w, u)
    BY DEF Next, CreateRelease, DeleteRelease, Share, StartApply, ApplyOne, CreateHistory,
           PatchStatus, Rollback, GiveUp, SeeRelease, SeeObject, SeeDeletion, Age, Resync, vars
  <1> QED BY <1>1, <1>2, <1>3, <1>4 DEF Collect

(* Nobody comes to know of the release but by its informer.                *)
LEMMA UnseenStep ==
    ASSUME TypeOK, IdInv, OwnerInv, UnseenInv, [Next]_vars
    PROVE  UnseenInv'
  <1>0. rel.uid \in Releases \cup {NoRelease} /\ (rel = Nothing <=> rel.uid = NoRelease)
    BY Shapes
  <1>1. Change
    BY ChangeStep
  <1>2. ASSUME NEW u \in Releases \ used, Copies' \subseteq objects \cup Copies,
               objects' \subseteq objects
        PROVE  \A o \in (objects \cup Copies)' : u \notin o.owners
    <2>1. ASSUME NEW o \in objects \cup Copies PROVE u \notin o.owners
      <3>1. PICK v \in used : o.owners \ {Other} = {v}
        BY DEF OwnerInv
      <3>2. u # Other /\ u # v
        BY CollectorAssumption
      <3> QED BY <3>1, <3>2
    <2> QED BY <1>2, <2>1
  <1>3. CASE CreateRelease
    <2>1. PICK u \in Releases \ used : rel'.uid = u
      BY <1>3 DEF CreateRelease
    <2>2. queue' = queue /\ plan' = plan /\ objects' = objects /\ worker' = worker
          /\ Copies' = Copies
      BY <1>3, SameCopies DEF CreateRelease, viewVars
    <2>3. u \notin queue /\ u # plan.uid /\ \A w \in Workers : worker[w].uid # u
      BY <1>0, CollectorAssumption DEF OwnerInv, Idle
    <2> QED BY <1>2, <2>1, <2>2, <2>3 DEF UnseenInv
  <1>4. CASE rel' = Nothing \/ relView' = rel'
    BY <1>4 DEF UnseenInv
  <1>5. CASE rel'.uid = rel.uid /\ relView' = relView /\ UnseenInv
    <2> SUFFICES ASSUME rel # Nothing, relView.uid # rel.uid
                 PROVE  /\ rel.uid \notin queue' /\ plan'.uid # rel.uid
                        /\ \A o \in (objects \cup Copies)' : rel.uid \notin o.owners
                        /\ \A w \in Workers : worker'[w].uid # rel.uid
      <3>1. rel' \in Release \cup {Nothing}
        BY TypeStep DEF TypeOK
      <3>2. rel' # Nothing => rel # Nothing
        BY <1>0, <1>5, <3>1, CollectorAssumption DEF Release, Nothing
      <3> QED BY <1>5, <3>2 DEF UnseenInv
    <2>0. /\ rel.uid \notin queue /\ plan.uid # rel.uid /\ rel.uid # NoRelease /\ rel.uid # Other
          /\ \A o \in objects \cup Copies : rel.uid \notin o.owners
          /\ \A w \in Workers : worker[w].uid # rel.uid
      BY <1>0, CollectorAssumption DEF UnseenInv
    <2>1. ASSUME NEW w \in Workers PROVE worker'[w].uid # rel.uid
      <3>1. Idle.uid # rel.uid /\ worker[w].uid # rel.uid
        BY <2>0 DEF Idle
      <3>2. \/ worker'[w] = worker[w] \/ worker'[w] = Idle
            \/ worker'[w].uid = worker[w].uid \/ worker'[w].uid \in queue
        BY WorkerStep
      <3> QED BY <2>0, <3>1, <3>2
    <2>2. ASSUME NEW o \in (objects \cup Copies)' PROVE rel.uid \notin o.owners
      <3>1. CASE o \in objects \cup Copies
        BY <2>0, <3>1
      <3>2. CASE Made(o)
        BY <2>0, <3>2 DEF Made
      <3>3. ASSUME NEW p \in objects, Owned(o, p) PROVE rel.uid \notin o.owners
        BY <2>0, <3>3 DEF Owned, Same
      <3> QED BY <1>1, <3>1, <3>2, <3>3 DEF Change
    <2>3. plan'.uid # rel.uid
      <3>1. plan' = plan \/ plan' = NoPlan \/ plan'.uid = plan.uid \/ plan'.uid = relView.uid
        <4>1. CASE StartApply
          BY <4>1 DEF StartApply
        <4>4. CASE Rollback
          BY <4>4, Zenon DEF Rollback
        <4>2. CASE ApplyOne \/ CreateHistory
          BY <4>2 DEF ApplyOne, CreateHistory, TypeOK
        <4>3. CASE ~ (StartApply \/ Rollback \/ ApplyOne \/ CreateHistory)
          BY <4>3 DEF Next, CreateRelease, DeleteRelease, Share, PatchStatus, GiveUp, SeeRelease,
                      SeeObject, SeeDeletion, Age, Resync, Begin, Collect, Scan, Keep, Delete,
                      DeleteFails, Finish, vars, handlerVars
        <4> QED BY <4>1, <4>2, <4>3, <4>4
      <3> QED BY <2>0, <3>1 DEF NoPlan
    <2>4. rel.uid \notin queue'
      <3>1. CASE SeeRelease
        <4>1. rel = relView
          BY <1>5, <3>1 DEF SeeRelease
        <4> QED BY <4>1
      <3>2. ASSUME NEW u \in Releases, Resync(u) PROVE rel.uid \notin queue'
        <4>1. PICK e \in tracked : e.owner = u
          BY <3>2 DEF Resync
        <4>2. e.obj.owners = {u} /\ e.obj \in Copies
          BY <4>1 DEF OwnerInv, Copies, Tracked
        <4> QED BY <2>0, <3>2, <4>2 DEF Resync
      <3>3. ASSUME NEW w \in Workers, DeleteFails(w) PROVE rel.uid \notin queue'
        BY <2>0, <3>3 DEF DeleteFails
      <3>4. \/ SeeRelease \/ (\E u \in Releases : Resync(u)) \/ (\E w \in Workers : DeleteFails(w))
            \/ queue' \subseteq queue
        BY DEF Next, CreateRelease, DeleteRelease, Share, StartApply, ApplyOne, CreateHistory,
               PatchStatus, Rollback, GiveUp, SeeObject, SeeDeletion, Age, Begin, Collect, Scan,
               Keep, Delete, Finish, vars
      <3> QED BY <2>0, <3>1, <3>2, <3>3, <3>4
    <2> QED BY <2>1, <2>2, <2>3, <2>4
  <1>6. \/ CreateRelease \/ rel' = Nothing \/ relView' = rel'
        \/ rel'.uid = rel.uid /\ relView' = relView
    <2>1. CASE DeleteRelease \/ SeeRelease
      BY <2>1 DEF DeleteRelease, SeeRelease
    <2>2. CASE PatchStatus \/ Rollback
      BY <2>2 DEF PatchStatus, Rollback, TypeOK, Release, Nothing, viewVars
    <2>3. CASE ~ (CreateRelease \/ DeleteRelease \/ SeeRelease \/ PatchStatus \/ Rollback)
      BY <2>3 DEF Next, Share, StartApply, ApplyOne, CreateHistory, GiveUp, SeeObject, SeeDeletion,
             Age, Resync, Begin, Collect, Scan, Keep, Delete, DeleteFails, Finish, vars, viewVars
    <2> QED BY <2>1, <2>2, <2>3
  <1> QED BY <1>3, <1>4, <1>5, <1>6

(* Nothing of the release's is collected by a manifest that has less than  *)
(* what was always in it.                                                  *)
LEMMA ManifestStep ==
    ASSUME TypeOK, IdInv, OwnerInv, UnseenInv, ManifestInv, [Next]_vars
    PROVE  ManifestInv'
  <1>0. /\ rel.uid \in Releases \cup {NoRelease} /\ (rel = Nothing <=> rel.uid = NoRelease)
        /\ relView.uid \in Releases \cup {NoRelease}
    BY Shapes
  <1>1. CASE CreateRelease
    <2>1. PICK u \in Releases \ used : rel' = [uid |-> u, manifest |-> {}, version |-> 0]
      BY <1>1 DEF CreateRelease
    <2>2. relView' = relView /\ worker' = worker
      BY <1>1 DEF CreateRelease, viewVars
    <2>3. u # relView.uid /\ \A w \in Workers : worker[w].uid # u
      BY <1>0, CollectorAssumption DEF OwnerInv, Idle
    <2> QED BY <2>1, <2>2, <2>3 DEF ManifestInv
  <1>2. CASE rel' = Nothing
    BY <1>2 DEF ManifestInv
  <1>3. CASE PatchStatus \/ Rollback
    <2> SUFFICES ASSUME rel # Nothing, NEW names,
                        rel' = [rel EXCEPT !.manifest = names, !.version = rel'.version],
                        dropped' = dropped \cup (Names \ names)
                 PROVE  ManifestInv'
      <3>1. CASE rel = Nothing
        BY <1>2, <1>3, <3>1, Shapes DEF PatchStatus, Rollback
      <3>2. CASE rel # Nothing
        <4>1. rel \in Release
          BY <3>2 DEF TypeOK
        <4> QED BY <1>3, <3>2, <4>1 DEF PatchStatus, Rollback, Release
      <3> QED BY <3>1, <3>2
    <2>1. rel'.uid = rel.uid /\ rel'.manifest = names /\ relView' = relView /\ worker' = worker
      BY <1>3, Shapes DEF PatchStatus, Rollback, Release, viewVars
    <2> QED BY <2>1 DEF ManifestInv, Covers
  <1>4. CASE SeeRelease
    BY <1>4 DEF SeeRelease, ManifestInv, Covers, handlerVars
  <1>5. CASE UNCHANGED <<rel, relView, dropped>>
    <2> SUFFICES ASSUME rel # Nothing, NEW w \in Workers, worker'[w].uid = rel.uid
                 PROVE  worker'[w].alive /\ Covers(worker'[w].desired)
      BY <1>5 DEF ManifestInv, Covers
    <2>1. Idle.uid # rel.uid
      BY <1>0 DEF Idle
    <2>2. CASE worker'[w].uid \in queue
      <3>1. relView.uid = rel.uid
        BY <2>2 DEF UnseenInv
      <3>2. CASE worker'[w].uid = worker[w].uid /\ worker'[w].alive = worker[w].alive
                 /\ worker'[w].desired = worker[w].desired
        BY <3>2 DEF ManifestInv, Covers
      <3>3. CASE /\ relView.manifest # {} /\ worker'[w].alive = TRUE
                 /\ worker'[w].desired = relView.manifest
        BY <3>1, <3>3 DEF ManifestInv, Covers
      <3> QED BY <2>1, <3>1, <3>2, <3>3, WorkerStep
    <2>3. CASE worker'[w].uid = worker[w].uid /\ worker'[w].alive = worker[w].alive
               /\ worker'[w].desired = worker[w].desired
      BY <2>3 DEF ManifestInv, Covers
    <2> QED BY <2>1, <2>2, <2>3, WorkerStep
  <1>6. \/ CreateRelease \/ rel' = Nothing \/ PatchStatus \/ Rollback \/ SeeRelease
        \/ UNCHANGED <<rel, relView, dropped>>
    BY DEF Next, DeleteRelease, Share, StartApply, ApplyOne, CreateHistory, GiveUp, SeeObject,
           SeeDeletion, Age, Resync, Begin, Collect, Scan, Keep, Delete, DeleteFails, Finish, vars,
           handlerVars, viewVars
  <1> QED BY <1>1, <1>2, <1>3, <1>4, <1>5, <1>6

LEMMA KeepInit == Init => KeepInv
  <1> SUFFICES ASSUME Init PROVE KeepInv
    OBVIOUS
  <1>1. Copies = {} /\ \A w \in Workers : worker[w] = Idle
    BY DEF Init, Copies, Tracked, Idle
  <1> QED BY <1>1, TypeInit DEF Init, KeepInv, IdInv, OwnerInv, UnseenInv, ManifestInv, Idle,
                               NoPlan, Nothing

LEMMA KeepStep == KeepInv /\ [Next]_vars => KeepInv'
  BY TypeStep, IdStep, OwnerStep, UnseenStep, ManifestStep DEF KeepInv

LEMMA KeepHolds == Spec => []KeepInv
  BY KeepInit, KeepStep, PTL DEF Spec

(* Every variable keeps to its type (TypeOK).                              *)
THEOREM TypeCorrect == Spec => []TypeOK
  BY KeepHolds, PTL DEF KeepInv

(* Only the call of Delete deletes, and what it deletes the goroutine does *)
(* not keep.                                                               *)
LEMMA OnlyDelete ==
    ASSUME TypeOK, IdInv, OwnerInv, [Next]_vars, NEW o \in Deleted
    PROVE  \E w \in Workers : \E q \in worker[w].todo :
             /\ worker[w].pc = "loop" /\ q.id = o.id /\ Same(q, o)
             /\ ~ Keeps(w, q) /\ q.owners = {worker[w].uid}
  <1>1. o \in objects /\ \A p \in objects' : p.id # o.id
    BY DEF Deleted
  <1>2. ASSUME NEW w \in Workers, Delete(w)
        PROVE  \E q \in worker[w].todo :
                 /\ worker[w].pc = "loop" /\ q.id = o.id /\ Same(q, o)
                 /\ ~ Keeps(w, q) /\ q.owners = {worker[w].uid}
    <2>1. PICK q \in worker[w].todo :
            /\ ~ Keeps(w, q) /\ \A p \in SameName(q) : p.id = q.id
            /\ objects' = objects \ SameName(q)
      BY <1>2 DEF Delete
    <2>2. o \in SameName(q)
      BY <1>1, <2>1
    <2>3. q \in Copies /\ q.id = o.id /\ q.owners = {worker[w].uid}
      BY <2>1, <2>2 DEF Copies, OwnerInv
    <2>4. Same(q, o)
      BY <1>1, <2>3 DEF IdInv
    <2> QED BY <1>2, <2>1, <2>3, <2>4 DEF Delete
  <1>3. CASE Share
    <2>1. PICK p \in objects : \E owners :
            objects' = (objects \ {p}) \cup {[p EXCEPT !.owners = owners]}
      BY <1>3 DEF Share
    <2>2. PICK owners : objects' = (objects \ {p}) \cup {[p EXCEPT !.owners = owners]}
      BY <2>1
    <2>3. [p EXCEPT !.owners = owners].id = p.id
      BY DEF TypeOK, Object
    <2> QED BY <1>1, <2>2, <2>3
  <1>4. objects \subseteq objects' \/ Share \/ \E w \in Workers : Delete(w)
    BY DEF Next, CreateRelease, DeleteRelease, StartApply, ApplyOne, CreateHistory, PatchStatus,
           Rollback, GiveUp, SeeRelease, SeeObject, SeeDeletion, Age, Resync, Begin, Collect, Scan,
           Keep, DeleteFails, Finish, vars
  <1> QED BY <1>1, <1>2, <1>3, <1>4

(* The collector never deletes a resource that has been in every manifest  *)
(* of the living release, its only owner (StableKept, of                   *)
(* GarbageCollector.collect), whoever comes and goes as another owner, is  *)
(* rolled back, fails, or bore the name before.                            *)
THEOREM StableKeptHolds == Spec => StableKept
  <1>1. ASSUME KeepInv, [Next]_vars, NEW o \in Deleted, ~ o.history, rel # Nothing,
               o.owners = {rel.uid}
        PROVE  o.key \in dropped
    <2>1. PICK w \in Workers : \E q \in worker[w].todo :
             /\ worker[w].pc = "loop" /\ q.id = o.id /\ Same(q, o)
             /\ ~ Keeps(w, q) /\ q.owners = {worker[w].uid}
      BY <1>1, OnlyDelete DEF KeepInv
    <2>2. PICK q \in worker[w].todo : Same(q, o) /\ ~ Keeps(w, q) /\ q.owners = {worker[w].uid}
      BY <2>1
    <2>3. rel.uid \in Releases /\ worker[w].uid \in Releases \cup {NoRelease} /\ o \in objects
      BY <1>1, Shapes DEF KeepInv, TypeOK, Worker, Deleted
    <2>4. worker[w].uid = rel.uid
      BY <1>1, <2>2, <2>3, CollectorAssumption DEF Same
    <2>5. worker[w].alive /\ Covers(worker[w].desired)
      BY <1>1, <2>4 DEF KeepInv, ManifestInv
    <2>6. o.key \in Names /\ q.key = o.key /\ ~ q.history
      BY <1>1, <2>2, <2>3 DEF KeepInv, IdInv, Same
    <2> QED BY <2>2, <2>5, <2>6 DEF Keeps, Covers
  <1>2. KeepInv /\ [Next]_vars =>
          [\A o \in Deleted : ~ o.history /\ rel # Nothing /\ o.owners = {rel.uid}
                               => o.key \in dropped]_vars
    BY <1>1
  <1> QED BY <1>2, KeepHolds, PTL DEF Spec, StableKept

-------------------------------------------------------------------------------
(* The histories of a release that nobody shares, and that is the first of *)
(* its name.                                                               *)

(* Then everything belongs to it.                                          *)
LEMMA AllIsIts ==
    ASSUME KeepInv, Alone
    PROVE  /\ rel # Nothing /\ rel.uid \in Releases
           /\ \A o \in objects \cup Copies : o.owners = {rel.uid}
           /\ plan # NoPlan => plan.uid = rel.uid
           /\ \A w \in Workers : worker[w].pc # "idle" => worker[w].uid = rel.uid /\ worker[w].alive
           /\ \A q \in objView : q.history => q \in HistoriesIn(objView, rel.uid)
  <1>1. rel # Nothing /\ rel.uid \in Releases
    BY CollectorAssumption DEF KeepInv, TypeOK, Alone, Release, Nothing
  <1>2. \A o \in objects \cup Copies : o.owners = {rel.uid}
    BY DEF KeepInv, OwnerInv, Alone
  <1>3. plan # NoPlan => plan.uid = rel.uid
    BY DEF KeepInv, OwnerInv, Alone
  <1>4. \A w \in Workers : worker[w].pc # "idle" => worker[w].uid = rel.uid /\ worker[w].alive
    BY <1>1 DEF KeepInv, OwnerInv, ManifestInv, Alone
  <1>5. \A q \in objView : q.history => q \in HistoriesIn(objView, rel.uid)
    BY <1>2 DEF HistoriesIn, Copies
  <1> QED BY <1>1, <1>2, <1>3, <1>4, <1>5

LEMMA Versions ==
    ASSUME KeepInv
    PROVE  /\ \A o \in objects \cup Copies : o.history => o.key \in Nat \ {0}
           /\ rel.version \in Nat /\ relView.version \in Nat /\ plan.version \in Nat
           /\ \A w \in Workers : worker[w].version \in Nat
           /\ nextId \in Nat /\ HistoryLimit \in Nat
           /\ \A o \in objects \cup Copies : o.id \in Nat /\ o.id < nextId
  <1>1. TypeOK /\ IdInv
    BY DEF KeepInv
  <1>2. \A o \in objects \cup Copies : o.history => o.key \in Nat \ {0}
    BY <1>1 DEF IdInv, TypeOK
  <1>3. \A o \in objects \cup Copies : o.id \in Nat /\ o.id < nextId
    BY <1>1, Shapes DEF IdInv, Object
  <1> QED BY <1>1, <1>2, <1>3, Shapes, CollectorAssumption DEF TypeOK, Worker

(* What the informer has shown it has a later version for, if not itself.  *)
LEMMA ShownStep ==
    ASSUME KeepInv, HistoryInv, Alone, [Next]_vars, NEW k \in Nat, Shown(k)
    PROVE  Shown(k)'
  <1>0. PICK q \in objView : q.history /\ q.key >= k
    BY DEF Shown
  <1>1. CASE SeeObject
    <2>1. PICK o \in objects : objView' = {p \in objView : p.id # o.id} \cup {o}
      BY <1>1 DEF SeeObject
    <2>2. q.id = o.id => Same(q, o)
      BY DEF KeepInv, IdInv, Copies
    <2> QED BY <1>0, <2>1, <2>2 DEF Shown, Same
  <1>2. CASE SeeDeletion
    <2>1. PICK o \in objView :
            /\ \A p \in objects : p.id # o.id
            /\ \A d \in removed, p \in objects :
                 d.id = o.id /\ p.history /\ p.id < d.next => \E r \in objView : r.id = p.id
            /\ objView' = objView \ {o}
      BY <1>2 DEF SeeDeletion
    <2>2. CASE q # o
      BY <1>0, <2>1, <2>2 DEF Shown
    <2>3. CASE q = o
      <3>0. \A r \in objView : r.history => r.key \in Nat
        BY Versions DEF Copies
      <3>1. ASSUME NEW r \in objView, r.history, r.key > q.key PROVE Shown(k)'
        <4>1. r # o /\ r.key >= k
          BY <1>0, <2>3, <3>0, <3>1
        <4> QED BY <2>1, <3>1, <4>1 DEF Shown
      <3>2. CASE Shown(o.key + 1)
        <4>1. PICK r \in objView : r.history /\ r.key >= o.key + 1
          BY <3>2 DEF Shown
        <4>2. r.key > q.key
          BY <1>0, <2>3, <3>0, <4>1
        <4> QED BY <3>1, <4>1, <4>2
      <3>3. ASSUME NEW d \in removed, NEW p \in objects,
                   d.id = o.id, p.id < d.next, p.history, p.key > o.key
            PROVE  Shown(k)'
        <4>1. PICK r \in objView : r.id = p.id
          BY <2>1, <3>3
        <4>2. Same(r, p)
          BY <4>1 DEF KeepInv, IdInv, Copies
        <4> QED BY <2>3, <3>1, <3>3, <4>2 DEF Same
      <3> QED BY <1>0, <2>1, <2>3, <3>2, <3>3 DEF HistoryInv, GoneInv
    <2> QED BY <2>2, <2>3
  <1>3. SeeObject \/ SeeDeletion \/ objView' = objView
    BY DEF Next, CreateRelease, DeleteRelease, Share, StartApply, ApplyOne, CreateHistory,
           PatchStatus, Rollback, GiveUp, SeeRelease, Age, Resync, Begin, Collect, Scan, Keep,
           Delete, DeleteFails, Finish, vars, viewVars
  <1> QED BY <1>0, <1>1, <1>2, <1>3 DEF Shown

(* CreateHistory goes on from the latest version.                          *)
LEMMA NewIsLatest ==
    ASSUME KeepInv, HistoryInv, Alone, CreateHistory
    PROVE  rel.version <= NewVersion(plan.uid)
  <1> DEFINE v == NewVersion(plan.uid)
  <1>1. plan.uid = rel.uid /\ History(v) = {}
    BY AllIsIts DEF CreateHistory
  <1>2. v \in 1 .. nextId + 1 /\ \A o \in HistoriesIn(objView, rel.uid) : o.key < v
    BY <1>1, NextVersion DEF KeepInv
  <1> SUFFICES ASSUME v < rel.version PROVE FALSE
    BY <1>2, Versions
  <1> HIDE DEF v
  <1>3. PICK o \in objects : o.history /\ o.key >= rel.version
    <2>1. rel.version \in Nat \ {0}
      BY <1>2, Versions
    <2> QED BY <2>1 DEF HistoryInv, LatestInv
  <1>4. v \in 1 .. o.key
    BY <1>2, <1>3, Versions
  <1>5. Shown(v)
    BY <1>1, <1>3, <1>4 DEF HistoryInv, GapInv
  <1>6. PICK q \in objView : q.history /\ q.key >= v
    BY <1>5 DEF Shown
  <1>7. q.key < v /\ q.key \in Nat
    BY <1>2, <1>6, AllIsIts, Versions DEF Copies
  <1> QED BY <1>2, <1>6, <1>7, Versions

LEMMA LaterStep ==
    ASSUME KeepInv, HistoryInv, Alone, [Next]_vars, Alone'
    PROVE  LaterInv' /\ rel'.version >= rel.version
  <1>0. LaterInv
    BY DEF HistoryInv
  <1>1. /\ rel'.version >= rel.version
        /\ plan'.version # 0 => rel'.version <= plan'.version
        /\ relView' = relView \/ relView' = rel
    <2>1. CASE CreateRelease \/ DeleteRelease \/ Rollback
      <3>1. ~ CreateRelease
        BY AllIsIts DEF CreateRelease
      <3>2. ~ DeleteRelease
        <4>1. rel' = Nothing => rel'.uid = NoRelease
          BY DEF Nothing
        <4>2. used' \subseteq Releases
          BY KeepStep DEF KeepInv, TypeOK
        <4> QED BY <4>1, <4>2, CollectorAssumption DEF DeleteRelease, Alone
      <3>3. ~ Rollback
        BY DEF Rollback, Alone
      <3> QED BY <2>1, <3>1, <3>2, <3>3
    <2>2. CASE PatchStatus
      <3>1. rel # Nothing /\ rel \in Release
        BY AllIsIts DEF KeepInv, TypeOK
      <3>2. rel'.version = plan.version /\ plan.version # 0 /\ plan' = NoPlan /\ relView' = relView
        BY <2>2, <3>1 DEF PatchStatus, Release, viewVars
      <3> QED BY <1>0, <3>2, Versions DEF LaterInv, NoPlan
    <2>3. CASE CreateHistory
      <3>1. plan' = [plan EXCEPT !.version = NewVersion(plan.uid)]
            /\ UNCHANGED <<rel, relView>>
        BY <2>3 DEF CreateHistory, viewVars
      <3>2. plan'.version = NewVersion(plan.uid)
        BY <3>1 DEF KeepInv, TypeOK
      <3> QED BY <2>3, <3>1, <3>2, NewIsLatest, Versions
    <2>4. CASE StartApply \/ GiveUp
      BY <2>4, Versions DEF StartApply, GiveUp, NoPlan, viewVars
    <2>5. CASE ApplyOne
      <3>1. plan'.version = plan.version /\ rel' = rel /\ relView' = relView
        BY <2>5 DEF ApplyOne, viewVars, KeepInv, TypeOK
      <3> QED BY <1>0, <3>1, Versions DEF LaterInv
    <2>6. CASE UNCHANGED <<rel, plan>> /\ (relView' = relView \/ relView' = rel)
      BY <1>0, <2>6, Versions DEF LaterInv
    <2>7. \/ CreateRelease \/ DeleteRelease \/ Rollback \/ PatchStatus \/ CreateHistory
          \/ StartApply \/ GiveUp \/ ApplyOne
          \/ UNCHANGED <<rel, plan>> /\ (relView' = relView \/ relView' = rel)
      BY DEF Next, Share, SeeRelease, SeeObject, SeeDeletion, Age, Resync, Begin, Collect, Scan,
             Keep, Delete, DeleteFails, Finish, vars, viewVars, handlerVars
    <2> QED BY <2>1, <2>2, <2>3, <2>4, <2>5, <2>6, <2>7
  <1>2. rel'.version \in Nat
    BY KeepStep, Shapes DEF KeepInv, TypeOK, Release, Nothing
  <1>3. relView'.version <= rel'.version
    BY <1>0, <1>1, <1>2, Versions DEF LaterInv
  <1>4. ASSUME NEW w \in Workers PROVE worker'[w].version <= rel'.version
    <2>1. worker'[w].version \in {worker[w].version, relView.version, 0}
      <3>1. TypeOK /\ Idle.version = 0
        BY DEF KeepInv, Idle
      <3> QED BY <3>1, WorkerStep
    <2> QED BY <1>0, <1>1, <1>2, <2>1, Versions DEF LaterInv
  <1> QED BY <1>1, <1>3, <1>4 DEF LaterInv

(* What the collector deletes is not the latest history.                   *)
LEMMA NotTheLatest ==
    ASSUME HistoryLimit # 0, KeepInv, HistoryInv, Alone, NEW w \in Workers, Delete(w)
    PROVE  \E q \in worker[w].todo :
             /\ objects' = objects \ SameName(q)
             /\ removed' = removed \cup Departed(SameName(q))
             /\ q.history =>
                  /\ Shown(q.key) /\ q.key + HistoryLimit <= rel.version
                  /\ \E p \in objects' : p.history /\ p.key >= rel.version
  <1>1. PICK q \in worker[w].todo :
          /\ ~ Keeps(w, q)
          /\ objects' = objects \ SameName(q)
          /\ removed' = removed \cup Departed(SameName(q))
    BY DEF Delete
  <1> SUFFICES ASSUME q.history
               PROVE  /\ Shown(q.key) /\ q.key + HistoryLimit <= rel.version
                      /\ \E p \in objects' : p.history /\ p.key >= rel.version
    BY <1>1
  <1>2. Shown(q.key)
    BY DEF HistoryInv, GapInv
  <1>3. q.key \in Nat \ {0}
    BY Versions DEF Copies
  <1>4. worker[w].alive
    BY AllIsIts DEF Delete
  <1>5. ~ (q.key + HistoryLimit > worker[w].version)
    BY <1>1, <1>4 DEF Keeps, Retain
  <1>6. worker[w].version <= rel.version
    BY DEF HistoryInv, LaterInv
  <1>7. /\ q.key + HistoryLimit <= rel.version
        /\ rel.version \in Nat \ {0} /\ q.key < rel.version
    <2>1. worker[w].version \in Nat /\ rel.version \in Nat /\ HistoryLimit \in Nat \ {0}
      BY Versions
    <2> QED BY <1>3, <1>5, <1>6, <2>1
  <1>8. PICK p \in objects : p.history /\ p.key >= rel.version
    BY <1>7 DEF HistoryInv, LatestInv
  <1>9. p \notin SameName(q)
    <2>1. p \in SameName(q) => p.key = q.key
      BY DEF SameName
    <2>2. ~ (q.key >= rel.version)
      BY <1>3, <1>7
    <2> QED BY <1>8, <2>1, <2>2
  <1> QED BY <1>1, <1>2, <1>7, <1>8, <1>9

LEMMA LatestStep ==
    ASSUME HistoryLimit # 0, KeepInv, HistoryInv, Alone, [Next]_vars, Alone'
    PROVE  LatestInv'
  <1> SUFFICES ASSUME NEW v \in {rel'.version, plan'.version} \ {0}
               PROVE  \E o \in objects' : o.history /\ o.key >= v
    BY DEF LatestInv
  <1>0. LatestInv
    BY DEF HistoryInv
  <1>1. CASE \E w \in Workers : Delete(w)
    <2>1. PICK w \in Workers : Delete(w)
      BY <1>1
    <2>2. PICK q \in worker[w].todo :
             /\ objects' = objects \ SameName(q)
             /\ q.history =>
                  /\ q.key + HistoryLimit <= rel.version
                  /\ \E p \in objects' : p.history /\ p.key >= rel.version
      BY <2>1, NotTheLatest
    <2>3. PICK o \in objects : o.history /\ o.key >= v
      BY <1>0, <2>1 DEF LatestInv, Delete, handlerVars
    <2>4. CASE o \in SameName(q)
      <3>1. q.history /\ q.key = o.key
        BY <2>3, <2>4 DEF SameName
      <3>2. PICK p \in objects' : p.history /\ p.key >= rel.version
        BY <2>2, <3>1
      <3>3. p.key \in Nat /\ o.key \in Nat /\ v \in Nat
        BY <2>1, <2>2, <2>3, <3>2, Versions DEF Delete, handlerVars
      <3>4. p.key >= v
        BY <2>2, <2>3, <3>1, <3>2, <3>3, Versions
      <3> QED BY <3>2, <3>4
    <2> QED BY <2>2, <2>3, <2>4
  <1>2. CASE CreateHistory
    <2> DEFINE new == [id |-> nextId, history |-> TRUE, key |-> NewVersion(plan.uid),
                       names |-> plan.names, owners |-> {plan.uid}]
    <2>1. /\ rel' = rel /\ objects' = objects \cup {new}
          /\ plan' = [plan EXCEPT !.version = NewVersion(plan.uid)]
      BY <1>2 DEF CreateHistory
    <2>2. plan'.version = NewVersion(plan.uid) /\ NewVersion(plan.uid) \in Nat
      BY <2>1, NextVersion, Versions DEF KeepInv, TypeOK
    <2>3. new \in objects' /\ new.history /\ new.key >= NewVersion(plan.uid)
      BY <2>1, <2>2
    <2> HIDE DEF new
    <2> QED BY <1>0, <2>1, <2>2, <2>3 DEF LatestInv
  <1>3. CASE objects \subseteq objects' /\ v \in {rel.version, plan.version}
    BY <1>0, <1>3 DEF LatestInv
  <1>4. v \in {rel.version, plan.version} \/ CreateHistory
    <2>1. CASE CreateRelease \/ DeleteRelease \/ Rollback
      <3>1. ~ CreateRelease
        BY AllIsIts DEF CreateRelease
      <3>2. ~ DeleteRelease
        <4>1. used' \subseteq Releases /\ (rel' = Nothing => rel'.uid = NoRelease)
          BY KeepStep DEF KeepInv, TypeOK, Nothing
        <4> QED BY <4>1, CollectorAssumption DEF DeleteRelease, Alone
      <3>3. ~ Rollback
        BY DEF Rollback, Alone
      <3> QED BY <2>1, <3>1, <3>2, <3>3
    <2>2. CASE PatchStatus
      <3>1. rel \in Release
        BY AllIsIts DEF KeepInv, TypeOK
      <3> QED BY <2>2, <3>1 DEF PatchStatus, Release, NoPlan
    <2>3. CASE StartApply \/ GiveUp
      BY <2>3 DEF StartApply, GiveUp, NoPlan
    <2>4. CASE ApplyOne
      BY <2>4 DEF ApplyOne, KeepInv, TypeOK
    <2> QED BY <2>1, <2>2, <2>3, <2>4 DEF Next, Share, SeeRelease, SeeObject, SeeDeletion, Age,
               Resync, Begin, Collect, Scan, Keep, Delete, DeleteFails, Finish, vars, handlerVars
  <1>5. \/ \E w \in Workers : Delete(w)
        \/ objects \subseteq objects'
    <2>1. ~ Share
      BY DEF Share, Alone
    <2> QED BY <2>1 DEF Next, CreateRelease, DeleteRelease, StartApply, ApplyOne, CreateHistory,
               PatchStatus, Rollback, GiveUp, SeeRelease, SeeObject, SeeDeletion, Age, Resync,
               Begin, Collect, Scan, Keep, DeleteFails, Finish, vars
  <1> QED BY <1>1, <1>2, <1>3, <1>4, <1>5

LEMMA GapStep ==
    ASSUME HistoryLimit # 0, KeepInv, HistoryInv, Alone, [Next]_vars, Alone'
    PROVE  GapInv'
  <1>0. /\ \A o \in Tracked \cup UNION {worker[w].todo : w \in Workers} : o.history => Shown(o.key)
        /\ \A o \in objects : o.history => \A k \in 1 .. o.key : Shown(k) \/ History(k) # {}
    BY DEF HistoryInv, GapInv
  <1>1. ASSUME NEW o \in Tracked' \cup UNION {worker'[w].todo : w \in Workers}, o.history
        PROVE  Shown(o.key)'
    <2>1. CASE o \in Tracked \cup UNION {worker[w].todo : w \in Workers}
      <3>1. Shown(o.key) /\ o.key \in Nat
        BY <1>0, <1>1, <2>1, Versions DEF Copies
      <3> QED BY <3>1, ShownStep
    <2>2. CASE o \in objView'
      <3>1. o.key >= o.key
        BY <1>1, <2>2, KeepStep DEF KeepInv, IdInv, Copies, TypeOK
      <3> QED BY <1>1, <2>2, <3>1 DEF Shown
    <2>3. ASSUME NEW w \in Workers
          PROVE  worker'[w].todo \subseteq worker[w].todo \cup Tracked
      <3>1. TypeOK /\ Idle.todo = {}
        BY DEF KeepInv, Idle
      <3> QED BY <3>1, WorkerStep
    <2>4. Tracked' \subseteq Tracked \cup objView'
      <3>1. CASE SeeObject
        BY <3>1 DEF SeeObject, Tracked
      <3>2. SeeObject \/ tracked' \subseteq tracked
        BY DEF Next, CreateRelease, DeleteRelease, Share, StartApply, ApplyOne, CreateHistory,
             PatchStatus, Rollback, GiveUp, SeeRelease, SeeDeletion, Age, Resync, Begin,
             Collect, Scan, Keep, Delete, DeleteFails, Finish, vars, viewVars
      <3> QED BY <3>1, <3>2 DEF Tracked
    <2> QED BY <1>1, <2>1, <2>2, <2>3, <2>4
  <1>2. ASSUME NEW o \in objects', o.history, NEW k \in 1 .. o.key
        PROVE  Shown(k)' \/ History(k)' # {}
    <2>0. k \in Nat
      OBVIOUS
    <2>1. CASE \E w \in Workers : Delete(w)
      <3>1. PICK w \in Workers : Delete(w)
        BY <2>1
      <3>2. PICK q \in worker[w].todo :
               objects' = objects \ SameName(q) /\ (q.history => Shown(q.key))
        BY <3>1, NotTheLatest
      <3>3. Shown(k) \/ History(k) # {}
        BY <1>0, <1>2, <3>2
      <3>4. ASSUME NEW p \in History(k) PROVE Shown(k) \/ p \in objects'
        BY <3>2, <3>4 DEF History, SameName
      <3>5. Shown(k) \/ \E p \in History(k) : p \in objects'
        BY <3>3, <3>4
      <3> QED BY <2>0, <3>5, ShownStep DEF History
    <2>2. CASE CreateHistory
      <3> DEFINE v   == NewVersion(plan.uid)
                 new == [id |-> nextId, history |-> TRUE, key |-> v,
                         names |-> plan.names, owners |-> {plan.uid}]
      <3>1. objects' = objects \cup {new} /\ objView' = objView
        BY <2>2 DEF CreateHistory, viewVars
      <3>2. v = 1 \/ \E h \in HistoriesIn(objView, plan.uid) : v = h.key + 1
        BY NextVersion DEF KeepInv
      <3>3. new.history /\ new.key = v
        OBVIOUS
      <3> HIDE DEF new, v
      <3>4. CASE o = new
        <4>1. CASE k = v
          BY <3>1, <3>3, <4>1 DEF History
        <4>2. ASSUME NEW h \in HistoriesIn(objView, plan.uid), v = h.key + 1, k # v
              PROVE  Shown(k)
          <5>1. h \in objView /\ h.history /\ h.key \in Nat
            BY Versions DEF HistoriesIn, Copies
          <5> QED BY <1>2, <3>3, <3>4, <4>2, <5>1 DEF Shown
        <4>3. v # 1 \/ k = v
          BY <1>2, <3>3, <3>4
        <4> QED BY <2>0, <3>2, <4>1, <4>2, <4>3, ShownStep
      <3>5. CASE o \in objects
        <4>1. Shown(k) \/ History(k) # {}
          BY <1>0, <1>2, <3>5
        <4> QED BY <2>0, <3>1, <4>1, ShownStep DEF History
      <3> QED BY <3>1, <3>4, <3>5
    <2>3. CASE ApplyOne
      <3>1. objects \subseteq objects' /\ (o \in objects \/ ~ o.history)
        BY <2>3 DEF ApplyOne
      <3>2. Shown(k) \/ History(k) # {}
        BY <1>0, <1>2, <3>1
      <3> QED BY <2>0, <3>1, <3>2, ShownStep DEF History
    <2>4. CASE objects' = objects
      <3>1. Shown(k) \/ History(k) # {}
        BY <1>0, <1>2, <2>4
      <3> QED BY <2>0, <2>4, <3>1, ShownStep DEF History
    <2>5. ~ Share
      BY DEF Share, Alone
    <2>6. (\E w \in Workers : Delete(w)) \/ CreateHistory \/ ApplyOne \/ objects' = objects
      BY <2>5 DEF Next, CreateRelease, DeleteRelease, StartApply, PatchStatus, Rollback, GiveUp,
             SeeRelease, SeeObject, SeeDeletion, Age, Resync, Begin, Collect, Scan, Keep,
             DeleteFails, Finish, vars
    <2> QED BY <2>1, <2>2, <2>3, <2>4, <2>6
  <1> QED BY <1>1, <1>2 DEF GapInv

LEMMA GoneStep ==
    ASSUME HistoryLimit # 0, KeepInv, HistoryInv, Alone, [Next]_vars, Alone'
    PROVE  GoneInv'
  <1> SUFFICES ASSUME NEW o \in objView', o.history, \A p \in objects' : p.id # o.id,
                      ~ Shown(o.key + 1)'
               PROVE  \E d \in removed', p \in objects' :
                        d.id = o.id /\ p.id < d.next /\ p.history /\ p.key > o.key
    BY DEF GoneInv
  <1>0. o.key \in Nat
    BY KeepStep, Versions DEF KeepInv, IdInv, Copies, TypeOK
  <1>1. o \in objView
    BY DEF Next, CreateRelease, DeleteRelease, Share, StartApply, ApplyOne, CreateHistory,
           PatchStatus, Rollback, GiveUp, SeeRelease, SeeObject, SeeDeletion, Age, Resync, Begin,
           Collect, Scan, Keep, Delete, DeleteFails, Finish, vars, viewVars
  <1>2. ~ Shown(o.key + 1)
    BY <1>0, ShownStep
  <1>3. CASE \E p \in objects : p.id = o.id
    <2>1. PICK p \in objects : p.id = o.id
      BY <1>3
    <2>2. p.history /\ p.key = o.key
      BY <1>1, <2>1 DEF KeepInv, IdInv, Copies, Same
    <2>3. p \in Deleted
      BY <2>1 DEF Deleted
    <2>4. PICK w \in Workers : Delete(w)
      <3>1. ~ Share
        BY DEF Share, Alone
      <3> QED BY <2>1, <3>1 DEF Next, CreateRelease, DeleteRelease, StartApply, ApplyOne,
                 CreateHistory, PatchStatus, Rollback, GiveUp, SeeRelease, SeeObject, SeeDeletion,
                 Age, Resync, Begin, Collect, Scan, Keep, DeleteFails, Finish, vars
    <2>5. PICK q \in worker[w].todo :
             /\ objects' = objects \ SameName(q)
             /\ removed' = removed \cup Departed(SameName(q))
             /\ q.history =>
                  /\ Shown(q.key) /\ q.key + HistoryLimit <= rel.version
                  /\ \E r \in objects' : r.history /\ r.key >= rel.version
      BY <2>4, NotTheLatest
    <2>6. p \in SameName(q)
      BY <2>1, <2>5
    <2>7. q.history /\ q.key = o.key
      BY <2>2, <2>6 DEF SameName
    <2>8. PICK r \in objects' : r.history /\ r.key >= rel.version
      BY <2>5, <2>7
    <2>9. r \in objects /\ r.id < nextId /\ r.key \in Nat
      BY <2>5, <2>8, Versions
    <2>10. r.key > o.key
      BY <1>0, <2>5, <2>7, <2>8, <2>9, Versions
    <2>11. [id |-> o.id, next |-> nextId] \in removed'
      BY <2>1, <2>2, <2>5, <2>6 DEF Departed
    <2> QED BY <2>8, <2>9, <2>10, <2>11
  <1>4. CASE \A p \in objects : p.id # o.id
    <2>1. PICK d \in removed, p \in objects :
            d.id = o.id /\ p.id < d.next /\ p.history /\ p.key > o.key
      BY <1>1, <1>2, <1>4 DEF HistoryInv, GoneInv
    <2>2. p.key \in Nat
      BY <2>1, Versions
    <2>3. d \in removed'
      <3>1. CASE SeeDeletion
        <4>1. PICK x \in objView : objView' = objView \ {x} /\ removed' = {e \in removed : e.id # x.id}
          BY <3>1 DEF SeeDeletion
        <4>2. o # x
          BY <4>1
        <4>3. o.id # x.id
          BY <1>1, <4>2 DEF KeepInv, IdInv
        <4> QED BY <2>1, <4>1, <4>3
      <3>2. SeeDeletion \/ removed \subseteq removed'
        BY DEF Next, CreateRelease, DeleteRelease, Share, StartApply, ApplyOne, CreateHistory,
               PatchStatus, Rollback, GiveUp, SeeRelease, SeeObject, Age, Resync, Begin, Collect,
               Scan, Keep, Delete, DeleteFails, Finish, vars, viewVars
      <3> QED BY <3>1, <3>2
    <2>4. p \in objects'
      <3>1. CASE \E w \in Workers : Delete(w)
        <4>1. PICK w \in Workers : Delete(w)
          BY <3>1
        <4>2. PICK q \in worker[w].todo :
                 objects' = objects \ SameName(q) /\ (q.history => Shown(q.key))
          BY <4>1, NotTheLatest
        <4>3. ASSUME p \in SameName(q) PROVE FALSE
          <5>1. Shown(p.key)
            BY <2>1, <4>2, <4>3 DEF SameName
          <5>2. PICK y \in objView : y.history /\ y.key >= p.key
            BY <5>1 DEF Shown
          <5>3. y.key \in Nat
            BY <5>2, Versions DEF Copies
          <5>4. y.key >= o.key + 1
            BY <1>0, <2>1, <2>2, <5>2, <5>3
          <5> QED BY <1>2, <5>2, <5>4 DEF Shown
        <4> QED BY <4>2, <4>3
      <3>2. (\E w \in Workers : Delete(w)) \/ objects \subseteq objects'
        <4>1. ~ Share
          BY DEF Share, Alone
        <4> QED BY <4>1 DEF Next, CreateRelease, DeleteRelease, StartApply, ApplyOne,
                 CreateHistory, PatchStatus, Rollback, GiveUp, SeeRelease, SeeObject, SeeDeletion,
                 Age, Resync, Begin, Collect, Scan, Keep, DeleteFails, Finish, vars
      <3> QED BY <3>1, <3>2
    <2> QED BY <2>1, <2>3, <2>4
  <1> QED BY <1>3, <1>4

(* It begins with nothing at all.                                          *)
LEMMA FirstOfItsName ==
    ASSUME KeepInv, [Next]_vars, ~ Alone, Alone'
    PROVE  HistoryInv'
  <1>1. /\ TypeOK /\ rollbacks' = 0 /\ shares' = 0 /\ used' = {rel'.uid}
        /\ rollbacks \in Nat /\ shares \in Nat
    BY DEF Alone, KeepInv, TypeOK
  <1>2. rollbacks = 0 /\ shares = 0
    <2>1. Change
      BY ChangeStep DEF KeepInv
    <2>2. rollbacks' = rollbacks \/ rollbacks' = rollbacks + 1
      BY DEF Next, CreateRelease, DeleteRelease, Share, StartApply, ApplyOne, CreateHistory,
             PatchStatus, Rollback, GiveUp, SeeRelease, SeeObject, SeeDeletion, Age, Resync, Begin,
             Collect, Scan, Keep, Delete, DeleteFails, Finish, vars, handlerVars
    <2> QED BY <1>1, <2>1, <2>2 DEF Change
  <1>3. CreateRelease
    <2>1. (used' = used /\ (rel'.uid = rel.uid \/ rel' = Nothing)) \/ CreateRelease
      <3>1. CASE DeleteRelease
        BY <3>1 DEF DeleteRelease, handlerVars
      <3>2. CASE PatchStatus \/ Rollback
        BY <1>1, <3>2 DEF PatchStatus, Rollback, TypeOK, Release, Nothing
      <3> QED BY <3>1, <3>2 DEF Next, Share, StartApply, ApplyOne, CreateHistory, GiveUp,
                 SeeRelease, SeeObject, SeeDeletion, Age, Resync, Begin, Collect, Scan, Keep,
                 Delete, DeleteFails, Finish, vars, handlerVars
    <2>2. rel' # Nothing
      BY <1>1, KeepStep, CollectorAssumption DEF KeepInv, TypeOK, Nothing
    <2> QED BY <1>1, <1>2, <2>1, <2>2 DEF Alone
  <1>4. used = {}
    BY <1>1, <1>3 DEF CreateRelease
  <1>5. objects = {} /\ Copies = {} /\ plan = NoPlan /\ relView = Nothing
    BY <1>1, <1>4, Shapes DEF KeepInv, OwnerInv
  <1>6. \A w \in Workers : worker[w] = Idle
    BY <1>4 DEF KeepInv, OwnerInv
  <1>7. /\ objects' = {} /\ Copies' = {} /\ plan' = NoPlan /\ relView' = Nothing /\ rel'.version = 0
        /\ \A w \in Workers : worker'[w] = Idle
    BY <1>3, <1>5, <1>6, SameCopies DEF CreateRelease, viewVars
  <1>8. LaterInv' /\ LatestInv'
    BY <1>7 DEF LaterInv, LatestInv, Idle, Nothing, NoPlan
  <1>9. GapInv' /\ GoneInv'
    BY <1>7 DEF GapInv, GoneInv, Copies
  <1> QED BY <1>8, <1>9 DEF HistoryInv

(* As long as a release is not rolled back, is the first of its name and   *)
(* shares nothing, none of its latest HistoryLimit histories is deleted    *)
(* (HistoriesKept, of GarbageCollector.ifRetainHistory), however late any  *)
(* informer is.  With a limit of 0 even the latest history may go; the     *)
(* numbers then begin anew, and Status.Version falls below the one that a  *)
(* goroutine still judges by.                                              *)
THEOREM HistoriesKeptHolds ==
    ASSUME HistoryLimit # 0
    PROVE  Spec => HistoriesKept
  <1>1. Init => HistoryInv
    BY CollectorAssumption DEF Init, HistoryInv, Alone, Nothing
  <1>2. KeepInv /\ HistoryInv /\ [Next]_vars => HistoryInv'
    BY LaterStep, LatestStep, GapStep, GoneStep, FirstOfItsName DEF HistoryInv
  <1>3. ASSUME KeepInv, HistoryInv, [Next]_vars, Alone, NEW o \in Deleted, o.history,
               o.owners = {rel.uid}
        PROVE  o.key + HistoryLimit <= rel.version
    <2>1. PICK w \in Workers : \E q \in worker[w].todo :
             /\ worker[w].pc = "loop" /\ q.id = o.id /\ Same(q, o)
             /\ ~ Keeps(w, q) /\ q.owners = {worker[w].uid}
      BY <1>3, OnlyDelete DEF KeepInv
    <2>2. PICK q \in worker[w].todo : worker[w].pc = "loop" /\ Same(q, o) /\ ~ Keeps(w, q)
      BY <2>1
    <2>3. q.history /\ q.key = o.key /\ worker[w].alive
      BY <1>3, <2>2, AllIsIts DEF Same
    <2>4. ~ (o.key + HistoryLimit > worker[w].version) /\ worker[w].version <= rel.version
      BY <1>3, <2>2, <2>3 DEF Keeps, Retain, HistoryInv, LaterInv
    <2>5. o.key \in Nat
      BY <1>3, Versions DEF Deleted
    <2> QED BY <1>3, <2>4, <2>5, Versions
  <1>4. KeepInv /\ HistoryInv /\ [Next]_vars =>
          [rollbacks = 0 /\ shares = 0 /\ used = {rel.uid}
             => \A o \in Deleted : o.history /\ o.owners = {rel.uid}
                                     => o.key + HistoryLimit <= rel.version]_vars
    BY <1>3 DEF Alone
  <1> QED BY <1>1, <1>2, <1>4, KeepHolds, PTL DEF Spec, HistoriesKept
===============================================================================
