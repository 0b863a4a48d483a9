------------------------ MODULE ControllerStartProofs ------------------------
(***************************************************************************)
(* What TLAPS proves of ControllerStart, for any kinds, any lists of       *)
(* controllers and any number of goroutines: in whatever order things      *)
(* start, and whatever process is started again, no controller works on a  *)
(* cache that has not been filled.                                         *)
(***************************************************************************)
EXTENDS ControllerStart, TLAPS

-------------------------------------------------------------------------------
(* The store holds back what has not been filled.  The constructor of the  *)
(* collector has waited for all kinds that come before the one it asks     *)
(* for.                                                                    *)
StoreInv ==
    IF lock = None THEN stored \subseteq hasSynced
    ELSE want[lock] \in stored /\ stored \ {want[lock]} \subseteq hasSynced

AskedInv ==
    want["main"] # None =>
        /\ "gc" \in enabled
        /\ \E i \in 1 .. Len(Targets) :
             want["main"] = Targets[i] /\ \A j \in 1 .. i - 1 : Targets[j] \in hasSynced

FilledInv ==
    /\ "gc" \in running => ToSet(Targets) \subseteq hasSynced
    /\ \A c \in active \ {"gc"} : Awaited(c) \subseteq hasSynced

(* EnsureCRD creates one of the kinds that are left.                       *)
EnsuredInv == main = "create" => ensured < Len(CRDs)

StartInv == StartOK /\ EnsuredInv /\ StoreInv /\ AskedInv /\ FilledInv

-------------------------------------------------------------------------------
(* The collector's workers and resync.                                     *)
LEMMA ResyncType ==
    ASSUME TypeOK, Event \/ Resync \/ NextRound \/ (\E w \in Workers : Step(w)) \/ UNCHANGED vars
    PROVE  TypeOK'
  <1> USE ResyncAssumption DEF TypeOK
  <1>1. CASE Event
    BY <1>1 DEF Event
  <1>2. CASE Resync
    BY <1>2 DEF Resync, Batch, Idle
  <1>3. CASE NextRound
    BY <1>3 DEF NextRound
  <1>4. ASSUME NEW w \in Workers, Step(w) PROVE TypeOK'
    <2>1. CASE Get(w)
      BY <2>1 DEF Get, Places
    <2>2. CASE Load(w)
      BY <2>2 DEF Load, Places
    <2>3. CASE Increment(w)
      BY <2>3 DEF Increment, Places
    <2>4. CASE Collect(w)
      BY <2>4 DEF Collect, Places
    <2>5. CASE Decrement(w)
      BY <2>5 DEF Decrement, Places
    <2> QED BY <1>4, <2>1, <2>2, <2>3, <2>4, <2>5 DEF Step
  <1>5. CASE UNCHANGED vars
    BY <1>5 DEF vars
  <1> QED BY <1>1, <1>2, <1>3, <1>4, <1>5

LEMMA FirstTarget ==
    /\ Len(Targets) \in Nat \ {0} /\ DOMAIN Targets = 1 .. Len(Targets)
    /\ \A i \in 1 .. Len(Targets) : Targets[i] \in Kinds
    /\ ToSet(Targets) = {Targets[i] : i \in 1 .. Len(Targets)}
    /\ 1 \in 1 .. Len(Targets)
  BY StartAssumption DEF StartAssumption, ToSet

(* A process that starts again.                                            *)
LEMMA RestartStep ==
    ASSUME StartInv, Restart
    PROVE  StartInv'
  <1>1. TypeOK'
    <2>1. /\ queue' = 0 /\ working' = 0 /\ synced' = 0 /\ events' = 0 /\ lost' = FALSE
          /\ pc' = [w \in Workers |-> "get"] /\ seen' = [w \in Workers |-> 0]
      BY DEF Restart
    <2>2. MaxQueue \in Nat /\ Known \in Nat /\ MaxEvents \in Nat
      BY ResyncAssumption DEF ResyncAssumption
    <2>3. lost' \in BOOLEAN
      BY <2>1, Zenon
    <2>4. pc' \in [Workers -> Places] /\ seen' \in [Workers -> Int]
      BY <2>1 DEF Places
    <2>5. queue' \in 0 .. MaxQueue /\ working' \in Int /\ synced' \in 0 .. Known
          /\ events' \in 0 .. MaxEvents
      BY <2>1, <2>2
    <2> QED BY <2>3, <2>4, <2>5 DEF TypeOK
  <1>2. StartOK'
    <2>1. Len(CRDs) \in Nat
      BY StartAssumption DEF StartAssumption
    <2> QED BY <1>1, <2>1 DEF Restart, StartInv, StartOK
  <1>3. EnsuredInv' /\ StoreInv' /\ AskedInv' /\ FilledInv'
    BY DEF Restart, StoreInv, AskedInv, FilledInv, EnsuredInv, Callers
  <1> QED BY <1>2, <1>3 DEF StartInv

(* A caller of informerFor that has got what it asked for, which has been  *)
(* filled, when no one holds the lock any more.                            *)
LEMMA ReturnStep ==
    ASSUME StartInv, NEW u \in Callers, Return(u), want[u] # None,
           u = "main" => want[u] \in hasSynced,
           UNCHANGED <<vars, cluster, boot, active, factory, stored>>,
           lock' = None, stored \subseteq hasSynced
    PROVE  StartInv'
  <1>0. /\ want \in [Callers -> Kinds \union {None}] /\ "main" \in Callers
        /\ UNCHANGED <<enabled, crds, served, main, ensured, known, registered, started, hasSynced>>
    BY DEF StartInv, StartOK, Callers, cluster, boot, factory
  <1>1. CASE u # "main"
    <2>1. want' = [want EXCEPT ![u] = None] /\ running' = running
      BY <1>1 DEF Return
    <2>2. want' \in [Callers -> Kinds \union {None}] /\ want'["main"] = want["main"]
      BY <1>0, <1>1, <2>1
    <2>3. TypeOK'
      BY ResyncType DEF StartInv, StartOK
    <2> QED BY <1>0, <2>1, <2>2, <2>3
               DEF StartInv, StartOK, StoreInv, AskedInv, FilledInv, EnsuredInv
  <1>2. CASE u = "main"
    <2>1. PICK i \in 1 .. Len(Targets) :
            want["main"] = Targets[i] /\ \A j \in 1 .. i - 1 : Targets[j] \in hasSynced
      BY <1>2 DEF StartInv, AskedInv
    <2>2. (CHOOSE k \in 1 .. Len(Targets) : Targets[k] = want["main"]) = i
      BY <2>1, FirstTarget, StartAssumption DEF StartAssumption, IsInjective
    <2>3. \A j \in 1 .. i : Targets[j] \in hasSynced
      BY <1>2, <2>1
    <2>4. "gc" \in enabled
      BY <1>2 DEF StartInv, AskedInv
    <2>5. TypeOK'
      BY ResyncType DEF StartInv, StartOK
    <2>6. CASE i < Len(Targets)
      <3>1. want' = [want EXCEPT !["main"] = Targets[i + 1]] /\ running' = running
        BY <1>2, <2>2, <2>6 DEF Return
      <3>2. i + 1 \in 1 .. Len(Targets) /\ 1 .. (i + 1) - 1 = 1 .. i
        BY <2>6, FirstTarget
      <3>3. want' \in [Callers -> Kinds \union {None}] /\ want'["main"] = Targets[i + 1]
        BY <1>0, <3>1, <3>2, FirstTarget
      <3> QED BY <1>0, <2>3, <2>4, <2>5, <3>1, <3>2, <3>3
              DEF StartInv, StartOK, StoreInv, AskedInv, FilledInv, EnsuredInv
    <2>7. CASE ~ (i < Len(Targets))
      <3>1. want' = [want EXCEPT !["main"] = None] /\ running' = running \union {"gc"}
        BY <1>2, <2>2, <2>7 DEF Return
      <3>2. want' \in [Callers -> Kinds \union {None}] /\ want'["main"] = None
        BY <1>0, <3>1
      <3>3. ToSet(Targets) \subseteq hasSynced
        BY <2>3, <2>7, FirstTarget
      <3> QED BY <1>0, <2>4, <2>5, <3>1, <3>2, <3>3
              DEF StartInv, StartOK, StoreInv, AskedInv, FilledInv, EnsuredInv
    <2> QED BY <2>6, <2>7
  <1> QED BY <1>1, <1>2

(* Every step of the process keeps StartInv.                               *)
LEMMA StartStep ==
    ASSUME StartInv, [NextStart]_all
    PROVE  StartInv'
  <1> DEFINE Rest == UNCHANGED <<cluster, boot, running, active, factory, store>>
  <1>0. /\ want \in [Callers -> Kinds \union {None}] /\ "main" \in Callers
        /\ None \notin Kinds /\ stored \subseteq Kinds /\ enabled \subseteq Controllers
        /\ Len(CRDs) \in Nat /\ \A i \in 1 .. Len(CRDs) : CRDs[i] \in Defined
    <2>1. Len(CRDs) \in Nat /\ DOMAIN CRDs = 1 .. Len(CRDs)
      BY StartAssumption DEF StartAssumption
    <2> QED BY <2>1, StartAssumption
               DEF StartInv, StartOK, StartAssumption, Callers, Defined, ToSet
  <1>1. ASSUME UNCHANGED vars PROVE TypeOK'
    BY <1>1, ResyncType DEF StartInv, StartOK
  <1>2. CASE Rival \/ Serve
    <2>1. TypeOK' /\ UNCHANGED <<enabled, boot, running, active, factory, store>>
      BY <1>1, <1>2 DEF Rival, Serve
    <2>2. crds' \subseteq Defined /\ served' \subseteq crds'
      BY <1>2 DEF Rival, Serve, StartInv, StartOK
    <2> QED BY <2>1, <2>2
               DEF StartInv, StartOK, EnsuredInv, StoreInv, AskedInv, FilledInv,
                   boot, factory, store
  <1>3. CASE GetCRD
    <2>1. TypeOK' /\ UNCHANGED <<cluster, known, running, active, factory, store>>
      BY <1>1, <1>3 DEF GetCRD
    <2>2. /\ main' \in {"get", "create", "discover", "start", "serve"}
          /\ ensured' \in 0 .. Len(CRDs)
          /\ main' = "create" => ensured' < Len(CRDs)
      BY <1>0, <1>3 DEF GetCRD, StartInv, StartOK
    <2> QED BY <2>1, <2>2
           
               DEF StartInv, StartOK, EnsuredInv, StoreInv, AskedInv, FilledInv,
                   cluster, factory, store
  <1>4. CASE CreateCRD
    <2>1. CASE Restart
      BY <2>1, RestartStep
    <2>2. CASE ~ Restart
      <3>1. /\ TypeOK' /\ UNCHANGED <<enabled, served, known, running, active, factory, store>>
            /\ crds' = crds \union {CRDs[ensured + 1]} /\ ensured' = ensured + 1 /\ main' = "get"
        BY <1>1, <1>4, <2>2 DEF CreateCRD
      <3>2. ensured + 1 \in 1 .. Len(CRDs)
        BY <1>0, <1>4 DEF CreateCRD, StartInv, StartOK, EnsuredInv
      <3>3. crds' \subseteq Defined /\ served' \subseteq crds' /\ ensured' \in 0 .. Len(CRDs)
        BY <1>0, <3>1, <3>2 DEF StartInv, StartOK
      <3> QED BY <3>1, <3>3
                 DEF StartInv, StartOK, EnsuredInv, StoreInv, AskedInv, FilledInv,
                     factory, store
    <2> QED BY <2>1, <2>2
  <1>5. CASE Discover \/ StartFactory
    <2>1. TypeOK' /\ UNCHANGED <<cluster, ensured, running, active, registered, hasSynced, store>>
      BY <1>1, <1>5 DEF Discover, StartFactory, factory
    <2>2. /\ main' \in {"start", "serve"} /\ known' \subseteq Kinds
          /\ started' \subseteq registered /\ started \subseteq started'
      BY <1>5 DEF Discover, StartFactory, factory, StartInv, StartOK, Kinds
    <2> QED BY <2>1, <2>2
            DEF StartInv, StartOK, StoreInv, AskedInv, FilledInv, EnsuredInv, cluster, store
  <1>6. CASE StartController
    <2>1. TypeOK' /\ UNCHANGED <<cluster, boot, active, started, hasSynced, stored, lock>>
      BY <1>1, <1>6 DEF StartController, StartRelease, StartStatus, StartGC, factory, store
    <2>2. "Release" \in Kinds /\ StatusKinds \subseteq Kinds
      BY StartAssumption DEF StartAssumption, Kinds
    <2>3. CASE StartRelease \/ StartStatus
      <3>1. /\ running \subseteq running' /\ running' \subseteq enabled /\ want' = want
            /\ "gc" \in running' => "gc" \in running
            /\ registered \subseteq registered' /\ registered' \subseteq Kinds
        BY <1>6, <2>2, <2>3
           DEF StartController, StartRelease, StartStatus, StartGC, store, StartInv, StartOK
      <3> QED BY <2>1, <3>1
              DEF StartInv, StartOK, StoreInv, AskedInv, FilledInv, EnsuredInv, cluster, boot
    <2>4. CASE "gc" \in enabled /\ StartGC
      <3>1. want["main"] = None /\ want' = [want EXCEPT !["main"] = Targets[1]]
            /\ UNCHANGED <<running, factory>>
        BY <1>6, <2>4 DEF StartController, StartGC
      <3>2. /\ want' \in [Callers -> Kinds \union {None}] /\ want'["main"] = Targets[1]
            /\ \A u \in Callers \ {"main"} : want'[u] = want[u]
        BY <1>0, <3>1, FirstTarget
      <3>3. lock # "main"
        <4>1. lock = "main" => want[lock] \in stored
          BY DEF StartInv, StoreInv, None
        <4> QED BY <1>0, <3>1, <4>1
      <3>4. lock' \in (Callers \ {"main"}) \union {None}
        BY <2>1, <3>3 DEF StartInv, StartOK
      <3>5. StoreInv'
        BY <2>1, <3>1, <3>2, <3>4 DEF StartInv, StoreInv, factory
      <3>6. AskedInv'
        BY <2>1, <2>4, <3>2, FirstTarget DEF AskedInv, cluster
      <3> QED BY <2>1, <3>1, <3>2, <3>5, <3>6
              DEF StartInv, StartOK, FilledInv, EnsuredInv, cluster, boot, factory
    <2> QED BY <1>6, <2>3, <2>4 DEF StartController
  <1>7. CASE \E k \in Kinds : Sync(k)
    <2>1. /\ TypeOK' /\ UNCHANGED <<cluster, boot, running, active, registered, started, store>>
          /\ hasSynced \subseteq hasSynced' /\ hasSynced' \subseteq started
      BY <1>1, <1>7 DEF Sync, StartInv, StartOK
    <2> QED BY <2>1
               DEF StartInv, StartOK, EnsuredInv, StoreInv, AskedInv, FilledInv,
                   cluster, boot, store
  <1>8. ASSUME NEW u \in Callers, NEW k \in ToSet(Targets), Ask(u, k) PROVE StartInv'
    <2>1. /\ TypeOK' /\ UNCHANGED <<cluster, boot, running, active, factory, stored, lock>>
          /\ want[u] = None /\ want' = [want EXCEPT ![u] = k] /\ u \in active
      BY <1>1, <1>8 DEF Ask
    <2>2. u # "main"
      BY <1>0, <2>1 DEF StartInv, StartOK, Controllers
    <2>3. k \in Kinds
      BY FirstTarget
    <2>4. /\ want' \in [Callers -> Kinds \union {None}]
          /\ \A x \in Callers \ {u} : want'[x] = want[x]
      BY <1>0, <2>1, <2>3
    <2>5. lock # u /\ lock \in Callers \union {None}
      BY <1>0, <2>1 DEF StartInv, StartOK, StoreInv, None, Callers
    <2>6. StoreInv'
      BY <2>1, <2>4, <2>5 DEF StartInv, StoreInv, factory
    <2>7. AskedInv'
      BY <1>0, <2>1, <2>2, <2>4 DEF StartInv, AskedInv, cluster, factory
    <2> QED BY <2>1, <2>4, <2>6, <2>7
               DEF StartInv, StartOK, FilledInv, EnsuredInv, cluster, boot, factory
  <1>9. ASSUME NEW u \in Callers, InformerFor(u) PROVE StartInv'
    <2>1. CASE Unknown(u)
      <3>1. CASE u = "main"
        BY <2>1, <3>1, RestartStep DEF Unknown
      <3>2. CASE u # "main"
        <4>1. /\ Return(u) /\ want[u] # None /\ lock = None
              /\ UNCHANGED <<vars, cluster, boot, active, factory, stored, lock>>
          BY <2>1, <3>2 DEF Unknown
        <4> QED BY <3>2, <4>1, ReturnStep DEF StartInv, StoreInv
      <3> QED BY <3>1, <3>2
    <2>2. CASE Find(u)
      <3>1. /\ Return(u) /\ want[u] \in stored /\ lock = None
            /\ UNCHANGED <<vars, cluster, boot, active, factory, stored, lock>>
        BY <2>2 DEF Find
      <3>2. stored \subseteq hasSynced
        BY <3>1 DEF StartInv, StoreInv
      <3> QED BY <1>0, <3>1, <3>2, ReturnStep
    <2>3. CASE Wait(u)
      <3>1. /\ Return(u) /\ lock = u /\ want[u] \in hasSynced /\ lock' = None
            /\ UNCHANGED <<vars, cluster, boot, active, factory, stored>>
        BY <2>3 DEF Wait
      <3>2. u # None
        BY DEF Callers, None
      <3>3. stored \subseteq hasSynced /\ want[u] # None
        BY <1>0, <3>1, <3>2 DEF StartInv, StoreInv
      <3> QED BY <3>1, <3>3, ReturnStep
    <2>4. CASE Add(u)
      <3>1. /\ want[u] \in known \ stored /\ lock = None /\ lock' = u
            /\ registered' = registered \union {want[u]} /\ started' = registered'
            /\ stored' = stored \union {want[u]}
            /\ UNCHANGED <<cluster, boot, running, active, hasSynced, want>> /\ TypeOK'
        BY <1>1, <2>4 DEF Add
      <3>2. u # None /\ want[u] \in Kinds
        BY <3>1 DEF Callers, None, StartInv, StartOK
      <3>3. StoreInv'
        BY <3>1, <3>2 DEF StartInv, StoreInv
      <3> QED BY <3>1, <3>2, <3>3
                 DEF StartInv, StartOK, AskedInv, FilledInv, EnsuredInv, cluster, boot
    <2> QED BY <1>9, <2>1, <2>2, <2>3, <2>4 DEF InformerFor
  <1>10. ASSUME NEW c \in Controllers, Activate(c) PROVE StartInv'
    <2>1. TypeOK' /\ UNCHANGED <<cluster, boot, running, factory, store>>
      BY <1>1, <1>10 DEF Activate
    <2> QED BY <1>10, <2>1
               DEF Activate, StartInv, StartOK, StoreInv, AskedInv, FilledInv, EnsuredInv, cluster,
                               boot, factory, store
  <1>11. ASSUME TypeOK', Rest PROVE StartInv'
    BY <1>11
       DEF StartInv, StartOK, EnsuredInv, StoreInv, AskedInv, FilledInv,
           cluster, boot, factory, store
  <1>12. CASE Enqueue \/ Round \/ Again \/ \E w \in Workers : Work(w)
    <2>1. Event \/ Resync \/ NextRound \/ (\E w \in Workers : Step(w))
      BY <1>12 DEF Enqueue, Round, Again, Work, Process
    <2>2. Rest
      BY <1>12 DEF Enqueue, Round, Again, Work, Process
    <2>3. TypeOK'
      BY <2>1, ResyncType DEF StartInv, StartOK
    <2> QED BY <1>11, <2>2, <2>3
  <1>13. CASE UNCHANGED all
    BY <1>1, <1>11, <1>13 DEF all
  <1> QED BY <1>2, <1>3, <1>4, <1>5, <1>6, <1>7, <1>8, <1>9, <1>10, <1>12, <1>13
          DEF NextStart, Boot

LEMMA StartInit == InitStart => StartInv
  <1> SUFFICES ASSUME InitStart PROVE StartInv
    OBVIOUS
  <1>1. TypeOK
    <2>1. MaxQueue \in Nat /\ Known \in Nat /\ MaxEvents \in Nat
      BY ResyncAssumption DEF ResyncAssumption
    <2>2. lost \in BOOLEAN
      BY Zenon DEF InitStart, Init
    <2>3. pc \in [Workers -> Places] /\ seen \in [Workers -> Int]
      BY DEF InitStart, Init, Places
    <2> QED BY <2>1, <2>2, <2>3 DEF InitStart, Init, TypeOK
  <1>2. StartOK
    <2>1. Len(CRDs) \in Nat
      BY StartAssumption DEF StartAssumption
    <2> QED BY <1>1, <2>1 DEF InitStart, Fresh, StartOK
  <1> QED BY <1>2
             DEF InitStart, Fresh, StartInv, StoreInv, AskedInv, FilledInv, EnsuredInv, Callers

LEMMA StartHolds == SpecStart => []StartInv
  BY StartInit, StartStep, PTL DEF SpecStart

(* Every variable of a process, and of one that starts again, keeps to its *)
(* type; only controllers that are asked for run, only those that run      *)
(* work, and the store has none but informers the factory has made         *)
(* (StartOK, of StartControllers and informerFor).                         *)
THEOREM StartCorrect == SpecStart => []StartOK
  BY StartHolds, PTL DEF StartInv

(* No controller works on a cache that has not been filled, and the store  *)
(* gives none away (NothingUnsynced, of integrationStore.informerFor, the  *)
(* controllers' Run and NewGarbageCollector).                              *)
THEOREM NothingUnsyncedHolds == SpecStart => []NothingUnsynced
  <1>1. StartInv => NothingUnsynced
    <2> SUFFICES ASSUME StartInv PROVE NothingUnsynced
      OBVIOUS
    <2>1. ASSUME NEW c \in active PROVE Reads(c) \subseteq hasSynced
      BY DEF StartInv, FilledInv, StartOK, Reads
    <2>2. lock = None => stored \subseteq hasSynced
      BY DEF StartInv, StoreInv
    <2> QED BY <2>1, <2>2 DEF NothingUnsynced
  <1> QED BY <1>1, StartHolds, PTL
=============================================================================
