-------------------------- MODULE ResourceClientProofs -------------------------
(***************************************************************************)
(* Theorems of ResourceClient, for any specs, addresses, kinds and bounds. *)
(*                                                                         *)
(* What is known of the object anywhere (on the server, on its way to the  *)
(* informer, in the layer, in the hands of Apply or of another reader) is  *)
(* told apart by its version (VersionInv); so a copy of the server's       *)
(* version is the server's object, and what was judged of it is true of    *)
(* that (ApplyInv).  And as long as the layer has lost nothing, an object  *)
(* that this release has written is either in the layer or on its way to   *)
(* stay in the informer (SteadyInv).                                       *)
(***************************************************************************)
EXTENDS ResourceClient, TLAPS

(* o is a version somebody has.                                            *)
Known(o) ==
    \/ o \in {server, view, overlay, seen, copy, reader.seen}
    \/ \E i \in 1 .. Len(pending) : pending[i] = o

(* Later versions have greater numbers, but for the gaps a deletion leaves.*)
Ordered ==
    /\ \A i \in 1 .. Len(pending) :
         pending[i] # NoObject => view.version < pending[i].version
    /\ \A i, j \in 1 .. Len(pending) :
         i < j /\ pending[j] # NoObject => pending[i].version < pending[j].version

VersionInv ==
    /\ \A o \in Object : Known(o) /\ o # NoObject =>
         o.version \in 1 .. rv /\ o.uid \in 1 .. rv /\ o.second # 0
    /\ \A o, p \in Object : Known(o) /\ Known(p) /\ o.version = p.version => o = p
    /\ Ordered
    /\ second # 0

(* What Apply has judged, and what it has done to the pods so far.         *)
ApplyInv ==
    /\ pc \in {"update", "shrink", "pods", "finish"} => copy.mine
    /\ pc = "update" /\ kind = "Deployment" => ~ Decreasing(copy)
    /\ pc \in {"pods", "finish"} /\ server.mine => server.mark /\ server.ips = Listed(job)
    /\ pc = "finish" => pods \subseteq Listed(job)
    /\ server.mine \/ pods = {}
    /\ kind # "Deployment" => server.ips = {} /\ pods = {}

(* An object that is this release's, and of which nothing was lost, is not *)
(* missing behind the layer's entry, and without an entry nowhere.         *)
SteadyInv ==
    server.mine /\ ~ forgot =>
        /\ view.version >= overlay.version =>
             \A i \in 1 .. Len(pending) : pending[i] # NoObject
        /\ \A i, j \in 1 .. Len(pending) :
             i < j /\ pending[i].version >= overlay.version => pending[j] # NoObject
        /\ overlay = NoObject => view # NoObject /\ (pc = "look" => seen # NoObject)

-------------------------------------------------------------------------------
(* The type of an object, and of what Apply and others make of one.        *)
LEMMA ObjectType ==
    /\ NoObject \in Object
    /\ \A o \in Object : /\ o.uid \in Nat /\ o.second \in Nat /\ o.version \in Nat
                         /\ o.mine \in BOOLEAN /\ o.spec \in Specs \cup {NoSpec}
                         /\ o.ips \subseteq Addresses /\ o.mark \in BOOLEAN
    /\ NoObject.uid = 0 /\ NoObject.version = 0 /\ NoObject.second = 0
    /\ ~ NoObject.mine /\ ~ NoObject.mark /\ NoObject.ips = {}
  BY DEF Object, NoObject

LEMMA Made ==
    ASSUME TypeOK
    PROVE  /\ Listed(job) \subseteq Addresses
           /\ New(job) \in Object
           /\ [NoObject EXCEPT !.uid = rv + 1, !.second = second] \in Object
           /\ Overwritten \in Object /\ Marked \in Object
<1>1. /\ rv \in Nat /\ second \in Nat /\ server \in Object /\ copy \in Object
      /\ job \in Specs
  BY DEF TypeOK
<1>2. Listed(job) \subseteq Addresses
  BY <1>1, ClientAssumption DEF Listed
<1>3. New(job) \in Object
  BY <1>1, <1>2 DEF New, Object
<1>4. [NoObject EXCEPT !.uid = rv + 1, !.second = second] \in Object
  <2>1. \A o \in Object, u \in Nat, t \in Nat :
          [o EXCEPT !.uid = u, !.second = t] \in Object
    BY DEF Object
  <2>2. NoObject \in Object /\ rv + 1 \in Nat /\ second \in Nat
    BY <1>1, ObjectType
  <2>3. QED
    BY ONLY <2>1, <2>2, Zenon
<1>5. Overwritten \in Object
  BY <1>1, <1>2 DEF Overwritten, Object
<1>6. Marked \in Object
  BY <1>1, <1>2 DEF Marked, Object
<1>7. QED
  BY <1>2, <1>3, <1>4, <1>5, <1>6

(* Whether the server takes a new version or finds nothing changed, what   *)
(* it has then says what it was asked to say.                              *)
SaysTheSame(o, p) ==
    /\ o.uid = p.uid /\ o.second = p.second /\ o.mine = p.mine
    /\ o.spec = p.spec /\ o.ips = p.ips /\ o.mark = p.mark

LEMMA Stored ==
    ASSUME TypeOK, NEW new \in Object, Store(new)
    PROVE  /\ server' \in Object /\ rv' \in Nat
           /\ pending' \in Seq(Object) /\ Len(pending') <= MaxPending
           /\ SaysTheSame(server', new)
           /\ \/ UNCHANGED <<server, rv, pending>>
              \/ /\ rv' = rv + 1 /\ pending' = Append(pending, server')
                 /\ pending' # <<>> /\ server' = pending'[Len(pending')]
                 /\ \/ server' = NoObject /\ new = NoObject
                    \/ server'.version = rv + 1 /\ new # NoObject
<1>1. /\ server \in Object /\ rv \in Nat /\ pending \in Seq(Object) /\ Len(pending) \in Nat
      /\ Len(pending) <= MaxPending /\ MaxPending \in Nat
  BY ClientAssumption DEF TypeOK
<1>2. CASE [new EXCEPT !.version = server.version] = server
  <2>1. UNCHANGED <<server, rv, pending>>
    BY <1>2 DEF Store
  <2>2. SaysTheSame(server, new)
    BY <1>1, <1>2 DEF Object, SaysTheSame
  <2>3. QED
    BY <1>1, <2>1, <2>2 DEF SaysTheSame
<1>3. CASE [new EXCEPT !.version = server.version] # server
  <2>1. /\ Len(pending) < MaxPending /\ rv' = rv + 1
        /\ server' = IF new = NoObject THEN new ELSE [new EXCEPT !.version = rv + 1]
        /\ pending' = Append(pending, server')
    BY <1>3 DEF Store
  <2>2. server' \in Object
    <3>1. [new EXCEPT !.version = rv + 1] \in Object
      BY <1>1 DEF Object
    <3>2. QED
      BY <2>1, <3>1
  <2>3. SaysTheSame(server', new)
    BY <1>1, <2>1 DEF Object, SaysTheSame
  <2>4. \/ server' = NoObject /\ new = NoObject
        \/ server'.version = rv + 1 /\ new # NoObject
    BY <1>1, <2>1 DEF Object
  <2>5. /\ pending' \in Seq(Object) /\ Len(pending') = Len(pending) + 1
        /\ pending'[Len(pending')] = server' /\ pending' # <<>>
    BY <1>1, <2>1, <2>2
  <2>6. QED
    BY <1>1, <2>1, <2>2, <2>3, <2>4, <2>5
<1>4. QED
  BY <1>2, <1>3

(* Verdict, case by case.                                                  *)
LEMMA VerdictCases ==
    ASSUME TypeOK, NEW c \in Object
    PROVE  \/ Verdict(c) = "create" /\ c = NoObject
           \/ Verdict(c) = "idle"
           \/ c.mine /\ kind = "Job" /\ Verdict(c) = "done" /\ c.spec = job
           \/ c.mine /\ kind = "Job" /\ Verdict(c) = "delete"
           \/ c.mine /\ kind = "Deployment" /\ Verdict(c) = "shrink"
           \/ c.mine /\ kind = "Deployment" /\ Verdict(c) = "update" /\ ~ Decreasing(c)
           \/ c.mine /\ kind = "Service" /\ Verdict(c) = "update"
<1>1. kind \in {"Job", "Deployment", "Service"} /\ c.mine \in BOOLEAN /\ ~ NoObject.mine
  BY ClientAssumption, ObjectType DEF TypeOK
<1>2. CASE c = NoObject
  BY <1>1, <1>2 DEF Verdict
<1>3. CASE c # NoObject /\ ~ c.mine
  BY <1>1, <1>3 DEF Verdict
<1>4. CASE c # NoObject /\ c.mine /\ kind = "Job"
  BY <1>1, <1>4 DEF Verdict, JobEqual
<1>5. CASE c # NoObject /\ c.mine /\ kind = "Deployment"
  BY <1>1, <1>5 DEF Verdict
<1>6. CASE c # NoObject /\ c.mine /\ kind = "Service"
  BY <1>1, <1>6 DEF Verdict
<1>7. QED
  BY <1>1, <1>2, <1>3, <1>4, <1>5, <1>6

-------------------------------------------------------------------------------
(* Types.                                                                  *)
ServerOK ==
    /\ server \in Object /\ rv \in Nat
    /\ pending \in Seq(Object) /\ Len(pending) <= MaxPending
    /\ server = IF pending = <<>> THEN view ELSE pending[Len(pending)]
    /\ server.mark => kind = "Deployment"

LEMMA StoreTypes ==
    ASSUME TypeOK, NEW new \in Object, Store(new), new.mark => kind = "Deployment",
           kind' = kind, view' = view
    PROVE  ServerOK'
<1>1. server = IF pending = <<>> THEN view ELSE pending[Len(pending)]
  BY DEF TypeOK
<1>2. server.mark => kind = "Deployment"
  BY DEF TypeOK
<1>3. QED
  BY <1>1, <1>2, Stored DEF SaysTheSame, ServerOK

(* The steps that write to the server, and what they write.                *)
LEMMA Writes ==
    ASSUME TypeOK,
           OtherDeletes \/ OtherTakes \/ Make \/ Update \/ Shrink \/ DeleteJob \/ CallUnanswered
    PROVE  \/ UNCHANGED <<server, rv, pending>>
           \/ \E new \in Object : Store(new) /\ (new.mark => kind = "Deployment")
<1>1. /\ New(job) \in Object /\ Overwritten \in Object /\ Marked \in Object
      /\ [NoObject EXCEPT !.uid = rv + 1, !.second = second] \in Object
  BY Made
<1>2. /\ ~ NoObject.mark /\ ~ New(job).mark /\ ~ Overwritten.mark
      /\ ~ [NoObject EXCEPT !.uid = rv + 1, !.second = second].mark
  <2>1. server \in Object
    BY DEF TypeOK
  <2>2. ~ Overwritten.mark
    BY <2>1 DEF Overwritten, Object
  <2>3. QED
    BY <2>2 DEF New, NoObject
<1>3. pc = "shrink" => kind = "Deployment"
  BY DEF TypeOK
<1>4. CASE OtherDeletes
  BY <1>2, <1>4, ObjectType DEF OtherDeletes
<1>5. CASE OtherTakes
  BY <1>1, <1>2, <1>5 DEF OtherTakes
<1>6. CASE Make
  BY <1>1, <1>2, <1>6 DEF Make
<1>7. CASE Update
  BY <1>1, <1>2, <1>7 DEF Update
<1>8. CASE Shrink
  BY <1>1, <1>3, <1>8 DEF Shrink
<1>9. CASE DeleteJob
  BY <1>2, <1>9, ObjectType DEF DeleteJob
<1>10. CASE CallUnanswered
  BY <1>1, <1>2, <1>3, <1>10, ObjectType DEF CallUnanswered
<1>11. QED
  BY <1>4, <1>5, <1>6, <1>7, <1>8, <1>9, <1>10

LEMMA TypeInit == Init => TypeOK
<1> SUFFICES ASSUME Init PROVE TypeOK
  OBVIOUS
<1>1. /\ server = NoObject /\ view = NoObject /\ overlay = NoObject /\ seen = NoObject
      /\ copy = NoObject /\ reader = [at |-> "idle", seen |-> NoObject]
      /\ pending = <<>> /\ Len(pending) = 0 /\ pc = "idle" /\ job \in Specs /\ rv = 0
      /\ pods = {} /\ second = 1 /\ kind \in Kinds /\ target \in Specs
      /\ edits = 0 /\ others = 0 /\ faults = 0 /\ reads = 0
      /\ meddled = FALSE /\ forgot = FALSE /\ missed = FALSE
  BY DEF Init, Idle
<1>2. pending \in Seq(Object) /\ Len(pending) <= MaxPending
  BY <1>1, ClientAssumption
<1>3. QED
  BY <1>1, <1>2, ObjectType DEF TypeOK, Places, Calls

(* What a step does to the rest, unless the server's part changes.         *)
LEMMA TypeStep ==
    ASSUME TypeOK, [Next]_vars
    PROVE  TypeOK'
<1>1. /\ kind \in Kinds /\ target \in Specs /\ pods \subseteq Addresses /\ second \in Nat
      /\ view \in Object /\ overlay \in Object
      /\ pc \in Places /\ job \in Specs /\ seen \in Object /\ copy \in Object
      /\ pc \in {"delete", "recreate"} => kind = "Job"
      /\ pc \in {"shrink", "pods", "finish"} => kind = "Deployment"
      /\ reader \in [at : {"idle", "look", "remove"}, seen : Object]
      /\ {edits, others, faults, reads} \subseteq Nat
      /\ {meddled, forgot, missed} \subseteq BOOLEAN
  BY DEF TypeOK
<1>2. ServerOK
  BY DEF ServerOK, TypeOK
<1>3. SUFFICES
        /\ ServerOK'
        /\ kind' \in Kinds /\ target' \in Specs /\ pods' \subseteq Addresses /\ second' \in Nat
        /\ view' \in Object /\ overlay' \in Object
        /\ pc' \in Places /\ job' \in Specs /\ seen' \in Object /\ copy' \in Object
        /\ pc' \in {"delete", "recreate"} => kind' = "Job"
        /\ pc' \in {"shrink", "pods", "finish"} => kind' = "Deployment"
        /\ reader' \in [at : {"idle", "look", "remove"}, seen : Object]
        /\ {edits', others', faults', reads'} \subseteq Nat
        /\ {meddled', forgot', missed'} \subseteq BOOLEAN
  BY DEF TypeOK, ServerOK
<1>4. UNCHANGED <<kind, server, rv, pending, view>> => ServerOK'
  BY <1>2 DEF ServerOK
<1>5. ASSUME OtherDeletes \/ OtherTakes \/ Make \/ Update \/ Shrink \/ DeleteJob
                \/ CallUnanswered
      PROVE  /\ ServerOK' /\ server' \in Object /\ kind' = kind /\ view' = view
             /\ job' = job /\ target' = target /\ second' = second
  <2>1. /\ kind' = kind /\ view' = view /\ job' = job /\ target' = target
        /\ second' = second
    BY <1>5 DEF OtherDeletes, OtherTakes, Make, Update, Shrink, DeleteJob, CallUnanswered,
                applyVars
  <2>2. QED
    BY <1>4, <1>5, <2>1, Writes, StoreTypes DEF ServerOK
<1>6. CASE UNCHANGED vars
  BY <1>1, <1>4, <1>6 DEF vars, clusterVars, applyVars, spentVars
<1>7. CASE Edit
  BY <1>1, <1>4, <1>7 DEF Edit, applyVars
<1>8. CASE OtherDeletes
  BY <1>1, <1>5, <1>8 DEF OtherDeletes, applyVars
<1>9. CASE OtherTakes
  BY <1>1, <1>5, <1>9 DEF OtherTakes, applyVars
<1>10. CASE PodAppears
  <2>1. server.ips \subseteq Addresses
    BY <1>2, ObjectType DEF ServerOK
  <2>2. QED
    BY <1>1, <1>4, <1>10, <2>1 DEF PodAppears, applyVars, spentVars
<1>11. CASE Tick
  BY <1>1, <1>4, <1>11 DEF Tick, applyVars, spentVars
<1>12. CASE See
  <2>1. PICK i \in 1 .. Len(pending) : /\ view' = pending[i]
                                       /\ pending' = SubSeq(pending, i + 1, Len(pending))
    BY <1>12 DEF See
  <2>2. /\ pending \in Seq(Object) /\ Len(pending) \in Nat /\ MaxPending \in Nat
        /\ Len(pending) <= MaxPending /\ pending # <<>>
        /\ server = pending[Len(pending)]
    BY <1>2, <2>1, ClientAssumption DEF ServerOK
  <2>3. /\ view' \in Object /\ pending' \in Seq(Object)
        /\ Len(pending') = Len(pending) - i
        /\ \A j \in 1 .. Len(pending') : pending'[j] = pending[i + j]
    BY <2>1, <2>2
  <2>4. server = IF pending' = <<>> THEN view' ELSE pending'[Len(pending')]
    <3>1. CASE i = Len(pending)
      BY <2>1, <2>2, <2>3, <3>1
    <3>2. CASE i # Len(pending)
      <4>1. Len(pending') \in 1 .. Len(pending') /\ i + Len(pending') = Len(pending)
        BY <2>1, <2>2, <2>3, <3>2
      <4>2. QED
        BY <2>2, <2>3, <4>1
    <3>3. QED
      BY <3>1, <3>2
  <2>5. ServerOK'
    <3>1. UNCHANGED <<kind, server, rv>>
      BY <1>12 DEF See
    <3>2. Len(pending') <= MaxPending
      BY <2>1, <2>2, <2>3
    <3>3. QED
      BY <1>2, <2>3, <2>4, <3>1, <3>2 DEF ServerOK
  <2>6. QED
    BY <1>1, <1>12, <2>3, <2>5 DEF See, applyVars, spentVars
<1>13. CASE Expire
  BY <1>1, <1>4, <1>13, ObjectType DEF Expire, clusterVars, applyVars, spentVars
<1>14. CASE ReaderBegins
  BY <1>1, <1>4, <1>14 DEF ReaderBegins, clusterVars, applyVars
<1>15. CASE ReaderLooks
  BY <1>1, <1>4, <1>15, ObjectType DEF ReaderLooks, Idle, clusterVars, applyVars, spentVars
<1>16. CASE ReaderRemoves
  BY <1>1, <1>4, <1>16, ObjectType DEF ReaderRemoves, Idle, clusterVars, applyVars, spentVars
<1>17. CASE Begin
  BY <1>1, <1>4, <1>17, ObjectType DEF Begin, Places, clusterVars, spentVars
<1>18. CASE LookAtInformer
  BY <1>1, <1>4, <1>18, ObjectType DEF LookAtInformer, Places, clusterVars, spentVars
<1>19. CASE LookAtLayer
  <2>1. SelectObject(seen, overlay) \in Object
    BY <1>1 DEF SelectObject
  <2>2. /\ copy' \in Object /\ seen' \in Object /\ pc' = Verdict(SelectObject(seen, overlay))
        /\ overlay' \in Object /\ {meddled', forgot', missed'} \subseteq BOOLEAN
    BY <1>1, <1>19, <2>1, ObjectType DEF LookAtLayer
  <2>3. /\ pc' \in Places
        /\ pc' \in {"delete", "recreate"} => kind = "Job"
        /\ pc' \in {"shrink", "pods", "finish"} => kind = "Deployment"
    BY <2>1, <2>2, VerdictCases DEF Places, Calls
  <2>4. QED
    BY <1>1, <1>4, <1>19, <2>2, <2>3 DEF LookAtLayer, clusterVars, spentVars
<1>20. CASE Make
  BY <1>1, <1>5, <1>20 DEF Make, Record, Places, spentVars
<1>21. CASE Update
  BY <1>1, <1>5, <1>21 DEF Update, Record, Places, spentVars
<1>22. CASE Shrink
  BY <1>1, <1>5, <1>22 DEF Shrink, Places, Calls, spentVars
<1>23. CASE DeletePods
  BY <1>1, <1>4, <1>23 DEF DeletePods, Places, Calls, spentVars
<1>24. CASE DeletePodsFails
  BY <1>1, <1>4, <1>24 DEF DeletePodsFails, Places
<1>25. CASE DeleteJob
  BY <1>1, <1>5, <1>25, ObjectType DEF DeleteJob, Record, Places, Calls, spentVars
<1>26. CASE CallFails
  BY <1>1, <1>4, <1>26 DEF CallFails, Places, clusterVars
<1>27. CASE CallUnanswered
  BY <1>1, <1>5, <1>27 DEF CallUnanswered, Places
<1>28. CASE Crash
  <2>1. ServerOK'
    BY <1>2, <1>28, ClientAssumption DEF Crash, ServerOK
  <2>2. QED
    BY <1>1, <1>2, <1>28, <2>1, ObjectType DEF Crash, Places, Idle, ServerOK
<1>29. QED
  BY <1>6, <1>7, <1>8, <1>9, <1>10, <1>11, <1>12, <1>13, <1>14, <1>15, <1>16, <1>17, <1>18,
     <1>19, <1>20, <1>21, <1>22, <1>23, <1>24, <1>25, <1>26, <1>27, <1>28
     DEF Next, Proceed, Create, Recreate

THEOREM TypeCorrect == Spec => []TypeOK
  BY TypeInit, TypeStep, PTL DEF Spec

-------------------------------------------------------------------------------
(* What Apply has said to be done is there: only a Job may be taken for    *)
(* what an old copy says it is.                                            *)
LEMMA AppliedStep ==
    ASSUME TypeOK, AppliedIsThere, [Next]_vars
    PROVE  AppliedIsThere'
<1>1. /\ New(job) \in Object /\ New(job).mine /\ New(job).spec = job
      /\ Overwritten \in Object /\ Overwritten.mine /\ Overwritten.spec = job
  <2>1. server \in Object
    BY DEF TypeOK
  <2>2. Overwritten.mine /\ Overwritten.spec = job
    BY <2>1 DEF Overwritten, Object
  <2>3. QED
    BY <2>2, Made DEF New
<1>2. ASSUME UNCHANGED <<kind, server, pc, job, copy, meddled>> PROVE AppliedIsThere'
  BY <1>2 DEF AppliedIsThere
<1>3. ASSUME pc' # "done" \/ meddled' PROVE AppliedIsThere'
  BY <1>3 DEF AppliedIsThere
<1>4. CASE \/ UNCHANGED vars \/ Edit \/ PodAppears \/ Tick \/ See \/ Expire
           \/ ReaderBegins \/ ReaderLooks \/ ReaderRemoves
  BY <1>2, <1>4 DEF vars, clusterVars, applyVars, spentVars, Edit, PodAppears, Tick, See,
                    Expire, ReaderBegins, ReaderLooks, ReaderRemoves
<1>5. CASE \/ OtherDeletes \/ OtherTakes \/ Begin \/ LookAtInformer \/ Shrink \/ DeletePods
           \/ DeletePodsFails \/ DeleteJob \/ CallFails \/ CallUnanswered \/ Crash
  BY <1>3, <1>5 DEF OtherDeletes, OtherTakes, Begin, LookAtInformer, Shrink, DeletePods,
                    DeletePodsFails, DeleteJob, CallFails, CallUnanswered, Crash
<1>6. CASE LookAtLayer
  <2> DEFINE c == SelectObject(seen, overlay)
  <2>1. c \in Object
    BY DEF SelectObject, TypeOK
  <2>2. copy' = c /\ pc' = Verdict(c) /\ UNCHANGED <<kind, server, job, meddled>>
    BY <1>6 DEF LookAtLayer, clusterVars
  <2>3. pc' = "done" => c.mine /\ kind = "Job" /\ c.spec = job
    BY <2>1, <2>2, VerdictCases
  <2> HIDE DEF c
  <2>4. QED
    BY <2>2, <2>3 DEF AppliedIsThere
<1>7. CASE Make
  <2>1. pc' # "done" \/ (Store(New(job)) /\ job' = job)
    BY <1>7 DEF Make
  <2>2. Store(New(job)) => server'.mine /\ server'.spec = job
    BY <1>1, Stored DEF SaysTheSame
  <2>3. QED
    BY <1>3, <2>1, <2>2 DEF AppliedIsThere
<1>8. CASE Update
  <2>1. pc' # "done" \/ (Store(Overwritten) /\ job' = job)
    BY <1>8 DEF Update
  <2>2. Store(Overwritten) => server'.mine /\ server'.spec = job
    BY <1>1, Stored DEF SaysTheSame
  <2>3. QED
    BY <1>3, <2>1, <2>2 DEF AppliedIsThere
<1>9. QED
  BY <1>4, <1>5, <1>6, <1>7, <1>8 DEF Next, Proceed, Create, Recreate

(* Apply does not return nil while the object is something else, however   *)
(* old the copies it judged, whatever failed and whoever interfered        *)
(* before it.                                                              *)
THEOREM AppliedIsThereHolds == Spec => []AppliedIsThere
<1>1. Init => AppliedIsThere
  BY DEF Init, AppliedIsThere
<1>2. QED
  BY TypeInit, TypeStep, AppliedStep, <1>1, PTL DEF Spec

-------------------------------------------------------------------------------
(* Versions.                                                               *)
LEMMA KnownObjects ==
    ASSUME TypeOK
    PROVE  /\ \A o : Known(o) => o \in Object
           /\ \A i \in 1 .. Len(pending) : pending[i] \in Object
           /\ Len(pending) \in Nat /\ rv \in Nat
<1>1. /\ {server, view, overlay, seen, copy} \subseteq Object /\ rv \in Nat
      /\ reader.seen \in Object /\ pending \in Seq(Object)
  BY DEF TypeOK
<1>2. QED
  BY <1>1 DEF Known

(* Every write gives the object an identity that is known, or a new one.   *)
LEMMA WritesIdentity ==
    ASSUME TypeOK, VersionInv, ApplyInv,
           OtherDeletes \/ OtherTakes \/ Make \/ Update \/ Shrink \/ DeleteJob \/ CallUnanswered
    PROVE  \/ UNCHANGED <<server, rv, pending>>
           \/ \E new \in Object :
                /\ Store(new)
                /\ new = NoObject \/ (new.uid \in 1 .. (rv + 1) /\ new.second # 0)
<1> DEFINE taken == [NoObject EXCEPT !.uid = rv + 1, !.second = second]
           Fine(new) == new.uid \in 1 .. (rv + 1) /\ new.second # 0
<1>1. /\ New(job) \in Object /\ Overwritten \in Object /\ Marked \in Object
      /\ taken \in Object
  BY Made
<1>2. rv \in Nat /\ second \in Nat \ {0} /\ server \in Object /\ copy \in Object
  BY DEF TypeOK, VersionInv
<1>3. taken.uid = rv + 1 /\ taken.second = second
  BY DEF NoObject
<1>4. Fine(New(job)) /\ Fine(taken)
  BY <1>2, <1>3 DEF New
<1>5. server # NoObject => Fine(Overwritten)
  <2>1. Overwritten.uid = server.uid /\ Overwritten.second = server.second
    BY <1>2 DEF Overwritten, Object
  <2>2. Known(server)
    BY DEF Known
  <2>3. QED
    BY <1>2, <2>1, <2>2 DEF VersionInv
<1>6. pc = "shrink" => Fine(Marked)
  <2>1. Marked.uid = copy.uid /\ Marked.second = copy.second
    BY <1>2 DEF Marked, Object
  <2>2. Known(copy) /\ (pc = "shrink" => copy # NoObject)
    BY ObjectType DEF Known, ApplyInv
  <2>3. QED
    BY <1>2, <2>1, <2>2 DEF VersionInv
<1>7. NoObject \in Object
  BY ObjectType
<1> HIDE DEF taken, Fine
<1>8. CASE OtherDeletes
  BY <1>7, <1>8 DEF OtherDeletes
<1>9. CASE OtherTakes
  BY <1>1, <1>4, <1>9 DEF OtherTakes, taken, Fine
<1>10. CASE Make
  BY <1>1, <1>4, <1>10 DEF Make, Fine
<1>11. CASE Update
  BY <1>1, <1>5, <1>11 DEF Update, Fine
<1>12. CASE Shrink
  BY <1>1, <1>6, <1>12 DEF Shrink, Fine
<1>13. CASE DeleteJob
  BY <1>7, <1>13 DEF DeleteJob
<1>14. CASE CallUnanswered
  BY <1>1, <1>4, <1>5, <1>6, <1>7, <1>14 DEF CallUnanswered, Fine
<1>15. QED
  BY <1>8, <1>9, <1>10, <1>11, <1>12, <1>13, <1>14

(* A version the server has just given, to an object with an identity.     *)
Given(o) ==
    /\ o = server' /\ rv' = rv + 1 /\ o.version = rv + 1
    /\ o.uid \in 1 .. (rv + 1) /\ o.second # 0

(* What comes to be known in a step is what the server has just given.     *)
LEMMA KnownStep ==
    ASSUME TypeOK, VersionInv, ApplyInv, [Next]_vars
    PROVE  /\ rv' \in {rv, rv + 1}
           /\ \A o : Known(o)' => Known(o) \/ o = NoObject \/ Given(o)
           /\ Ordered'
<1> USE DEF Known
<1>1. /\ \A o : Known(o) => o \in Object
      /\ \A i \in 1 .. Len(pending) : pending[i] \in Object
      /\ Len(pending) \in Nat /\ rv \in Nat /\ pending \in Seq(Object)
  BY KnownObjects DEF TypeOK
<1>2. Ordered
  BY DEF VersionInv
<1>3. ASSUME OtherDeletes \/ OtherTakes \/ Make \/ Update \/ Shrink \/ DeleteJob
                \/ CallUnanswered
      PROVE  /\ rv' \in {rv, rv + 1}
             /\ \A o : Known(o)' => Known(o) \/ o = NoObject \/ Given(o)
             /\ Ordered'
  <2>1. /\ UNCHANGED <<view, seen, copy, reader>>
        /\ overlay' \in {overlay, server', NoObject}
    BY <1>3 DEF OtherDeletes, OtherTakes, Make, Update, Shrink, DeleteJob, CallUnanswered,
                applyVars, Record
  <2>2. CASE UNCHANGED <<server, rv, pending>>
    BY <1>2, <2>1, <2>2 DEF Ordered
  <2>3. CASE \E new \in Object :
               /\ Store(new)
               /\ new = NoObject \/ (new.uid \in 1 .. (rv + 1) /\ new.second # 0)
    <3>1. PICK new \in Object :
               /\ Store(new)
               /\ new = NoObject \/ (new.uid \in 1 .. (rv + 1) /\ new.second # 0)
      BY <2>3
    <3>2. /\ server' \in Object /\ server'.uid = new.uid /\ server'.second = new.second
          /\ \/ UNCHANGED <<server, rv, pending>>
             \/ /\ rv' = rv + 1 /\ pending' = Append(pending, server')
                /\ \/ server' = NoObject /\ new = NoObject
                   \/ server'.version = rv + 1 /\ new # NoObject
      BY <3>1, Stored DEF SaysTheSame
    <3>3. CASE /\ rv' = rv + 1 /\ pending' = Append(pending, server')
               /\ \/ server' = NoObject /\ new = NoObject
                  \/ server'.version = rv + 1 /\ new # NoObject
      <4>1. /\ Len(pending') = Len(pending) + 1 /\ pending'[Len(pending) + 1] = server'
            /\ \A i \in 1 .. Len(pending) : pending'[i] = pending[i]
            /\ \A i \in 1 .. Len(pending') : i \in 1 .. Len(pending) \/ i = Len(pending) + 1
        BY <1>1, <3>2, <3>3
      <4>2. server' = NoObject \/ Given(server')
        BY <3>1, <3>2, <3>3 DEF Given
      <4>3. ASSUME NEW o, Known(o)'
            PROVE  Known(o) \/ o = NoObject \/ Given(o)
        <5>1. o = server' \/ Known(o) \/ o = NoObject
          BY <2>1, <4>1, <4>3
        <5>2. QED
          BY <4>2, <5>1
      <4>4. Ordered'
        <5>1. /\ view.version \in Nat /\ view.version < rv + 1
              /\ \A i \in 1 .. Len(pending) : /\ pending[i].version \in Nat
                                              /\ pending[i].version < rv + 1
          <6>1. \A o \in Object : Known(o) => o.version \in Nat /\ o.version < rv + 1
            BY <1>1, ObjectType DEF VersionInv
          <6>2. QED
            BY <1>1, <6>1
        <5>2. server' # NoObject => server'.version = rv + 1
          BY <3>3
        <5>3. \A i \in 1 .. Len(pending') :
                pending'[i] # NoObject => view'.version < pending'[i].version
          BY <1>2, <2>1, <4>1, <5>1, <5>2 DEF Ordered
        <5>4. ASSUME NEW i \in 1 .. Len(pending'), NEW j \in 1 .. Len(pending'),
                     i < j, pending'[j] # NoObject
              PROVE  pending'[i].version < pending'[j].version
          <6>1. i \in 1 .. Len(pending)
            BY <1>1, <4>1, <5>4
          <6>2. CASE j \in 1 .. Len(pending)
            BY <1>2, <4>1, <5>4, <6>1, <6>2 DEF Ordered
          <6>3. CASE j = Len(pending) + 1
            BY <4>1, <5>1, <5>2, <5>4, <6>1, <6>3
          <6>4. QED
            BY <4>1, <6>2, <6>3
        <5>5. QED
          BY <5>3, <5>4 DEF Ordered
      <4>5. QED
        BY <3>3, <4>3, <4>4
    <3>4. QED
      BY <2>2, <3>2, <3>3
  <2>4. QED
    BY <1>3, <2>2, <2>3, WritesIdentity
<1>4. ASSUME UNCHANGED <<server, rv, pending, view>>,
             overlay' \in {overlay, NoObject},
             seen' \in {seen, view, NoObject},
             copy' \in {copy, seen, overlay, NoObject},
             reader'.seen \in {reader.seen, view, NoObject}
      PROVE  /\ rv' \in {rv, rv + 1}
             /\ \A o : Known(o)' => Known(o) \/ o = NoObject \/ Given(o)
             /\ Ordered'
  BY <1>2, <1>4 DEF Ordered
<1>5. CASE See
  <2>1. PICK i \in 1 .. Len(pending) : /\ view' = pending[i]
                                       /\ pending' = SubSeq(pending, i + 1, Len(pending))
    BY <1>5 DEF See
  <2>2. UNCHANGED <<server, rv, overlay, seen, copy, reader>>
    BY <1>5 DEF See, applyVars
  <2>3. /\ Len(pending') = Len(pending) - i
        /\ \A j \in 1 .. Len(pending') : pending'[j] = pending[i + j]
        /\ \A j \in 1 .. Len(pending') : i + j \in 1 .. Len(pending) /\ i < i + j
    BY <1>1, <2>1
  <2>4. ASSUME NEW o, Known(o)' PROVE Known(o)
    BY <2>1, <2>2, <2>3, <2>4
  <2>5. Ordered'
    <3>1. \A j \in 1 .. Len(pending') :
            pending'[j] # NoObject => view'.version < pending'[j].version
      BY <1>2, <2>1, <2>3 DEF Ordered
    <3>2. ASSUME NEW j \in 1 .. Len(pending'), NEW k \in 1 .. Len(pending'),
                 j < k, pending'[k] # NoObject
          PROVE  pending'[j].version < pending'[k].version
      <4>1. i + j < i + k
        BY <3>2
      <4>2. QED
        BY <1>2, <2>3, <3>2, <4>1 DEF Ordered
    <3>3. QED
      BY <3>1, <3>2 DEF Ordered
  <2>6. QED
    BY <2>2, <2>4, <2>5
<1>6. CASE Crash
  <2>1. /\ view' = server /\ pending' = <<>> /\ overlay' = NoObject
        /\ reader'.seen = NoObject /\ seen' = NoObject /\ copy' = NoObject
        /\ UNCHANGED <<server, rv>>
    BY <1>6 DEF Crash, Idle
  <2>2. Len(pending') = 0
    BY <2>1
  <2>3. QED
    BY <2>1, <2>2 DEF Ordered
<1>7. CASE UNCHANGED vars
  BY <1>4, <1>7 DEF vars, clusterVars, applyVars
<1>8. CASE Edit \/ PodAppears \/ Tick \/ Expire
  BY <1>4, <1>8 DEF Edit, PodAppears, Tick, Expire, clusterVars, applyVars
<1>9. CASE ReaderBegins \/ ReaderLooks \/ ReaderRemoves
  <2>1. reader'.seen \in {reader.seen, view, NoObject}
    <3>1. [reader EXCEPT !.at = "remove"].seen = reader.seen
      BY DEF TypeOK
    <3>2. CASE ReaderLooks
      BY <3>1, <3>2 DEF ReaderLooks, Idle
    <3>3. CASE ReaderBegins \/ ReaderRemoves
      BY <3>3 DEF ReaderBegins, ReaderRemoves, Idle
    <3>4. QED
      BY <1>9, <3>2, <3>3
  <2>2. QED
    BY <1>4, <1>9, <2>1 DEF ReaderBegins, ReaderLooks, ReaderRemoves, clusterVars, applyVars
<1>10. CASE Begin \/ LookAtInformer \/ LookAtLayer
  BY <1>4, <1>10 DEF Begin, LookAtInformer, LookAtLayer, SelectObject, clusterVars
<1>11. CASE DeletePods \/ DeletePodsFails \/ CallFails
  BY <1>4, <1>11 DEF DeletePods, DeletePodsFails, CallFails, clusterVars
<1>12. QED
  BY <1>3, <1>5, <1>6, <1>7, <1>8, <1>9, <1>10, <1>11
     DEF Next, Proceed, Create, Recreate

LEMMA VersionStep ==
    ASSUME TypeOK, TypeOK', VersionInv, ApplyInv, [Next]_vars
    PROVE  VersionInv'
<1>1. /\ rv' \in {rv, rv + 1} /\ rv \in Nat
      /\ \A o : Known(o)' => Known(o) \/ o = NoObject \/ Given(o)
      /\ Ordered'
  BY KnownStep, KnownObjects
<1>2. \A o \in Object : Known(o)' /\ o # NoObject =>
         o.version \in 1 .. rv' /\ o.uid \in 1 .. rv' /\ o.second # 0
  <2>1. ASSUME NEW o \in Object, Known(o), o # NoObject
        PROVE  o.version \in 1 .. rv' /\ o.uid \in 1 .. rv' /\ o.second # 0
    <3>1. o.version \in 1 .. rv /\ o.uid \in 1 .. rv /\ o.second # 0
      BY <2>1 DEF VersionInv
    <3>2. QED
      BY <1>1, <3>1
  <2>2. ASSUME NEW o \in Object, Given(o)
        PROVE  o.version \in 1 .. rv' /\ o.uid \in 1 .. rv' /\ o.second # 0
    BY <1>1, <2>2 DEF Given
  <2>3. QED
    BY <1>1, <2>1, <2>2
<1>3. ASSUME NEW o \in Object, NEW q \in Object, Known(o)', Known(q)',
             o.version = q.version
      PROVE  o = q
  <2>1. \A x \in Object : Known(x) \/ x = NoObject => x.version < rv + 1
    BY <1>1, ObjectType DEF VersionInv
  <2>2. \A x, y \in Object : Known(x) /\ Known(y) /\ x.version = y.version => x = y
    BY DEF VersionInv
  <2>3. \A x \in Object : Known(x) /\ x.version = 0 => x = NoObject
    BY <1>1, ObjectType DEF VersionInv
  <2>4. CASE Known(o) \/ o = NoObject
    <3>1. Known(q) \/ q = NoObject
      BY <1>1, <1>3, <2>1, <2>4 DEF Given
    <3>2. QED
      BY <1>3, <2>2, <2>3, <2>4, <3>1, ObjectType
  <2>5. CASE Given(o)
    <3>1. Given(q)
      BY <1>1, <1>3, <2>1, <2>5 DEF Given
    <3>2. QED
      BY <2>5, <3>1 DEF Given
  <2>6. QED
    BY <1>1, <1>3, <2>4, <2>5
<1>4. second' # 0
  <2>1. second \in Nat \ {0}
    BY DEF TypeOK, VersionInv
  <2>2. second' \in {second, second + 1}
    BY DEF Next, vars, clusterVars, Edit, OtherDeletes, OtherTakes, PodAppears, Tick, See,
           Expire, ReaderBegins, ReaderLooks, ReaderRemoves, Begin, Proceed, LookAtInformer,
           LookAtLayer, Create, Recreate, Make, Update, Shrink, DeletePods, DeleteJob,
           DeletePodsFails, CallFails, CallUnanswered, Crash
  <2>3. QED
    BY <2>1, <2>2
<1>5. QED
  BY <1>1, <1>2, <1>3, <1>4 DEF VersionInv

-------------------------------------------------------------------------------
(* What the server's object says after each write of Apply.                *)
LEMMA Says ==
    ASSUME TypeOK
    PROVE  /\ Store(New(job)) => /\ server'.mine /\ ~ server'.mark
                                 /\ server'.ips = Listed(job)
           /\ Store(Overwritten) => /\ server'.mine /\ ~ server'.mark
                                    /\ server'.ips = Listed(job) /\ server'.uid = server.uid
           /\ Store(Marked) => /\ server'.mine = copy.mine /\ server'.mark
                               /\ server'.ips = Listed(job)
           /\ Store(NoObject) => ~ server'.mine /\ ~ server'.mark /\ server'.ips = {}
<1>1. server \in Object /\ copy \in Object
  BY DEF TypeOK
<1>2. /\ Overwritten.mine /\ ~ Overwritten.mark /\ Overwritten.ips = Listed(job)
      /\ Overwritten.uid = server.uid
  BY <1>1 DEF Overwritten, Object
<1>3. Marked.mine = copy.mine /\ Marked.mark /\ Marked.ips = Listed(job)
  BY <1>1 DEF Marked, Object
<1>4. New(job).mine /\ ~ New(job).mark /\ New(job).ips = Listed(job)
  BY DEF New
<1>5. \A new \in Object : Store(new) => SaysTheSame(server', new)
  BY Stored
<1>6. QED
  BY <1>2, <1>3, <1>4, <1>5, Made, ObjectType DEF SaysTheSame

LEMMA ApplyStep ==
    ASSUME TypeOK, ApplyInv, [Next]_vars
    PROVE  ApplyInv'
<1>1. /\ pc \in {"update", "shrink", "pods", "finish"} => copy.mine
      /\ pc = "update" /\ kind = "Deployment" => ~ Decreasing(copy)
      /\ pc \in {"pods", "finish"} /\ server.mine => server.mark /\ server.ips = Listed(job)
      /\ pc = "finish" => pods \subseteq Listed(job)
      /\ server.mine \/ pods = {}
      /\ kind # "Deployment" => server.ips = {} /\ pods = {}
      /\ kind # "Deployment" => Listed(job) = {}
  BY DEF ApplyInv, Listed
<1>2. ASSUME UNCHANGED <<kind, job>>,
             pc' \notin {"update", "shrink", "pods", "finish"},
             server'.mine \/ pods' = {},
             kind # "Deployment" => server'.ips = {} /\ pods' = {}
      PROVE  ApplyInv'
  BY <1>2 DEF ApplyInv
<1>3. ASSUME UNCHANGED <<kind, job, pc, copy>>,
             server'.mine => server'.mark = server.mark /\ server'.ips = server.ips,
             server'.mine => server.mine,
             pc = "finish" => pods' \subseteq Listed(job),
             server'.mine \/ pods' = {},
             kind # "Deployment" => server'.ips = {} /\ pods' = {}
      PROVE  ApplyInv'
  BY <1>1, <1>3 DEF ApplyInv, Decreasing, Listed
<1>4. CASE UNCHANGED vars
  BY <1>1, <1>3, <1>4 DEF vars, clusterVars, applyVars
<1>5. CASE Edit \/ Tick \/ See \/ Expire \/ ReaderBegins \/ ReaderLooks \/ ReaderRemoves
  BY <1>1, <1>3, <1>5 DEF Edit, Tick, See, Expire, ReaderBegins, ReaderLooks, ReaderRemoves,
                          clusterVars, applyVars
<1>6. CASE OtherDeletes
  BY <1>1, <1>3, <1>6, Says DEF OtherDeletes, applyVars
<1>7. CASE OtherTakes
  <2> DEFINE taken == [NoObject EXCEPT !.uid = rv + 1, !.second = second]
  <2>1. ~ taken.mine /\ taken.ips = {}
    BY DEF NoObject
  <2>2. Store(taken) /\ taken \in Object
    BY <1>7, Made DEF OtherTakes
  <2> HIDE DEF taken
  <2>3. ~ server'.mine /\ server'.ips = {}
    BY <2>1, <2>2, Stored DEF SaysTheSame
  <2>4. QED
    BY <1>1, <1>3, <1>7, <2>3 DEF OtherTakes, applyVars
<1>8. CASE PodAppears
  BY <1>1, <1>3, <1>8 DEF PodAppears, applyVars
<1>9. CASE Begin
  BY <1>1, <1>9 DEF Begin, ApplyInv, clusterVars
<1>10. CASE LookAtInformer \/ CallFails \/ Crash
  BY <1>1, <1>2, <1>10 DEF LookAtInformer, CallFails, Crash, clusterVars
<1>11. CASE LookAtLayer
  <2> DEFINE c == SelectObject(seen, overlay)
  <2>1. c \in Object
    BY DEF SelectObject, TypeOK
  <2>2. copy' = c /\ pc' = Verdict(c) /\ UNCHANGED <<kind, server, pods, job>>
    BY <1>11 DEF LookAtLayer, clusterVars
  <2>3. /\ pc' \in {"update", "shrink"} => c.mine
        /\ pc' \notin {"pods", "finish"}
        /\ pc' = "update" /\ kind = "Deployment" => ~ Decreasing(c)
    BY <2>1, <2>2, VerdictCases
  <2> HIDE DEF c
  <2>4. Decreasing(copy)' = Decreasing(c)
    BY <2>2 DEF Decreasing, Listed
  <2>5. QED
    BY <1>1, <2>2, <2>3, <2>4 DEF ApplyInv
<1>12. CASE Make
  <2>1. /\ UNCHANGED <<kind, job, pods>> /\ pc' \in {"done", "idle"}
        /\ Store(New(job)) \/ UNCHANGED server
    BY <1>12 DEF Make
  <2>2. QED
    BY <1>1, <1>2, <2>1, Says
<1>13. CASE Update
  <2>1. /\ UNCHANGED <<kind, job, pods>> /\ pc' \in {"done", "idle"}
        /\ Store(Overwritten) \/ UNCHANGED server
    BY <1>13 DEF Update
  <2>2. QED
    BY <1>1, <1>2, <2>1, Says
<1>14. CASE Shrink
  <2>1. UNCHANGED <<kind, job, pods, copy>> /\ copy.mine
    BY <1>1, <1>14 DEF Shrink
  <2>2. CASE pc' = "idle" /\ UNCHANGED server
    BY <1>1, <1>2, <2>1, <2>2
  <2>3. CASE pc' = "pods" /\ Store(Marked)
    BY <1>1, <2>1, <2>3, Says DEF ApplyInv, Listed
  <2>4. QED
    BY <1>14, <2>2, <2>3 DEF Shrink
<1>15. CASE DeletePods
  BY <1>1, <1>15 DEF DeletePods, ApplyInv, Listed
<1>16. CASE DeletePodsFails
  BY <1>1, <1>2, <1>16 DEF DeletePodsFails
<1>17. CASE DeleteJob
  <2>1. kind = "Job" /\ UNCHANGED <<kind, job, pods>> /\ Store(NoObject) /\ pc' = "recreate"
    BY <1>17 DEF DeleteJob, TypeOK
  <2>2. QED
    BY <1>1, <1>2, <2>1, Says
<1>18. CASE CallUnanswered
  <2>1. /\ UNCHANGED <<kind, job, pods>> /\ pc' = "idle"
        /\ \/ Store(New(job)) \/ Store(Overwritten)
           \/ pc = "shrink" /\ Store(Marked)
           \/ kind = "Job" /\ Store(NoObject)
    BY <1>18 DEF CallUnanswered, TypeOK
  <2>2. QED
    BY <1>1, <1>2, <2>1, Says
<1>19. QED
  BY <1>4, <1>5, <1>6, <1>7, <1>8, <1>9, <1>10, <1>11, <1>12, <1>13, <1>14, <1>15, <1>16,
     <1>17, <1>18 DEF Next, Proceed, Create, Recreate

(* The types, the versions and what Apply has judged.                      *)
ClientInv == TypeOK /\ VersionInv /\ ApplyInv

LEMMA ClientStep == ClientInv /\ [Next]_vars => ClientInv'
  BY TypeStep, VersionStep, ApplyStep DEF ClientInv

LEMMA ClientInit == Init => ClientInv
<1> SUFFICES ASSUME Init PROVE ClientInv
  OBVIOUS
<1>1. /\ server = NoObject /\ view = NoObject /\ overlay = NoObject /\ seen = NoObject
      /\ copy = NoObject /\ reader.seen = NoObject /\ pending = <<>> /\ Len(pending) = 0
      /\ pc = "idle" /\ pods = {} /\ second = 1
  BY DEF Init, Idle
<1>2. VersionInv
  BY <1>1 DEF VersionInv, Known, Ordered
<1>3. ApplyInv
  BY <1>1, ObjectType DEF ApplyInv
<1>4. QED
  BY <1>2, <1>3, TypeInit DEF ClientInv

(* A copy of the server's version is the server's object.                  *)
LEMMA SameVersion ==
    ASSUME ClientInv, copy.version = server.version
    PROVE  copy = server
<1>1. Known(copy) /\ Known(server) /\ copy \in Object /\ server \in Object
  BY DEF ClientInv, TypeOK, Known
<1>2. QED
  BY <1>1 DEF ClientInv, VersionInv

LEMMA FreedStep ==
    ASSUME ClientInv, AddressesFreed, [Next]_vars
    PROVE  AddressesFreed'
<1>1. /\ server.mine /\ ~ server.mark /\ ~ missed => pods \subseteq server.ips
      /\ server.mine \/ pods = {}
      /\ TypeOK
  BY DEF AddressesFreed, ClientInv, ApplyInv
<1>2. ASSUME pc \in {"update", "finish"}, ~ missed, ~ Misjudged
      PROVE  pods \subseteq Listed(job)
  <2>1. CASE pc = "finish"
    BY <2>1 DEF ClientInv, ApplyInv
  <2>2. CASE pc = "update" /\ kind # "Deployment"
    BY <2>2 DEF ClientInv, ApplyInv
  <2>3. CASE pc = "update" /\ kind = "Deployment"
    <3>1. copy = server /\ copy.mine /\ ~ Decreasing(copy)
      BY <1>2, <2>3, SameVersion DEF ClientInv, ApplyInv, Misjudged
    <3>2. QED
      BY <1>1, <1>2, <3>1 DEF Decreasing
  <2>4. QED
    BY <1>2, <2>1, <2>2, <2>3
<1>3. ASSUME UNCHANGED <<server, missed>>, pods' \subseteq pods \cup server.ips
      PROVE  AddressesFreed'
  BY <1>1, <1>3 DEF AddressesFreed
<1>4. CASE \/ UNCHANGED vars \/ Edit \/ PodAppears \/ Tick \/ See \/ Expire
           \/ ReaderBegins \/ ReaderLooks \/ ReaderRemoves \/ Begin \/ LookAtInformer
           \/ LookAtLayer \/ DeletePods \/ DeletePodsFails \/ CallFails \/ Crash
  BY <1>3, <1>4 DEF vars, clusterVars, Edit, PodAppears, Tick, See, Expire, ReaderBegins,
                    ReaderLooks, ReaderRemoves, Begin, LookAtInformer, LookAtLayer,
                    DeletePods, DeletePodsFails, CallFails, Crash
<1>5. CASE OtherDeletes
  BY <1>1, <1>5, Says DEF OtherDeletes, AddressesFreed
<1>6. CASE OtherTakes
  BY <1>6 DEF OtherTakes, AddressesFreed
<1>7. CASE Make
  <2>1. UNCHANGED <<pods, missed>>
    BY <1>7 DEF Make
  <2>2. UNCHANGED server \/ (pods = {} /\ Store(New(job)))
    BY <1>1, <1>7, ObjectType DEF Make
  <2>3. QED
    BY <1>1, <2>1, <2>2 DEF AddressesFreed
<1>8. CASE Update
  <2>1. pods' = pods /\ pc \in {"update", "finish"}
    BY <1>8 DEF Update
  <2>2. \/ UNCHANGED <<server, missed>>
        \/ Store(Overwritten) /\ missed' = (missed \/ Misjudged)
    BY <1>8 DEF Update
  <2>3. QED
    BY <1>1, <1>2, <2>1, <2>2, Says DEF AddressesFreed
<1>9. CASE Shrink
  <2>1. UNCHANGED <<pods, missed>> /\ (UNCHANGED server \/ Store(Marked))
    BY <1>9 DEF Shrink
  <2>2. QED
    BY <1>1, <2>1, Says DEF AddressesFreed
<1>10. CASE DeleteJob
  BY <1>1, <1>10, Says DEF DeleteJob, AddressesFreed
<1>11. CASE CallUnanswered
  <2>1. pods' = pods /\ missed' = (missed \/ Misjudged)
    BY <1>11 DEF CallUnanswered
  <2>2. \/ server = NoObject /\ Store(New(job))
        \/ pc \in {"update", "finish"} /\ Store(Overwritten)
        \/ Store(Marked)
        \/ Store(NoObject)
    BY <1>11 DEF CallUnanswered
  <2>3. CASE server = NoObject /\ Store(New(job))
    BY <1>1, <2>1, <2>3, ObjectType DEF AddressesFreed
  <2>4. CASE pc \in {"update", "finish"} /\ Store(Overwritten)
    BY <1>1, <1>2, <2>1, <2>4, Says DEF AddressesFreed
  <2>5. CASE Store(Marked) \/ Store(NoObject)
    BY <1>1, <2>5, Says DEF AddressesFreed
  <2>6. QED
    BY <2>2, <2>3, <2>4, <2>5
<1>12. QED
  BY <1>4, <1>5, <1>6, <1>7, <1>8, <1>9, <1>10, <1>11 DEF Next, Proceed, Create, Recreate

(* "delete pods not in new list": no pod of a workload without the mark    *)
(* keeps an address that the list has lost, wherever Apply was interrupted *)
(* and whatever it was interrupted by, but for an Update that was judged   *)
(* by an old copy.                                                         *)
THEOREM AddressesFreedHolds == Spec => []AddressesFreed
<1>1. Init => AddressesFreed
  BY DEF Init, AddressesFreed
<1>2. QED
  BY ClientInit, ClientStep, FreedStep, <1>1, PTL DEF Spec

LEMMA KeptStep ==
    ASSUME ClientInv, [Next]_vars, kind = "Service", server # NoObject,
           server'.uid = server.uid
    PROVE  server'.mine = server.mine
<1>1. /\ TypeOK /\ server \in Object /\ rv \in Nat
      /\ server.uid \in 1 .. rv
  BY DEF ClientInv, TypeOK, VersionInv, Known
<1>2. CASE OtherDeletes
  <2>1. server'.uid = 0
    BY <1>1, <1>2, Stored, ObjectType DEF OtherDeletes, SaysTheSame
  <2>2. QED
    BY <1>1, <2>1
<1>3. CASE OtherTakes
  <2> DEFINE taken == [NoObject EXCEPT !.uid = rv + 1, !.second = second]
  <2>1. taken.uid = rv + 1
    BY DEF NoObject
  <2>2. Store(taken) /\ taken \in Object
    BY <1>1, <1>3, Made DEF OtherTakes
  <2> HIDE DEF taken
  <2>3. server'.uid = rv + 1
    BY <1>1, <2>1, <2>2, Stored DEF SaysTheSame
  <2>4. QED
    BY <1>1, <2>3
<1>4. pc \in {"update", "finish"} /\ ~ Conflicts => server.mine
  <2>1. pc \in {"update", "finish"} => copy.mine
    BY DEF ClientInv, ApplyInv
  <2>2. ~ Conflicts => copy = server
    BY SameVersion DEF Conflicts
  <2>3. QED
    BY <2>1, <2>2
<1>5. pc \notin {"shrink", "delete"}
  BY DEF ClientInv, TypeOK
<1>6. CASE Update \/ CallUnanswered
  <2>1. UNCHANGED server \/ (server.mine /\ Store(Overwritten))
    BY <1>4, <1>5, <1>6 DEF Update, CallUnanswered
  <2>2. server'.mine \in BOOLEAN /\ server.mine \in BOOLEAN
    BY <1>1, TypeStep, ObjectType DEF TypeOK
  <2>3. CASE server.mine /\ Store(Overwritten)
    <3>1. server'.mine
      BY <1>1, <2>3, Says
    <3>2. QED
      BY <2>2, <2>3, <3>1
  <2>4. QED
    BY <2>1, <2>3
<1>7. CASE Make \/ Shrink \/ DeleteJob
  BY <1>5, <1>7 DEF Make, Shrink, DeleteJob
<1>8. QED
  BY <1>2, <1>3, <1>6, <1>7
     DEF Next, vars, clusterVars, Edit, PodAppears, Tick, See, Expire, ReaderBegins,
         ReaderLooks, ReaderRemoves, Begin, Proceed, LookAtInformer, LookAtLayer, Create,
         Recreate, DeletePods, DeletePodsFails, CallFails, Crash

(* applyService never takes over a Service: the resourceVersion it sends   *)
(* is that of the copy whose owner was judged.                             *)
THEOREM ServicesKeptHolds == Spec => ServicesKept
<1>1. ClientInv /\ [Next]_vars =>
        [kind = "Service" /\ server # NoObject /\ server'.uid = server.uid
           => server'.mine = server.mine]_vars
  BY KeptStep
<1>2. QED
  BY ClientInit, ClientStep, <1>1, PTL DEF Spec, ServicesKept

-------------------------------------------------------------------------------
(* What this release has written does not get lost.                        *)
LEMMA SteadyStep ==
    ASSUME ClientInv, SteadyInv, [Next]_vars
    PROVE  SteadyInv'
<1> SUFFICES ASSUME server'.mine, ~ forgot'
             PROVE  /\ view'.version >= overlay'.version =>
                         \A i \in 1 .. Len(pending') : pending'[i] # NoObject
                    /\ \A i, j \in 1 .. Len(pending') :
                         i < j /\ pending'[i].version >= overlay'.version
                           => pending'[j] # NoObject
                    /\ overlay' = NoObject =>
                         view' # NoObject /\ (pc' = "look" => seen' # NoObject)
  BY DEF SteadyInv
<1>1. /\ TypeOK /\ rv \in Nat /\ pending \in Seq(Object) /\ Len(pending) \in Nat
      /\ \A o : Known(o) => o \in Object
      /\ \A i \in 1 .. Len(pending) : pending[i] \in Object
      /\ ~ NoObject.mine /\ NoObject.version = 0
      /\ \A o : Known(o) => o.version \in Nat /\ o.version <= rv
      /\ \A o : Known(o) /\ o.version = 0 => o = NoObject
  <2>1. TypeOK
    BY DEF ClientInv
  <2>2. /\ rv \in Nat /\ pending \in Seq(Object) /\ Len(pending) \in Nat
        /\ \A o : Known(o) => o \in Object
        /\ \A i \in 1 .. Len(pending) : pending[i] \in Object
    BY <2>1, KnownObjects DEF TypeOK
  <2>3. \A o : Known(o) => /\ o.version \in Nat /\ o.version <= rv
                           /\ o.version = 0 => o = NoObject
    BY <2>2, ObjectType DEF ClientInv, VersionInv
  <2>4. QED
    BY <2>1, <2>2, <2>3, ObjectType
<1>2. /\ Known(server) /\ Known(view) /\ Known(overlay) /\ Known(seen)
      /\ \A i \in 1 .. Len(pending) : Known(pending[i])
  BY DEF Known
<1>3. ASSUME server.mine, ~ forgot
      PROVE  /\ view.version >= overlay.version =>
                  \A i \in 1 .. Len(pending) : pending[i] # NoObject
             /\ \A i, j \in 1 .. Len(pending) :
                  i < j /\ pending[i].version >= overlay.version => pending[j] # NoObject
             /\ overlay = NoObject => view # NoObject /\ (pc = "look" => seen # NoObject)
  BY <1>3 DEF SteadyInv
<1>4. ASSUME UNCHANGED <<server, pending, view, overlay, forgot>>,
             pc' = "look" => (pc = "look" /\ seen' = seen) \/ seen' = view
      PROVE  /\ view'.version >= overlay'.version =>
                  \A i \in 1 .. Len(pending') : pending'[i] # NoObject
             /\ \A i, j \in 1 .. Len(pending') :
                  i < j /\ pending'[i].version >= overlay'.version => pending'[j] # NoObject
             /\ overlay' = NoObject => view' # NoObject /\ (pc' = "look" => seen' # NoObject)
  BY <1>3, <1>4
<1>5. CASE \/ UNCHANGED vars \/ Edit \/ PodAppears \/ Tick \/ ReaderBegins \/ ReaderLooks
           \/ Begin \/ LookAtInformer \/ DeletePods \/ DeletePodsFails \/ CallFails
  BY <1>4, <1>5 DEF vars, clusterVars, applyVars, Edit, PodAppears, Tick, ReaderBegins,
                    ReaderLooks, Begin, LookAtInformer, DeletePods, DeletePodsFails, CallFails
<1>6. CASE OtherDeletes \/ DeleteJob
  BY <1>1, <1>6, Says DEF OtherDeletes, DeleteJob
<1>7. CASE OtherTakes
  <2> DEFINE taken == [NoObject EXCEPT !.uid = rv + 1, !.second = second]
  <2>1. ~ taken.mine
    BY DEF NoObject
  <2>2. Store(taken) /\ taken \in Object
    BY <1>1, <1>7, Made DEF OtherTakes
  <2> HIDE DEF taken
  <2>3. ~ server'.mine
    BY <1>1, <2>1, <2>2, Stored DEF SaysTheSame
  <2>4. QED
    BY <2>3
<1>8. ASSUME UNCHANGED <<server, pending, view>>, overlay' = NoObject,
             forgot' = (forgot \/ Lost(overlay)), pc' = "look" => pc = "look" /\ seen' = seen
      PROVE  /\ view'.version >= overlay'.version =>
                  \A i \in 1 .. Len(pending') : pending'[i] # NoObject
             /\ \A i, j \in 1 .. Len(pending') :
                  i < j /\ pending'[i].version >= overlay'.version => pending'[j] # NoObject
             /\ overlay' = NoObject => view' # NoObject /\ (pc' = "look" => seen' # NoObject)
  <2>1. server.mine /\ ~ forgot /\ ~ Lost(overlay)
    BY <1>8
  <2>2. /\ overlay.version <= view.version
        /\ pc = "look" => overlay.version <= seen.version
    BY <1>1, <1>2, <2>1 DEF Lost
  <2>3. overlay = NoObject \/ (view # NoObject /\ (pc = "look" => seen # NoObject))
    BY <1>1, <1>2, <2>2
  <2>4. \A i \in 1 .. Len(pending) : pending[i] # NoObject
    BY <1>1, <1>2, <1>3, <2>1, <2>2
  <2>5. QED
    BY <1>3, <1>8, <2>1, <2>3, <2>4
<1>9. CASE Expire \/ ReaderRemoves
  BY <1>8, <1>9 DEF Expire, ReaderRemoves, clusterVars, applyVars
<1>10. CASE LookAtLayer
  <2>1. UNCHANGED <<server, pending, view>>
    BY <1>10 DEF LookAtLayer, clusterVars
  <2>2. pc' # "look"
    <3>1. SelectObject(seen, overlay) \in Object
      BY <1>1 DEF SelectObject, TypeOK
    <3>2. pc' = Verdict(SelectObject(seen, overlay))
      BY <1>10 DEF LookAtLayer
    <3>3. QED
      BY <1>1, <3>1, <3>2, VerdictCases
  <2>3. \/ overlay' = NoObject /\ forgot' = (forgot \/ Lost(overlay))
        \/ UNCHANGED <<overlay, forgot>>
    BY <1>10 DEF LookAtLayer
  <2>4. QED
    BY <1>4, <1>8, <2>1, <2>2, <2>3
<1>11. CASE See
  <2>1. PICK k \in 1 .. Len(pending) : /\ view' = pending[k]
                                       /\ pending' = SubSeq(pending, k + 1, Len(pending))
    BY <1>11 DEF See
  <2>2. UNCHANGED <<server, overlay, forgot, pc, seen>>
    BY <1>11 DEF See, applyVars
  <2>3. /\ Len(pending') = Len(pending) - k
        /\ \A j \in 1 .. Len(pending') : pending'[j] = pending[k + j]
        /\ \A j \in 1 .. Len(pending') : k + j \in 1 .. Len(pending) /\ k < k + j
    BY <1>1, <2>1
  <2>4. \A i, j \in 1 .. Len(pending') : i < j => k + i < k + j
    BY <2>3
  <2>5. overlay = NoObject => pending[k] # NoObject
    BY <1>1, <1>2, <1>3, <2>1, <2>2
  <2>6. QED
    BY <1>3, <2>1, <2>2, <2>3, <2>4, <2>5
<1>12. CASE Crash
  <2>1. view' = server /\ pending' = <<>> /\ UNCHANGED server /\ pc' = "idle"
    BY <1>12 DEF Crash
  <2>2. server # NoObject /\ Len(pending') = 0
    BY <1>1, <2>1
  <2>3. QED
    BY <2>1, <2>2
<1>13. /\ view.version \in Nat /\ view.version <= rv
       /\ \A i \in 1 .. Len(pending) : pending[i].version \in Nat /\ pending[i].version <= rv
  BY <1>1, <1>2
<1>14. ASSUME NEW new \in Object, Store(new), new # NoObject, view' = view, pc' # "look",
              \/ overlay' = server'
              \/ overlay' = overlay /\ server.mine /\ ~ forgot
       PROVE  /\ view'.version >= overlay'.version =>
                   \A i \in 1 .. Len(pending') : pending'[i] # NoObject
              /\ \A i, j \in 1 .. Len(pending') :
                   i < j /\ pending'[i].version >= overlay'.version => pending'[j] # NoObject
              /\ overlay' = NoObject =>
                   view' # NoObject /\ (pc' = "look" => seen' # NoObject)
  <2>1. server' \in Object /\ server' # NoObject
    BY <1>1, <1>14, Stored
  <2>2. CASE UNCHANGED <<server, rv, pending>> /\ overlay' = server'
    <3>1. server = IF pending = <<>> THEN view ELSE pending[Len(pending)]
      BY <1>1 DEF TypeOK
    <3>2. CASE pending = <<>>
      BY <1>14, <2>1, <2>2, <3>2
    <3>3. CASE pending # <<>>
      <4>1. Len(pending) \in 1 .. Len(pending) /\ server = pending[Len(pending)]
        BY <1>1, <3>1, <3>3
      <4>2. /\ view.version < server.version
            /\ \A i \in 1 .. Len(pending) :
                 i < Len(pending) => pending[i].version < server.version
        BY <2>1, <2>2, <4>1 DEF ClientInv, VersionInv, Ordered
      <4>3. \A i, j \in 1 .. Len(pending) : i < j => i < Len(pending)
        BY <1>1
      <4>4. server.version \in Nat
        BY <1>1, <1>2
      <4>5. QED
        BY <1>13, <1>14, <2>1, <2>2, <4>2, <4>3, <4>4
    <3>4. QED
      BY <3>2, <3>3
  <2>3. CASE UNCHANGED <<server, rv, pending>> /\ overlay' = overlay /\ server.mine /\ ~ forgot
    BY <1>3, <1>14, <2>3
  <2>4. CASE /\ rv' = rv + 1 /\ pending' = Append(pending, server')
             /\ \/ server' = NoObject /\ new = NoObject
                \/ server'.version = rv + 1 /\ new # NoObject
    <3>1. /\ server'.version = rv + 1 /\ Len(pending') = Len(pending) + 1
          /\ \A i \in 1 .. Len(pending) : pending'[i] = pending[i]
          /\ pending'[Len(pending) + 1] = server'
          /\ \A i \in 1 .. Len(pending') : i \in 1 .. Len(pending) \/ i = Len(pending) + 1
      BY <1>1, <1>14, <2>1, <2>4
    <3>2. \A i, j \in 1 .. Len(pending') : i < j => i \in 1 .. Len(pending)
      BY <1>1, <3>1
    <3>3. CASE overlay' = server'
      <4>1. ~ (view'.version >= overlay'.version)
        BY <1>1, <1>13, <1>14, <3>1, <3>3
      <4>2. \A i \in 1 .. Len(pending) : ~ (pending'[i].version >= overlay'.version)
        BY <1>1, <1>13, <3>1, <3>3
      <4>3. QED
        BY <1>14, <2>1, <3>2, <3>3, <4>1, <4>2
    <3>4. CASE overlay' = overlay /\ server.mine /\ ~ forgot
      BY <1>3, <1>14, <2>1, <3>1, <3>2, <3>4
    <3>5. QED
      BY <1>14, <3>3, <3>4
  <2>5. QED
    BY <1>1, <1>14, <2>2, <2>3, <2>4, Stored
<1>15. CASE Make
  <2>1. view' = view /\ pc' # "look" /\ UNCHANGED <<seen, forgot>>
    BY <1>15 DEF Make
  <2>2. CASE Store(New(job)) /\ overlay' = server'
    <3>1. New(job) \in Object /\ New(job) # NoObject
      BY <1>1, Made DEF New
    <3>2. QED
      BY <1>14, <2>1, <2>2, <3>1
  <2>3. QED
    BY <1>4, <1>15, <2>1, <2>2 DEF Make, Record
<1>16. CASE Update
  <2>1. view' = view /\ pc' # "look" /\ UNCHANGED <<seen, forgot>>
    BY <1>16 DEF Update
  <2>2. CASE Store(Overwritten) /\ overlay' = server'
    <3>1. Overwritten \in Object /\ Overwritten # NoObject
      <4>1. server \in Object
        BY <1>1 DEF TypeOK
      <4>2. Overwritten.mine
        BY <4>1 DEF Overwritten, Object
      <4>3. QED
        BY <1>1, <4>2, Made
    <3>2. QED
      BY <1>14, <2>1, <2>2, <3>1
  <2>3. QED
    BY <1>4, <1>16, <2>1, <2>2 DEF Update, Record
<1>17. CASE Shrink
  <2>1. view' = view /\ pc' # "look" /\ UNCHANGED <<seen, forgot, overlay>>
    BY <1>17 DEF Shrink
  <2>2. CASE Store(Marked) /\ server.version = copy.version
    <3>1. copy.mine /\ copy = server
      BY <1>17, <2>2, SameVersion DEF Shrink, ClientInv, ApplyInv
    <3>2. Marked \in Object /\ Marked # NoObject
      <4>1. copy \in Object
        BY <1>1 DEF TypeOK
      <4>2. Marked.mine
        BY <3>1, <4>1 DEF Marked, Object
      <4>3. QED
        BY <1>1, <4>2, Made
    <3>3. QED
      BY <1>14, <2>1, <2>2, <3>1, <3>2
  <2>3. QED
    BY <1>4, <1>17, <2>1, <2>2 DEF Shrink
<1>18. CASE CallUnanswered
  <2>1. pc = "delete"
    BY <1>18 DEF CallUnanswered
  <2>2. Store(NoObject)
    BY <1>18, <2>1 DEF CallUnanswered
  <2>3. QED
    BY <1>1, <2>2, Says
<1>19. QED
  BY <1>5, <1>6, <1>7, <1>9, <1>10, <1>11, <1>12, <1>15, <1>16, <1>17, <1>18
     DEF Next, Proceed, Create, Recreate

LEMMA ReadStep ==
    ASSUME ClientInv, SteadyInv, ReadYourWrites, [Next]_vars
    PROVE  ReadYourWrites'
<1> SUFFICES ASSUME pc' = "create", server'.mine, ~ forgot' PROVE FALSE
  BY DEF ReadYourWrites
<1>1. TypeOK /\ (pc = "create" => ~ server.mine \/ forgot)
  BY DEF ClientInv, ReadYourWrites
<1>2. CASE LookAtLayer
  <2>1. server.mine /\ ~ forgot /\ pc = "look"
    BY <1>2 DEF LookAtLayer, clusterVars
  <2>2. seen \in Object /\ overlay \in Object
    BY <1>1 DEF TypeOK
  <2>3. SelectObject(seen, overlay) = NoObject
    <3>1. SelectObject(seen, overlay) \in Object
      BY <2>2 DEF SelectObject
    <3>2. pc' = Verdict(SelectObject(seen, overlay))
      BY <1>2 DEF LookAtLayer
    <3>3. QED
      BY <1>1, <3>1, <3>2, VerdictCases
  <2>4. CASE overlay = NoObject
    <3>1. seen # NoObject
      BY <2>1, <2>4 DEF SteadyInv
    <3>2. Newer(seen, overlay)
      BY <2>2, <2>4, ObjectType DEF Newer
    <3>3. QED
      BY <2>3, <3>1, <3>2 DEF SelectObject
  <2>5. CASE overlay # NoObject
    <3>1. overlay.version \in 1 .. rv /\ overlay.second \in Nat \ {0} /\ rv \in Nat
      <4>1. Known(overlay) /\ overlay \in Object /\ rv \in Nat
        BY <1>1 DEF Known, TypeOK
      <4>2. QED
        BY <2>5, <4>1, ObjectType DEF ClientInv, VersionInv
    <3>2. seen = NoObject /\ Newer(seen, overlay)
      BY <2>3, <2>5 DEF SelectObject
    <3>3. NoObject.second < overlay.second /\ ~ (NoObject.version >= overlay.version)
      BY <3>1, ObjectType
    <3>4. QED
      BY <3>2, <3>3 DEF Newer
  <2>6. QED
    BY <2>4, <2>5
<1>3. ASSUME pc = "create", server'.mine => server.mine, forgot => forgot' PROVE FALSE
  BY <1>1, <1>3
<1>4. CASE OtherDeletes \/ OtherTakes
  <2>1. ~ server'.mine
    <3>1. CASE OtherDeletes
      BY <1>1, <3>1, Says DEF OtherDeletes
    <3>2. CASE OtherTakes
      <4> DEFINE taken == [NoObject EXCEPT !.uid = rv + 1, !.second = second]
      <4>1. ~ taken.mine
        BY DEF NoObject
      <4>2. Store(taken) /\ taken \in Object
        BY <1>1, <3>2, Made DEF OtherTakes
      <4> HIDE DEF taken
      <4>3. QED
        BY <1>1, <4>1, <4>2, Stored DEF SaysTheSame
    <3>3. QED
      BY <1>4, <3>1, <3>2
  <2>2. QED
    BY <2>1
<1>5. CASE \/ UNCHANGED vars \/ Edit \/ PodAppears \/ Tick \/ See \/ Expire
           \/ ReaderBegins \/ ReaderLooks \/ ReaderRemoves
  <2>1. UNCHANGED <<pc, server>>
    BY <1>5 DEF vars, clusterVars, applyVars, Edit, PodAppears, Tick, See, Expire,
                ReaderBegins, ReaderLooks, ReaderRemoves
  <2>2. forgot => forgot'
    BY <1>5 DEF vars, Edit, PodAppears, Tick, See, Expire, ReaderBegins, ReaderLooks,
                ReaderRemoves
  <2>3. QED
    BY <1>3, <2>1, <2>2
<1>6. CASE \/ Begin \/ LookAtInformer \/ Make \/ Update \/ Shrink \/ DeletePods
           \/ DeletePodsFails \/ DeleteJob \/ CallFails \/ CallUnanswered \/ Crash
  BY <1>6 DEF Begin, LookAtInformer, Make, Update, Shrink, DeletePods, DeletePodsFails,
              DeleteJob, CallFails, CallUnanswered, Crash
<1>7. QED
  BY <1>2, <1>4, <1>5, <1>6 DEF Next, Proceed, Create, Recreate

(* "Record the result into cache": Apply reads its own writes, however far *)
(* behind the informer is, as long as the layer was told of them and its   *)
(* entry was not removed too early.                                        *)
THEOREM ReadYourWritesHolds == Spec => []ReadYourWrites
<1>1. Init => SteadyInv /\ ReadYourWrites
  BY ObjectType DEF Init, SteadyInv, ReadYourWrites
<1>2. QED
  BY ClientInit, ClientStep, SteadyStep, ReadStep, <1>1, PTL DEF Spec
===============================================================================
