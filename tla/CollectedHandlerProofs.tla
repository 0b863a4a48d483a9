------------------------ MODULE CollectedHandlerProofs ------------------------
(***************************************************************************)
(* What TLAPS proves of CollectedHandler: however stale what the collector *)
(* judges by and whatever fails, it leaves the newest HistoryLimit         *)
(* histories alone; and, when the history informer is never late and the   *)
(* limit is not 0, no version ever names two configs, and a run without a  *)
(* failure or a rollback makes no version to spare.                        *)
(***************************************************************************)
EXTENDS CollectedHandler, ReleaseHandlerProofs, WellFoundedInduction

-------------------------------------------------------------------------------
(* The latest of versions with gaps between them.                          *)

(* Histories numbered up to n at most have a latest one, or there are      *)
(* none: LatestVersion's CHOOSE finds something.                           *)
LEMMA LatestWithin ==
    ASSUME NEW h, NEW n \in Nat, DOMAIN h \subseteq 1 .. n
    PROVE  /\ LatestVersion(h) \in 0 .. n
           /\ DOMAIN h # {} => LatestVersion(h) \in DOMAIN h
           /\ \A v \in DOMAIN h : v <= LatestVersion(h)
  <1>1. CASE DOMAIN h = {}
    BY <1>1 DEF LatestVersion
  <1>2. CASE DOMAIN h # {}
    <2> DEFINE Below == {n - v : v \in DOMAIN h}
    <2>1. Below \subseteq Nat /\ Below # {}
      BY <1>2
    <2>2. PICK x \in Below : \A y \in Below : <<y, x>> \notin OpToRel(<, Nat)
      <3> HIDE DEF Below
      <3> QED BY <2>1, NatLessThanWellFounded, WFMin, Zenon
    <2>3. \A y \in Below : ~ (y < x)
      BY <2>1, <2>2, Zenon DEF OpToRel
    <2>4. PICK m \in DOMAIN h : x = n - m
      BY <2>2
    <2>5. \A w \in DOMAIN h : w <= m
      <3> SUFFICES ASSUME NEW w \in DOMAIN h PROVE w <= m
        OBVIOUS
      <3>1. n - w \in Below
        OBVIOUS
      <3>2. ~ (n - w < n - m)
        BY <2>3, <2>4, <3>1
      <3>3. w \in 1 .. n /\ m \in 1 .. n
        OBVIOUS
      <3>4. QED
        BY <3>2, <3>3
    <2>6. /\ LatestVersion(h) \in DOMAIN h
          /\ \A w \in DOMAIN h : w <= LatestVersion(h)
      BY <1>2, <2>5 DEF LatestVersion
    <2>7. QED
      BY <2>6
  <1>3. QED
    BY <1>1, <1>2

-------------------------------------------------------------------------------
(* The memory of what was handed out.                                      *)

(* Whatever is in sight, on the server, in a copy, in the collector's list *)
(* or in the worker's hands, bears a number that was handed out, or is the *)
(* next one; and what is to be collected is outside the window.            *)
CollectedInv ==
    /\ TypeOK /\ Assigned
    /\ IsHistories(given) /\ Numbered(given)
    /\ DOMAIN histories \subseteq DOMAIN given
    /\ DOMAIN histView \subseteq DOMAIN given
    /\ {server.version, view.version, base.version} \subseteq 0 .. Newest
    /\ pc \in {"apply", "update"} /\ job.rollbackTo = NoRollback
          => job.version \in 1 .. Newest + 1
    /\ pc = "update" => job.rollbackTo = NoRollback
    /\ pc = "rollback" => job.rollbackTo # NoRollback
    /\ pc = "patch" => job.version \in 1 .. Newest
    /\ doomed \subseteq 1 .. Newest
    /\ \A v \in doomed : v + HistoryLimit <= Newest
    /\ WindowRetained

(* The numbers Newest compares are numbers.                                *)
LEMMA NewestIsNumber ==
    ASSUME CollectedInv
    PROVE  Newest \in Nat /\ DOMAIN given = 1 .. Newest /\ HistoryLimit \in Nat
  BY LimitAssumption DEF CollectedInv, Numbered, Newest

(* A step that makes no history of a new number adds nothing to remember.  *)
LEMMA NothingNew ==
    ASSUME CollectedInv, Remember, DOMAIN histories' \subseteq DOMAIN given
    PROVE  given' = given /\ Newest' = Newest
  <1>1. DOMAIN given \cup DOMAIN histories' = DOMAIN given
    OBVIOUS
  <1>2. given' = [v \in DOMAIN given |-> given[v]]
    BY <1>1 DEF Remember
  <1>3. given' = given
    BY <1>2 DEF CollectedInv, IsHistories
  <1>4. QED
    BY <1>3 DEF Newest

(* A history of the next number is remembered with its config.             *)
LEMMA NextRemembered ==
    ASSUME CollectedInv, Remember, NEW c \in Config,
           histories' = AddHistory(histories, Newest + 1, c)
    PROVE  /\ IsHistories(given') /\ Numbered(given') /\ Newest' = Newest + 1
           /\ given'[Newest + 1] = c
           /\ \A v \in DOMAIN given : given'[v] = given[v]
  <1> DEFINE n == Newest + 1
             g == AddHistory(given, n, c)
  <1>1. /\ DOMAIN histories' = DOMAIN histories \cup {n}
        /\ histories'[n] = c
    BY DEF AddHistory
  <1>2. DOMAIN given \cup DOMAIN histories' = DOMAIN given \cup {n}
    BY <1>1 DEF CollectedInv
  <1>3. n \notin DOMAIN given
    BY NewestIsNumber
  <1>4. given' = g
    <2>1. given' = [v \in DOMAIN given \cup {n} |->
                       IF v \in DOMAIN given THEN given[v] ELSE histories'[v]]
      BY <1>2 DEF Remember
    <2>2. g = [v \in DOMAIN given \cup {n} |-> IF v = n THEN c ELSE given[v]]
      BY DEF AddHistory
    <2> HIDE DEF n, g
    <2>3. QED
      BY <1>1, <1>3, <2>1, <2>2
  <1>5. IsHistories(given) /\ Numbered(given)
    BY DEF CollectedInv
  <1>6. /\ IsHistories(g) /\ Numbered(g) /\ LatestVersion(g) = n /\ g[n] = c
        /\ \A v \in DOMAIN given : g[v] = given[v]
    BY <1>5, AddNext DEF Newest
  <1>7. QED
    BY <1>4, <1>6 DEF Newest

LEMMA CollectedInit == InitBoth => CollectedInv
  <1> SUFFICES ASSUME InitBoth PROVE CollectedInv
    OBVIOUS
  <1>1. Inv /\ RecordedInv /\ histories = NoHistories /\ histView = NoHistories
    BY InvInit, RecordedInit DEF InitBoth, Init
  <1>2. given = NoHistories /\ doomed = {}
    BY DEF InitBoth
  <1>3. IsHistories(given) /\ Numbered(given) /\ Newest = 0 /\ DOMAIN given = {}
    BY <1>2, NoHistoriesNumbered DEF Newest, NoHistories
  <1>4. {server.version, view.version, base.version} \subseteq 0 .. Newest
    BY <1>1, <1>3 DEF RecordedInv, Recorded, NoHistories
  <1>5. WindowRetained
    BY <1>3 DEF WindowRetained
  <1>6. QED
    BY <1>1, <1>2, <1>3, <1>4, <1>5
    DEF CollectedInv, Inv, NoHistories, InitBoth, Init

-------------------------------------------------------------------------------
(* The steps.                                                              *)

(* The handler's steps but those that make a history: everything they move *)
(* about had a number already.                                             *)
LEMMA CollectedQuiet ==
    ASSUME CollectedInv, HandlerSteps, Remember,
           ~ (EnsureHistory \/ EnsureHistoryUnanswered)
    PROVE  CollectedInv'
  <1> USE DEF CollectedInv
  <1>num. Newest \in Nat /\ DOMAIN given = 1 .. Newest /\ HistoryLimit \in Nat
    BY NewestIsNumber
  <1>next. Next
    BY DEF HandlerSteps
  <1>latest. /\ LatestVersion(histView) \in 0 .. Newest
             /\ DOMAIN histView # {} => LatestVersion(histView) \in DOMAIN histView
    BY <1>num, LatestWithin
  <1>types. TypeOK' /\ Assigned'
    BY <1>num, <1>latest, <1>next, TypeStep
  <1>hist. histories' = histories /\ histView' \in {histView, histories}
    BY <1>next
    DEF Next, Worker, Edit, RequestRollback, ViewCatchesUp, HistViewCatchesUp, Resync,
        Trigger, Receive, RetryFires, Take, List, Apply, ApplyStopsHalfway, PatchStatus,
        Rollback, CallFails, FlushAvailable, RecordError, RecordFails, Crash, apiVars,
        informVars
  <1>given. given' = given /\ Newest' = Newest
    BY <1>hist, NothingNew
  <1>doomed. doomed' \in {doomed, {}}
    BY DEF HandlerSteps
  <1>window. WindowRetained'
    BY <1>hist, <1>given DEF WindowRetained
  <1>nil. Nil.version = 0
    BY DEF Nil, NewRelease
  <1>versions. {server'.version, view'.version, base'.version} \subseteq 0 .. Newest
    <2>user. CASE Edit \/ RequestRollback
      <3>1. server'.version = server.version /\ UNCHANGED <<view, base>>
        BY <2>user DEF Edit, RequestRollback, TypeOK, Release, informVars
      <3>2. QED
        BY <3>1
    <2>informer. CASE ViewCatchesUp \/ Resync \/ HistViewCatchesUp
      BY <2>informer DEF ViewCatchesUp, Resync, HistViewCatchesUp, apiVars
    <2>queue. CASE Trigger \/ Receive \/ RetryFires \/ Take
      BY <2>queue DEF Trigger, Receive, RetryFires, Take, apiVars, informVars
    <2>compute. CASE List \/ Apply \/ ApplyStopsHalfway \/ CallFails
      BY <2>compute DEF List, Apply, ApplyStopsHalfway, CallFails, apiVars, informVars
    <2>patch. CASE PatchStatus
      <3>1. job \in Release /\ base \in Release /\ server \in Release
        BY <2>patch DEF PatchStatus, TypeOK, Assigned
      <3>2. Updated(base, job) \in Release /\ Updated(base, job).version = job.version
        BY <3>1, ModifierTypes DEF Updated, Release
      <3>3. Send(Updated(base, job)) \/ SendUnanswered(Updated(base, job))
        BY <2>patch DEF PatchStatus
      <3>4. {server'.version, base'.version}
               \subseteq {server.version, base.version, job.version}
        BY <3>1, <3>2, <3>3, SendVersion
      <3>5. view' = view /\ pc = "patch"
        BY <2>patch DEF PatchStatus, informVars
      <3>6. QED
        BY <1>num, <3>4, <3>5
    <2>rollback. CASE Rollback
      <3> DEFINE v    == job.rollbackTo
                 want == IF v \in DOMAIN histView THEN RolledBack(base, v, histView[v])
                         ELSE Flushed(base, "Failure")
      <3>1. job \in Release /\ base \in Release /\ server \in Release
        BY <2>rollback DEF Rollback, TypeOK, Assigned
      <3>2. want \in Release
        BY <3>1, ModifierTypes DEF TypeOK, IsHistories, Condition
      <3>3. want.version \in {base.version} \cup DOMAIN histView
        BY <3>1 DEF RolledBack, Flushed, Release
      <3>4. Send(want) \/ SendUnanswered(want)
        BY <2>rollback DEF Rollback
      <3>5. {server'.version, base'.version}
               \subseteq {server.version, base.version, want.version}
        <4> HIDE DEF want
        <4> QED BY <3>1, <3>2, <3>4, SendVersion
      <3>6. view' = view
        BY <2>rollback DEF Rollback, informVars
      <3> HIDE DEF want
      <3>7. QED
        BY <1>num, <3>3, <3>5, <3>6
    <2>ends. CASE FlushAvailable \/ RecordError \/ RecordFails
      <3>1. base \in Release /\ server \in Release
        BY <2>ends DEF FlushAvailable, RecordError, RecordFails, TypeOK, Assigned
      <3>2. \/ \E cond \in Condition : \/ Send(Flushed(base, cond))
                                       \/ SendUnanswered(Flushed(base, cond))
            \/ UNCHANGED <<server, base>>
        BY <2>ends DEF FlushAvailable, RecordError, RecordFails, apiVars, Condition
      <3>3. \A cond \in Condition : /\ Flushed(base, cond) \in Release
                                   /\ Flushed(base, cond).version = base.version
        BY <3>1, ModifierTypes DEF Flushed, Release
      <3>4. {server'.version, base'.version} \subseteq {server.version, base.version}
        BY <3>1, <3>2, <3>3, SendVersion
      <3>5. view' = view
        BY <2>ends DEF FlushAvailable, RecordError, RecordFails, informVars
      <3>6. QED
        BY <3>4, <3>5
    <2>crash. CASE Crash
      BY <1>num, <1>nil, <2>crash DEF Crash, apiVars
    <2>qed. QED
      BY <1>next, <2>user, <2>informer, <2>queue, <2>compute, <2>patch, <2>rollback, <2>ends,
         <2>crash
      DEF Next, Worker
  <1>job. /\ pc' \in {"apply", "update"} /\ job'.rollbackTo = NoRollback
                => job'.version \in 1 .. Newest + 1
          /\ pc' = "update" => job'.rollbackTo = NoRollback
          /\ pc' = "rollback" => job'.rollbackTo # NoRollback
          /\ pc' = "patch" => pc = "patch" /\ job' = job
    <2>idle. CASE pc' = "idle"
      BY <2>idle
    <2>same. CASE UNCHANGED <<pc, job>>
      BY <2>same
    <2>take. CASE Take
      BY <2>take DEF Take
    <2>list. CASE List
      <3>1. job \in Release
        BY <2>list DEF List, TypeOK, Assigned
      <3>2. NextVersion(histView, job) \in 1 .. Newest + 1
        BY <1>num, <1>latest, <3>1 DEF NextVersion, CurrentVersion
      <3>3. job'.version = NextVersion(histView, job) /\ pc' \in {"apply", "record"}
        BY <2>list, <3>1 DEF List, Release
      <3>4. QED
        BY <3>2, <3>3
    <2>apply. CASE Apply \/ ApplyStopsHalfway \/ CallFails
      BY <2>apply DEF Apply, ApplyStopsHalfway, CallFails
    <2>patch. CASE PatchStatus
      BY <2>patch DEF PatchStatus
    <2>rollback. CASE Rollback
      <3>1. job \in Release
        BY <2>rollback DEF Rollback, TypeOK, Assigned
      <3>2. job'.rollbackTo = job.rollbackTo /\ pc' \in {"apply", "record"}
        BY <2>rollback, <3>1 DEF Rollback, Release
      <3>3. pc = "rollback"
        BY <2>rollback DEF Rollback
      <3>4. QED
        BY <3>2, <3>3
    <2>qed. QED
      BY <1>next, <2>idle, <2>same, <2>take, <2>list, <2>apply, <2>patch, <2>rollback
      DEF Next, Worker, Edit, RequestRollback, ViewCatchesUp, HistViewCatchesUp, Resync,
          Trigger, Receive, RetryFires, FlushAvailable, RecordError, RecordFails, Succeed,
          GiveBack, Crash
  <1>qed. QED
    BY <1>hist, <1>given, <1>doomed, <1>window, <1>versions, <1>job, <1>types

(* The worker makes a history, of the next number or again of one that was *)
(* collected.                                                              *)
LEMMA CollectedEnsure ==
    ASSUME CollectedInv, HandlerSteps, Remember, EnsureHistory \/ EnsureHistoryUnanswered
    PROVE  CollectedInv'
  <1> USE DEF CollectedInv
  <1>num. Newest \in Nat /\ DOMAIN given = 1 .. Newest /\ HistoryLimit \in Nat
    BY NewestIsNumber
  <1>types. TypeOK' /\ Assigned'
    <2>1. LatestVersion(histView) \in Nat
      BY <1>num, LatestWithin
    <2>2. QED
      BY <1>num, <2>1, TypeStep DEF HandlerSteps
  <1>job. /\ job \in Release /\ job' = job /\ pc = "update" /\ pc' \in {"patch", "record"}
          /\ job.version \in 1 .. Newest + 1
          /\ UNCHANGED <<server, view, base>>
    BY DEF EnsureHistory, EnsureHistoryUnanswered, TypeOK, Assigned, informVars
  <1>doomed. doomed' \in {doomed, {}}
    BY DEF HandlerSteps
  <1>made. /\ histories' \in {histories, AddHistory(histories, job.version, job.config)}
           /\ DOMAIN histView' \subseteq DOMAIN histView \cup DOMAIN histories'
           /\ pc' = "patch" => job.version \in DOMAIN histView \cup DOMAIN histories'
    BY DEF EnsureHistory, EnsureHistoryUnanswered, Learned, informVars, AddHistory
  <1>old. CASE DOMAIN histories' \subseteq DOMAIN given
    <2>1. given' = given /\ Newest' = Newest
      BY <1>old, NothingNew
    <2>2. DOMAIN histories \subseteq DOMAIN histories'
      BY <1>made DEF AddHistory
    <2>3. WindowRetained'
      BY <2>1, <2>2 DEF WindowRetained
    <2>4. QED
      BY <1>num, <1>types, <1>job, <1>doomed, <1>made, <1>old, <2>1, <2>3
  <1>new. CASE ~ (DOMAIN histories' \subseteq DOMAIN given)
    <2>1. /\ histories' = AddHistory(histories, job.version, job.config)
          /\ DOMAIN histories' = DOMAIN histories \cup {job.version}
      BY <1>made, <1>new DEF AddHistory
    <2>2. job.version = Newest + 1
      BY <1>num, <1>job, <1>new, <2>1
    <2>3. /\ IsHistories(given') /\ Numbered(given') /\ Newest' = Newest + 1
      BY <1>job, <2>1, <2>2, NextRemembered DEF Release
    <2>4. DOMAIN given' = 1 .. Newest + 1
      BY <2>3 DEF Numbered, Newest
    <2>5. WindowRetained'
      BY <1>num, <2>1, <2>2, <2>3, <2>4 DEF WindowRetained
    <2>6. DOMAIN histories' \subseteq DOMAIN given' /\ DOMAIN histView' \subseteq DOMAIN given'
      BY <1>num, <1>made, <2>1, <2>2, <2>4
    <2>7. /\ doomed' \subseteq 1 .. Newest'
          /\ \A v \in doomed' : v + HistoryLimit <= Newest'
      BY <1>num, <1>doomed, <2>3
    <2>8. {server'.version, view'.version, base'.version} \subseteq 0 .. Newest'
      BY <1>num, <1>job, <2>3
    <2>9. QED
      BY <1>num, <1>types, <1>job, <2>2, <2>3, <2>5, <2>6, <2>7, <2>8
  <1>qed. QED
    BY <1>old, <1>new

(* The collector dooms only what is outside the window of a version that   *)
(* was handed out, however old, and deletes only what it has doomed.       *)
LEMMA CollectorKeeps ==
    ASSUME CollectedInv, Remember,
           Collect \/ DeleteHistory \/ GiveUpCollecting \/ UNCHANGED <<vars, doomed>>
    PROVE  CollectedInv'
  <1> USE DEF CollectedInv
  <1>num. Newest \in Nat /\ DOMAIN given = 1 .. Newest /\ HistoryLimit \in Nat
    BY NewestIsNumber
  <1>judge. CASE Collect \/ GiveUpCollecting \/ UNCHANGED <<vars, doomed>>
    <2>1. UNCHANGED vars
      BY <1>judge DEF Collect, GiveUpCollecting
    <2>2. given' = given /\ Newest' = Newest
      BY <2>1, NothingNew DEF vars, apiVars
    <2>3. TypeOK' /\ Assigned' /\ WindowRetained'
      BY <2>1, <2>2 DEF vars, apiVars, informVars, queueVars, budgetVars, TypeOK, Assigned,
                        WindowRetained
    <2>4. /\ doomed' \subseteq 1 .. Newest
          /\ \A v \in doomed' : v + HistoryLimit <= Newest
      <3>1. CASE doomed' \in {doomed, {}}
        BY <3>1
      <3>2. CASE doomed' = {v \in DOMAIN histories : ~ Retain(v, view.version)}
        BY <1>num, <3>2 DEF Retain
      <3>3. QED
        BY <1>judge, <3>1, <3>2 DEF Collect, GiveUpCollecting
    <2>5. QED
      BY <2>1, <2>2, <2>3, <2>4 DEF vars, apiVars, informVars
  <1>delete. CASE DeleteHistory
    <2>1. PICK v \in doomed : /\ histories' = [w \in DOMAIN histories \ {v} |-> histories[w]]
                              /\ doomed' = doomed \ {v}
      BY <1>delete DEF DeleteHistory
    <2>2. UNCHANGED <<server, view, histView, base, pc, job>>
      BY <1>delete DEF DeleteHistory, informVars
    <2>3. DOMAIN histories' = DOMAIN histories \ {v}
      BY <2>1
    <2>4. given' = given /\ Newest' = Newest
      BY <2>3, NothingNew
    <2>5. IsHistories(histories')
      BY <2>1 DEF TypeOK, IsHistories
    <2>6. TypeOK' /\ Assigned'
      BY <1>delete, <2>5 DEF DeleteHistory, TypeOK, Assigned, informVars, queueVars, budgetVars
    <2>7. WindowRetained'
      BY <1>num, <2>1, <2>3, <2>4 DEF WindowRetained
    <2>8. QED
      BY <2>1, <2>2, <2>3, <2>4, <2>6, <2>7
  <1>qed. QED
    BY <1>judge, <1>delete

LEMMA CollectedStep == CollectedInv /\ [NextBoth]_allVars => CollectedInv'
  <1> SUFFICES ASSUME CollectedInv, [NextBoth]_allVars PROVE CollectedInv'
    OBVIOUS
  <1>1. CASE NextBoth /\ HandlerSteps
    BY <1>1, CollectedQuiet, CollectedEnsure DEF NextBoth
  <1>2. CASE NextBoth /\ (Collect \/ DeleteHistory \/ GiveUpCollecting)
    BY <1>2, CollectorKeeps DEF NextBoth
  <1>3. CASE UNCHANGED allVars
    BY <1>3 DEF allVars, vars, apiVars, informVars, queueVars, budgetVars, CollectedInv,
                TypeOK, Assigned, Newest, WindowRetained
  <1>4. QED
    BY <1>1, <1>2, <1>3 DEF NextBoth

THEOREM CollectedHolds == SpecBoth => []CollectedInv
  BY CollectedInit, CollectedStep, PTL DEF SpecBoth

(* The HistoryLimit newest versions keep their histories, however old the  *)
(* release the collector judges by, whatever calls fail and whichever      *)
(* versions are made meanwhile (ifRetainHistory, collect).                 *)
THEOREM WindowRetainedHolds == SpecBoth => []WindowRetained
  <1>1. CollectedInv => WindowRetained
    BY DEF CollectedInv
  <1>2. QED
    BY <1>1, CollectedHolds, PTL

-------------------------------------------------------------------------------
(* One config to each version.                                             *)

(* What the lists show is what was given; the informer, with its layer,    *)
(* knows all but the last number handed out; and the number in the         *)
(* worker's hands is new, was the last, or was given to this very config.  *)
OneConfigInv ==
    /\ \A v \in DOMAIN histories : histories[v] = given[v]
    /\ \A v \in DOMAIN histView : histView[v] = given[v]
    /\ LatestVersion(histView) + 1 >= Newest
    /\ pc \in {"apply", "update"} /\ job.rollbackTo = NoRollback
          => /\ job.version <= LatestVersion(histView) + 1
             /\ \/ job.version \in {Newest, Newest + 1}
                \/ job.version \in DOMAIN given /\ given[job.version] = job.config

LEMMA OneConfigInit == InitBoth => OneConfigInv
  <1> SUFFICES ASSUME InitBoth PROVE OneConfigInv
    OBVIOUS
  <1>1. histories = NoHistories /\ histView = NoHistories /\ given = NoHistories
    BY DEF InitBoth, Init
  <1>2. LatestVersion(histView) = 0 /\ Newest = 0 /\ DOMAIN NoHistories = {}
    BY <1>1, NoHistoriesNumbered DEF Newest, NoHistories
  <1>3. QED
    BY <1>1, <1>2 DEF OneConfigInv, InitBoth, Init

(* The newest history is never collected, so the list on the server shows  *)
(* the number handed out last.                                             *)
LEMMA ServerShowsNewest ==
    ASSUME CollectedInv, HistoryLimit # 0
    PROVE  LatestVersion(histories) = Newest
  <1>1. Newest \in Nat /\ DOMAIN given = 1 .. Newest /\ HistoryLimit \in Nat
    BY NewestIsNumber
  <1>2. DOMAIN histories \subseteq 1 .. Newest
    BY <1>1 DEF CollectedInv
  <1>3. /\ LatestVersion(histories) \in 0 .. Newest
        /\ \A v \in DOMAIN histories : v <= LatestVersion(histories)
    BY <1>1, <1>2, LatestWithin
  <1>4. Newest # 0 => Newest \in DOMAIN histories
    BY <1>1 DEF CollectedInv, WindowRetained
  <1>5. QED
    BY <1>1, <1>3, <1>4

LEMMA OneConfigQuiet ==
    ASSUME HistoryLimit # 0, CollectedInv, OneConfigInv, HandlerSteps, Remember,
           ~ (EnsureHistory \/ EnsureHistoryUnanswered)
    PROVE  OneConfigInv'
  <1> USE DEF OneConfigInv
  <1>num. Newest \in Nat /\ DOMAIN given = 1 .. Newest
    BY NewestIsNumber
  <1>next. Next
    BY DEF HandlerSteps
  <1>latest. /\ LatestVersion(histView) \in 0 .. Newest
             /\ DOMAIN histView # {} => LatestVersion(histView) \in DOMAIN histView
    BY <1>num, LatestWithin DEF CollectedInv
  <1>hist. histories' = histories /\ histView' \in {histView, histories}
    BY <1>next
    DEF Next, Worker, Edit, RequestRollback, ViewCatchesUp, HistViewCatchesUp, Resync,
        Trigger, Receive, RetryFires, Take, List, Apply, ApplyStopsHalfway, PatchStatus,
        Rollback, CallFails, FlushAvailable, RecordError, RecordFails, Crash, apiVars,
        informVars
  <1>given. given' = given /\ Newest' = Newest
    BY <1>hist, NothingNew DEF CollectedInv
  <1>view. /\ LatestVersion(histView') >= LatestVersion(histView)
           /\ LatestVersion(histView') \in Nat
    BY <1>num, <1>hist, <1>latest, ServerShowsNewest
  <1>job. pc' \in {"apply", "update"} /\ job'.rollbackTo = NoRollback
             => /\ job'.version <= LatestVersion(histView) + 1
                /\ \/ job'.version \in {Newest, Newest + 1}
                   \/ job'.version \in DOMAIN given /\ given[job'.version] = job'.config
    <2>idle. CASE pc' \notin {"apply", "update"}
      BY <2>idle
    <2>same. CASE UNCHANGED <<pc, job>>
      BY <2>same
    <2>list. CASE List
      <3> DEFINE v == NextVersion(histView, job)
      <3>1. job \in Release
        BY <2>list DEF List, CollectedInv, TypeOK, Assigned
      <3>2. \/ v \in DOMAIN histView /\ histView[v] = job.config
            \/ v = LatestVersion(histView) + 1
        BY <1>latest DEF NextVersion, CurrentVersion
      <3>3. \A w \in DOMAIN histView : w \in 1 .. Newest /\ w <= LatestVersion(histView)
        BY <1>num, LatestWithin DEF CollectedInv
      <3>4. /\ v <= LatestVersion(histView) + 1
            /\ \/ v \in {Newest, Newest + 1}
               \/ v \in DOMAIN given /\ given[v] = job.config
        <4> HIDE DEF v
        <4> QED BY <1>num, <1>latest, <3>2, <3>3
      <3>5. job'.version = v /\ job'.config = job.config
        BY <2>list, <3>1 DEF List, Release
      <3>6. QED
        BY <3>4, <3>5
    <2>apply. CASE Apply \/ ApplyStopsHalfway \/ CallFails
      BY <2>apply DEF Apply, ApplyStopsHalfway, CallFails
    <2>rollback. CASE Rollback
      <3>1. job \in Release /\ job.rollbackTo # NoRollback
        BY <2>rollback DEF Rollback, CollectedInv, TypeOK, Assigned
      <3>2. job'.rollbackTo = job.rollbackTo
        BY <2>rollback, <3>1 DEF Rollback, Release
      <3>3. QED
        BY <3>1, <3>2
    <2>qed. QED
      BY <1>next, <2>idle, <2>same, <2>list, <2>apply, <2>rollback
      DEF Next, Worker, Edit, RequestRollback, ViewCatchesUp, HistViewCatchesUp, Resync,
          Trigger, Receive, RetryFires, Take, PatchStatus, FlushAvailable, RecordError,
          RecordFails, Succeed, GiveBack, Crash
  <1>bound. /\ LatestVersion(histView') + 1 >= Newest
            /\ pc' \in {"apply", "update"} /\ job'.rollbackTo = NoRollback
                  => job'.version <= LatestVersion(histView') + 1
    <2>1. pc' \in {"apply", "update"} /\ job'.rollbackTo = NoRollback
             => job'.version \in Nat
      BY <1>num, <1>given, CollectedQuiet DEF CollectedInv
    <2>2. QED
      BY <1>num, <1>latest, <1>view, <1>job, <2>1
  <1>qed. QED
    BY <1>hist, <1>given, <1>job, <1>bound

(* A number is used again only where its history was collected, and the    *)
(* last one's never is.                                                    *)
LEMMA OneConfigEnsure ==
    ASSUME "lag" \notin Faults, HistoryLimit # 0, CollectedInv, OneConfigInv, HandlerSteps,
           Remember, EnsureHistory \/ EnsureHistoryUnanswered
    PROVE  OneConfigInv'
  <1> USE DEF OneConfigInv
  <1>num. Newest \in Nat /\ DOMAIN given = 1 .. Newest
    BY NewestIsNumber
  <1>job. /\ job \in Release /\ job' = job /\ pc = "update" /\ pc' \in {"patch", "record"}
          /\ job.rollbackTo = NoRollback /\ job.version \in 1 .. Newest + 1
    BY DEF EnsureHistory, EnsureHistoryUnanswered, CollectedInv, TypeOK, Assigned, informVars
  <1>latest. LatestVersion(histView) \in 0 .. Newest
    BY <1>num, LatestWithin DEF CollectedInv
  <1>none. CASE UNCHANGED <<histories, histView>>
    <2>1. given' = given /\ Newest' = Newest
      BY <1>none, NothingNew DEF CollectedInv
    <2>2. QED
      BY <1>job, <1>none, <2>1
  <1>made. CASE /\ job.version \notin DOMAIN histories
                /\ histories' = AddHistory(histories, job.version, job.config)
                /\ histView' \in {histView, AddHistory(histView, job.version, job.config)}
    <2>1. /\ DOMAIN histories' = DOMAIN histories \cup {job.version}
          /\ histories'[job.version] = job.config
          /\ \A v \in DOMAIN histories : histories'[v] = histories[v]
      BY <1>made DEF AddHistory
    <2>2. /\ DOMAIN histView' \subseteq DOMAIN histView \cup {job.version}
          /\ \A v \in DOMAIN histView' : histView'[v] =
                IF v = job.version /\ histView' # histView THEN job.config ELSE histView[v]
      BY <1>made DEF AddHistory
    <2>again. CASE job.version \in DOMAIN given
      <3>1. Newest # 0 => Newest \in DOMAIN histories
        BY <1>num, ServerShowsNewest, NewestIsNumber DEF CollectedInv, WindowRetained
      <3>2. given[job.version] = job.config
        BY <1>num, <1>job, <1>made, <2>again, <3>1
      <3>3. given' = given /\ Newest' = Newest
        BY <2>1, <2>again, NothingNew DEF CollectedInv
      <3>4. /\ \A v \in DOMAIN histories' : histories'[v] = given'[v]
            /\ \A v \in DOMAIN histView' : histView'[v] = given'[v]
        BY <2>1, <2>2, <3>2, <3>3
      <3>5. LatestVersion(histView') + 1 >= Newest
        <4>1. DOMAIN histView' \subseteq 1 .. Newest
          BY <1>num, <2>2, <2>again DEF CollectedInv
        <4>2. DOMAIN histView \subseteq DOMAIN histView'
          BY <1>made DEF AddHistory
        <4>3. /\ LatestVersion(histView') \in 0 .. Newest
              /\ \A v \in DOMAIN histView' : v <= LatestVersion(histView')
          BY <1>num, <4>1, LatestWithin
        <4>4. DOMAIN histView # {} => LatestVersion(histView) \in DOMAIN histView
          BY <1>num, LatestWithin DEF CollectedInv
        <4>5. DOMAIN histView = {} => LatestVersion(histView) = 0
          BY DEF LatestVersion
        <4>6. LatestVersion(histView) <= LatestVersion(histView')
          <5>1. CASE DOMAIN histView # {}
            BY <4>2, <4>3, <4>4, <5>1
          <5>2. CASE DOMAIN histView = {}
            BY <1>num, <4>3, <4>5, <5>2
          <5>3. QED
            BY <5>1, <5>2
        <4>7. QED
          BY <1>num, <1>latest, <4>3, <4>6
      <3>6. QED
        BY <1>job, <3>3, <3>4, <3>5
    <2>new. CASE job.version \notin DOMAIN given
      <3>1. job.version = Newest + 1
        BY <1>num, <1>job, <2>new
      <3>2. /\ Newest' = Newest + 1 /\ given'[Newest + 1] = job.config
            /\ \A v \in DOMAIN given : given'[v] = given[v]
        BY <1>job, <1>made, <3>1, NextRemembered DEF Release
      <3>3. /\ \A v \in DOMAIN histories' : histories'[v] = given'[v]
            /\ \A v \in DOMAIN histView' : histView'[v] = given'[v]
        BY <2>1, <2>2, <2>new, <3>1, <3>2 DEF CollectedInv
      <3>4. LatestVersion(histView') + 1 >= Newest + 1
        <4>1. CASE histView' = histView
          <5>1. LatestVersion(histView) >= Newest
            BY <1>num, <1>job, <1>latest, <3>1
          <5>2. QED
            BY <1>num, <1>latest, <4>1, <5>1
        <4>2. CASE histView' = AddHistory(histView, job.version, job.config)
          <5>1. /\ DOMAIN histView' = DOMAIN histView \cup {Newest + 1}
            BY <3>1, <4>2 DEF AddHistory
          <5>2. DOMAIN histView' \subseteq 1 .. Newest + 1
            BY <1>num, <5>1 DEF CollectedInv
          <5>3. LatestVersion(histView') = Newest + 1
            BY <1>num, <5>1, <5>2, LatestWithin
          <5>4. QED
            BY <1>num, <5>3
        <4>3. QED
          BY <1>made, <4>1, <4>2
      <3>5. QED
        BY <1>job, <3>2, <3>3, <3>4
    <2>qed. QED
      BY <2>again, <2>new
  <1>qed. QED
    BY <1>none, <1>made
    DEF EnsureHistory, EnsureHistoryUnanswered, Learned, informVars

LEMMA OneConfigStep ==
    ASSUME "lag" \notin Faults, HistoryLimit # 0
    PROVE  CollectedInv /\ OneConfigInv /\ [NextBoth]_allVars => OneConfigInv'
  <1> SUFFICES ASSUME CollectedInv, OneConfigInv, [NextBoth]_allVars PROVE OneConfigInv'
    OBVIOUS
  <1>1. CASE NextBoth /\ HandlerSteps
    BY <1>1, OneConfigQuiet, OneConfigEnsure DEF NextBoth
  <1>2. CASE NextBoth /\ (Collect \/ DeleteHistory \/ GiveUpCollecting)
    <2>1. /\ UNCHANGED <<histView, pc, job>>
          /\ DOMAIN histories' \subseteq DOMAIN histories
          /\ \A v \in DOMAIN histories' : histories'[v] = histories[v]
      BY <1>2 DEF Collect, DeleteHistory, GiveUpCollecting, vars, apiVars, informVars
    <2>2. given' = given /\ Newest' = Newest
      BY <1>2, <2>1, NothingNew DEF NextBoth, CollectedInv
    <2>3. QED
      BY <2>1, <2>2 DEF OneConfigInv
  <1>3. CASE UNCHANGED allVars
    BY <1>3 DEF allVars, vars, apiVars, informVars, OneConfigInv, Newest
  <1>4. QED
    BY <1>1, <1>2, <1>3 DEF NextBoth

(* Unless the history informer is behind or every history may be           *)
(* collected, a number that has named a config never names another one,    *)
(* collected or not (applyRelease's latestVersion + 1, storage.Update).    *)
THEOREM OneConfigEachHolds ==
    ASSUME "lag" \notin Faults, HistoryLimit # 0
    PROVE  SpecBoth => []OneConfigEach
  <1>1. CollectedInv /\ OneConfigInv /\ [NextBoth]_allVars => OneConfigInv'
    BY OneConfigStep
  <1>2. OneConfigInv => OneConfigEach
    BY DEF OneConfigInv, OneConfigEach
  <1>3. QED
    BY <1>1, <1>2, CollectedHolds, OneConfigInit, PTL DEF SpecBoth

-------------------------------------------------------------------------------
(* No version to spare.                                                    *)

(* Nothing has failed and nothing was rolled back.                         *)
Calm == faults = 0 /\ crashes = 0 /\ rollbacks = 0

(* A copy of the release as a calm run knows it.                           *)
CalmCopy(rel) ==
    /\ rel.rollbackTo = NoRollback
    /\ rel.cond # "Failure"
    /\ rel.cond = "" => rel.version = 0

SameSpec(r, s) == r.config = s.config /\ r.suspend = s.suspend

(* The copies of the release on their way to the worker, oldest first:     *)
(* target, the channel, the informer's and the server's.                   *)
End == Len(chan) + 2

Stream ==
    [i \in 0 .. End |-> IF i = 0 THEN target
                        ELSE IF i <= Len(chan) THEN chan[i]
                        ELSE IF i = End THEN server ELSE view]

(* n tells after how many of top edits each of the k + 1 copies of s was   *)
(* taken: copies of the same number ask for the same.                      *)
Stamped(s, k, top, n) ==
    /\ n \in [0 .. k -> Nat] /\ n[k] = top
    /\ \A i \in 0 .. k : \A j \in i .. k :
          /\ n[i] <= n[j]
          /\ n[i] = n[j] /\ s[i] # Nil => SameSpec(s[i], s[j])

(* A pass over rel, which knows of no version, will find its own config to *)
(* be the latest history's.                                                *)
Spent(rel) == rel.version = 0 /\ Newest # 0 /\ given[Newest] = rel.config

(* The pass under way may make a version.                                  *)
MayMake ==
    \/ pc = "list" /\ ~ Spent(job)
    \/ pc \in {"apply", "update"} /\ job.version > Newest

(* Of the t + 1 versions the edits up to target's allow, one is left for   *)
(* each pass that is still to make one.                                    *)
Account(t) ==
    /\ Newest <= t + 1
    /\ Newest <= t \/ (Newest # 0 /\ given[Newest] = target.config)
    /\ MayMake => Newest <= t
    /\ MayMake /\ queued
          => Newest < t \/ (job.config = target.config /\ target.version = 0)
    /\ queued /\ ~ MayMake /\ ~ Spent(target) => Newest <= t

CalmCopies ==
    /\ \A i \in 0 .. End : CalmCopy(Stream[i])
    /\ CalmCopy(base) /\ job.rollbackTo = NoRollback
    /\ server.cond = "" => base.cond = "" /\ view.cond = ""

CalmWorker ==
    /\ ~ delayed /\ pc \notin {"rollback", "record"}
    /\ target = Nil => Newest = 0 /\ ~ queued /\ pc = "idle"
    /\ ~ queued /\ pc # "idle" => job.config = target.config

(* The informer, with its layer, misses no history.                        *)
CalmHistories == DOMAIN histories \subseteq DOMAIN histView

SpareInv ==
    Calm => /\ CalmCopies /\ CalmWorker /\ CalmHistories
            /\ \E n \in [0 .. End -> Nat] :
                  Stamped(Stream, End, edits, n) /\ Account(n[0])

(* The l + 1 copies of r are among the k + 1 of s, moved, dropped or       *)
(* repeated in order: m says which each of them is.                        *)
Follows(r, l, s, k, m) ==
    /\ m \in [0 .. l -> 0 .. k] /\ m[l] = k
    /\ \A i \in 0 .. l : \A j \in i .. l : m[i] <= m[j]
    /\ \A i \in 0 .. l : /\ SameSpec(r[i], s[m[i]])
                         /\ r[i] # Nil => s[m[i]] # Nil

Through(n, m, l) == [i \in 0 .. l |-> n[m[i]]]

(* Such copies keep their stamps.                                          *)
LEMMA Restamp ==
    ASSUME NEW k \in Nat, NEW s, NEW top \in Nat, NEW n, Stamped(s, k, top, n),
           NEW l \in Nat, NEW r, NEW m, Follows(r, l, s, k, m)
    PROVE  Stamped(r, l, top, Through(n, m, l))
  <1> DEFINE p == Through(n, m, l)
  <1>1. /\ n \in [0 .. k -> Nat] /\ n[k] = top
        /\ m \in [0 .. l -> 0 .. k] /\ m[l] = k
    BY DEF Stamped, Follows
  <1>2. p \in [0 .. l -> Nat] /\ p[l] = top /\ \A i \in 0 .. l : p[i] = n[m[i]]
    BY <1>1 DEF Through
  <1>3. ASSUME NEW i \in 0 .. l, NEW j \in i .. l
        PROVE  p[i] <= p[j] /\ (p[i] = p[j] /\ r[i] # Nil => SameSpec(r[i], r[j]))
    <2>1. j \in 0 .. l
      OBVIOUS
    <2>2. m[i] \in 0 .. k /\ m[j] \in 0 .. k /\ m[i] <= m[j]
      BY <1>1, <2>1 DEF Follows
    <2>3. m[j] \in m[i] .. k
      BY <2>2
    <2>4. /\ n[m[i]] <= n[m[j]]
          /\ n[m[i]] = n[m[j]] /\ s[m[i]] # Nil => SameSpec(s[m[i]], s[m[j]])
      BY <2>2, <2>3 DEF Stamped
    <2>5. /\ SameSpec(r[i], s[m[i]]) /\ SameSpec(r[j], s[m[j]])
          /\ r[i] # Nil => s[m[i]] # Nil
      BY <2>1 DEF Follows
    <2>6. p[i] = n[m[i]] /\ p[j] = n[m[j]]
      BY <1>2, <2>1
    <2> HIDE DEF p
    <2>7. QED
      BY <2>4, <2>5, <2>6 DEF SameSpec
  <1>4. QED
    BY <1>2, <1>3 DEF Stamped

(* A patch that sets nothing but status, and no Failure, leaves the spec   *)
(* on the server and a condition.                                          *)
LEMMA CalmPatch ==
    ASSUME server \in Release, base \in Release, NEW want \in Release,
           SameSpec(want, base), want.rollbackTo = base.rollbackTo,
           want.cond \notin {"", "Failure"}, CalmCopy(server), CalmCopy(base),
           server.cond = "" => base.cond = "",
           Send(want)
    PROVE  /\ SameSpec(server', server) /\ server' \in Release
           /\ CalmCopy(server') /\ CalmCopy(base') /\ server'.cond # ""
  <1>1. ASSUME NEW new \in Patches(base, want, server)
        PROVE  /\ SameSpec(new, server) /\ new.rollbackTo = server.rollbackTo
               /\ new.cond \notin {"", "Failure"}
    BY DEF Patches, MergePatch, Release, SameSpec, CalmCopy
  <1>2. server' \in Release
    BY SendTypes
  <1>3. CASE server' \in Patches(base, want, server) /\ base' = server'
    BY <1>1, <1>2, <1>3 DEF CalmCopy
  <1>4. CASE want = base /\ UNCHANGED <<server, base>>
    BY <1>4 DEF SameSpec
  <1>5. QED
    BY <1>3, <1>4, <1>2 DEF Send

(* In a calm run only these steps are taken.                               *)
CalmHandlerStep ==
    \/ Edit \/ ViewCatchesUp \/ HistViewCatchesUp \/ Resync \/ Trigger \/ Receive \/ Take
    \/ List /\ pc' = "apply"
    \/ Apply
    \/ EnsureHistory /\ pc' = "patch"
    \/ PatchStatus /\ Send(Updated(base, job)) /\ pc' = "flush"
    \/ FlushAvailable /\ Send(Flushed(base, "Available")) /\ Succeed

LEMMA CalmBefore ==
    ASSUME CollectedInv, [NextBoth]_allVars, Calm'
    PROVE  Calm
  <1>1. {faults, crashes, rollbacks} \subseteq Nat
    BY DEF CollectedInv, TypeOK
  <1>2. \/ faults' \in {faults, faults + 1} /\ crashes' \in {crashes, crashes + 1}
           /\ rollbacks' \in {rollbacks, rollbacks + 1}
    BY DEF NextBoth, allVars, vars, budgetVars, HandlerSteps, Next, Worker, Edit,
           RequestRollback, ViewCatchesUp, HistViewCatchesUp, Resync, Trigger, Receive,
           RetryFires, Take, List, Apply, ApplyStopsHalfway, EnsureHistory,
           EnsureHistoryUnanswered, PatchStatus, Rollback, CallFails, FlushAvailable,
           RecordError, RecordFails, Crash, Collect, DeleteHistory, GiveUpCollecting,
           Fails, SendUnanswered
  <1>3. QED
    BY <1>1, <1>2 DEF Calm

LEMMA CalmCases ==
    ASSUME BadConfig = {}, CollectedInv, Next, Calm, Calm',
           CalmCopies, CalmWorker, CalmHistories
    PROVE  CalmHandlerStep
  <1>count. {faults, crashes, rollbacks} \subseteq Nat
    BY DEF CollectedInv, TypeOK
  <1>no. ~ Fails /\ crashes' # crashes + 1 /\ rollbacks' # rollbacks + 1
    BY <1>count DEF Calm, Fails
  <1>1. ~ (RequestRollback \/ Crash \/ RetryFires)
    BY <1>no DEF RequestRollback, Crash, RetryFires, CalmWorker
  <1>2. ~ (ApplyStopsHalfway \/ EnsureHistoryUnanswered \/ CallFails \/ RecordFails)
    BY <1>no DEF ApplyStopsHalfway, EnsureHistoryUnanswered, CallFails, RecordFails
  <1>3. ~ (Rollback \/ RecordError)
    BY DEF Rollback, RecordError, CalmWorker
  <1>4. List => pc' = "apply"
    BY DEF List
  <1>5. EnsureHistory => pc' = "patch"
    BY DEF EnsureHistory, CalmHistories
  <1>6. PatchStatus => Send(Updated(base, job)) /\ pc' = "flush"
    BY <1>no DEF PatchStatus, SendUnanswered
  <1>7. FlushAvailable => Send(Flushed(base, "Available")) /\ Succeed
    BY <1>no DEF FlushAvailable, SendUnanswered
  <1>8. QED
    BY <1>1, <1>2, <1>3, <1>4, <1>5, <1>6, <1>7 DEF Next, Worker, CalmHandlerStep

(* The copies' indices, spelled out.                                       *)
LEMMA StreamEnds ==
    ASSUME TypeOK
    PROVE  /\ End \in Nat /\ Len(chan) \in Nat /\ End = Len(chan) + 2
           /\ Stream[0] = target /\ Stream[End] = server /\ Stream[End - 1] = view
           /\ \A i \in 1 .. Len(chan) : Stream[i] = chan[i] /\ chan[i] \in Release
           /\ \A i \in 1 .. End : Stream[i] \in Release /\ Stream[i] # Nil
  <1>1. End \in Nat /\ Len(chan) \in Nat /\ End = Len(chan) + 2
    BY DEF TypeOK, End
  <1>2. /\ Stream[0] = target /\ Stream[End] = server /\ Stream[End - 1] = view
        /\ \A i \in 1 .. Len(chan) : Stream[i] = chan[i] /\ chan[i] \in Release
    BY <1>1 DEF Stream, TypeOK
  <1>3. \A i \in 1 .. End : i \in 1 .. Len(chan) \/ i = End - 1 \/ i = End
    BY <1>1
  <1>4. \A i \in 1 .. End : Stream[i] \in Release
    BY <1>2, <1>3 DEF TypeOK
  <1>5. QED
    BY <1>1, <1>2, <1>4, NilIsNoRelease

(* The list is as long as the server's, so its latest version is the       *)
(* newest.                                                                 *)
LEMMA ViewShowsNewest ==
    ASSUME HistoryLimit # 0, CollectedInv, CalmHistories
    PROVE  LatestVersion(histView) = Newest /\ Newest \in Nat
  <1>1. Newest \in Nat /\ DOMAIN given = 1 .. Newest /\ HistoryLimit \in Nat
    BY NewestIsNumber
  <1>2. /\ LatestVersion(histView) \in 0 .. Newest
        /\ \A v \in DOMAIN histView : v <= LatestVersion(histView)
    BY <1>1, LatestWithin DEF CollectedInv
  <1>3. Newest # 0 => Newest \in DOMAIN histView
    BY <1>1 DEF CollectedInv, WindowRetained, CalmHistories
  <1>4. QED
    BY <1>1, <1>2, <1>3

LEMMA SpareInit == InitBoth => SpareInv
  <1> SUFFICES ASSUME InitBoth PROVE SpareInv
    OBVIOUS
  <1>1. CollectedInv
    BY CollectedInit
  <1>2. PICK c \in Config, s \in Suspends : server = NewRelease(c, s)
    BY DEF InitBoth, Init
  <1>3. view = server /\ chan = <<>> /\ target = Nil /\ base = Nil /\ job = Nil
    BY DEF InitBoth, Init
  <1>4. CalmCopy(server) /\ CalmCopy(Nil) /\ Nil.rollbackTo = NoRollback /\ Nil.cond = ""
    BY <1>2 DEF CalmCopy, NewRelease, Nil
  <1>5. \A i \in 0 .. End : Stream[i] \in {Nil, server}
    BY <1>3 DEF Stream, End
  <1>6. CalmCopies
    BY <1>3, <1>4, <1>5 DEF CalmCopies
  <1>7. Newest = 0
    BY NoHistoriesNumbered DEF Newest, InitBoth
  <1>8. CalmWorker /\ CalmHistories
    BY <1>7 DEF CalmWorker, CalmHistories, InitBoth, Init
  <1> DEFINE n == [i \in 0 .. End |-> 0]
  <1>9. End = 2 /\ edits = 0
    BY <1>3 DEF End, InitBoth, Init
  <1>10. /\ Stream[0] = Nil /\ Stream[1] = server /\ Stream[2] = server
    BY <1>3, <1>9 DEF Stream
  <1>11. Stamped(Stream, End, edits, n)
    BY <1>9, <1>10 DEF Stamped, SameSpec
  <1>12. Account(n[0])
    BY <1>7, <1>9 DEF Account, MayMake, InitBoth, Init
  <1>13. n \in [0 .. End -> Nat]
    OBVIOUS
  <1>14. QED
    BY <1>6, <1>8, <1>11, <1>12, <1>13 DEF SpareInv

(* The copies with names, and those in the channel.                        *)
LEMMA CopiesByName ==
    ASSUME CollectedInv, CalmCopies
    PROVE  /\ CalmCopy(target) /\ CalmCopy(server) /\ CalmCopy(view)
           /\ \A i \in 1 .. Len(chan) : CalmCopy(chan[i])
  <1>1. TypeOK
    BY DEF CollectedInv
  <1>2. /\ End \in Nat /\ Len(chan) \in Nat /\ End = Len(chan) + 2
        /\ Stream[0] = target /\ Stream[End] = server /\ Stream[End - 1] = view
        /\ \A i \in 1 .. Len(chan) : Stream[i] = chan[i]
    BY <1>1, StreamEnds
  <1>3. \A i \in 0 .. End : CalmCopy(Stream[i])
    BY DEF CalmCopies
  <1>4. /\ 0 \in 0 .. End /\ End \in 0 .. End /\ End - 1 \in 0 .. End
        /\ \A i \in 1 .. Len(chan) : i \in 0 .. End
    BY <1>2
  <1>5. QED
    BY <1>2, <1>3, <1>4

(* What the two calm patches do.                                           *)
LEMMA CalmSend ==
    ASSUME CollectedInv, CalmCopies,
           \/ pc = "patch" /\ Send(Updated(base, job))
           \/ pc = "flush" /\ Send(Flushed(base, "Available"))
    PROVE  /\ SameSpec(server', server) /\ server' \in Release
           /\ CalmCopy(server') /\ CalmCopy(base') /\ server'.cond # ""
  <1>1. base \in Release /\ server \in Release /\ job \in Release
    BY DEF CollectedInv, TypeOK, Assigned
  <1>2. CalmCopy(server) /\ CalmCopy(base) /\ (server.cond = "" => base.cond = "")
    BY CopiesByName DEF CalmCopies
  <1>3. PICK want \in {Updated(base, job), Flushed(base, "Available")} : Send(want)
    OBVIOUS
  <1>4. /\ want \in Release
        /\ SameSpec(want, base) /\ want.rollbackTo = base.rollbackTo
        /\ want.cond \notin {"", "Failure"}
    <2>1. want \in Release
      BY <1>1, ModifierTypes DEF Condition
    <2>2. QED
      BY <1>1, <2>1 DEF Updated, Flushed, Release, SameSpec
  <1>5. QED
    BY <1>1, <1>2, <1>3, <1>4, CalmPatch

LEMMA CalmCopiesStep ==
    ASSUME CollectedInv, CollectedInv', CalmCopies, CalmWorker, CalmHandlerStep
    PROVE  CalmCopies'
  <1>ends. /\ CalmCopy(target) /\ CalmCopy(server) /\ CalmCopy(view)
           /\ \A i \in 1 .. Len(chan) : CalmCopy(chan[i])
    BY CopiesByName
  <1>all. ASSUME CalmCopy(target'), CalmCopy(server'), CalmCopy(view'),
                 \A i \in 1 .. Len(chan') : CalmCopy(chan'[i])
          PROVE  \A i \in 0 .. End' : CalmCopy(Stream'[i])
    <2>1. Len(chan') \in Nat
      BY DEF CollectedInv, TypeOK
    <2>2. QED
      BY <1>all, <2>1 DEF Stream, End
  <1>types. /\ chan \in Seq(Release) /\ server \in Release /\ target \in Release \cup {Nil}
    BY DEF CollectedInv, TypeOK
  <1>1. CASE Edit
    <2>1. CalmCopy(server') /\ server'.cond = server.cond
      BY <1>1, <1>ends, <1>types DEF Edit, CalmCopy, Release
    <2>2. UNCHANGED <<view, chan, target, base, job>>
      BY <1>1 DEF Edit, informVars
    <2>3. QED
      BY <2>1, <2>2, <1>all, <1>ends DEF CalmCopies
  <1>2. CASE ViewCatchesUp \/ HistViewCatchesUp \/ Resync
    <2>1. view' \in {view, server} /\ UNCHANGED <<server, chan, target, base, job>>
      BY <1>2 DEF ViewCatchesUp, HistViewCatchesUp, Resync, apiVars
    <2>2. QED
      BY <2>1, <1>all, <1>ends DEF CalmCopies
  <1>3. CASE Trigger
    <2>1. /\ chan' = Append(chan, view) /\ base' \in {base, view}
          /\ UNCHANGED <<server, view, target, job>>
      BY <1>3 DEF Trigger, apiVars
    <2>2. \A i \in 1 .. Len(chan') : CalmCopy(chan'[i])
      <3>1. view \in Release
        BY DEF CollectedInv, TypeOK
      <3>2. \A i \in 1 .. Len(chan') : chan'[i] = view \/ (i \in 1 .. Len(chan) /\ chan'[i] = chan[i])
        BY <1>types, <2>1, <3>1
      <3>3. QED
        BY <3>2, <1>ends
    <2>3. QED
      BY <2>1, <2>2, <1>all, <1>ends DEF CalmCopies
  <1>4. CASE Receive
    <2>1. /\ chan # <<>> /\ chan' = Tail(chan) /\ target' \in {target, Head(chan)}
          /\ UNCHANGED <<server, view, base, job>>
      BY <1>4 DEF Receive, apiVars, informVars
    <2>2. CalmCopy(Head(chan))
      BY <2>1, <1>types, <1>ends
    <2>3. \A i \in 1 .. Len(chan') : CalmCopy(chan'[i])
      BY <2>1, <1>types, <1>ends
    <2>4. QED
      BY <2>1, <2>2, <2>3, <1>all, <1>ends DEF CalmCopies
  <1>5. CASE Take \/ List \/ Apply \/ EnsureHistory
    <2>1. UNCHANGED <<server, view, chan, target, base>>
      BY <1>5 DEF Take, List, Apply, EnsureHistory, apiVars, informVars
    <2>2. job'.rollbackTo = NoRollback
      <3>1. CASE Take
        BY <3>1, <1>ends DEF Take, CalmCopy
      <3>2. CASE List
        <4>1. job \in Release
          BY <3>2 DEF List, CollectedInv, TypeOK, Assigned
        <4>2. QED
          BY <3>2, <4>1 DEF List, CalmCopies, Release
      <3>3. CASE Apply \/ EnsureHistory
        BY <3>3 DEF Apply, EnsureHistory, CalmCopies
      <3>4. QED
        BY <1>5, <3>1, <3>2, <3>3
    <2>3. QED
      BY <2>1, <2>2, <1>all, <1>ends DEF CalmCopies
  <1>6. CASE \/ PatchStatus /\ Send(Updated(base, job))
             \/ FlushAvailable /\ Send(Flushed(base, "Available")) /\ Succeed
    <2>1. /\ CalmCopy(server') /\ CalmCopy(base') /\ server'.cond # ""
      BY <1>6, CalmSend DEF PatchStatus, FlushAvailable
    <2>2. UNCHANGED <<view, chan, target>> /\ job' \in {job, Nil}
      BY <1>6 DEF PatchStatus, FlushAvailable, Succeed, informVars
    <2>3. Nil.rollbackTo = NoRollback
      BY DEF Nil, NewRelease
    <2>4. QED
      BY <2>1, <2>2, <2>3, <1>all, <1>ends DEF CalmCopies
  <1>7. QED
    BY <1>1, <1>2, <1>3, <1>4, <1>5, <1>6 DEF CalmHandlerStep

(* Only the handler's making of a history makes a number.                  *)
LEMMA CalmNewest ==
    ASSUME CollectedInv, CalmHandlerStep, ~ EnsureHistory, Remember
    PROVE  UNCHANGED <<given, Newest>>
  <1>1. histories' = histories
    BY DEF CalmHandlerStep, Edit, ViewCatchesUp, HistViewCatchesUp, Resync, Trigger,
           Receive, Take, List, Apply, PatchStatus, FlushAvailable, apiVars
  <1>2. QED
    BY <1>1, NothingNew DEF CollectedInv

LEMMA CalmWorkerStep ==
    ASSUME CollectedInv, CalmCopies, CalmWorker, CalmHistories, CalmHandlerStep, Remember
    PROVE  CalmWorker'
  <1>target. CalmCopy(target)
    BY CopiesByName
  <1>job. pc # "idle" => job \in Release /\ target # Nil
    BY DEF CollectedInv, TypeOK, Assigned
  <1>1. CASE EnsureHistory
    BY <1>1, <1>job DEF EnsureHistory, CalmHistories, CalmWorker, queueVars
  <1>2. CASE ~ EnsureHistory
    <2>1. UNCHANGED <<given, Newest>>
      BY <1>2, CalmNewest
    <2>2. CASE Edit \/ ViewCatchesUp \/ HistViewCatchesUp \/ Resync \/ Trigger
      <3>1. UNCHANGED <<queued, delayed, target, pc, job>>
        BY <2>2 DEF Edit, ViewCatchesUp, HistViewCatchesUp, Resync, Trigger, queueVars
      <3>2. QED
        BY <2>1, <3>1 DEF CalmWorker
    <2>3. CASE Receive
      <3>1. chan # <<>> /\ chan \in Seq(Release)
        BY <2>3 DEF Receive, CollectedInv, TypeOK
      <3>2. Head(chan) # Nil
        BY <3>1, NilIsNoRelease
      <3>3. QED
        BY <2>1, <2>3, <3>2 DEF Receive, CalmWorker
    <2>4. CASE Take
      BY <2>1, <2>4, <1>target DEF Take, CalmWorker, CalmCopy
    <2>5. CASE List /\ pc' = "apply"
      BY <2>1, <2>5, <1>job DEF List, CalmWorker, queueVars, Release
    <2>6. CASE Apply
      BY <2>1, <2>6, <1>job DEF Apply, CalmWorker, queueVars
    <2>7. CASE PatchStatus /\ pc' = "flush"
      BY <2>1, <2>7, <1>job DEF PatchStatus, CalmWorker, queueVars
    <2>8. CASE FlushAvailable /\ Succeed
      BY <2>1, <2>8, <1>job DEF FlushAvailable, Succeed, CalmWorker
    <2>9. QED
      BY <1>2, <2>2, <2>3, <2>4, <2>5, <2>6, <2>7, <2>8 DEF CalmHandlerStep
  <1>3. QED
    BY <1>1, <1>2 DEF CalmHandlerStep

LEMMA CalmHistoriesStep ==
    ASSUME "lag" \notin Faults, CollectedInv, CalmHistories, CalmHandlerStep
    PROVE  CalmHistories'
  <1>1. CASE EnsureHistory
    BY <1>1 DEF EnsureHistory, CalmHistories, Learned, AddHistory
  <1>2. CASE ~ EnsureHistory
    BY <1>2 DEF CalmHandlerStep, Edit, ViewCatchesUp, HistViewCatchesUp, Resync, Trigger,
           Receive, Take, List, Apply, PatchStatus, FlushAvailable, apiVars, informVars,
           CalmHistories
  <1>3. QED
    BY <1>1, <1>2

(* What the account is about stays as it is.                               *)
LEMMA AccountSame ==
    ASSUME NEW t, Account(t), UNCHANGED <<given, Newest, target, queued, pc, job>>
    PROVE  Account(t)'
  BY DEF Account, MayMake, Spent

(* The steps that leave the copies alone but for what the worker writes.   *)
LEMMA StampWorker ==
    ASSUME CollectedInv, CollectedInv', NEW n, Stamped(Stream, End, edits, n),
           UNCHANGED <<view, chan, target, edits>>, SameSpec(server', server)
    PROVE  n \in [0 .. End' -> Nat] /\ Stamped(Stream', End', edits', n)
  <1> DEFINE m == [i \in 0 .. End |-> i]
  <1>1. /\ TypeOK /\ TypeOK' /\ End' = End
        /\ edits \in Nat
    BY DEF CollectedInv, End, TypeOK
  <1>2. End \in Nat /\ Len(chan) \in Nat /\ End = Len(chan) + 2
    BY <1>1, StreamEnds
  <1>3. \A i \in 0 .. End : Stream'[i] = IF i = End THEN server' ELSE Stream[i]
    BY <1>1, <1>2 DEF Stream
  <1>4. Stream[End] = server /\ server \in Release
    BY <1>1, StreamEnds DEF TypeOK
  <1>5. \A i \in 0 .. End : /\ SameSpec(Stream'[i], Stream[m[i]])
                            /\ Stream'[i] # Nil => Stream[m[i]] # Nil
    BY <1>3, <1>4, NilIsNoRelease DEF SameSpec
  <1>6. /\ m \in [0 .. End -> 0 .. End] /\ m[End] = End
        /\ \A i \in 0 .. End : \A j \in i .. End : m[i] <= m[j]
    BY <1>2
  <1>7. Stamped(Stream', End, edits, Through(n, m, End))
    <2> HIDE DEF m
    <2>1. Follows(Stream', End, Stream, End, m)
      BY <1>5, <1>6 DEF Follows
    <2>2. QED
      BY <1>1, <1>2, <2>1, Restamp
  <1>8. n \in [0 .. End -> Nat]
    BY DEF Stamped
  <1>9. Through(n, m, End) = n
    BY <1>8 DEF Through
  <1>10. QED
    BY <1>1, <1>7, <1>8, <1>9

(* An edit takes the next number.                                          *)
LEMMA StampEdit ==
    ASSUME CollectedInv, CollectedInv', NEW n, Stamped(Stream, End, edits, n),
           UNCHANGED <<view, chan, target>>, edits' = edits + 1
    PROVE  \E p \in [0 .. End' -> Nat] :
              Stamped(Stream', End', edits', p) /\ p[0] = n[0]
  <1> DEFINE p == [n EXCEPT ![End] = edits + 1]
  <1>1. /\ TypeOK /\ End' = End /\ edits \in Nat
    BY DEF CollectedInv, End, TypeOK
  <1>2. End \in Nat /\ Len(chan) \in Nat /\ End = Len(chan) + 2
    BY <1>1, StreamEnds
  <1>3. \A i \in 0 .. End : i # End => Stream'[i] = Stream[i]
    BY <1>1, <1>2 DEF Stream
  <1>4. /\ n \in [0 .. End -> Nat] /\ n[End] = edits
        /\ p \in [0 .. End -> Nat] /\ p[End] = edits + 1
        /\ \A i \in 0 .. End : i # End => p[i] = n[i]
    BY <1>1, <1>2 DEF Stamped
  <1> HIDE DEF p
  <1>5. ASSUME NEW i \in 0 .. End, NEW j \in i .. End
        PROVE  /\ p[i] <= p[j]
               /\ p[i] = p[j] /\ Stream'[i] # Nil => SameSpec(Stream'[i], Stream'[j])
    <2>1. j \in 0 .. End /\ End \in i .. End /\ n[i] \in Nat
      BY <1>2, <1>4
    <2>2. n[i] <= n[End]
      BY <2>1 DEF Stamped
    <2>3. CASE j # End
      <3>1. i # End
        BY <1>2, <2>3
      <3>2. p[i] = n[i] /\ p[j] = n[j] /\ Stream'[i] = Stream[i] /\ Stream'[j] = Stream[j]
        BY <1>3, <1>4, <2>1, <2>3, <3>1
      <3>3. QED
        BY <3>2 DEF Stamped
    <2>4. CASE j = End /\ i # End
      BY <1>1, <1>4, <2>1, <2>2, <2>4
    <2>5. CASE j = End /\ i = End
      BY <1>1, <1>4, <2>5 DEF SameSpec
    <2>6. QED
      BY <2>3, <2>4, <2>5
  <1>6. Stamped(Stream', End', edits', p)
    BY <1>1, <1>4, <1>5 DEF Stamped
  <1>7. p[0] = n[0]
    BY <1>2, <1>4
  <1>8. QED
    BY <1>1, <1>4, <1>6, <1>7

(* The informer's copy becomes the server's.                               *)
LEMMA StampView ==
    ASSUME CollectedInv, CollectedInv', NEW n, Stamped(Stream, End, edits, n),
           ViewCatchesUp
    PROVE  \E p \in [0 .. End' -> Nat] :
              Stamped(Stream', End', edits', p) /\ p[0] = n[0]
  <1> DEFINE m == [i \in 0 .. End |-> IF i = End - 1 THEN End ELSE i]
             p == Through(n, m, End)
  <1>1. /\ TypeOK /\ TypeOK' /\ End' = End /\ edits \in Nat /\ edits' = edits
        /\ view' = server /\ UNCHANGED <<server, chan, target>>
    BY DEF CollectedInv, End, TypeOK, ViewCatchesUp, apiVars, budgetVars
  <1>2. End \in Nat /\ Len(chan) \in Nat /\ End = Len(chan) + 2
    BY <1>1, StreamEnds
  <1>3. \A i \in 0 .. End : Stream'[i] = Stream[m[i]]
    BY <1>1, <1>2 DEF Stream
  <1>4. \A i \in 0 .. End : /\ SameSpec(Stream'[i], Stream[m[i]])
                            /\ Stream'[i] # Nil => Stream[m[i]] # Nil
    BY <1>3 DEF SameSpec
  <1>5. /\ m \in [0 .. End -> 0 .. End] /\ m[End] = End /\ m[0] = 0
        /\ \A i \in 0 .. End : \A j \in i .. End : m[i] <= m[j]
    BY <1>2
  <1>6. Stamped(Stream', End, edits, p)
    <2> HIDE DEF m
    <2>1. Follows(Stream', End, Stream, End, m)
      BY <1>4, <1>5 DEF Follows
    <2>2. QED
      BY <1>1, <1>2, <2>1, Restamp
  <1>7. p \in [0 .. End -> Nat] /\ p[0] = n[0]
    BY <1>2, <1>5 DEF Stamped, Through
  <1>8. QED
    BY <1>1, <1>6, <1>7

(* The informer's copy is sent down the channel, and stays.                *)
LEMMA StampTrigger ==
    ASSUME CollectedInv, CollectedInv', NEW n, Stamped(Stream, End, edits, n), Trigger
    PROVE  \E p \in [0 .. End' -> Nat] :
              Stamped(Stream', End', edits', p) /\ p[0] = n[0]
  <1> DEFINE m == [i \in 0 .. End + 1 |-> IF i < End THEN i ELSE i - 1]
             p == Through(n, m, End + 1)
  <1>1. /\ TypeOK /\ TypeOK' /\ edits \in Nat /\ edits' = edits
        /\ chan' = Append(chan, view) /\ UNCHANGED <<server, view, target>>
    BY DEF CollectedInv, TypeOK, Trigger, apiVars, budgetVars
  <1>2. /\ End \in Nat /\ Len(chan) \in Nat /\ End = Len(chan) + 2
    BY <1>1, StreamEnds
  <1>3. /\ Len(chan') = Len(chan) + 1 /\ End' = End + 1
        /\ \A i \in 1 .. Len(chan) : chan'[i] = chan[i]
        /\ chan'[Len(chan) + 1] = view
    BY <1>1, <1>2 DEF TypeOK, End
  <1>4. \A i \in 0 .. End + 1 : Stream'[i] = Stream[m[i]]
    <2>1. TAKE i \in 0 .. End + 1
    <2>2. /\ Stream'[i] = IF i = 0 THEN target
                          ELSE IF i <= Len(chan) + 1 THEN chan'[i]
                          ELSE IF i = End + 1 THEN server ELSE view
      BY <1>1, <1>3 DEF Stream
    <2>3. CASE i < End
      BY <1>2, <1>3, <2>2, <2>3 DEF Stream
    <2>4. CASE i = End \/ i = End + 1
      BY <1>2, <1>3, <2>2, <2>4 DEF Stream
    <2>5. QED
      BY <1>2, <2>3, <2>4
  <1>5. \A i \in 0 .. End + 1 : /\ SameSpec(Stream'[i], Stream[m[i]])
                                /\ Stream'[i] # Nil => Stream[m[i]] # Nil
    BY <1>4 DEF SameSpec
  <1>6. /\ m \in [0 .. End + 1 -> 0 .. End] /\ m[End + 1] = End /\ m[0] = 0
        /\ \A i \in 0 .. End + 1 : \A j \in i .. End + 1 : m[i] <= m[j]
    BY <1>2
  <1>7. Stamped(Stream', End + 1, edits, p)
    <2> HIDE DEF m
    <2>1. End + 1 \in Nat
      BY <1>2
    <2>2. Follows(Stream', End + 1, Stream, End, m)
      BY <1>5, <1>6 DEF Follows
    <2>3. QED
      BY <1>1, <1>2, <2>1, <2>2, Restamp
  <1>8. p \in [0 .. End + 1 -> Nat] /\ p[0] = n[0]
    BY <1>2, <1>6 DEF Stamped, Through
  <1>9. QED
    BY <1>1, <1>3, <1>7, <1>8

(* The first copy in the channel is passed over, or becomes target.        *)
LEMMA StampReceive ==
    ASSUME CollectedInv, CollectedInv', NEW n, Stamped(Stream, End, edits, n), Receive,
           NEW first \in {0, 1}, target' = Stream[first]
    PROVE  \E p \in [0 .. End' -> Nat] :
              Stamped(Stream', End', edits', p) /\ p[0] = n[first]
  <1> DEFINE m == [i \in 0 .. End - 1 |-> IF i = 0 THEN first ELSE i + 1]
             p == Through(n, m, End - 1)
  <1>1. /\ TypeOK /\ TypeOK' /\ edits \in Nat /\ edits' = edits
        /\ chan # <<>> /\ chan' = Tail(chan) /\ UNCHANGED <<server, view>>
    BY DEF CollectedInv, TypeOK, Receive, apiVars, informVars, budgetVars
  <1>2. End \in Nat /\ Len(chan) \in Nat /\ End = Len(chan) + 2
    BY <1>1, StreamEnds
  <1>3. /\ Len(chan) >= 1 /\ Len(chan') = Len(chan) - 1 /\ End' = End - 1
        /\ \A i \in 1 .. Len(chan) - 1 : chan'[i] = chan[i + 1]
    BY <1>1, <1>2 DEF TypeOK, End
  <1>4. \A i \in 0 .. End - 1 : Stream'[i] = Stream[m[i]]
    <2>1. TAKE i \in 0 .. End - 1
    <2>2. /\ Stream'[i] = IF i = 0 THEN target'
                          ELSE IF i <= Len(chan) - 1 THEN chan'[i]
                          ELSE IF i = End - 1 THEN server ELSE view
      BY <1>1, <1>3 DEF Stream
    <2>3. CASE i = 0
      BY <2>2, <2>3
    <2>4. CASE i # 0
      <3>1. m[i] = i + 1 /\ i + 1 \in 0 .. End /\ i \in Nat
        BY <1>2, <2>4
      <3>2. Stream[i + 1] = IF i + 1 <= Len(chan) THEN chan[i + 1]
                            ELSE IF i + 1 = End THEN server ELSE view
        BY <3>1 DEF Stream
      <3>3. QED
        BY <1>2, <1>3, <2>2, <2>4, <3>1, <3>2
    <2>5. QED
      BY <2>3, <2>4
  <1>5. \A i \in 0 .. End - 1 : /\ SameSpec(Stream'[i], Stream[m[i]])
                                /\ Stream'[i] # Nil => Stream[m[i]] # Nil
    BY <1>4 DEF SameSpec
  <1>6. /\ m \in [0 .. End - 1 -> 0 .. End] /\ m[End - 1] = End /\ m[0] = first
        /\ \A i \in 0 .. End - 1 : \A j \in i .. End - 1 : m[i] <= m[j]
    BY <1>2, <1>3
  <1>7. Stamped(Stream', End - 1, edits, p)
    <2> HIDE DEF m
    <2>1. End - 1 \in Nat
      BY <1>2
    <2>2. Follows(Stream', End - 1, Stream, End, m)
      BY <1>5, <1>6 DEF Follows
    <2>3. QED
      BY <1>1, <1>2, <2>1, <2>2, Restamp
  <1>8. p \in [0 .. End - 1 -> Nat] /\ p[0] = n[first]
    BY <1>2, <1>3, <1>6 DEF Stamped, Through
  <1>9. QED
    BY <1>1, <1>3, <1>7, <1>8

(* The worker's own steps, and what they do to the account.                *)
LEMMA AccountWorker ==
    ASSUME "lag" \notin Faults, HistoryLimit # 0, CollectedInv, OneConfigInv,
           CalmCopies, CalmWorker, CalmHistories, Remember, NEW t \in Nat, Account(t),
           \/ Take
           \/ List /\ pc' = "apply"
           \/ Apply
           \/ EnsureHistory /\ pc' = "patch"
           \/ PatchStatus /\ pc' = "flush"
           \/ FlushAvailable /\ Succeed
    PROVE  Account(t)'
  <1>num. Newest \in Nat /\ DOMAIN given = 1 .. Newest
    BY NewestIsNumber
  <1>latest. LatestVersion(histView) = Newest
    BY ViewShowsNewest
  <1>quiet. ~ EnsureHistory /\ CalmHandlerStep => UNCHANGED <<given, Newest>>
    BY CalmNewest
  <1>take. CASE Take
    <2>1. UNCHANGED <<given, Newest, target>> /\ job' = target /\ queued /\ ~ queued'
          /\ pc = "idle" /\ pc' = "list"
      <3>1. CalmCopy(target)
        BY CopiesByName
      <3>2. ~ EnsureHistory
        BY <1>take DEF Take, EnsureHistory
      <3>3. QED
        BY <1>take, <1>quiet, <3>1, <3>2 DEF Take, CalmCopy, CalmHandlerStep
    <2>2. QED
      BY <2>1 DEF Account, MayMake, Spent
  <1>list. CASE List /\ pc' = "apply"
    <2>1. job \in Release /\ job.config \in Config
      BY <1>list DEF List, CollectedInv, TypeOK, Assigned, Release
    <2>2. UNCHANGED <<given, Newest, target, queued>> /\ pc = "list"
      <3>1. ~ EnsureHistory
        BY <1>list DEF List, EnsureHistory
      <3>2. QED
        BY <1>list, <1>quiet, <3>1 DEF List, queueVars, CalmHandlerStep
    <2>3. job'.version = NextVersion(histView, job) /\ job'.config = job.config
      BY <1>list, <2>1 DEF List, Release
    <2>4. Spent(job) => NextVersion(histView, job) = Newest
      <3>1. SUFFICES ASSUME Spent(job) PROVE NextVersion(histView, job) = Newest
        OBVIOUS
      <3>2. 0 \notin DOMAIN histView
        BY <1>num DEF CollectedInv
      <3>3. CurrentVersion(histView, job) = Newest
        BY <1>latest, <3>1, <3>2 DEF CurrentVersion, Spent
      <3>4. DOMAIN histView # {} /\ Newest \in DOMAIN histView
        BY <1>num, <1>latest, <3>1, LatestWithin DEF CollectedInv, Spent, LatestVersion
      <3>5. histView[Newest] = job.config
        BY <3>1, <3>4 DEF OneConfigInv, Spent
      <3>6. QED
        BY <3>3, <3>4, <3>5 DEF NextVersion
    <2>5. MayMake' => MayMake
      BY <1>list, <1>num, <2>2, <2>3, <2>4 DEF MayMake
    <2>6. MayMake => Newest <= t
      BY DEF Account
    <2>7. Spent(target)' = Spent(target)
      BY <2>2 DEF Spent
    <2>8. QED
      BY <2>2, <2>3, <2>5, <2>6, <2>7 DEF Account
  <1>apply. CASE Apply
    <2>1. UNCHANGED <<given, Newest, target, queued, job>> /\ pc = "apply"
          /\ pc' = "update"
      <3>1. ~ EnsureHistory
        BY <1>apply DEF Apply, EnsureHistory
      <3>2. QED
        BY <1>apply, <1>quiet, <3>1 DEF Apply, queueVars, CalmHandlerStep, CalmCopies
    <2>2. MayMake' = MayMake /\ Spent(target)' = Spent(target)
      BY <2>1 DEF MayMake, Spent
    <2>3. QED
      BY <2>1, <2>2 DEF Account
  <1>ends. CASE \/ PatchStatus /\ pc' = "flush"
                \/ FlushAvailable /\ Succeed
    <2>1. /\ UNCHANGED <<histories, target, queued>> /\ pc \in {"patch", "flush"}
          /\ pc' \in {"flush", "idle"}
      BY <1>ends DEF PatchStatus, FlushAvailable, Succeed, queueVars
    <2>2. UNCHANGED <<given, Newest>>
      BY <2>1, NothingNew DEF CollectedInv
    <2>3. ~ MayMake /\ ~ MayMake' /\ Spent(target)' = Spent(target)
      BY <2>1, <2>2 DEF MayMake, Spent
    <2>4. QED
      BY <2>1, <2>2, <2>3 DEF Account
  <1>ensure. CASE EnsureHistory /\ pc' = "patch"
    <2>1. /\ UNCHANGED <<target, queued, job>> /\ pc = "update" /\ pc' = "patch"
          /\ job.version \in 1 .. Newest + 1
      BY <1>ensure DEF EnsureHistory, queueVars, CollectedInv
    <2>2. ~ MayMake'
      BY <2>1 DEF MayMake
    <2>old. CASE DOMAIN histories' \subseteq DOMAIN given
      <3>1. UNCHANGED <<given, Newest>>
        BY <2>old, NothingNew
      <3>2. ~ MayMake
        <4>1. job.version \in DOMAIN histView \cup DOMAIN histories'
          BY <1>ensure DEF EnsureHistory, AddHistory
        <4>2. job.version \in 1 .. Newest
          BY <1>num, <2>old, <4>1 DEF CollectedInv
        <4>3. QED
          BY <1>num, <2>1, <4>2 DEF MayMake
      <3>3. Spent(target)' = Spent(target)
        BY <2>1, <3>1 DEF Spent
      <3>4. QED
        BY <2>1, <2>2, <3>1, <3>2, <3>3 DEF Account
    <2>new. CASE ~ (DOMAIN histories' \subseteq DOMAIN given)
      <3>1. /\ histories' = AddHistory(histories, job.version, job.config)
            /\ DOMAIN histories' = DOMAIN histories \cup {job.version}
        BY <1>ensure, <2>new DEF EnsureHistory, CollectedInv, AddHistory
      <3>2. job.version = Newest + 1
        BY <1>num, <2>1, <2>new, <3>1 DEF CollectedInv
      <3>3. job.config \in Config
        BY <2>1 DEF CollectedInv, TypeOK, Assigned, Release
      <3>4. Newest' = Newest + 1 /\ given'[Newest + 1] = job.config
        BY <3>1, <3>2, <3>3, NextRemembered
      <3>5. MayMake
        BY <1>num, <2>1, <3>2 DEF MayMake
      <3>6. /\ Newest <= t
            /\ queued => Newest < t \/ (job.config = target.config /\ target.version = 0)
            /\ ~ queued => job.config = target.config
        BY <2>1, <3>5 DEF Account, CalmWorker
      <3>7. job.config = target.config /\ target.version = 0 => Spent(target)'
        BY <1>num, <2>1, <3>4 DEF Spent
      <3>8. /\ Newest + 1 <= t + 1 /\ Newest' # 0
            /\ Newest < t => Newest + 1 <= t
        BY <1>num, <3>4, <3>6
      <3>9. QED
        BY <2>1, <2>2, <3>4, <3>6, <3>7, <3>8 DEF Account
    <2>qed. QED
      BY <2>old, <2>new
  <1>qed. QED
    BY <1>take, <1>list, <1>apply, <1>ends, <1>ensure

(* A copy the receiver does not skip is of a later edit, or knows of no    *)
(* version yet.                                                            *)
LEMMA AccountReceive ==
    ASSUME CollectedInv, CalmCopies, CalmWorker, Receive, Remember,
           NEW n, Stamped(Stream, End, edits, n), Account(n[0])
    PROVE  \E first \in {0, 1} : target' = Stream[first] /\ Account(n[first])'
  <1>1. TypeOK /\ chan # <<>> /\ Len(chan) \in Nat /\ Len(chan) >= 1
    BY DEF Receive, CollectedInv, TypeOK
  <1>2. /\ End \in Nat /\ End >= 2 /\ Stream[0] = target /\ Stream[1] = Head(chan)
        /\ Head(chan) \in Release
    BY <1>1, StreamEnds DEF TypeOK
  <1>3. UNCHANGED <<given, Newest, pc, job>>
    <2>1. UNCHANGED <<histories, pc, job>>
      BY DEF Receive, apiVars
    <2>2. QED
      BY <2>1, NothingNew DEF CollectedInv
  <1>4. CASE Skips(Head(chan)) /\ UNCHANGED <<target, queued, requeues>>
    <2>1. Account(n[0])'
      BY <1>3, <1>4, AccountSame
    <2>2. QED
      BY <1>2, <1>4, <2>1
  <1>5. CASE ~ Skips(Head(chan)) /\ target' = Head(chan) /\ queued'
    <2> DEFINE e == Head(chan)
    <2>num. Newest \in Nat /\ n[0] \in Nat /\ n[1] \in Nat /\ n[0] <= n[1]
      <3>1. 0 \in 0 .. End /\ 1 \in 0 .. End
        BY <1>2
      <3>2. QED
        BY <3>1, NewestIsNumber DEF Stamped
    <2>1. MayMake' = MayMake /\ Spent(target)' = Spent(e)
      BY <1>3, <1>5 DEF MayMake, Spent
    <2>none. CASE target = Nil
      <3>1. Newest = 0 /\ ~ MayMake
        BY <2>none DEF CalmWorker, MayMake
      <3>2. Newest <= n[1] /\ Newest <= n[1] + 1
        BY <2>num, <3>1
      <3>3. Account(n[1])'
        BY <1>3, <2>1, <3>1, <3>2 DEF Account
      <3>4. QED
        BY <1>2, <1>5, <3>3
    <2>later. CASE n[0] < n[1]
      <3>1. /\ Newest <= n[0] + 1
            /\ MayMake => Newest <= n[0]
        BY DEF Account
      <3>2. /\ Newest <= n[1]
            /\ MayMake => Newest < n[1]
        BY <2>num, <2>later, <3>1
      <3>3. Newest <= n[1] + 1
        BY <2>num, <3>2
      <3>4. Account(n[1])'
        BY <1>3, <2>1, <3>2, <3>3 DEF Account
      <3>5. QED
        BY <1>2, <1>5, <3>4
    <2>again. CASE n[0] = n[1] /\ target # Nil
      <3>1. SameSpec(target, e)
        <4>1. 0 \in 0 .. End /\ 1 \in 0 .. End
          BY <1>2
        <4>2. QED
          BY <1>2, <2>again, <4>1 DEF Stamped
      <3>2. e.version = 0
        <4>1. CalmCopy(e)
          BY <1>1, CopiesByName DEF TypeOK
        <4>2. QED
          BY <1>5, <2>again, <3>1, <4>1 DEF Skips, NormalCondition, SameSpec, CalmCopy
      <3>3. /\ Newest <= n[1] + 1
            /\ Newest <= n[1] \/ (Newest # 0 /\ given[Newest] = e.config)
            /\ MayMake => Newest <= n[1]
        BY <2>again, <3>1 DEF Account, SameSpec
      <3>4. MayMake => Newest < n[1] \/ job.config = e.config
        <4>1. MayMake => pc # "idle"
          BY DEF MayMake
        <4>2. QED
          BY <2>again, <3>1, <4>1 DEF Account, SameSpec, CalmWorker
      <3>5. ~ Spent(e) => Newest <= n[1]
        BY <3>2, <3>3 DEF Spent
      <3> HIDE DEF e
      <3>6. Account(n[1])'
        BY <1>3, <1>5, <2>1, <3>2, <3>3, <3>4, <3>5 DEF Account, e
      <3>7. QED
        BY <1>2, <1>5, <3>6
    <2>qed. QED
      BY <2>num, <2>none, <2>later, <2>again
  <1>6. QED
    BY <1>4, <1>5 DEF Receive

(* Stamps and account through every step of the handler.                   *)
LEMMA StampStep ==
    ASSUME "lag" \notin Faults, HistoryLimit # 0, CollectedInv, CollectedInv', OneConfigInv,
           CalmCopies, CalmWorker, CalmHistories, CalmHandlerStep, Remember,
           NEW n \in [0 .. End -> Nat], Stamped(Stream, End, edits, n), Account(n[0])
    PROVE  \E p \in [0 .. End' -> Nat] :
              Stamped(Stream', End', edits', p) /\ Account(p[0])'
  <1>zero. n[0] \in Nat
    <2>1. TypeOK
      BY DEF CollectedInv
    <2>2. 0 \in 0 .. End
      BY <2>1, StreamEnds
    <2>3. QED
      BY <2>2
  <1>same. UNCHANGED <<target, queued, pc, job>> /\ ~ EnsureHistory => Account(n[0])'
    BY CalmNewest, AccountSame
  <1>1. CASE Edit
    <2>1. /\ UNCHANGED <<view, chan, target, queued, pc, job>> /\ edits' = edits + 1
          /\ ~ EnsureHistory
      BY <1>1 DEF Edit, EnsureHistory, informVars, queueVars, budgetVars, CollectedInv, TypeOK
    <2>2. Account(n[0])'
      BY <1>same, <2>1
    <2>3. QED
      BY <2>1, <2>2, StampEdit
  <1>2. CASE ViewCatchesUp
    <2>1. UNCHANGED <<target, queued, pc, job, histories>>
      BY <1>2 DEF ViewCatchesUp, apiVars, queueVars
    <2>2. Account(n[0])'
      BY <2>1, AccountSame, NothingNew DEF CollectedInv
    <2>3. QED
      BY <1>2, <2>2, StampView
  <1>3. CASE HistViewCatchesUp \/ Resync
    <2>1. UNCHANGED <<server, view, chan, target, edits, queued, pc, job, histories>>
      BY <1>3 DEF HistViewCatchesUp, Resync, apiVars, queueVars, budgetVars
    <2>2. Account(n[0])'
      BY <2>1, AccountSame, NothingNew DEF CollectedInv
    <2>3. SameSpec(server', server)
      BY <2>1 DEF SameSpec
    <2>4. QED
      BY <2>1, <2>2, <2>3, StampWorker
  <1>4. CASE Trigger
    <2>1. UNCHANGED <<target, queued, pc, job, histories>>
      BY <1>4 DEF Trigger, apiVars, queueVars
    <2>2. Account(n[0])'
      BY <2>1, AccountSame, NothingNew DEF CollectedInv
    <2>3. QED
      BY <1>4, <2>2, StampTrigger
  <1>5. CASE Receive
    <2>1. PICK first \in {0, 1} : target' = Stream[first] /\ Account(n[first])'
      BY <1>5, AccountReceive
    <2>2. PICK p \in [0 .. End' -> Nat] :
             Stamped(Stream', End', edits', p) /\ p[0] = n[first]
      BY <1>5, <2>1, StampReceive
    <2>3. Account(p[0])'
      BY <2>1, <2>2
    <2>4. QED
      BY <2>2, <2>3
  <1>6. CASE \/ Take
             \/ List /\ pc' = "apply"
             \/ Apply
             \/ EnsureHistory /\ pc' = "patch"
    <2>1. UNCHANGED <<server, view, chan, target, edits>>
      BY <1>6 DEF Take, List, Apply, EnsureHistory, apiVars, informVars, budgetVars
    <2>2. SameSpec(server', server)
      BY <2>1 DEF SameSpec
    <2>3. Account(n[0])'
      BY <1>6, <1>zero, AccountWorker
    <2>4. QED
      BY <2>1, <2>2, <2>3, StampWorker
  <1>7. CASE \/ PatchStatus /\ Send(Updated(base, job)) /\ pc' = "flush"
             \/ FlushAvailable /\ Send(Flushed(base, "Available")) /\ Succeed
    <2>1. UNCHANGED <<view, chan, target, edits>>
      BY <1>7 DEF PatchStatus, FlushAvailable, informVars
    <2>2. SameSpec(server', server)
      BY <1>7, CalmSend DEF PatchStatus, FlushAvailable
    <2>3. Account(n[0])'
      BY <1>7, <1>zero, AccountWorker
    <2>4. QED
      BY <2>1, <2>2, <2>3, StampWorker
  <1>8. QED
    BY <1>1, <1>2, <1>3, <1>4, <1>5, <1>6, <1>7 DEF CalmHandlerStep

LEMMA SpareStep ==
    ASSUME "lag" \notin Faults, HistoryLimit # 0, BadConfig = {}
    PROVE  CollectedInv /\ CollectedInv' /\ OneConfigInv /\ SpareInv /\ [NextBoth]_allVars
              => SpareInv'
  <1> SUFFICES ASSUME CollectedInv, CollectedInv', OneConfigInv, SpareInv,
                      [NextBoth]_allVars, Calm'
               PROVE  /\ CalmCopies' /\ CalmWorker' /\ CalmHistories'
                      /\ \E p \in [0 .. End' -> Nat] :
                            Stamped(Stream', End', edits', p) /\ Account(p[0])'
    BY DEF SpareInv
  <1>1. Calm
    BY CalmBefore
  <1>2. CalmCopies /\ CalmWorker /\ CalmHistories
    BY <1>1 DEF SpareInv
  <1>3. PICK n \in [0 .. End -> Nat] : Stamped(Stream, End, edits, n) /\ Account(n[0])
    BY <1>1 DEF SpareInv
  <1>handler. CASE HandlerSteps /\ Remember
    <2>1. CalmHandlerStep
      BY <1>1, <1>2, <1>handler, CalmCases DEF HandlerSteps
    <2>2. CalmCopies' /\ CalmWorker' /\ CalmHistories'
      BY <1>2, <1>handler, <2>1, CalmCopiesStep, CalmWorkerStep, CalmHistoriesStep
    <2>3. QED
      BY <1>2, <1>3, <1>handler, <2>1, <2>2, StampStep
  <1>collector. CASE \/ NextBoth /\ (Collect \/ DeleteHistory \/ GiveUpCollecting)
                     \/ UNCHANGED allVars
    <2>1. /\ UNCHANGED <<server, view, histView, chan, target, base, queued, delayed, pc, job,
                         edits>>
          /\ DOMAIN histories' \subseteq DOMAIN histories
      BY <1>collector
      DEF Collect, DeleteHistory, GiveUpCollecting, allVars, vars, apiVars, informVars,
          queueVars, budgetVars
    <2>2. UNCHANGED <<given, Newest>>
      <3>1. CASE NextBoth
        BY <2>1, <3>1, NothingNew DEF NextBoth, CollectedInv
      <3>2. CASE UNCHANGED allVars
        BY <3>2 DEF allVars, Newest
      <3>3. QED
        BY <1>collector, <3>1, <3>2
    <2>3. UNCHANGED <<Stream, End>>
      BY <2>1 DEF Stream, End
    <2>4. CalmCopies' /\ CalmWorker' /\ CalmHistories'
      BY <1>2, <2>1, <2>2, <2>3 DEF CalmCopies, CalmWorker, CalmHistories
    <2>5. Account(n[0])'
      BY <1>3, <2>1, <2>2, AccountSame
    <2>6. QED
      BY <1>3, <2>1, <2>3, <2>4, <2>5
  <1>qed. QED
    BY <1>handler, <1>collector DEF NextBoth

(* As long as nothing fails and nothing is rolled back, and all configs    *)
(* render, there is one version for the creation and at most one for each  *)
(* edit, however many copies of the release are still under way            *)
(* (applyRelease's "changed", handle's test).                              *)
THEOREM NoSpareVersionsHolds ==
    ASSUME "lag" \notin Faults, HistoryLimit # 0, BadConfig = {}
    PROVE  SpecBoth => []NoSpareVersions
  <1>1. CollectedInv /\ OneConfigInv /\ [NextBoth]_allVars => OneConfigInv'
    BY OneConfigStep
  <1>2. CollectedInv /\ CollectedInv' /\ OneConfigInv /\ SpareInv /\ [NextBoth]_allVars
           => SpareInv'
    BY SpareStep
  <1>3. CollectedInv /\ SpareInv => NoSpareVersions
    <2>1. SUFFICES ASSUME CollectedInv, SpareInv, faults + crashes + rollbacks = 0
                   PROVE  Newest <= 1 + edits
      BY DEF NoSpareVersions
    <2>2. Calm
      BY <2>1 DEF Calm, CollectedInv, TypeOK
    <2>3. PICK n \in [0 .. End -> Nat] : Stamped(Stream, End, edits, n) /\ Account(n[0])
      BY <2>1, <2>2 DEF SpareInv
    <2>4. End \in Nat /\ edits \in Nat /\ Newest \in Nat
      BY <2>1, NewestIsNumber, StreamEnds DEF CollectedInv, TypeOK
    <2>5. 0 \in 0 .. End /\ End \in 0 .. End
      BY <2>4
    <2>6. n[0] <= n[End] /\ n[End] = edits /\ n[0] \in Nat
      BY <2>4, <2>5, <2>3 DEF Stamped
    <2>7. Newest <= n[0] + 1
      BY <2>3 DEF Account
    <2>8. QED
      BY <2>4, <2>6, <2>7
  <1>4. QED
    BY <1>1, <1>2, <1>3, CollectedHolds, OneConfigInit, SpareInit, PTL DEF SpecBoth

===============================================================================
