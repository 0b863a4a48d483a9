--------------------------- MODULE CollectedHandler ---------------------------
(***************************************************************************)
(* The handler of a release together with the garbage collector's work on  *)
(* the release's histories.  They share the Release informer and the       *)
(* histories on the API server, and nothing orders their steps: collect    *)
(* judges by the version it has read, while the handler goes on.           *)
(***************************************************************************)
EXTENDS ReleaseHandler

CONSTANT HistoryLimit   \* gc.historyLimit

ASSUME LimitAssumption == HistoryLimit \in Nat

VARIABLES
    doomed,     \* the histories collect has decided to delete
    given       \* the config each version was first made for

allVars == <<vars, doomed, given>>

InitBoth == Init /\ doomed = {} /\ given = NoHistories

(* What a number was first given to is remembered.                         *)
Remember ==
    given' = [v \in DOMAIN given \cup DOMAIN histories' |->
                  IF v \in DOMAIN given THEN given[v] ELSE histories'[v]]

(* A faulty variant of Retain: one too few.                                *)
RetainFewer(v, version) == v + HistoryLimit - 1 > version

Retain(v, version) == v + HistoryLimit > version

(* collect reads the release from the informer.  Which of the histories    *)
(* its own informer shows and three seconds have passed for is left open:  *)
(* what it has chosen it may leave undone.                                 *)
Collect ==
    /\ doomed = {} /\ view.manifest # EmptyManifest
    /\ doomed' = {v \in DOMAIN histories : ~ Retain(v, view.version)}
    /\ doomed' # {}
    /\ UNCHANGED vars

(* The informer, and with it the layer, learns of a deletion later.        *)
DeleteHistory ==
    /\ \E v \in doomed :
         /\ histories' = [w \in DOMAIN histories \ {v} |-> histories[w]]
         /\ doomed' = doomed \ {v}
    /\ UNCHANGED <<server, cluster, informVars, chan, target, base, queueVars, pc, job,
                   budgetVars>>

(* A deletion fails, or an object was too young.                           *)
GiveUpCollecting ==
    /\ doomed # {} /\ doomed' = {}
    /\ UNCHANGED vars

HandlerSteps ==
    /\ Next
    /\ doomed' = IF crashes' = crashes THEN doomed ELSE {}

NextBoth ==
    /\ HandlerSteps \/ Collect \/ DeleteHistory \/ GiveUpCollecting
    /\ Remember

SpecBoth == InitBoth /\ [][NextBoth]_allVars

-------------------------------------------------------------------------------
(* The number handed out last, collected or not.                           *)
Newest == LatestVersion(given)

(* "It will retain the history which between (latestVersion-historyLimit : *)
(* latestVersion] actually" (ifRetainHistory): however old the release     *)
(* collect has read, whatever fails and whatever is made meanwhile.        *)
WindowRetained ==
    \A v \in DOMAIN given : v + HistoryLimit > Newest => v \in DOMAIN histories

(* A number that has named a config never comes to name another one, not   *)
(* even after its history was collected (applyRelease's latestVersion + 1, *)
(* storage.Update).                                                        *)
OneConfigEach == \A v \in DOMAIN histories : histories[v] = given[v]

(* As long as nothing fails and nothing is rolled back there is one        *)
(* version for the creation and at most one for each edit: an unchanged    *)
(* release makes none, however many old copies of it are still to be       *)
(* handled (applyRelease's "changed", handle's test).  It takes configs    *)
(* that render: after a Failure the receiver lets every copy that shows it *)
(* pass, and each of them may make a version of the same config.           *)
NoSpareVersions ==
    faults + crashes + rollbacks = 0 => Newest <= 1 + edits
===============================================================================
