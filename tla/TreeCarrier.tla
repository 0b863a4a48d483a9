------------------------------ MODULE TreeCarrier ------------------------------
(***************************************************************************)
(* treeCarrier.Run (pkg/render/tree.go): a handler is called for every     *)
(* node of the tree a chart has come to, the children of a node in         *)
(* goroutines of their own.  In positive order a node comes after its      *)
(* children, in reversed order before them.                                *)
(*                                                                         *)
(* Each goroutine defers wg.Done in the function it runs, but appends that *)
(* function's error to errList after the function has returned: between    *)
(* the two the parent may already be past wg.Wait and look at errList.     *)
(***************************************************************************)
EXTENDS ChartTree

CONSTANTS
    Orders,        \* the orders that are run
    MayCancel      \* the caller may cancel its context

ASSUME TreeAssumption ==
    /\ Orders \subseteq {"PositiveOrder", "ReversedOrder"}
    /\ MayCancel \in BOOLEAN

VARIABLES
    order,      \* the argument of Run
    pc,         \* where the execution of each node is, once Run is called
    wg,         \* the counter of the WaitGroup each node's children are in
    handled,    \* the nodes whose handler returned nil
    failed,     \* those whose handler returned an error
    erred,      \* the nodes whose execution returned an error
    errList,    \* the nodes whose error is in their parent's errList
    cancelled   \* ctx.Err() # nil

runVars == <<order, pc, wg, handled, failed, erred, errList, cancelled>>
vars    == <<chartVars, runVars>>

(* "unborn": no goroutine yet; "children": about to start the children's;  *)
(* "wait": in wg.Wait; "handle": about to call the handler; "running": in  *)
(* it; "done": returned, wg.Done called; "over": its goroutine has ended.  *)
Places == {"unborn", "children", "wait", "handle", "running", "done", "over"}

Nodes  == DOMAIN held
Parent(n) == Front(n)

(* Where execPositively and execReversely begin.                           *)
Entry(o) == IF o = "PositiveOrder" THEN "children" ELSE "handle"

Phases == {"render", "walk", "parse", "run", "empty", "rejected"}

TypeOK ==
    /\ phase \in Phases /\ rest \subseteq DOMAIN chart
    /\ ToSet(list) \subseteq Made /\ ToSet(queue) \subseteq Nodes
    /\ \A n \in Nodes : ToSet(held[n]) \subseteq Made /\ Above(n) \subseteq Nodes
    /\ order \in Orders
    /\ IF phase = "run" THEN pc \in [Nodes -> Places] ELSE pc = NoTree
    /\ wg \in [DOMAIN pc -> Nat]
    /\ handled \subseteq Nodes /\ failed \subseteq Nodes
    /\ erred \subseteq Nodes /\ errList \subseteq Nodes
    /\ cancelled \in BOOLEAN

Init ==
    /\ BuildInit
    /\ order \in Orders
    /\ pc = NoTree /\ wg = NoTree
    /\ handled = {} /\ failed = {} /\ erred = {} /\ errList = {}
    /\ cancelled = FALSE

-------------------------------------------------------------------------------
(* The tree is made, and Run called for the root.                          *)
Build ==
    /\ BuildStep
    /\ pc' = IF phase' = "run"
             THEN [n \in Nodes |-> IF n = Root THEN Entry(order) ELSE "unborn"] ELSE pc
    /\ wg' = IF phase' = "run" THEN [n \in Nodes |-> 0] ELSE wg
    /\ UNCHANGED <<order, handled, failed, erred, errList, cancelled>>

Cancel ==
    /\ MayCancel /\ ~ cancelled /\ phase = "run"
    /\ cancelled' = TRUE
    /\ UNCHANGED <<chartVars, order, pc, wg, handled, failed, erred, errList>>

(* A faulty variant of Spawn: wg.Add(1), whatever the number of children.  *)
SpawnAddingOne(n) ==
    /\ pc[n] = "children"
    /\ wg' = [wg EXCEPT ![n] = IF Children(n) = {} THEN 0 ELSE 1]
    /\ pc' = [m \in Nodes |-> IF m = n THEN "wait"
                              ELSE IF m \in Children(n) THEN Entry(order) ELSE pc[m]]
    /\ UNCHANGED <<order, handled, failed, erred, errList, cancelled>>

(* handleChildren up to wg.Wait.                                           *)
Spawn(n) ==
    /\ pc[n] = "children"
    /\ wg' = [wg EXCEPT ![n] = Cardinality(Children(n))]
    /\ pc' = [m \in Nodes |-> IF m = n THEN "wait"
                              ELSE IF m \in Children(n) THEN Entry(order) ELSE pc[m]]
    /\ UNCHANGED <<order, handled, failed, erred, errList, cancelled>>

(* A faulty variant of Return: wg.Done is not deferred, so that an error   *)
(* passes it over.                                                         *)
ReturnWithoutDone(n, err) ==
    /\ pc' = [pc EXCEPT ![n] = "done"]
    /\ erred' = IF err THEN erred \cup {n} ELSE erred
    /\ wg' = IF n = Root \/ err THEN wg ELSE [wg EXCEPT ![Parent(n)] = @ - 1]

(* The execution of n returns, err or nil, and calls wg.Done.              *)
Return(n, err) ==
    /\ pc' = [pc EXCEPT ![n] = "done"]
    /\ erred' = IF err THEN erred \cup {n} ELSE erred
    /\ wg' = IF n = Root THEN wg ELSE [wg EXCEPT ![Parent(n)] = @ - 1]

(* handleChildren from wg.Wait on: an error that is in errList by now ends *)
(* the execution of n.                                                     *)
Proceed(n) ==
    /\ pc[n] = "wait" /\ wg[n] = 0
    /\ \/ /\ Children(n) \cap errList # {}
          /\ Return(n, TRUE)
       \/ /\ Children(n) \cap errList = {} /\ order = "PositiveOrder"
          /\ pc' = [pc EXCEPT ![n] = "handle"]
          /\ UNCHANGED <<wg, erred>>
       \/ /\ Children(n) \cap errList = {} /\ order = "ReversedOrder"
          /\ Return(n, FALSE)
    /\ UNCHANGED <<order, handled, failed, errList, cancelled>>

Call(n) ==
    /\ pc[n] = "handle"
    /\ pc' = [pc EXCEPT ![n] = "running"]
    /\ UNCHANGED <<order, wg, handled, failed, erred, errList, cancelled>>

(* A faulty variant of Fails: the error is logged and the children follow. *)
FailsButGoesOn(n) ==
    /\ pc[n] = "running"
    /\ failed' = failed \cup {n}
    /\ \/ /\ order = "PositiveOrder"
          /\ Return(n, FALSE)
       \/ /\ order = "ReversedOrder"
          /\ pc' = [pc EXCEPT ![n] = "children"]
          /\ UNCHANGED <<wg, erred>>
    /\ UNCHANGED <<order, handled, errList, cancelled>>

(* The handler returns an error.                                           *)
Fails(n) ==
    /\ pc[n] = "running"
    /\ failed' = failed \cup {n}
    /\ Return(n, TRUE)
    /\ UNCHANGED <<order, handled, errList, cancelled>>

(* A faulty variant of Succeeds: the reversed order stops at the root.     *)
SucceedsAndStops(n) ==
    /\ pc[n] = "running"
    /\ handled' = handled \cup {n}
    /\ Return(n, cancelled)
    /\ UNCHANGED <<order, failed, errList, cancelled>>

(* The handler returns nil; handle returns ctx.Err().                      *)
Succeeds(n) ==
    /\ pc[n] = "running"
    /\ handled' = handled \cup {n}
    /\ \/ /\ cancelled \/ order = "PositiveOrder"
          /\ Return(n, cancelled)
       \/ /\ ~ cancelled /\ order = "ReversedOrder"
          /\ pc' = [pc EXCEPT ![n] = "children"]
          /\ UNCHANGED <<wg, erred>>
    /\ UNCHANGED <<order, failed, errList, cancelled>>

(* A faulty variant of Note: wg.Done is called here as well.               *)
NoteAndDone(n) ==
    /\ pc[n] = "done"
    /\ pc' = [pc EXCEPT ![n] = "over"]
    /\ wg' = IF n = Root THEN wg ELSE [wg EXCEPT ![Parent(n)] = @ - 1]
    /\ errList' = IF n \in erred THEN errList \cup {n} ELSE errList
    /\ UNCHANGED <<order, handled, failed, erred, cancelled>>

(* The goroutine appends the error and ends; for Root this is Run.         *)
Note(n) ==
    /\ pc[n] = "done"
    /\ pc' = [pc EXCEPT ![n] = "over"]
    /\ errList' = IF n \in erred THEN errList \cup {n} ELSE errList
    /\ UNCHANGED <<order, wg, handled, failed, erred, cancelled>>

Step(n) ==
    /\ phase = "run"
    /\ Spawn(n) \/ Proceed(n) \/ Call(n) \/ Fails(n) \/ Succeeds(n) \/ Note(n)
    /\ UNCHANGED chartVars

Next == Cancel \/ Build \/ \E n \in Nodes : Step(n)

Spec == Init /\ [][Next]_vars

(* Some goroutine that can go on is scheduled, a handler returns.          *)
FairSpec == Spec /\ WF_vars(Build) /\ WF_vars(\E n \in Nodes : Step(n))

-------------------------------------------------------------------------------
Ended == {n \in DOMAIN pc : pc[n] \in {"done", "over"}}

(* In positive order nothing is done for a node while a child's execution  *)
(* is still to come or going on (wg.Wait in handleChildren).               *)
ChildrenFirst ==
    order = "PositiveOrder" =>
        \A n \in DOMAIN pc : pc[n] \in {"handle", "running"} \/ n \in handled
                             => Children(n) \subseteq Ended

(* In reversed order nothing is done for a node unless its parent's        *)
(* handler has succeeded (execReversely returns on the error of handle).   *)
ParentsFirst ==
    order = "ReversedOrder" =>
        \A n \in DOMAIN pc \ {Root} : pc[n] # "unborn" => Parent(n) \in handled

(* Run keeps to the order it was given, in whatever order the goroutines   *)
(* of siblings are scheduled and handlers fail.                            *)
InOrder == ChildrenFirst /\ ParentsFirst

(* When an execution has ended, those of its children have ended or will   *)
(* never begin: when Run returns no handler of the tree runs any more, and *)
(* what a handler writes to (details in status.detect) may be read.        *)
NoStragglers ==
    \A n \in Ended : \A c \in Children(n) : c \in Ended \/ pc[c] = "unborn"

(* A Run in which no handler fails, and which is not cancelled, returns    *)
(* nil and has handled every node.                                         *)
AllHandled ==
    Root \in Ended /\ failed = {} /\ ~ cancelled => Root \notin erred /\ handled = Nodes

(* Run returns, whatever fails, if the chart can be rendered and makes any *)
(* resource.                                                               *)
RunReturns ==
    <>(phase \in {"empty", "rejected"} \/ (Root \in DOMAIN pc /\ pc[Root] = "over"))
===============================================================================
