------------------------------- MODULE ChartTree -------------------------------
(***************************************************************************)
(* The way of a chart's resources to the tree the status controller goes   *)
(* over (pkg/render/tree.go): Render puts the resources of each file at a  *)
(* node of a tree, Resources lists them, the list becomes the release's    *)
(* manifest, and CarrierForManifest puts every resource of that at the     *)
(* node its annotation names.  Files, the resources of a file and the      *)
(* children of a node come out of Go maps, in any order.                   *)
(*                                                                         *)
(* A path is the sequence of its elements.  Every file is in the directory *)
(* of the chart and in one named "templates" there (helm's loader drops    *)
(* others), and every resource is annotated (helm's engine does it): of    *)
(* the errors of this code only "unexpected file path" can come up.        *)
(***************************************************************************)
EXTENDS Integers, FiniteSets, SequencesExt

CONSTANTS
    Name,     \* the chart's name, the first element of every path
    Charts    \* the charts to look at: how many resources each file makes

ASSUME ChartAssumption ==
    \A c \in Charts : \A file \in DOMAIN c :
        /\ c[file] \in Nat
        /\ file \in Seq(STRING) /\ file[1] = Name
        /\ \E i \in DOMAIN file : file[i] = "templates" /\ i % 2 = 0

VARIABLES
    phase,    \* "render", "walk" and "parse"; then "run", "empty" or "rejected"
    chart,    \* the argument of Render
    rest,     \* its files that are not in the tree yet
    queue,    \* the nodes walkthrough goes over next
    list,     \* the resources found; later those that are not in the tree yet
    held      \* the tree: from the path of each node to its resources

chartVars == <<phase, chart, rest, queue, list, held>>

Root   == <<Name>>
NoTree == [path \in {} |-> <<>>]

(* The resources of the chart.                                             *)
Made == UNION {{<<file, i>> : i \in 1 .. chart[file]} : file \in DOMAIN chart}

BuildInit ==
    /\ phase = "render"
    /\ chart \in Charts /\ rest = DOMAIN chart
    /\ queue = <<>> /\ list = <<>> /\ held = NoTree

-------------------------------------------------------------------------------
(* Paths.                                                                  *)
Odd(i) == i % 2 = 1

(* logicPathForFile: the base is what comes before the last "templates"    *)
(* that is a directory, its odd elements are the names of charts.          *)
Base(file) ==
    SubSeq(file, 1, SelectLastInSubSeq(file, 1, Len(file) - 1, LAMBDA e : e = "templates") - 1)

LogicPath(base) == [i \in 1 .. (Len(base) + 1) \div 2 |-> base[2 * i - 1]]

(* The annotation: the chart which the file is one of.                     *)
PathKey(file) ==
    LET ends == {i \in DOMAIN file : file[i] = "templates" /\ ~ Odd(i)}
    IN LogicPath(SubSeq(file, 1, (CHOOSE i \in ends : \A j \in ends : i <= j) - 1))

(* The nodes on the way to a node, and that node.                          *)
Above(path) == Prefixes(path) \ {<<>>}

(* A faulty variant of Add: what is at the node already is replaced.       *)
AddInstead(path, resources) ==
    [p \in DOMAIN held \cup Above(path) |->
        IF p = path THEN resources ELSE IF p \in DOMAIN held THEN held[p] ELSE <<>>]

(* node.add                                                                *)
Add(path, resources) ==
    [p \in DOMAIN held \cup Above(path) |->
        (IF p \in DOMAIN held THEN held[p] ELSE <<>>)
            \o (IF p = path THEN resources ELSE <<>>)]

Children(path) == {p \in DOMAIN held \ {Root} : Front(p) = path}

-------------------------------------------------------------------------------
(* Render: treeCarrierFor, and Resources.                                  *)
AddFile(file) ==
    /\ phase = "render" /\ file \in rest
    /\ rest' = rest \ {file}
    /\ \/ /\ ~ Odd(Len(Base(file)))
          /\ phase' = "rejected"
          /\ UNCHANGED held
       \/ /\ Odd(Len(Base(file)))
          /\ \E resources \in SetToSeqs({<<file, i>> : i \in 1 .. chart[file]}) :
               held' = Add(LogicPath(Base(file)), resources)
          /\ UNCHANGED phase
    /\ UNCHANGED <<chart, queue, list>>

Rendered ==
    /\ phase = "render" /\ rest = {}
    /\ phase' = "walk"
    /\ queue' = IF held = NoTree THEN <<>> ELSE <<Root>>
    /\ UNCHANGED <<chart, rest, list, held>>

(* A faulty variant of Visit: a node without resources ends the branch.    *)
VisitTheFull ==
    /\ phase = "walk" /\ queue # <<>>
    /\ list' = list \o held[Head(queue)]
    /\ \E order \in SetToSeqs(Children(Head(queue))) :
         queue' = Tail(queue) \o (IF held[Head(queue)] = <<>> THEN <<>> ELSE order)
    /\ UNCHANGED <<phase, chart, rest, held>>

(* One round of walkthrough.                                               *)
Visit ==
    /\ phase = "walk" /\ queue # <<>>
    /\ list' = list \o held[Head(queue)]
    /\ \E order \in SetToSeqs(Children(Head(queue))) : queue' = Tail(queue) \o order
    /\ UNCHANGED <<phase, chart, rest, held>>

(* MergeResources, and SplitManifest when the release has got here.        *)
Stored ==
    /\ phase = "walk" /\ queue = <<>>
    /\ phase' = "parse" /\ held' = NoTree
    /\ UNCHANGED <<chart, rest, queue, list>>

(* CarrierForResources                                                     *)
AddResource ==
    /\ phase = "parse" /\ list # <<>>
    /\ list' = Tail(list)
    /\ held' = Add(PathKey(Head(list)[1]), <<Head(list)>>)
    /\ UNCHANGED <<phase, chart, rest, queue>>

(* Without a root Run has nothing to do.                                   *)
Parsed ==
    /\ phase = "parse" /\ list = <<>>
    /\ phase' = IF held = NoTree THEN "empty" ELSE "run"
    /\ UNCHANGED <<chart, rest, queue, list, held>>

BuildStep ==
    \/ \E file \in rest : AddFile(file)
    \/ Rendered \/ Visit \/ Stored \/ AddResource \/ Parsed

-------------------------------------------------------------------------------
(* A manifest has every resource of the chart, once, in whatever orders    *)
(* the maps are gone over, and wherever Render has put them (Resources).   *)
ManifestWhole ==
    phase = "parse" /\ held = NoTree =>
        ToSet(list) = Made /\ Len(list) = Cardinality(Made)

(* The tree that is run has the nodes of the charts that make resources,   *)
(* those on the way to them, and no others; every resource is at the node  *)
(* of the chart it is of (CarrierForManifest).                             *)
EachInItsPlace ==
    phase = "run" =>
        /\ DOMAIN held = UNION {Above(PathKey(r[1])) : r \in Made}
        /\ \A p \in DOMAIN held :
             LET own == {r \in Made : PathKey(r[1]) = p}
             IN ToSet(held[p]) = own /\ Len(held[p]) = Cardinality(own)
===============================================================================
