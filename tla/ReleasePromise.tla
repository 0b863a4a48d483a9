---------------------------- MODULE ReleasePromise ----------------------------
(***************************************************************************)
(* What the handler of a release promises to those who look at the API     *)
(* server only: in which order the resources, the histories and the status *)
(* of the release change, and what each change vouches for.  Informers,    *)
(* queues, copies, retries and restarts do not show.                       *)
(***************************************************************************)
EXTENDS ReleaseStorage

VARIABLES
    server,     \* the Release object
    histories,  \* the ReleaseHistory objects
    cluster     \* what the resources were last applied from, and if all were

vars == <<server, histories, cluster>>

Init ==
    /\ \E c \in Config, s \in BOOLEAN : server = NewRelease(c, s)
    /\ histories = NoHistories
    /\ cluster = [manifest |-> EmptyManifest, whole |-> TRUE]

(* The user asks for another config or for a rollback at any time.         *)
Ask ==
    /\ UNCHANGED <<histories, cluster>>
    /\ server' \in Release
    /\ \A f \in {"version", "manifest", "cond"} : server'[f] = server[f]

(* Resources are applied one after the other; nothing is said of them.     *)
Deploy ==
    /\ \E m \in Manifest, w \in BOOLEAN :
         cluster' = [manifest |-> m, whole |-> w]
    /\ UNCHANGED <<server, histories>>

(* A config gets its version, the next one, only when its resources are    *)
(* all there.  A history is never changed afterwards.                      *)
Record ==
    /\ cluster.whole
    /\ histories' = AddHistory(histories, LatestVersion(histories) + 1,
                               cluster.manifest.config)
    /\ UNCHANGED <<server, cluster>>

(* The status is moved to a recorded version only while the resources are  *)
(* exactly those of the manifest it is given.                              *)
Publish ==
    /\ cluster.whole
    /\ \E v \in DOMAIN histories :
         /\ histories[v] = cluster.manifest.config
         /\ server' = [server EXCEPT !.version = v, !.manifest = cluster.manifest,
                                     !.cond = "Updating"]
    /\ UNCHANGED <<histories, cluster>>

(* A rollback publishes before it deploys.  It goes to a version that has  *)
(* a history and to nothing else, whatever was asked for.                  *)
RollBack ==
    /\ \E v \in DOMAIN histories, s \in BOOLEAN,
          c \in Config, to \in {server.rollbackTo, NoRollback} :
         /\ c \in {server.config, histories[v]}
         /\ server' = [server EXCEPT !.config = c, !.rollbackTo = to, !.version = v,
                                     !.manifest = Render(histories[v], s),
                                     !.cond = "Rollbacking"]
    /\ UNCHANGED <<histories, cluster>>

(* A failure may be told of at any time; "Available" is said only of a     *)
(* cluster that is what the status says, or of a release that has no       *)
(* manifest yet.                                                           *)
Tell ==
    /\ \/ server' = [server EXCEPT !.cond = "Failure"]
       \/ /\ server.manifest # EmptyManifest =>
                 cluster = [manifest |-> server.manifest, whole |-> TRUE]
          /\ server' = [server EXCEPT !.cond = "Available"]
    /\ UNCHANGED <<histories, cluster>>

Next == Ask \/ Deploy \/ Record \/ Publish \/ RollBack \/ Tell

Spec == Init /\ [][Next]_vars
===============================================================================
