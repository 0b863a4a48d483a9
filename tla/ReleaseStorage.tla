---------------------------- MODULE ReleaseStorage ----------------------------
(***************************************************************************)
(* The data pkg/storage works on, and what each of its operations does to  *)
(* a Release object: the JSON merge patch against the copy the storage     *)
(* keeps, the modifiers handed to Patch, and the version arithmetic over   *)
(* the list of ReleaseHistory objects.                                     *)
(*                                                                         *)
(* Template and config travel together in the code and are one value here, *)
(* a Config.  A manifest is named by what it is rendered from.             *)
(***************************************************************************)
EXTENDS Integers, FiniteSets

CONSTANTS Config,      \* the (template, config) pairs a release may carry
          NoConfig,    \* stands in the fields of an empty manifest
          BadConfig    \* the configs whose rendering fails

ASSUME ConfigAssumption == /\ NoConfig \notin Config
                           /\ BadConfig \subseteq Config

(* Spec.RollbackTo = nil                                                   *)
NoRollback == -1

Manifest == [config : Config, suspend : BOOLEAN]

(* Status.Manifest = ""                                                    *)
EmptyManifest == [config |-> NoConfig, suspend |-> FALSE]

(* The reason of the single condition a release carries; "" for none.      *)
Condition == {"", "Available", "Failure", "Updating", "Rollbacking"}

Release == [config : Config, suspend : BOOLEAN, rollbackTo : {NoRollback} \cup Nat,
            version : Nat, manifest : Manifest \cup {EmptyManifest},
            cond : Condition]

(* A release as it is created: no status at all.                           *)
NewRelease(c, s) ==
    [config |-> c, suspend |-> s, rollbackTo |-> NoRollback, version |-> 0,
     manifest |-> EmptyManifest, cond |-> ""]

(* A nil *Release.                                                         *)
Nil == NewRelease(NoConfig, FALSE)

Render(c, s) == [config |-> c, suspend |-> s]

-------------------------------------------------------------------------------
(* Patch sends only the fields in which the modified copy differs from the *)
(* storage's own copy; the server keeps every other field as it is there.  *)
MergePatch(base, want, current) ==
    [f \in DOMAIN current |-> IF want[f] = base[f] THEN current[f] ELSE want[f]]

(* A new condition bears the time it was made at: it is sent along even    *)
(* when base has the same one, unless that is of the same second.          *)
Patches(base, want, current) ==
    LET patched == MergePatch(base, want, current)
    IN {patched, [patched EXCEPT !.cond = want.cond]}

(* The modifiers of Update, Rollback and FlushConditions.                  *)
Updated(rel, job) ==
    [rel EXCEPT !.manifest = job.manifest, !.version = job.version,
                !.cond = "Updating"]

RolledBack(rel, v, c) ==
    [rel EXCEPT !.config = c, !.rollbackTo = NoRollback, !.version = v,
                !.manifest = Render(c, rel.suspend), !.cond = "Rollbacking"]

Flushed(rel, cond) == [rel EXCEPT !.cond = cond]

-------------------------------------------------------------------------------
(* Histories are a partial function from version to the recorded config.   *)
IsHistories(h) ==
    /\ DOMAIN h \subseteq Nat \ {0}
    /\ h \in [DOMAIN h -> Config]

NoHistories == [v \in {} |-> NoConfig]

AddHistory(h, v, c) ==
    [w \in DOMAIN h \cup {v} |-> IF w = v THEN c ELSE h[w]]

(* Histories() sorts by version, newest first: this is the first element.  *)
LatestVersion(h) ==
    IF DOMAIN h = {} THEN 0
    ELSE CHOOSE v \in DOMAIN h : \A w \in DOMAIN h : w <= v

(* The history applyRelease takes for the current one: the one Status      *)
(* names, or the latest.                                                   *)
CurrentVersion(h, rel) ==
    IF rel.version \in DOMAIN h THEN rel.version ELSE LatestVersion(h)

(* Faulty variants of NextVersion: one counts one too far, one compares    *)
(* with the latest history but keeps the current version, one never keeps, *)
(* one goes by the number of histories.                                    *)
NextVersionPlusTwo(h, rel) ==
    IF DOMAIN h # {} /\ h[CurrentVersion(h, rel)] = rel.config
    THEN CurrentVersion(h, rel)
    ELSE LatestVersion(h) + 2

NextVersionByLatest(h, rel) ==
    IF DOMAIN h # {} /\ h[LatestVersion(h)] = rel.config
    THEN CurrentVersion(h, rel)
    ELSE LatestVersion(h) + 1

NextVersionAlways(h, rel) == LatestVersion(h) + 1

NextVersionByCount(h, rel) ==
    IF DOMAIN h # {} /\ h[CurrentVersion(h, rel)] = rel.config
    THEN CurrentVersion(h, rel)
    ELSE Cardinality(DOMAIN h) + 1

(* The version applyRelease gives to what it is about to apply.            *)
NextVersion(h, rel) ==
    IF DOMAIN h # {} /\ h[CurrentVersion(h, rel)] = rel.config
    THEN CurrentVersion(h, rel)
    ELSE LatestVersion(h) + 1
===============================================================================
