-------------------------- MODULE ResourceVersions --------------------------
(***************************************************************************)
(* The stored versions of one resource (runtime/backwards/resource_store.go *)
(* and the get and put handlers that use it).  A version list is three      *)
(* kinds of rows, written one after another without a transaction: the      *)
(* versions by index, a dedup row per version, and a meta row with the      *)
(* count.  Runs of one pipeline save at the same time; a stopped run, whose *)
(* context is cancelled, leaves between two writes.                         *)
(*                                                                          *)
(* An operator named X_Slip, defined just before X, is a mutant of X.       *)
(***************************************************************************)
EXTENDS Naturals

CONSTANTS
    Savers,         \* the steps of different runs that read and save the resource
    Modes,          \* the assignments of a mode to each saver: "latest", "every", "put" or "off"
    MaxVersion,     \* bound: how many versions the outside world produces
    MaxIndex        \* bound: the last index of the version list

VARIABLES
    modeOf,         \* the mode of each saver
    upstream,       \* the newest version the resource has
    slot,           \* [indices -> version]: the version rows; 0 is no row
    dedup,          \* [versions -> index + 1]: the dedup rows; 0 is no row
    count,          \* the meta row
    saverAt, version, index,  \* each saver: position, the version it handles, the index it will write
    fetched,        \* history: the versions that a get in mode "every" has fetched
    broken          \* history: a saver left between two writes

ASSUME VersionsAssumption ==
    /\ MaxVersion \in Nat /\ MaxIndex \in Nat
    /\ Modes \subseteq [Savers -> {"latest", "every", "put", "off"}]

store == <<slot, dedup, count>>
versionsVars == <<modeOf, upstream, store, saverAt, version, index, fetched, broken>>

Versions == 1..MaxVersion
Indices == 0..MaxIndex

\* GetLatestResourceVersion and ListResourceVersions read the rows below the count.
Latest == IF count = 0 THEN 0 ELSE slot[count - 1]
Listed == {slot[i] : i \in {k \in Indices : k < count}}

\* External: check returns the versions from the one it is given, or the newest one.
Check(from) == IF from = 0 THEN {upstream} ELSE from..upstream

ResolveEveryVersion_Newest == upstream

\* resolveEveryVersion: the first version that is not stored, else the last.
ResolveEveryVersion ==
    LET new == Check(Latest) \ Listed
    IN IF new = {} THEN upstream ELSE CHOOSE v \in new : \A w \in new : v <= w

\* External: the resource gets a new version.
Release ==
    /\ upstream < MaxVersion
    /\ upstream' = upstream + 1
    /\ UNCHANGED <<modeOf, store, saverAt, version, index, fetched, broken>>

\* resolveVersionToFetch
VersionToFetch(s) == IF modeOf[s] = "every" THEN ResolveEveryVersion ELSE upstream

\* A get fetches a version that exists, a put makes a new one.
Fetch(s) ==
    /\ saverAt[s] = "idle" /\ modeOf[s] # "off"
    /\ \/ /\ modeOf[s] \in {"every", "latest"} /\ upstream > 0
          /\ version' = [version EXCEPT ![s] = VersionToFetch(s)]
          /\ fetched' = IF modeOf[s] = "every" THEN fetched \cup {VersionToFetch(s)} ELSE fetched
          /\ UNCHANGED upstream
       \/ /\ modeOf[s] = "put" /\ upstream < MaxVersion
          /\ version' = [version EXCEPT ![s] = upstream + 1]
          /\ upstream' = upstream + 1 /\ UNCHANGED fetched
    /\ saverAt' = [saverAt EXCEPT ![s] = "dedup"]
    /\ UNCHANGED <<modeOf, store, index, broken>>

\* A version with a dedup row is only touched up (its job and time, which nothing here tells apart).
ReadDedup(s) ==
    /\ saverAt[s] = "dedup"
    /\ saverAt' = [saverAt EXCEPT ![s] = IF dedup[version[s]] # 0 THEN "idle" ELSE "count"]
    /\ UNCHANGED <<modeOf, upstream, store, version, index, fetched, broken>>

ReadCount_MetaFirst(s) ==
    /\ saverAt[s] = "count" /\ count \in Indices
    /\ index' = [index EXCEPT ![s] = count]
    /\ count' = count + 1
    /\ saverAt' = [saverAt EXCEPT ![s] = "version"]
    /\ UNCHANGED <<modeOf, upstream, slot, dedup, version, fetched, broken>>

ReadCount(s) ==
    /\ saverAt[s] = "count" /\ count \in Indices
    /\ index' = [index EXCEPT ![s] = count]
    /\ saverAt' = [saverAt EXCEPT ![s] = "version"]
    /\ UNCHANGED <<modeOf, upstream, store, version, fetched, broken>>

SetVersion(s) ==
    /\ saverAt[s] = "version"
    /\ slot' = [slot EXCEPT ![index[s]] = version[s]]
    /\ saverAt' = [saverAt EXCEPT ![s] = "entry"]
    /\ UNCHANGED <<modeOf, upstream, dedup, count, version, index, fetched, broken>>

SetDedup(s) ==
    /\ saverAt[s] = "entry"
    /\ dedup' = [dedup EXCEPT ![version[s]] = index[s] + 1]
    /\ saverAt' = [saverAt EXCEPT ![s] = "meta"]
    /\ UNCHANGED <<modeOf, upstream, slot, count, version, index, fetched, broken>>

SetMeta(s) ==
    /\ saverAt[s] = "meta"
    /\ count' = index[s] + 1
    /\ saverAt' = [saverAt EXCEPT ![s] = "idle"]
    /\ UNCHANGED <<modeOf, upstream, slot, dedup, version, index, fetched, broken>>

\* The run is stopped or the process dies between two writes.
Leave(s) ==
    /\ saverAt[s] \in {"version", "entry", "meta"} /\ ~broken
    /\ saverAt' = [saverAt EXCEPT ![s] = "idle"]
    /\ broken' = TRUE
    /\ UNCHANGED <<modeOf, upstream, store, version, index, fetched>>

VersionsInit ==
    /\ modeOf \in Modes
    /\ upstream = 0
    /\ slot = [i \in Indices |-> 0]
    /\ dedup = [v \in Versions |-> 0]
    /\ count = 0
    /\ saverAt = [s \in Savers |-> "idle"]
    /\ version = [s \in Savers |-> 0]
    /\ index = [s \in Savers |-> 0]
    /\ fetched = {} /\ broken = FALSE

Save(s) == ReadDedup(s) \/ ReadCount(s) \/ SetVersion(s) \/ SetDedup(s) \/ SetMeta(s)
VersionsNext == Release \/ \E s \in Savers : Fetch(s) \/ Save(s) \/ Leave(s)
VersionsSpec == VersionsInit /\ [][VersionsNext]_versionsVars

---------------------------------------------------------------------------
(* Properties. *)

\* Type correctness of the rows and of what the savers read of them.
VersionsTypeOK ==
    /\ modeOf \in Modes /\ upstream \in 0..MaxVersion
    /\ slot \in [Indices -> 0..MaxVersion] /\ dedup \in [Versions -> 0..MaxIndex + 1] /\ count \in 0..MaxIndex + 1
    /\ saverAt \in [Savers -> {"idle", "dedup", "count", "version", "entry", "meta"}]
    /\ version \in [Savers -> 0..MaxVersion] /\ index \in [Savers -> Indices]
    /\ fetched \subseteq Versions /\ broken \in BOOLEAN

\* However the writers overtake each other and wherever one leaves, the list has no hole: every index below the
\* count holds a version, and a dedup row names an index that was written (resource_store.go SaveResourceVersion
\* writes the version before the rows that lead to it).
NoHoles ==
    /\ \A i \in Indices : i < count => slot[i] # 0
    /\ \A v \in Versions : dedup[v] # 0 => slot[dedup[v] - 1] # 0

Alone(s) == \A r \in Savers \ {s} : modeOf[r] = "off"

\* A get with version: every that is alone and was never interrupted skips no version between two it fetched.
EveryIsInOrder ==
    \A s \in Savers : modeOf[s] = "every" /\ Alone(s) /\ ~broken => \A v, w \in fetched : v..w \subseteq fetched
=============================================================================
