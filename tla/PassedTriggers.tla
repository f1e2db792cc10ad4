--------------------------- MODULE PassedTriggers ---------------------------
(***************************************************************************)
(* triggers.passed (server/execution_passed.go): after a successful run the *)
(* scanner fires every job whose named upstream jobs have all succeeded     *)
(* since that job's last run, and a sweep at boot looks once more.          *)
(*                                                                          *)
(* One pipeline.  A run is its stored row: the jobs of its trigger input    *)
(* (none for a webhook, a plain manual trigger and a seed), its created_at  *)
(* in whole seconds and its status, "active" for queued and running.        *)
(* Admission, the queue and execution are ExecutionService's; here a row    *)
(* ends when it likes.                                                      *)
(*                                                                          *)
(* An operator named X_Slip, defined just before X, is a mutant of X.       *)
(***************************************************************************)
EXTENDS Naturals, FiniteSets, Sequences, SequencesExt

CONSTANTS
    JobNames,       \* the jobs of the pipeline
    PassedOf,       \* triggers.passed of every job, {} for a job without
    MaxTriggers,    \* bound: rows that are not the scanner's
    MaxRuns, MaxClock, MaxCrashes

ASSUME PassedAssumption ==
    /\ IsFiniteSet(JobNames) /\ PassedOf \in [JobNames -> SUBSET JobNames]
    /\ MaxTriggers \in Nat /\ MaxRuns \in Nat /\ MaxClock \in Nat \ {0} /\ MaxCrashes \in Nat

VARIABLES
    runs,           \* Seq of [jobs, created, status, via, upstream]
    toScan,         \* runs stored as successful whose finalizer has not scanned yet
    seeding,        \* runs a seed request has saved and not completed
    clock, crashes,
    server          \* "up", "down", "panicked"

passedVars == <<runs, toScan, seeding, clock, crashes, server>>

Downstreams == {j \in JobNames : PassedOf[j] # {}}
Active(r) == runs[r].status = "active"
Row(js, via, up) == [jobs |-> js, created |-> clock, status |-> "active", via |-> via, upstream |-> up]

MayAdd == Len(runs) < MaxRuns /\ Cardinality({r \in DOMAIN runs : runs[r].via # "passed"}) < MaxTriggers

PassedInit ==
    /\ runs = <<>> /\ toScan = {} /\ seeding = {} /\ clock = 1 /\ crashes = 0 /\ server = "up"

---------------------------------------------------------------------------
(* What the scanner reads *)

\* GetActiveRunsByPipeline, for the jobs of the rows
HasActiveRun(j) == \E r \in DOMAIN runs : Active(r) /\ j \in runs[r].jobs

\* GetMostRecentJobRun's created_at, of a run of any status; 0 when there is none
LastRunOf(j) ==
    LET of == {runs[r].created : r \in {q \in DOMAIN runs : j \in runs[q].jobs}} IN
    CHOOSE t \in of \cup {0} : \A s \in of : s <= t

FreshSuccesses_SameSecond(j, since) ==
    {r \in DOMAIN runs : runs[r].status = "success" /\ j \in runs[r].jobs /\ runs[r].created >= since}

\* GetSuccessfulJobRunSince: strictly after, by creation, the newest of them
FreshSuccesses(j, since) ==
    {r \in DOMAIN runs : runs[r].status = "success" /\ j \in runs[r].jobs /\ runs[r].created > since}

Evaluates_NoCoalescing(j) == \A u \in PassedOf[j] : FreshSuccesses(u, LastRunOf(j)) # {}

\* evaluatePassedDownstream without its trigger
Evaluates(j) ==
    /\ ~HasActiveRun(j)
    /\ \A u \in PassedOf[j] : FreshSuccesses(u, LastRunOf(j)) # {}

\* The upstream runs recorded with the new one
UpstreamRunIDs(j) ==
    {LET of == FreshSuccesses(u, LastRunOf(j)) IN
        CHOOSE r \in of : \A q \in of : runs[q].created < runs[r].created \/ (runs[q].created = runs[r].created /\ q <= r)
       : u \in PassedOf[j]}

\* completedJobNames and buildPassedDependents: an untargeted run stands for every job.
Candidates(r) ==
    LET done == IF runs[r].jobs = {} THEN JobNames ELSE runs[r].jobs IN
    {j \in Downstreams : PassedOf[j] \cap done # {}}

\* Rows for the jobs of S, in an order of the scanner's choosing
Rows(S) == LET order == SetToSeq(S) IN [i \in DOMAIN order |-> Row({order[i]}, "passed", UpstreamRunIDs(order[i]))]

---------------------------------------------------------------------------
\* A schedule of a job, a manual trigger with --job, or (S = {}) a webhook or a manual trigger without.
Trigger(S) ==
    /\ server = "up" /\ MayAdd
    /\ runs' = Append(runs, Row(S, "trigger", {}))
    /\ UNCHANGED <<toScan, seeding, clock, crashes, server>>

\* The final status is stored; a success goes on to the scanner.
FinishRun(r, status) ==
    /\ server = "up" /\ Active(r)
    /\ runs' = [runs EXCEPT ![r].status = status]
    /\ toScan' = IF status = "success" THEN toScan \cup {r} ELSE toScan
    /\ UNCHANGED <<seeding, clock, crashes, server>>

\* scanPassedDownstreams, under scannerMu: every candidate that is due is fired, unless the pipeline is
\* paused or the queue is full.
ScanPassedDownstreams(r) ==
    /\ server = "up" /\ r \in toScan /\ toScan' = toScan \ {r}
    /\ LET due == {j \in Candidates(r) : Evaluates(j)} IN
       \/ Len(runs) + Cardinality(due) <= MaxRuns /\ runs' = runs \o Rows(due)
       \/ UNCHANGED runs
    /\ UNCHANGED <<seeding, clock, crashes, server>>

\* SeedJobPassed: a queued row without jobs, then its task record, then its status.
SeedSavesRun ==
    /\ server = "up" /\ MayAdd
    /\ runs' = Append(runs, Row({}, "seed", {})) /\ seeding' = seeding \cup {Len(runs) + 1}
    /\ UNCHANGED <<toScan, clock, crashes, server>>

SeedCompletes(r) ==
    /\ server = "up" /\ r \in seeding /\ seeding' = seeding \ {r}
    /\ runs' = [runs EXCEPT ![r].status = "success"]
    /\ UNCHANGED <<toScan, clock, crashes, server>>

PassedTick == clock < MaxClock /\ clock' = clock + 1 /\ UNCHANGED <<runs, toScan, seeding, crashes, server>>

ServerDies ==
    /\ server = "up" /\ crashes < MaxCrashes /\ crashes' = crashes + 1
    /\ server' = "down" /\ toScan' = {} /\ seeding' = {}
    /\ UNCHANGED <<runs, clock>>

\* Boot: RecoverOrphanedRuns fails the running rows, then recoverPassedTriggers evaluates every downstream job
\* without a completed run: when one is due, the pipeline is not paused and the queue takes
\* it, the trigger reads the id of that missing run.
Boot ==
    /\ server = "down"
    /\ \E running \in SUBSET {r \in DOMAIN runs : Active(r)} :
          runs' = [r \in DOMAIN runs |-> IF r \in running THEN [runs[r] EXCEPT !.status = "failed"] ELSE runs[r]]
    /\ \/ server' = "panicked" /\ \E j \in Downstreams : Evaluates(j)'
       \/ server' = "up"
    /\ UNCHANGED <<toScan, seeding, clock, crashes>>

Over == (server = "panicked" \/ ~MayAdd) /\ UNCHANGED passedVars

PassedNext ==
    \/ \E j \in JobNames : Trigger({j})
    \/ Trigger({})
    \/ \E r \in DOMAIN runs : \/ FinishRun(r, "success") \/ FinishRun(r, "failed")
                              \/ ScanPassedDownstreams(r) \/ SeedCompletes(r)
    \/ SeedSavesRun \/ PassedTick \/ ServerDies \/ Boot \/ Over

PassedSpec == PassedInit /\ [][PassedNext]_passedVars

---------------------------------------------------------------------------
PassedRuns(j) == {r \in DOMAIN runs : runs[r].via = "passed" /\ j \in runs[r].jobs}

(* Properties. *)

RunRows == [jobs : SUBSET JobNames, created : 1..MaxClock, status : {"active", "success", "failed"},
            via : {"trigger", "seed", "passed"}, upstream : SUBSET Nat]

\* Type correctness of the rows.
PassedTypeOK ==
    /\ server \in {"up", "down", "panicked"} /\ clock \in 1..MaxClock /\ crashes \in 0..MaxCrashes
    /\ runs \in Seq(RunRows) /\ \A r \in DOMAIN runs : runs[r].upstream \subseteq DOMAIN runs
    /\ toScan \cup seeding \subseteq DOMAIN runs

\* The scanner never has two active runs of one downstream job, however many upstreams finish at once.
OneActiveDownstream == \A j \in Downstreams : Cardinality({r \in PassedRuns(j) : Active(r)}) <= 1

\* A success of an upstream job fires a downstream job at most once: two runs of it never name the same upstream run.
UpstreamFiresOnce ==
    \A j \in Downstreams : \A r, q \in PassedRuns(j) : r # q => runs[r].upstream \cap runs[q].upstream = {}
=============================================================================
