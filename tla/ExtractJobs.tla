---------------------------- MODULE ExtractJobs ----------------------------
(***************************************************************************)
(* Extract jobs one after the other: what a job claims, what it publishes  *)
(* when it is done, and the partitions an operator forces                  *)
(* (extractor/batch.py, extractor/outputs.py, completion.py).              *)
(*                                                                         *)
(* A source partition is one month file of a genre's classification; its   *)
(* mentions go to the month file both genres share.  Between the claim and *)
(* the end of a job the pipeline may rewrite a source.  What happens to a  *)
(* row inside a job is module BatchJob; here it just comes out decided, or *)
(* deferred.                                                               *)
(*                                                                         *)
(* Every step after "idle" belongs to a process that holds the writer      *)
(* lease (module Lease), so sources change only while pc is idle.  Every   *)
(* durable write is a step, and the process may die between two of them.   *)
(***************************************************************************)
EXTENDS Integers, FiniteSets

CONSTANTS
  Partition,        \* the classification files, numbered in path order
  Item,             \* every item a classification may ever list
  Home,             \* Home[i]: the partition item i comes from
  MonthOf,          \* MonthOf[p]: the month of a partition
  Outcomes,         \* what a job can make of a row
  MaxRows,          \* --max-rows: a claim stops once it holds so many rows
  ContentVersions,  \* a version is the content's digest (S3), not its mtime
  MaxRewrites, MaxForces, MaxResets, MaxCrashes, MaxDefers   \* bounds

Month    == {MonthOf[p] : p \in Partition}
Verdicts == {"SUCCESS", "PARTIAL", "FAILED"}
Publishable == {"SUCCESS", "PARTIAL"}

ASSUME ExtractJobsAssumption ==
  /\ Partition \subseteq Nat
  /\ Home \in [Item -> Partition]
  /\ MonthOf \in [Partition -> Nat]
  /\ Outcomes \subseteq Verdicts \cup {"deferred"}
  /\ MaxRows \in Nat \ {0}
  /\ ContentVersions \in BOOLEAN
  /\ {MaxRewrites, MaxForces, MaxResets, MaxCrashes, MaxDefers} \subseteq Nat

VARIABLES
  source,    \* source[p]: the items p lists as relevant
  rewrites,  \* rewrites[p]: how often p was written
  registry,  \* registry[p]: the completion entry of p
  mentions,  \* the items whose rows, be there none, the mentions month files hold
  failures,  \* the items in the row-failure registry
  backlog,   \* the partitions a force request still has to re-extract
  job,       \* the job the active-job marker names, or NoJob
  pc,        \* where the process holding the lease is
  months,    \* the months its current phase still has to write
  left       \* how many forces, resets, crashes, deferrals are left

vars == <<source, rewrites, registry, mentions, failures, backlog, job, pc,
          months, left>>

-----------------------------------------------------------------------------
ItemsOf(p) == {i \in Item : Home[i] = p}

NoVersion == <<>>

\* `list_artifacts_with_versions`
Version(p) == IF ContentVersions THEN <<source[p]>> ELSE <<rewrites[p]>>

\* A missing entry acts as an incomplete one with no row done.
NoEntry == [fingerprint |-> NoVersion, ids |-> {}, complete |-> FALSE]

UpToDate(p) == registry[p].complete /\ registry[p].fingerprint = Version(p)

\* `pending_extract_partitions`
Pending == {p \in Partition : p \in backlog \/ ~UpToDate(p)}

Done(p) == IF p \in backlog THEN {} ELSE registry[p].ids

ToExtract(p) == source[p] \ Done(p)

\* `collect_pending_extract_items`: whole partitions, in path order.
Claimable ==
  {p \in Pending :
     Cardinality(UNION {ToExtract(q) : q \in {q \in Pending : q < p}}) < MaxRows}

Open  == "open"
NoJob == [there |-> FALSE, ledger |-> FALSE, claims |-> <<>>, forced |-> {},
          rows |-> <<>>]

Claimed == DOMAIN job.claims

Settled == \A i \in DOMAIN job.rows : job.rows[i] # Open

Init ==
  /\ source = [p \in Partition |-> ItemsOf(p)]
  /\ rewrites = [p \in Partition |-> 0]
  /\ registry = [p \in Partition |-> NoEntry]
  /\ mentions = {}
  /\ failures = {}
  /\ backlog = {}
  /\ job = NoJob
  /\ pc = "idle"
  /\ months = {}
  /\ left = [forces |-> MaxForces, resets |-> MaxResets, crashes |-> MaxCrashes,
             defers |-> MaxDefers]

Spend(what) == left[what] > 0 /\ left' = [left EXCEPT ![what] = @ - 1]

\* Another stage rewrites a classification file.
RewriteSource(p, items) ==
  /\ pc = "idle"
  /\ rewrites[p] < MaxRewrites
  /\ items \subseteq ItemsOf(p)
  /\ source' = [source EXCEPT ![p] = items]
  /\ rewrites' = [rewrites EXCEPT ![p] = @ + 1]
  /\ UNCHANGED <<registry, mentions, failures, backlog, job, pc, months, left>>

\* `--force`: every partition is queued, for this job and the jobs after it.
RecordForceRequest ==
  /\ pc = "idle"
  /\ Spend("forces")
  /\ backlog' = Partition
  /\ UNCHANGED <<source, rewrites, registry, mentions, failures, job, pc, months>>

\* `_create_job` up to the marker.  The manifest and state it writes first are
\* out of everybody's sight until the marker names them.
StartJob ==
  /\ pc = "idle" /\ ~job.there /\ Claimable # {}
  /\ job' = [there  |-> TRUE,
             ledger |-> FALSE,
             claims |-> [p \in Claimable |->
                           [fingerprint |-> Version(p), prior |-> Done(p)]],
             forced |-> backlog \cap Claimable,
             rows   |-> [i \in UNION {ToExtract(p) : p \in Claimable} |-> Open]]
  /\ pc' = "trimming"
  /\ UNCHANGED <<source, rewrites, registry, mentions, failures, backlog, months, left>>

\* The claimed partitions leave the backlog.
TrimBacklog ==
  /\ pc = "trimming"
  /\ backlog' = backlog \ Claimed
  /\ pc' = "opening"
  /\ UNCHANGED <<source, rewrites, registry, mentions, failures, job, months, left>>

\* The first batches.json makes the job loadable.
OpenLedger ==
  /\ pc = "opening"
  /\ job' = [job EXCEPT !.ledger = TRUE]
  /\ pc' = "idle"
  /\ UNCHANGED <<source, rewrites, registry, mentions, failures, backlog, months, left>>

-----------------------------------------------------------------------------
\* A job that will not finish: its directory is unusable, or an operator resets
\* it.  Its forced partitions go back before the marker is cleared.
\* Faulty: a job whose directory is incomplete is left alone.
UnloadableNever == FALSE

Unloadable == job.there /\ ~job.ledger

\* Faulty: an abandoned job takes its force request with it.
RequeueNothing == UNCHANGED backlog

RequeueForced == backlog' = backlog \cup job.forced

AbandonJob ==
  /\ pc = "idle" /\ job.there
  /\ \/ Unloadable /\ UNCHANGED left
     \/ Spend("resets")
  /\ RequeueForced
  /\ pc' = "abandoning"
  /\ UNCHANGED <<source, rewrites, registry, mentions, failures, job, months>>

ClearAbandoned ==
  /\ pc = "abandoning"
  /\ job' = NoJob
  /\ pc' = "idle"
  /\ UNCHANGED <<source, rewrites, registry, mentions, failures, backlog, months, left>>

-----------------------------------------------------------------------------
ClaimedMonths == {MonthOf[p] : p \in Claimed}
MonthClaims(m) == {p \in Claimed : MonthOf[p] = m}

\* The job's last row is decided, or deferred (its state is saved), and the
\* tick goes on to finalize.
FinishRows(outcome) ==
  LET deferred == {i \in DOMAIN outcome : outcome[i] = "deferred"}
  IN  /\ pc = "idle" /\ job.there /\ job.ledger /\ ~Settled
      /\ outcome \in [DOMAIN job.rows -> Outcomes]
      /\ Cardinality(deferred) <= left.defers
      /\ left' = [left EXCEPT !.defers = @ - Cardinality(deferred)]
      /\ job' = [job EXCEPT !.rows = outcome]
      /\ pc' = "publishing"
      /\ months' = ClaimedMonths
      /\ UNCHANGED <<source, rewrites, registry, mentions, failures, backlog>>

\* A later tick finds every row settled and finalizes again.
ResumeFinalize ==
  /\ pc = "idle" /\ job.there /\ job.ledger /\ Settled
  /\ pc' = "publishing"
  /\ months' = ClaimedMonths
  /\ UNCHANGED <<source, rewrites, registry, mentions, failures, backlog, job, left>>

Terminal(m) ==
  {i \in DOMAIN job.rows : job.rows[i] # "deferred" /\ MonthOf[Home[i]] = m}

RelevantIn(m) == UNION {source[p] : p \in MonthClaims(m)}

\* Rows that were done and are gone from a claimed source, and rows whose item
\* left while the job ran.
Retired(m) ==
  (UNION {job.claims[p].prior \ source[p] : p \in MonthClaims(m)})
  \cup (Terminal(m) \ RelevantIn(m))

\* Faulty: an item that left while the job ran is published all the same.
NewMentionsOfAll(m) ==
  {i \in Terminal(m) : job.rows[i] \in Publishable}

NewMentions(m) ==
  {i \in Terminal(m) \cap RelevantIn(m) : job.rows[i] \in Publishable}

NextMonth(m) == m \in months /\ \A n \in months : m <= n

\* `write_mentions_partition`
WriteMentions(m) ==
  /\ pc = "publishing" /\ NextMonth(m)
  /\ mentions' = (mentions \ (Terminal(m) \cup Retired(m))) \cup NewMentions(m)
  /\ months' = months \ {m}
  /\ pc' = IF months' = {} THEN "recording" ELSE pc
  /\ UNCHANGED <<source, rewrites, registry, failures, backlog, job, left>>

\* `merge_row_failures`
Decided(verdicts) == {i \in DOMAIN job.rows : job.rows[i] \in verdicts}

MergeRowFailures ==
  /\ pc = "recording"
  /\ failures' = (failures \ Decided({"SUCCESS"})) \cup Decided(Verdicts \ {"SUCCESS"})
  /\ months' = ClaimedMonths
  /\ pc' = "registering"
  /\ UNCHANGED <<source, rewrites, registry, mentions, backlog, job, left>>

\* Faulty: the other genre's rows of the month are recorded too.
CompletionEntryMixed(p) ==
  LET terminal == job.claims[p].prior \cup Terminal(MonthOf[p])
  IN  [fingerprint |-> job.claims[p].fingerprint,
       ids         |-> terminal,
       complete    |-> source[p] \subseteq terminal]

\* `completion_entry`, for the source as it is now and the version claimed.
CompletionEntry(p) ==
  LET terminal == job.claims[p].prior \cup Terminal(MonthOf[p])
  IN  [fingerprint |-> job.claims[p].fingerprint,
       ids         |-> terminal \cap source[p],
       complete    |-> source[p] \subseteq terminal]

\* One registry shard per month.
SaveRegistryShard(m) ==
  /\ pc = "registering" /\ NextMonth(m)
  /\ registry' = [p \in Partition |->
                    IF p \in MonthClaims(m) THEN CompletionEntry(p) ELSE registry[p]]
  /\ months' = months \ {m}
  /\ pc' = IF months' = {} THEN "clearing" ELSE pc
  /\ UNCHANGED <<source, rewrites, mentions, failures, backlog, job, left>>

ClearFinished ==
  /\ pc = "clearing"
  /\ job' = NoJob
  /\ pc' = "idle"
  /\ UNCHANGED <<source, rewrites, registry, mentions, failures, backlog, months, left>>

Crash ==
  /\ pc # "idle"
  /\ Spend("crashes")
  /\ pc' = "idle"
  /\ months' = {}
  /\ UNCHANGED <<source, rewrites, registry, mentions, failures, backlog, job>>

Tick ==
  \/ StartJob
  \/ TrimBacklog
  \/ OpenLedger
  \/ \E outcome \in [DOMAIN job.rows -> Outcomes] : FinishRows(outcome)
  \/ ResumeFinalize
  \/ \E m \in months : WriteMentions(m)
  \/ MergeRowFailures
  \/ \E m \in months : SaveRegistryShard(m)
  \/ ClearFinished
  \/ AbandonJob /\ Unloadable
  \/ ClearAbandoned

Next ==
  \/ Tick
  \/ \E p \in Partition : \E items \in SUBSET ItemsOf(p) : RewriteSource(p, items)
  \/ RecordForceRequest
  \/ AbandonJob
  \/ Crash

Spec == Init /\ [][Next]_vars

\* Ticks are scheduled for ever; nobody has to rewrite, force, reset or die.
FairSpec == Spec /\ WF_vars(Tick)

-----------------------------------------------------------------------------
Places == {"idle", "trimming", "opening", "abandoning", "publishing",
           "recording", "registering", "clearing"}

(* Type invariant: an entry records only its own partition's rows, though one *)
(* month is claimed by both genres (outputs.py:570-586); the job's rows and   *)
(* the months left belong to what it claimed.                                 *)
TypeOK ==
  /\ \A p \in Partition : source[p] \subseteq ItemsOf(p)
  /\ \A p \in Partition : registry[p].ids \subseteq ItemsOf(p)
  /\ mentions \subseteq Item /\ failures \subseteq Item
  /\ backlog \subseteq Partition
  /\ Claimed \subseteq Partition /\ job.forced \subseteq Claimed
  /\ DOMAIN job.rows \subseteq Item
  /\ \A i \in DOMAIN job.rows :
       Home[i] \in Claimed /\ job.rows[i] \in Outcomes \cup {Open}
  /\ pc \in Places
  /\ months \subseteq ClaimedMonths

(* A partition owed a forced re-extract, by the backlog or the active job.    *)
OwedForce == backlog \cup (IF job.there THEN job.forced ELSE {})

(* A partition that is skipped has had every row it lists decided, whatever   *)
(* was rewritten while a job ran (outputs.py:87-93, 379-392).                 *)
SkippedMeansDecided ==
  \A p \in Partition : UpToDate(p) => source[p] \subseteq registry[p].ids

(* A force request outlives crashes, resets and full jobs: a partition stops  *)
(* being owed one only when a job that claimed it as forced has finished      *)
(* (batch.py:432-442, 508-514, 778-782).                                      *)
ForceIsKept ==
  [][OwedForce \ OwedForce' # {} => pc = "clearing" /\ pc' = "idle"]_vars

(* Every partition is eventually extracted, deferred rows and forced ones     *)
(* included (batch.py:1437-1446, outputs.py:73-83).                           *)
EverythingExtracted == <>[](Pending = {} /\ ~job.there)
=============================================================================
