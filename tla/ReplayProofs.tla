---------------------------- MODULE ReplayProofs ----------------------------
(***************************************************************************)
(* Proofs about ExtractJobs and about Replay, which adds the live runs and *)
(* the replays to its jobs: for any partitions, items, months and claim    *)
(* size, and any number of runs, rewrites, forces, resets, crashes and     *)
(* deferrals.  First the jobs alone (Spec), then the three (ReplaySpec).   *)
(***************************************************************************)
EXTENDS Replay, TLAPS, WellFoundedInduction

USE ExtractJobsAssumption DEF Claimed, ItemsOf

(***************************************************************************)
(* Lemma: the first partition of a work list is on it.                     *)
(***************************************************************************)
First(todo) == CHOOSE p \in todo : \A q \in todo : p <= q

LEMMA FirstIsThere ==
  ASSUME NEW todo \in SUBSET Partition, todo # {}
  PROVE  First(todo) \in todo
<1>1. todo \in SUBSET Nat
  OBVIOUS
<1>2. PICK p \in todo : \A q \in todo : ~(<<q, p>> \in OpToRel(<, Nat))
  BY <1>1, NatLessThanWellFounded, WFMin
<1>3. \A q \in todo : ~(q < p)
  BY <1>1, <1>2 DEF OpToRel
<1>4. \A q \in todo : p <= q
  BY <1>1, <1>3
<1> QED BY <1>4 DEF First

LEMMA DistinctVersions == \A x, y : <<x>> # <<>> /\ (<<x>> = <<y>> => x = y)
OBVIOUS

\* No job has claims, forces or rows.
LEMMA NoJobClaims == /\ DOMAIN NoJob.claims = {}
                     /\ DOMAIN NoJob.rows = {}
                     /\ NoJob.forced = {}
                     /\ NoJob.there = FALSE
                     /\ NoJob = [there |-> NoJob.there, ledger |-> NoJob.ledger,
                                 claims |-> NoJob.claims, forced |-> NoJob.forced,
                                 rows |-> NoJob.rows]
BY DEF NoJob

-----------------------------------------------------------------------------
(***************************************************************************)
(* The jobs alone: what versions and registry entries are.                 *)
(***************************************************************************)
VersionValues == {NoVersion} \cup {<<x>> : x \in (SUBSET Item) \cup Nat}

RegistryEntries == [fingerprint : VersionValues, ids : SUBSET Item, complete : BOOLEAN]

(***************************************************************************)
(* The shapes EXCEPT relies on.                                            *)
(***************************************************************************)
Shapes ==
  /\ source \in [Partition -> SUBSET Item]
  /\ rewrites \in [Partition -> Nat]
  /\ job = [there |-> job.there, ledger |-> job.ledger, claims |-> job.claims,
            forced |-> job.forced, rows |-> job.rows]
  /\ job.there \in BOOLEAN

(***************************************************************************)
(* Where a process that changes the backlog or the job may stand.          *)
(***************************************************************************)
Phases ==
  /\ ~job.there => Claimed = {} /\ pc = "idle"
  /\ pc = "trimming" => backlog \cap Claimed \subseteq job.forced
  /\ pc = "abandoning" => job.forced \subseteq backlog
  /\ pc \notin {"publishing", "registering"} => months = {}

Bookkeeping == Shapes /\ TypeOK /\ Phases

LEMMA BookkeepingInit == Init => Bookkeeping
BY NoJobClaims DEF Init, Bookkeeping, Shapes, TypeOK, Phases, NoJob, NoEntry,
   Places, ClaimedMonths

(***************************************************************************)
(* Lemma: every action keeps the books.                                    *)
(***************************************************************************)
LEMMA BookkeepingStep == Bookkeeping /\ [Next]_vars => Bookkeeping'
<1> SUFFICES ASSUME Bookkeeping, [Next]_vars
             PROVE  Bookkeeping'
  OBVIOUS
<1> USE DEF Bookkeeping, Shapes, TypeOK, Phases, ClaimedMonths, Places
<1>1. CASE StartJob
  <2>1. Claimable \subseteq Partition
    BY DEF Claimable, Pending
  <2>2. Claimed' = Claimable
    BY <1>1 DEF StartJob
  <2>3. /\ DOMAIN job'.rows \subseteq Item
        /\ \A i \in DOMAIN job'.rows : Home[i] \in Claimed' /\ job'.rows[i] = Open
    BY <1>1, <2>1, <2>2 DEF StartJob, ToExtract
  <2>4. Shapes' /\ Phases'
    BY <1>1, <2>1, <2>2 DEF StartJob
  <2>5. TypeOK'
    BY <1>1, <2>1, <2>2, <2>3 DEF StartJob
  <2> QED
    BY <2>4, <2>5
<1>2. CASE TrimBacklog
  BY <1>2 DEF TrimBacklog
<1>3. CASE OpenLedger
  BY <1>3 DEF OpenLedger
<1>4. ASSUME NEW outcome \in [DOMAIN job.rows -> Outcomes], FinishRows(outcome)
      PROVE  Bookkeeping'
  BY <1>4 DEF FinishRows
<1>5. CASE ResumeFinalize
  BY <1>5 DEF ResumeFinalize
<1>6. ASSUME NEW m \in months, WriteMentions(m)
      PROVE  Bookkeeping'
  <2>1. mentions' \subseteq Item
    BY <1>6 DEF WriteMentions, NewMentions, Terminal, RelevantIn, MonthClaims
  <2> QED
    BY <1>6, <2>1 DEF WriteMentions
<1>7. CASE MergeRowFailures
  <2>1. DOMAIN job.rows \subseteq Item
    OBVIOUS
  <2> QED
    BY <1>7, <2>1 DEF MergeRowFailures, Decided
<1>8. ASSUME NEW m \in months, SaveRegistryShard(m)
      PROVE  Bookkeeping'
  <2>1. ASSUME NEW p \in Partition
        PROVE  registry'[p].ids \subseteq ItemsOf(p)
    BY <1>8 DEF SaveRegistryShard, CompletionEntry
  <2> QED
    BY <1>8, <2>1 DEF SaveRegistryShard
<1>9. CASE ClearFinished
  BY <1>9, NoJobClaims DEF ClearFinished, NoJob
<1>10. CASE AbandonJob
  BY <1>10 DEF AbandonJob, RequeueForced
<1>11. CASE ClearAbandoned
  BY <1>11, NoJobClaims DEF ClearAbandoned, NoJob
<1>12. ASSUME NEW p \in Partition, NEW items \in SUBSET ItemsOf(p),
              RewriteSource(p, items)
       PROVE  Bookkeeping'
  BY <1>12 DEF RewriteSource
<1>13. CASE RecordForceRequest
  BY <1>13 DEF RecordForceRequest
<1>14. CASE Crash
  BY <1>14 DEF Crash
<1>15. CASE UNCHANGED vars
  BY <1>15 DEF vars
<1> QED
  BY <1>1, <1>2, <1>3, <1>4, <1>5, <1>6, <1>7, <1>8, <1>9, <1>10, <1>11, <1>12,
     <1>13, <1>14, <1>15 DEF Next, Tick

(* Theorem: an entry records only its own partition's rows, and the job and   *)
(* its phases keep to what it claimed (outputs.py:570-586).                   *)
THEOREM TypeCorrect == Spec => []TypeOK
<1>1. Bookkeeping => TypeOK
  BY DEF Bookkeeping
<1> QED
  BY <1>1, BookkeepingInit, BookkeepingStep, PTL DEF Spec

-----------------------------------------------------------------------------
(***************************************************************************)
(* A force request survives every step but the end of a finished job.      *)
(***************************************************************************)
LEMMA ForceStep ==
  Bookkeeping /\ [Next]_vars =>
    (OwedForce \ OwedForce' # {} => pc = "clearing" /\ pc' = "idle")
<1> SUFFICES ASSUME Bookkeeping, [Next]_vars, ~(pc = "clearing" /\ pc' = "idle")
             PROVE  OwedForce \subseteq OwedForce'
  OBVIOUS
<1> USE DEF Bookkeeping, Shapes, TypeOK, Phases, OwedForce
<1>1. CASE StartJob
  BY <1>1 DEF StartJob
<1>2. CASE TrimBacklog
  BY <1>2 DEF TrimBacklog
<1>3. CASE OpenLedger
  BY <1>3 DEF OpenLedger
<1>4. ASSUME NEW outcome \in [DOMAIN job.rows -> Outcomes], FinishRows(outcome)
      PROVE  OwedForce \subseteq OwedForce'
  BY <1>4 DEF FinishRows
<1>5. CASE ResumeFinalize
  BY <1>5 DEF ResumeFinalize
<1>6. ASSUME NEW m \in months, WriteMentions(m) \/ SaveRegistryShard(m)
      PROVE  OwedForce \subseteq OwedForce'
  BY <1>6 DEF WriteMentions, SaveRegistryShard
<1>7. CASE MergeRowFailures
  BY <1>7 DEF MergeRowFailures
<1>8. CASE ClearFinished
  BY <1>8 DEF ClearFinished
<1>9. CASE AbandonJob
  BY <1>9 DEF AbandonJob, RequeueForced
<1>10. CASE ClearAbandoned
  BY <1>10, NoJobClaims DEF ClearAbandoned
<1>11. ASSUME NEW p \in Partition, NEW items \in SUBSET ItemsOf(p),
              RewriteSource(p, items)
       PROVE  OwedForce \subseteq OwedForce'
  BY <1>11 DEF RewriteSource
<1>12. CASE RecordForceRequest
  BY <1>12 DEF RecordForceRequest
<1>13. CASE Crash
  BY <1>13 DEF Crash
<1>14. CASE UNCHANGED vars
  BY <1>14 DEF vars
<1> QED
  BY <1>1, <1>2, <1>3, <1>4, <1>5, <1>6, <1>7, <1>8, <1>9, <1>10, <1>11, <1>12,
     <1>13, <1>14 DEF Next, Tick

(* Theorem: a partition stops being owed a forced re-extract only when a job  *)
(* has finished, however many crashes, resets and jobs come in between        *)
(* (batch.py:432-442, 508-514, 778-782).                                      *)
THEOREM ForceRequestsAreKept == Spec => ForceIsKept
<1>1. Bookkeeping /\ [Next]_vars =>
        [OwedForce \ OwedForce' # {} => pc = "clearing" /\ pc' = "idle"]_vars
  BY ForceStep
<1> QED
  BY <1>1, BookkeepingInit, BookkeepingStep, PTL DEF Spec, ForceIsKept

-----------------------------------------------------------------------------
(***************************************************************************)
(* What the registry says of a version nobody has rewritten since.  Every  *)
(* version on record is one the partition had.                             *)
(***************************************************************************)
HadVersion(v, p) == \E k \in 0 .. rewrites[p] : v = <<k>>

VersionsOnRecord ==
  /\ \A p \in Partition :
       registry[p].fingerprint = NoVersion \/ HadVersion(registry[p].fingerprint, p)
  /\ \A p \in Claimed : HadVersion(job.claims[p].fingerprint, p)

SkipInv ==
  /\ Bookkeeping
  /\ registry \in [Partition -> RegistryEntries]
  /\ VersionsOnRecord
  /\ SkippedMeansDecided

LEMMA SkipInit == ~ContentVersions /\ Init => SkipInv
<1> SUFFICES ASSUME ~ContentVersions, Init
             PROVE  SkipInv
  OBVIOUS
<1>1. Bookkeeping
  BY BookkeepingInit
<1>2. registry \in [Partition -> RegistryEntries]
  BY DEF Init, NoEntry, RegistryEntries, VersionValues
<1>3. VersionsOnRecord
  BY NoJobClaims DEF Init, VersionsOnRecord, NoEntry
<1>4. SkippedMeansDecided
  BY DEF Init, SkippedMeansDecided, UpToDate, NoEntry
<1> QED
  BY <1>1, <1>2, <1>3, <1>4 DEF SkipInv

(***************************************************************************)
(* A step that leaves sources, entries and claims alone keeps the rest.    *)
(***************************************************************************)
LEMMA SkipFrame ==
  ASSUME ~ContentVersions, SkipInv,
         UNCHANGED <<source, rewrites, registry>>,
         job'.claims = job.claims \/ DOMAIN job'.claims = {}
  PROVE  /\ registry' \in [Partition -> RegistryEntries]
         /\ VersionsOnRecord'
         /\ SkippedMeansDecided'
BY DEF SkipInv, VersionsOnRecord, HadVersion, SkippedMeansDecided, UpToDate, Version

LEMMA SkipStep == ~ContentVersions /\ SkipInv /\ [Next]_vars => SkipInv'
<1> SUFFICES ASSUME ~ContentVersions, SkipInv, [Next]_vars
             PROVE  /\ registry' \in [Partition -> RegistryEntries]
                    /\ VersionsOnRecord'
                    /\ SkippedMeansDecided'
  BY BookkeepingStep DEF SkipInv
<1>1. CASE StartJob
  <2>1. Claimable \subseteq Partition /\ Claimed' = Claimable
    BY <1>1 DEF StartJob, Claimable, Pending
  <2>2. \A p \in Claimable : job'.claims[p].fingerprint = <<rewrites[p]>>
    BY <1>1 DEF StartJob, Version
  <2>3. VersionsOnRecord'
    BY <1>1, <2>1, <2>2
       DEF StartJob, VersionsOnRecord, HadVersion, SkipInv, Bookkeeping, Shapes
  <2> QED
    BY <1>1, <2>3 DEF StartJob, SkipInv, SkippedMeansDecided, UpToDate, Version
<1>2. ASSUME NEW m \in months, SaveRegistryShard(m)
      PROVE  /\ registry' \in [Partition -> RegistryEntries]
             /\ VersionsOnRecord'
             /\ SkippedMeansDecided'
  <2> DEFINE e(p) == CompletionEntry(p)
  <2>1. ASSUME NEW p \in MonthClaims(m)
        PROVE  /\ e(p) \in RegistryEntries
               /\ HadVersion(e(p).fingerprint, p)
               /\ e(p).complete => source[p] \subseteq e(p).ids
    <3>1. p \in Partition /\ p \in Claimed
      BY DEF MonthClaims, SkipInv, Bookkeeping, TypeOK
    <3>2. /\ e(p).fingerprint = job.claims[p].fingerprint
          /\ e(p).ids \subseteq source[p]
          /\ e(p).complete \in BOOLEAN
          /\ e(p).complete => source[p] \subseteq e(p).ids
          /\ e(p) = [fingerprint |-> e(p).fingerprint, ids |-> e(p).ids,
                     complete |-> e(p).complete]
      BY DEF CompletionEntry
    <3>3. HadVersion(e(p).fingerprint, p)
      BY <3>1, <3>2 DEF SkipInv, VersionsOnRecord
    <3>4. e(p).fingerprint \in VersionValues
      BY <3>1, <3>3 DEF HadVersion, VersionValues, SkipInv, Bookkeeping, Shapes
    <3>5. e(p).ids \subseteq Item
      BY <3>1, <3>2 DEF SkipInv, Bookkeeping, TypeOK
    <3> QED
      BY <3>2, <3>3, <3>4, <3>5 DEF RegistryEntries
  <2>2. /\ registry' = [p \in Partition |->
                          IF p \in MonthClaims(m) THEN e(p) ELSE registry[p]]
        /\ UNCHANGED <<source, rewrites, job>>
    BY <1>2 DEF SaveRegistryShard
  <2> HIDE DEF e
  <2>3. registry' \in [Partition -> RegistryEntries]
    BY <2>1, <2>2 DEF SkipInv
  <2>4. VersionsOnRecord'
    BY <2>1, <2>2 DEF SkipInv, VersionsOnRecord, HadVersion
  <2>5. SkippedMeansDecided'
    BY <2>1, <2>2 DEF SkipInv, SkippedMeansDecided, UpToDate, Version
  <2> QED
    BY <2>3, <2>4, <2>5
<1>3. ASSUME NEW p \in Partition, NEW items \in SUBSET ItemsOf(p),
             RewriteSource(p, items)
      PROVE  /\ registry' \in [Partition -> RegistryEntries]
             /\ VersionsOnRecord'
             /\ SkippedMeansDecided'
  <2>1. /\ \A q \in Partition : rewrites[q] \in Nat
        /\ rewrites'[p] = rewrites[p] + 1
        /\ \A q \in Partition \ {p} :
             rewrites'[q] = rewrites[q] /\ source'[q] = source[q]
        /\ UNCHANGED <<registry, job>>
    BY <1>3 DEF RewriteSource, SkipInv, Bookkeeping, Shapes
  <2>2. ASSUME NEW q \in Partition, NEW v, HadVersion(v, q)
        PROVE  HadVersion(v, q)'
    <3>1. PICK k \in 0 .. rewrites[q] : v = <<k>>
      BY <2>2 DEF HadVersion
    <3>2. rewrites'[q] = rewrites[q] \/ rewrites'[q] = rewrites[q] + 1
      <4>1. CASE q = p
        BY <2>1, <4>1
      <4>2. CASE q # p
        BY <2>1, <4>2
      <4> QED
        BY <4>1, <4>2
    <3>3. rewrites[q] \in Nat
      BY <2>1
    <3>4. k \in 0 .. rewrites'[q]
      BY <3>1, <3>2, <3>3
    <3> QED
      BY <3>1, <3>4 DEF HadVersion
  <2>3. VersionsOnRecord'
    BY <2>1, <2>2 DEF SkipInv, VersionsOnRecord, Bookkeeping, TypeOK
  <2>4. registry[p].fingerprint # <<rewrites[p] + 1>>
    <3>1. CASE registry[p].fingerprint = NoVersion
      BY <3>1, DistinctVersions DEF NoVersion
    <3>2. CASE HadVersion(registry[p].fingerprint, p)
      <4>1. PICK k \in 0 .. rewrites[p] : registry[p].fingerprint = <<k>>
        BY <3>2 DEF HadVersion
      <4>2. k # rewrites[p] + 1
        BY <2>1
      <4> QED
        BY <4>1, <4>2, DistinctVersions
    <3> QED
      BY <3>1, <3>2 DEF SkipInv, VersionsOnRecord
  <2>5. SkippedMeansDecided'
    BY <2>1, <2>4 DEF SkipInv, SkippedMeansDecided, UpToDate, Version
  <2> QED
    BY <2>1, <2>3, <2>5 DEF SkipInv
<1>4. CASE ~StartJob /\ UNCHANGED <<source, rewrites, registry>>
  <2>1. job'.claims = job.claims \/ DOMAIN job'.claims = {}
    BY <1>4, NoJobClaims
       DEF Next, Tick, TrimBacklog, OpenLedger, FinishRows, ResumeFinalize,
           WriteMentions, MergeRowFailures, SaveRegistryShard, ClearFinished,
           AbandonJob, ClearAbandoned, RewriteSource, RecordForceRequest, Crash,
           vars, SkipInv, Bookkeeping, Shapes
  <2> QED
    BY <1>4, <2>1, SkipFrame
<1> QED
  <2>1. \/ UNCHANGED <<source, rewrites, registry>>
        \/ \E m \in months : SaveRegistryShard(m)
        \/ \E p \in Partition : \E items \in SUBSET ItemsOf(p) :
             RewriteSource(p, items)
    BY DEF Next, Tick, StartJob, TrimBacklog, OpenLedger, FinishRows, ResumeFinalize,
           WriteMentions, MergeRowFailures, ClearFinished,
           AbandonJob, ClearAbandoned, RecordForceRequest, Crash, vars
  <2> QED
    BY <1>1, <1>2, <1>3, <1>4, <2>1

(* Theorem: where a version changes with every write, no row of a skipped     *)
(* partition was left undecided (outputs.py:87-93, 379-392).  On S3, where it *)
(* is a digest of the content, a source that returns to its old bytes breaks it.*)
THEOREM SkippingIsSafe == ~ContentVersions => (Spec => []SkippedMeansDecided)
<1> SUFFICES ASSUME ~ContentVersions
             PROVE  Spec => []SkippedMeansDecided
  OBVIOUS
<1>1. Init => SkipInv
  BY SkipInit
<1>2. SkipInv /\ [Next]_vars => SkipInv'
  BY SkipStep
<1>3. SkipInv => SkippedMeansDecided
  BY DEF SkipInv
<1> QED
  BY <1>1, <1>2, <1>3, PTL DEF Spec

-----------------------------------------------------------------------------
(***************************************************************************)
(* What the files hold and where a run may stand.                          *)
(***************************************************************************)
LivePlaces == {"deciding", "writing", "auditing", "failing", "saving"}
Finalizing == {"publishing", "recording", "registering", "clearing"}

Files ==
  /\ source \in [Partition -> SUBSET Item]
  /\ \A p \in Partition : source[p] \subseteq ItemsOf(p)
  /\ rewrites \in [Partition -> Nat]
  /\ DOMAIN registry = Partition
  /\ \A p \in Partition : registry[p].ids \subseteq ItemsOf(p)
  /\ mentions \subseteq Item

JobBooks ==
  /\ job = [there |-> job.there, ledger |-> job.ledger, claims |-> job.claims,
            forced |-> job.forced, rows |-> job.rows]
  /\ job.there \in BOOLEAN
  /\ Claimed \subseteq Partition /\ job.forced \subseteq Claimed
  /\ \A p \in Claimed : job.claims[p].prior \subseteq ItemsOf(p)
  /\ \A p \in job.forced : job.claims[p].prior = {}
  /\ \A i \in DOMAIN job.rows :
       /\ i \in Item /\ Home[i] \in Claimed /\ i \notin job.claims[Home[i]].prior
       /\ job.rows[i] \in Outcomes \cup {Open}
       /\ job.rows[i] # Open => job.ledger /\ Settled
  /\ ~job.there => Claimed = {}
  /\ pc \in Finalizing => job.there /\ job.ledger /\ Settled
  /\ pc \in {"trimming", "opening", "abandoning"} => job.there
  /\ pc = "trimming" => backlog \cap Claimed \subseteq job.forced
  /\ pc = "abandoning" =>
       job.forced \subseteq backlog /\ (job.ledger /\ Settled => Claimed \subseteq torn)

LiveBooks ==
  /\ pc \in Places \cup LivePlaces \cup {"replaying"}
  /\ live = [force |-> live.force, todo |-> live.todo, prior |-> live.prior,
             rows |-> live.rows, verdict |-> live.verdict, aborted |-> live.aborted]
  /\ live # NoLive <=> pc \in LivePlaces
  /\ pc \in LivePlaces =>
       /\ live.force \in BOOLEAN
       /\ live.todo \subseteq Partition /\ Current \in live.todo
       /\ live.prior \subseteq ItemsOf(Current)
       /\ live.rows \subseteq source[Current]
       /\ DOMAIN live.verdict \subseteq source[Current]
       /\ live.prior \cap (live.rows \cup DOMAIN live.verdict) = {}
       /\ live.rows \cap DOMAIN live.verdict = {}
       /\ \A i \in DOMAIN live.verdict : live.verdict[i] \in Verdicts
       /\ live.force => live.prior = {}
       /\ live.todo \cap Claimed = {} \/ (live.force /\ Claimed \subseteq loose)
  /\ pc # "replaying" => changing = {}
  /\ changing \subseteq Item

Books == Files /\ JobBooks /\ LiveBooks

LEMMA NoLiveShape == /\ NoLive = [force |-> NoLive.force, todo |-> NoLive.todo,
                          prior |-> NoLive.prior, rows |-> NoLive.rows,
                          verdict |-> NoLive.verdict, aborted |-> NoLive.aborted]
                     /\ NoLive.todo = {}
BY DEF NoLive

LEMMA BooksInit == ReplayInit => Books
<1> SUFFICES ASSUME ReplayInit PROVE Books
  OBVIOUS
<1> USE DEF ReplayInit, LiveInit, Init
<1>1. Files
  BY DEF Files, NoEntry
<1>2. JobBooks
  BY NoJobClaims DEF JobBooks, Finalizing
<1>3. LiveBooks
  BY NoLiveShape DEF LiveBooks, LivePlaces, Places
<1> QED BY <1>1, <1>2, <1>3 DEF Books

(***************************************************************************)
(* Lemma: what a live run takes up next is in the shape of a live run.     *)
(***************************************************************************)
LEMMA VisitShape ==
  ASSUME Files, NEW force \in BOOLEAN, NEW todo \in SUBSET Partition, todo # {},
         NEW p, p = First(todo), NEW l, l = Visit(force, todo)
  PROVE  /\ p \in todo
         /\ l = [force |-> force, todo |-> todo, prior |-> LiveDone(force, p),
                 rows |-> source[p] \ LiveDone(force, p), verdict |-> <<>>,
                 aborted |-> FALSE]
         /\ l # NoLive
         /\ LiveDone(force, p) \subseteq ItemsOf(p)
         /\ DOMAIN l.verdict = {}
<1>1. p \in todo
  BY FirstIsThere
<1>2. l = [force |-> force, todo |-> todo, prior |-> LiveDone(force, p),
           rows |-> source[p] \ LiveDone(force, p), verdict |-> <<>>,
           aborted |-> FALSE]
  BY DEF Visit, First
<1> QED BY <1>1, <1>2, NoLiveShape DEF LiveDone, Files

(***************************************************************************)
(* Lemma: every step keeps the books.                                      *)
(***************************************************************************)
LEMMA FilesStep == Books /\ [ReplayNext]_vars2 => Files'
<1> SUFFICES ASSUME Books, [ReplayNext]_vars2 PROVE Files'
  OBVIOUS
<1> USE DEF Books, Files
<1>1. CASE UNCHANGED <<source, rewrites, registry>> /\ mentions' \subseteq Item
  BY <1>1
<1>2. ASSUME NEW p \in Partition, NEW items \in SUBSET ItemsOf(p),
             RewriteSource(p, items)
      PROVE  Files'
  BY <1>2 DEF RewriteSource
<1>3. ASSUME NEW m \in months, SaveRegistryShard(m) PROVE Files'
  <2>1. ASSUME NEW p \in Partition PROVE registry'[p].ids \subseteq ItemsOf(p)
    BY <1>3 DEF SaveRegistryShard, CompletionEntry
  <2> QED BY <1>3, <2>1 DEF SaveRegistryShard
<1>4. CASE SaveLiveRegistry
  BY <1>4 DEF SaveLiveRegistry, LiveEntry, LiveBooks, LivePlaces, jobVars
<1>5. \/ UNCHANGED <<source, rewrites, registry>> /\ mentions' \subseteq Item
      \/ \E p \in Partition : \E items \in SUBSET ItemsOf(p) : RewriteSource(p, items)
      \/ \E m \in months : SaveRegistryShard(m)
      \/ SaveLiveRegistry
  <2>1. CASE JobWrites
    BY <2>1 DEF JobWrites, WriteMentions, NewMentions, Terminal, JobBooks
  <2>2. CASE LiveWrites
    BY <2>2 DEF LiveWrites, WriteLiveMentions, LiveDecided, LiveBooks, LivePlaces, jobVars
  <2>3. ASSUME NEW m \in months, ReplayMonth(m)
        PROVE  UNCHANGED <<source, rewrites, registry>> /\ mentions' \subseteq Item
    BY <2>3 DEF ReplayMonth, Replayable
  <2> QED
    BY <2>1, <2>2, <2>3
       DEF ReplayNext, vars2, vars, jobVars, JobStarts, StartJob, JobFinishes, ClearFinished,
           JobAbandoned, AbandonJob, JobSteps, TrimBacklog, OpenLedger, FinishRows,
           ResumeFinalize, MergeRowFailures, ClearAbandoned, RecordForceRequest,
           JobCrash, Crash, LiveStarts, StartLive, LiveAudits, WriteLiveAudit, LiveSteps,
           DecideRows, MergeLiveFailures, LiveDies, StartReplay, ReplayAudit, EndReplay,
           ReplayDies
<1> QED BY <1>1, <1>2, <1>3, <1>4, <1>5

LEMMA JobBooksStep == Books /\ [ReplayNext]_vars2 => JobBooks'
<1> SUFFICES ASSUME Books, [ReplayNext]_vars2 PROVE JobBooks'
  OBVIOUS
<1> USE DEF Books, JobBooks, Finalizing
<1>1. CASE JobStarts
  <2> USE DEF JobStarts, StartJob
  <2>1. Claimable \subseteq Partition
    BY DEF Claimable, Pending
  <2>2. \A p \in Claimable : Done(p) \subseteq ItemsOf(p) /\ (p \in backlog => Done(p) = {})
    BY <2>1 DEF Done, Files
  <2>3. Claimed' = Claimable /\ \A p \in Claimable : job'.claims[p].prior = Done(p)
    BY <1>1
  <2>4. ASSUME NEW i \in DOMAIN job'.rows
        PROVE  /\ i \in Item /\ Home[i] \in Claimable /\ i \notin Done(Home[i])
               /\ job'.rows[i] = Open
    BY <1>1, <2>1, <2>4 DEF ToExtract, Files
  <2> QED BY <1>1, <2>1, <2>2, <2>3, <2>4
<1>2. ASSUME UNCHANGED <<job, backlog>>, pc' = pc \/ pc' = "idle", torn \subseteq torn'
      PROVE  JobBooks'
  BY <1>2 DEF Settled
<1>3. CASE JobFinishes
  BY <1>3, NoJobClaims DEF JobFinishes, ClearFinished
<1>4. CASE JobAbandoned
  BY <1>4 DEF JobAbandoned, AbandonJob, RequeueForced, Settled
<1>5. CASE TrimBacklog /\ UNCHANGED torn
  BY <1>5 DEF TrimBacklog, Settled
<1>6. CASE OpenLedger /\ UNCHANGED torn
  BY <1>6 DEF OpenLedger, Settled
<1>7. ASSUME NEW outcome \in [DOMAIN job.rows -> Outcomes], FinishRows(outcome)
      PROVE  JobBooks'
  <2>1. /\ job'.rows = outcome /\ pc' = "publishing"
        /\ job'.there = job.there /\ job'.ledger = job.ledger
        /\ job'.claims = job.claims /\ job'.forced = job.forced
        /\ job' = [there |-> job'.there, ledger |-> job'.ledger, claims |-> job'.claims,
                   forced |-> job'.forced, rows |-> job'.rows]
        /\ job.there /\ job.ledger
    BY <1>7 DEF FinishRows
  <2>2. \A i \in DOMAIN outcome : outcome[i] \in Outcomes /\ outcome[i] # Open
    BY DEF Open, Verdicts
  <2>3. Settled'
    BY <2>1, <2>2 DEF Settled
  <2> QED BY <2>1, <2>2, <2>3
<1>8. CASE ResumeFinalize /\ UNCHANGED torn
  BY <1>8 DEF ResumeFinalize, Settled
<1>9. CASE ClearAbandoned
  BY <1>9, NoJobClaims DEF ClearAbandoned
<1>10. CASE RecordForceRequest /\ UNCHANGED torn
  BY <1>10 DEF RecordForceRequest, Settled
<1>11. ASSUME UNCHANGED <<job, backlog>>, pc \in Finalizing, pc' \in Finalizing PROVE JobBooks'
  BY <1>11 DEF Settled
<1>12. ASSUME UNCHANGED <<job, backlog>>, pc' \in LivePlaces \cup {"idle", "replaying"},
              torn \subseteq torn'
       PROVE  JobBooks'
  BY <1>12 DEF Settled, LivePlaces
<1> HIDE DEF JobBooks, Books
<1>13. CASE JobSteps /\ UNCHANGED <<liveVars, Tags>>
  <2>1. CASE MergeRowFailures
    BY <1>11, <2>1 DEF MergeRowFailures
  <2>2. ASSUME NEW m \in months, SaveRegistryShard(m) PROVE JobBooks'
    BY <1>11, <2>2 DEF SaveRegistryShard
  <2>3. ASSUME NEW p \in Partition, NEW items \in SUBSET ItemsOf(p),
               RewriteSource(p, items)
        PROVE  JobBooks'
    BY <1>13, <1>2, <2>3 DEF RewriteSource, liveVars, history
  <2> QED BY <1>13, <1>5, <1>6, <1>7, <1>8, <1>9, <1>10, <2>1, <2>2, <2>3
             DEF JobSteps, liveVars, history
<1>14. CASE JobWrites
  BY <1>11, <1>14 DEF JobWrites, WriteMentions
<1>15. CASE JobCrash
  BY <1>2, <1>15 DEF JobCrash, Crash, liveVars, history
<1>16. CASE LiveStarts \/ LiveWrites \/ LiveAudits
  BY <1>12, <1>16 DEF LiveStarts, StartLive, LiveWrites, WriteLiveMentions, LiveAudits,
                      WriteLiveAudit, jobVars, liveVars, history, LivePlaces
<1>17. CASE LiveSteps
  BY <1>12, <1>17 DEF LiveSteps, DecideRows, MergeLiveFailures, SaveLiveRegistry, LiveDies,
                      jobVars, liveVars, history, LivePlaces
<1>18. CASE StartReplay \/ (\E m \in months : ReplayMonth(m)) \/ ReplayAudit \/ EndReplay
            \/ ReplayDies
  BY <1>2, <1>12, <1>18 DEF StartReplay, ReplayMonth, ReplayAudit, EndReplay, ReplayDies,
                      vars, liveVars, history
<1>19. CASE UNCHANGED vars2
  BY <1>2, <1>19 DEF vars2, vars, liveVars, history
<1> QED BY <1>1, <1>3, <1>4, <1>13, <1>14, <1>15, <1>16, <1>17, <1>18, <1>19 DEF ReplayNext

LEMMA CurrentIsFirst == Current = First(live.todo)
BY DEF Current, First

LEMMA LiveBooksStep == Books /\ [ReplayNext]_vars2 => LiveBooks'
<1> SUFFICES ASSUME Books, [ReplayNext]_vars2 PROVE LiveBooks'
  OBVIOUS
<1> USE DEF LiveBooks, LivePlaces, Places
<1>0. LiveBooks
  BY DEF Books
<1>1. ASSUME pc \in Places, pc' \in Places \cup {"replaying"}, UNCHANGED live,
             changing' = {} \/ UNCHANGED changing
      PROVE  LiveBooks'
  BY <1>0, <1>1
<1>2. ASSUME live' = NoLive, pc' \in Places, changing' = {} \/ UNCHANGED changing,
             pc # "replaying" \/ changing' = {}
      PROVE  LiveBooks'
  BY <1>0, <1>2, NoLiveShape
<1>3. CASE LiveStarts
  <2>1. PICK force \in BOOLEAN : StartLive(force)
    BY <1>3 DEF LiveStarts
  <2> DEFINE todo == LivePending(force)
             p    == First(todo)
  <2>2. todo \in SUBSET Partition /\ todo # {} /\ (~force => todo \cap Claimed = {})
    BY <2>1 DEF StartLive, LivePending, LeftToTheJob
  <2>3. /\ p \in todo
        /\ live' = [force |-> force, todo |-> todo, prior |-> LiveDone(force, p),
                    rows |-> source[p] \ LiveDone(force, p), verdict |-> <<>>,
                    aborted |-> FALSE]
        /\ live' # NoLive
        /\ LiveDone(force, p) \subseteq ItemsOf(p)
        /\ DOMAIN live'.verdict = {}
    BY <2>1, <2>2, VisitShape DEF StartLive, Books
  <2>4. Current' = p
    BY <2>3 DEF Current, First
  <2>5. /\ pc' = "deciding" /\ UNCHANGED <<source, job>>
        /\ force => Claimed \subseteq loose'
        /\ UNCHANGED changing /\ pc = "idle"
    BY <2>1, <1>3 DEF StartLive, LiveStarts, jobVars
  <2>6. force => LiveDone(force, p) = {}
    BY DEF LiveDone
  <2> QED BY <1>0, <2>2, <2>3, <2>4, <2>5, <2>6
<1>4. ASSUME pc \in LivePlaces, pc' \in LivePlaces, UNCHANGED <<live, job, source, changing>>,
             loose \subseteq loose'
      PROVE  LiveBooks'
  BY <1>0, <1>4 DEF Current
<1>5. ASSUME NEW rows \in SUBSET live.rows, NEW verdict \in [rows -> Outcomes \cap Verdicts],
             NEW fails \in BOOLEAN, DecideRows(verdict, fails), UNCHANGED Tags
      PROVE  LiveBooks'
  <2>1. /\ live'.force = live.force /\ live'.todo = live.todo /\ live'.prior = live.prior
        /\ live'.rows = live.rows \ rows /\ live'.verdict = Also(verdict)
        /\ live' = [force |-> live'.force, todo |-> live'.todo, prior |-> live'.prior,
                    rows |-> live'.rows, verdict |-> live'.verdict, aborted |-> live'.aborted]
        /\ pc = "deciding" /\ pc' = "writing" /\ UNCHANGED <<source, job, loose, changing>>
    BY <1>0, <1>5 DEF DecideRows, jobVars, history, Tags
  <2>2. /\ DOMAIN live'.verdict = rows \cup DOMAIN live.verdict
        /\ \A i \in DOMAIN live'.verdict : live'.verdict[i] \in Verdicts
    BY <1>0, <2>1 DEF Also
  <2>3. Current' = Current
    BY <2>1 DEF Current
  <2>4. live' # NoLive
    BY <1>0, <2>1, NoLiveShape
  <2> QED BY <1>0, <2>1, <2>2, <2>3, <2>4
<1>6. CASE SaveLiveRegistry /\ UNCHANGED Tags
  <2>1. /\ pc = "saving" /\ UNCHANGED <<source, rewrites, job, loose, changing>>
        /\ pc' = IF live' = NoLive THEN "idle" ELSE "deciding"
    BY <1>6 DEF SaveLiveRegistry, jobVars, history, Tags
  <2>2. CASE live' = NoLive
    BY <1>2, <2>1, <2>2
  <2>3. CASE live' = live
    <3>1. pc' = "deciding"
      BY <1>0, <2>1, <2>3
    <3> QED BY <1>4, <2>1, <2>3, <3>1
  <2>4. CASE live' = Visit(live.force, live.todo \ {Current}) /\ live' # NoLive
    <3> DEFINE todo == live.todo \ {Current}
               p    == First(todo)
    <3>1. /\ todo \in SUBSET Partition /\ todo # {}
          /\ live.force \in BOOLEAN
          /\ todo \cap Claimed = {} \/ (live.force /\ Claimed \subseteq loose)
      BY <1>0, <2>1, <2>4 DEF Visit
    <3>2. Files /\ live' = Visit(live.force, todo)
      BY <2>4 DEF Books
    <3> HIDE DEF todo
    <3>3. /\ p \in todo
          /\ live' = [force |-> live.force, todo |-> todo,
                      prior |-> LiveDone(live.force, p),
                      rows |-> source[p] \ LiveDone(live.force, p), verdict |-> <<>>,
                      aborted |-> FALSE]
          /\ LiveDone(live.force, p) \subseteq ItemsOf(p)
          /\ DOMAIN live'.verdict = {}
      <4>1. ASSUME NEW force \in BOOLEAN, NEW l, l = Visit(force, todo)
            PROVE  /\ p \in todo
                   /\ l = [force |-> force, todo |-> todo, prior |-> LiveDone(force, p),
                           rows |-> source[p] \ LiveDone(force, p), verdict |-> <<>>,
                           aborted |-> FALSE]
                   /\ LiveDone(force, p) \subseteq ItemsOf(p)
                   /\ DOMAIN l.verdict = {}
        BY <3>1, <3>2, <4>1, VisitShape
      <4> QED BY <3>1, <3>2, <4>1
    <3>4. Current' = p
      BY <3>3 DEF Current, First
    <3>5. live.force => LiveDone(live.force, p) = {}
      BY DEF LiveDone
    <3>6. pc' = "deciding" /\ live' # NoLive /\ UNCHANGED <<source, job, loose, changing>>
      BY <2>1, <2>4
    <3>7. changing = {}
      BY <1>0, <2>1
    <3> QED BY <3>1, <3>3, <3>4, <3>5, <3>6, <3>7
  <2> QED BY <1>6, <2>2, <2>3, <2>4 DEF SaveLiveRegistry
<1>7. CASE LiveDies /\ UNCHANGED Tags
  BY <1>2, <1>7 DEF LiveDies, Tags
<1>8. CASE StartReplay
  BY <1>1, <1>8 DEF StartReplay, liveVars
<1>9. ASSUME NEW m \in months, ReplayMonth(m) PROVE LiveBooks'
  <2>1. changing' \subseteq Item
    BY <1>9 DEF ReplayMonth, Replayable, Books, Files
  <2> QED BY <1>0, <1>9, <2>1 DEF ReplayMonth, liveVars
<1>10. CASE ReplayAudit
  BY <1>0, <1>10, <1>2 DEF ReplayAudit, liveVars, vars
<1>11. CASE EndReplay \/ ReplayDies
  BY <1>0, <1>11 DEF EndReplay, ReplayDies, liveVars
<1> HIDE DEF LiveBooks
<1>12. CASE JobStarts \/ JobWrites \/ JobFinishes \/ JobAbandoned
  BY <1>1, <1>12
     DEF JobStarts, StartJob, JobWrites, WriteMentions, JobFinishes, ClearFinished,
         JobAbandoned, AbandonJob, liveVars, Tags
<1>13. CASE JobSteps /\ UNCHANGED <<liveVars, Tags>>
  BY <1>1, <1>13
     DEF JobSteps, TrimBacklog, OpenLedger, FinishRows, ResumeFinalize, MergeRowFailures,
         SaveRegistryShard, ClearAbandoned, RecordForceRequest, RewriteSource, liveVars, Tags
<1>14. CASE JobCrash /\ UNCHANGED Tags
  BY <1>1, <1>14 DEF JobCrash, Crash, liveVars, Tags
<1>15. CASE LiveWrites \/ LiveAudits
  BY <1>4, <1>15
     DEF LiveWrites, WriteLiveMentions, LiveAudits, WriteLiveAudit, jobVars, liveVars, history
<1>16. CASE MergeLiveFailures /\ UNCHANGED Tags
  BY <1>4, <1>16 DEF MergeLiveFailures, jobVars, liveVars, history, Tags
<1>17. CASE LiveSteps /\ UNCHANGED Tags
  BY <1>5, <1>6, <1>7, <1>16, <1>17 DEF LiveSteps
<1>18. CASE UNCHANGED vars2
  BY <1>0, <1>18 DEF LiveBooks, Current, vars2, vars, liveVars, history
<1> QED BY <1>3, <1>8, <1>9, <1>10, <1>11, <1>12, <1>13, <1>14, <1>15, <1>17, <1>18
        DEF ReplayNext

LEMMA BooksStep == Books /\ [ReplayNext]_vars2 => Books'
BY FilesStep, JobBooksStep, LiveBooksStep DEF Books

-----------------------------------------------------------------------------
(***************************************************************************)
(* What the tags on mentions and audit records say.                        *)
(***************************************************************************)
Marks ==
  /\ clock \in Nat /\ jobId \in Nat /\ jobId <= clock
  /\ stored \in [Item -> Nat] /\ answer \in [Item -> Nat] /\ DOMAIN audit = Item
  /\ \A i \in Item :
       /\ audit[i] = [by |-> audit[i].by, names |-> audit[i].names,
                      answer |-> audit[i].answer]
       /\ audit[i].by \in Nat /\ audit[i].names \in Nat /\ audit[i].answer \in Nat
       /\ stored[i] <= clock /\ answer[i] <= clock
       /\ audit[i].by <= clock /\ audit[i].names <= clock /\ audit[i].answer <= clock
       /\ stored[i] # 0 => i \in mentions
  /\ job.there => jobId > 0
  /\ pc \in LivePlaces \cup {"replaying"} => clock > 0 /\ (job.there => jobId < clock)

JobIsLatest(i) ==
  /\ audit[i].names # jobId
  /\ stored[i] = jobId => answer[i] = jobId
  /\ Home[i] \in Claimed \ loose => answer[i] <= jobId /\ audit[i].by <= jobId

RunIsLatest(i) ==
  /\ audit[i].names = clock => audit[i].answer = clock
  /\ stored[i] = clock => answer[i] = clock

InStep ==
  \A i \in Item :
    /\ job.there => JobIsLatest(i)
    /\ pc \in LivePlaces => RunIsLatest(i)
    /\ i \in changing =>
         Home[i] \notin Claimed /\ stored[i] = clock /\ audit[i].answer = answer[i]

(***************************************************************************)
(* Lemma: which items a job writes, retires and publishes in a month.      *)
(***************************************************************************)
DecidedRow(i) == i \in DOMAIN job.rows /\ job.rows[i] \in Verdicts

LEMMA RowsOfMonth ==
  ASSUME Books, pc \in Finalizing, NEW m
  PROVE  /\ \A i : i \in Terminal(m) <=> DecidedRow(i) /\ MonthOf[Home[i]] = m
         /\ \A i : i \in NewMentions(m) <=>
                 i \in Terminal(m) /\ i \in source[Home[i]] /\ job.rows[i] \in Publishable
         /\ \A i : i \in Retired(m) <=>
                 /\ i \in Item /\ Home[i] \in Claimed /\ MonthOf[Home[i]] = m
                 /\ i \notin source[Home[i]]
                 /\ i \in job.claims[Home[i]].prior \/ DecidedRow(i)
<1>1. \A i : DecidedRow(i) => i \in Item /\ Home[i] \in Claimed /\ Home[i] \in Partition
  BY DEF Books, JobBooks, DecidedRow
<1>2. ASSUME NEW i PROVE i \in Terminal(m) <=> DecidedRow(i) /\ MonthOf[Home[i]] = m
  BY DEF Books, JobBooks, DecidedRow, Terminal, Settled, Open, Verdicts
<1>3. \A i \in Item : Home[i] \in Claimed /\ MonthOf[Home[i]] = m =>
        (i \in RelevantIn(m) <=> i \in source[Home[i]])
  BY DEF Books, JobBooks, Files, RelevantIn, MonthClaims
<1>4. ASSUME NEW i
      PROVE  i \in NewMentions(m) <=>
                 i \in Terminal(m) /\ i \in source[Home[i]] /\ job.rows[i] \in Publishable
  BY <1>1, <1>2, <1>3 DEF NewMentions
<1> DEFINE Left == UNION {job.claims[p].prior \ source[p] : p \in MonthClaims(m)}
<1>5. ASSUME NEW i
      PROVE  i \in Left <=>
                /\ i \in Item /\ Home[i] \in Claimed /\ MonthOf[Home[i]] = m
                /\ i \notin source[Home[i]] /\ i \in job.claims[Home[i]].prior
  BY DEF Books, JobBooks, MonthClaims
<1>6. ASSUME NEW i
      PROVE  i \in Retired(m) <=>
                 /\ i \in Item /\ Home[i] \in Claimed /\ MonthOf[Home[i]] = m
                 /\ i \notin source[Home[i]]
                 /\ i \in job.claims[Home[i]].prior \/ DecidedRow(i)
  <2>1. i \in Terminal(m) \ RelevantIn(m) <=>
          /\ i \in Item /\ Home[i] \in Claimed /\ MonthOf[Home[i]] = m
          /\ i \notin source[Home[i]] /\ DecidedRow(i)
    BY <1>1, <1>2, <1>3
  <2>2. Retired(m) = Left \cup (Terminal(m) \ RelevantIn(m))
    BY Zenon DEF Retired
  <2> HIDE DEF Left
  <2> QED BY <1>5, <2>1, <2>2
<1> QED BY <1>2, <1>4, <1>6

(***************************************************************************)
(* Lemmas: what a write of mentions and a write of records keep.           *)
(***************************************************************************)
LEMMA WriteKeepsMarks ==
  ASSUME Marks, NEW id \in Nat, id <= clock, NEW decided, NEW published, published \subseteq mentions',
         Write(id, decided, published)
  PROVE  /\ stored' \in [Item -> Nat] /\ answer' \in [Item -> Nat]
         /\ \A i \in Item : /\ stored'[i] <= clock /\ answer'[i] <= clock
                            /\ stored'[i] # 0 => i \in mentions'
BY DEF Marks, Write

LEMMA RecordKeepsMarks ==
  ASSUME Marks, NEW id \in Nat, id <= clock, NEW verdict, audit' = Recorded(id, verdict)
  PROVE  /\ DOMAIN audit' = Item
         /\ \A i \in Item :
              /\ audit'[i] = [by |-> audit'[i].by, names |-> audit'[i].names,
                              answer |-> audit'[i].answer]
              /\ audit'[i].by \in Nat /\ audit'[i].names \in Nat /\ audit'[i].answer \in Nat
              /\ audit'[i].by <= clock /\ audit'[i].names <= clock
              /\ audit'[i].answer <= clock
BY DEF Marks, Recorded

(***************************************************************************)
(* Lemma: a job's other steps write no mentions and start nothing.         *)
(***************************************************************************)
LEMMA JobStepsOnly ==
  ASSUME Books, JobSteps
  PROVE  /\ pc \in Places /\ pc' \in Places /\ UNCHANGED mentions
         /\ \/ job'.there = job.there /\ job'.claims = job.claims
                /\ job'.forced = job.forced /\ DOMAIN job'.rows = DOMAIN job.rows
            \/ job' = NoJob /\ pc = "abandoning" /\ pc' = "idle"
<1> USE DEF Places
<1>1. ASSUME UNCHANGED job
      PROVE  job'.there = job.there /\ job'.claims = job.claims
             /\ job'.forced = job.forced /\ DOMAIN job'.rows = DOMAIN job.rows
  BY <1>1
<1>2. CASE TrimBacklog \/ ResumeFinalize \/ MergeRowFailures \/ RecordForceRequest
  BY <1>1, <1>2 DEF TrimBacklog, ResumeFinalize, MergeRowFailures, RecordForceRequest
<1>3. ASSUME NEW p \in Partition, NEW items \in SUBSET ItemsOf(p), RewriteSource(p, items)
      PROVE  pc \in Places /\ UNCHANGED <<pc, mentions, job>>
  BY <1>3 DEF RewriteSource
<1>4. ASSUME NEW m \in months, SaveRegistryShard(m)
      PROVE  pc \in Places /\ pc' \in Places /\ UNCHANGED <<mentions, job>>
  BY <1>4 DEF SaveRegistryShard
<1>5. CASE OpenLedger
  BY <1>5 DEF OpenLedger, Books, JobBooks
<1>6. ASSUME NEW outcome \in [DOMAIN job.rows -> Outcomes], FinishRows(outcome)
      PROVE  /\ pc \in Places /\ pc' \in Places /\ UNCHANGED mentions
             /\ job'.there = job.there /\ job'.claims = job.claims
             /\ job'.forced = job.forced /\ DOMAIN job'.rows = DOMAIN job.rows
  BY <1>6 DEF FinishRows, Books, JobBooks
<1>7. CASE ClearAbandoned
  BY <1>7 DEF ClearAbandoned
<1> QED BY <1>1, <1>2, <1>3, <1>4, <1>5, <1>6, <1>7 DEF JobSteps

(***************************************************************************)
(* Lemma: every step keeps what the tags say.                              *)
(***************************************************************************)
LEMMA MarksStep == Books /\ Marks /\ [ReplayNext]_vars2 => Marks'
<1> SUFFICES ASSUME Books, Marks, [ReplayNext]_vars2 PROVE Marks'
  OBVIOUS
<1> USE DEF LivePlaces
<1>1. CASE JobStarts
  BY <1>1 DEF Marks, JobStarts, StartJob, NewRun
<1>2. CASE JobWrites
  <2>1. PICK m \in months : /\ WriteMentions(m) /\ Write(jobId, Terminal(m), NewMentions(m))
                           /\ UNCHANGED <<clock, jobId, audit>>
    BY <1>2 DEF JobWrites
  <2>2. NewMentions(m) \subseteq mentions'
    BY <2>1 DEF WriteMentions
  <2>3. UNCHANGED job /\ pc' \in {"publishing", "recording"}
    BY <2>1 DEF WriteMentions
  <2> QED BY <2>1, <2>2, <2>3, WriteKeepsMarks DEF Marks
<1>3. CASE LiveWrites
  <2>1. /\ Write(clock, DOMAIN live.verdict, LiveDecided(Publishable))
        /\ LiveDecided(Publishable) \subseteq mentions'
        /\ UNCHANGED <<clock, jobId, audit, job>> /\ pc = "writing" /\ pc' = "auditing"
    BY <1>3 DEF LiveWrites, WriteLiveMentions, jobVars
  <2> QED BY <2>1, WriteKeepsMarks DEF Marks
<1>4. CASE JobFinishes
  <2>1. /\ audit' = Recorded(jobId, TerminalVerdicts) /\ pc' = "idle" /\ ~job'.there
        /\ UNCHANGED <<clock, jobId, stored, answer, mentions>>
    BY <1>4, NoJobClaims DEF JobFinishes, ClearFinished
  <2> QED BY <2>1, RecordKeepsMarks DEF Marks
<1>5. CASE LiveAudits
  <2>1. /\ audit' = Recorded(clock, live.verdict) /\ pc = "auditing" /\ pc' = "failing"
        /\ UNCHANGED <<clock, jobId, stored, answer, mentions, job>>
    BY <1>5 DEF LiveAudits, WriteLiveAudit, jobVars
  <2> QED BY <2>1, RecordKeepsMarks DEF Marks
<1>6. CASE LiveStarts
  BY <1>6 DEF Marks, LiveStarts, StartLive, NewRun, jobVars
<1>7. CASE StartReplay
  BY <1>7 DEF Marks, StartReplay, NewRun
<1>8. ASSUME NEW m \in months, ReplayMonth(m) PROVE Marks'
  <2>1. PICK items \in SUBSET Replayable(m) :
           /\ mentions' = mentions \cup items
           /\ stored' = [i \in Item |-> IF i \in items THEN clock ELSE stored[i]]
           /\ answer' = [i \in Item |-> IF i \in items THEN audit[i].answer ELSE answer[i]]
    BY <1>8 DEF ReplayMonth
  <2>2. UNCHANGED <<clock, jobId, audit, job, pc>>
    BY <1>8 DEF ReplayMonth
  <2> QED BY <2>1, <2>2 DEF Marks
<1>9. CASE ReplayAudit
  <2>1. UNCHANGED <<clock, jobId, stored, answer, mentions, job, pc>>
    BY <1>9 DEF ReplayAudit, vars
  <2>2. /\ DOMAIN audit' = Item
        /\ \A i \in Item :
             \/ audit'[i] = audit[i]
             \/ audit'[i] = [by |-> clock, names |-> clock, answer |-> audit[i].answer]
    BY <1>9 DEF ReplayAudit
  <2> QED BY <2>1, <2>2 DEF Marks
<1>10. ASSUME UNCHANGED <<clock, jobId, stored, answer, audit, mentions>>,
              job'.there => job.there,
              pc' \in LivePlaces \cup {"replaying"} => pc \in LivePlaces \cup {"replaying"}
       PROVE  Marks'
  BY <1>10 DEF Marks
<1> HIDE DEF LivePlaces
<1>11. CASE JobSteps /\ UNCHANGED <<liveVars, Tags>>
  BY <1>10, <1>11, JobStepsOnly, NoJobClaims DEF Tags, LivePlaces, Places
<1>15. CASE JobAbandoned
  BY <1>10, <1>15 DEF JobAbandoned, AbandonJob, Tags, LivePlaces
<1>12. CASE JobCrash /\ UNCHANGED Tags
  BY <1>10, <1>12 DEF JobCrash, Crash, Tags, LivePlaces
<1>13. CASE LiveSteps /\ UNCHANGED Tags
  BY <1>10, <1>13
     DEF LiveSteps, DecideRows, MergeLiveFailures, SaveLiveRegistry, LiveDies, Tags,
         jobVars, LivePlaces
<1>14. CASE EndReplay \/ ReplayDies \/ UNCHANGED vars2
  BY <1>10, <1>14 DEF EndReplay, ReplayDies, vars2, vars, LivePlaces
<1> QED BY <1>1, <1>2, <1>3, <1>4, <1>5, <1>6, <1>7, <1>8, <1>9, <1>11, <1>12, <1>13, <1>14, <1>15
        DEF ReplayNext

LEMMA InStepStep == Books /\ Marks /\ InStep /\ [ReplayNext]_vars2 => InStep'
<1> SUFFICES ASSUME Books, Marks, InStep, [ReplayNext]_vars2 PROVE InStep'
  OBVIOUS
<1>0. pc # "replaying" => changing = {}
  BY DEF Books, LiveBooks
<1>1. CASE JobStarts
  <2>1. /\ jobId' = clock + 1 /\ clock' = clock + 1 /\ pc' = "trimming" /\ changing' = {}
        /\ UNCHANGED <<stored, answer, audit>>
    BY <1>0, <1>1 DEF JobStarts, StartJob, NewRun
  <2> QED BY <2>1 DEF InStep, JobIsLatest, Marks, LivePlaces
<1>2. CASE JobWrites
  <2>1. PICK m \in months : /\ WriteMentions(m) /\ Write(jobId, Terminal(m), NewMentions(m))
                           /\ UNCHANGED <<jobId, audit, loose, changing>>
    BY <1>2 DEF JobWrites
  <2>2. /\ pc = "publishing" /\ pc' \in {"publishing", "recording"} /\ UNCHANGED job
        /\ mentions' = (mentions \ (Terminal(m) \cup Retired(m))) \cup NewMentions(m)
    BY <2>1 DEF WriteMentions
  <2>3. NewMentions(m) \subseteq Terminal(m)
    BY DEF NewMentions
  <2>4. job.there /\ changing' = {}
    BY <1>0, <2>1, <2>2 DEF Books, JobBooks, Finalizing
  <2>5. ASSUME NEW i \in Item PROVE JobIsLatest(i)'
    <3>1. /\ stored'[i] = IF i \in NewMentions(m) THEN jobId
                          ELSE IF i \in mentions' THEN stored[i] ELSE 0
          /\ answer'[i] = IF i \in Terminal(m) THEN jobId ELSE answer[i]
          /\ jobId > 0
      BY <2>1, <2>4 DEF Write, Marks
    <3> QED BY <2>1, <2>2, <2>3, <2>4, <3>1 DEF InStep, JobIsLatest, Marks
  <2> QED BY <2>2, <2>4, <2>5 DEF InStep, LivePlaces
<1>3. CASE LiveWrites
  <2> DEFINE decided   == DOMAIN live.verdict
             published == LiveDecided(Publishable)
  <2>1. /\ pc = "writing" /\ pc' = "auditing" /\ Write(clock, decided, published)
        /\ mentions' = (mentions \ (decided \cup LiveRetired)) \cup published
        /\ UNCHANGED <<clock, jobId, audit, loose, changing, job>>
    BY <1>3 DEF LiveWrites, WriteLiveMentions, jobVars
  <2>2. published \subseteq decided
    BY DEF LiveDecided
  <2>3. /\ changing' = {}
        /\ \A i \in decided : Home[i] \notin Claimed \ loose
    BY <1>0, <2>1 DEF Books, LiveBooks, LivePlaces, Files
  <2>4. clock > 0 /\ (job.there => jobId > 0 /\ jobId < clock)
    BY <2>1 DEF Marks, LivePlaces
  <2> HIDE DEF decided, published
  <2>5. ASSUME NEW i \in Item PROVE (job.there => JobIsLatest(i)') /\ RunIsLatest(i)'
    <3>2. /\ stored'[i] = IF i \in published THEN clock
                          ELSE IF i \in mentions' THEN stored[i] ELSE 0
          /\ answer'[i] = IF i \in decided THEN clock ELSE answer[i]
      BY <2>1 DEF Write
    <3>3. job.there => JobIsLatest(i)'
      BY <2>1, <2>2, <2>3, <2>4, <3>2 DEF InStep, JobIsLatest, Marks
    <3>4. RunIsLatest(i)'
      BY <2>1, <2>2, <2>4, <3>2 DEF InStep, RunIsLatest, LivePlaces
    <3> QED BY <3>3, <3>4
  <2> QED BY <2>1, <2>3, <2>5 DEF InStep
<1>4. CASE JobFinishes
  <2>1. pc = "clearing" /\ pc' = "idle" /\ ~job'.there /\ UNCHANGED changing
    BY <1>4, NoJobClaims DEF JobFinishes, ClearFinished
  <2> QED BY <1>0, <2>1 DEF InStep, LivePlaces
<1>5. CASE LiveAudits
  <2>1. /\ pc = "auditing" /\ pc' = "failing" /\ audit' = Recorded(clock, live.verdict)
        /\ UNCHANGED <<clock, jobId, stored, answer, loose, changing, job>>
    BY <1>5 DEF LiveAudits, WriteLiveAudit, jobVars, liveVars, history
  <2>2. /\ changing' = {}
        /\ \A i \in DOMAIN live.verdict : Home[i] \notin Claimed \ loose
    BY <1>0, <2>1 DEF Books, LiveBooks, LivePlaces, Files
  <2>3. clock > 0 /\ (job.there => jobId > 0 /\ jobId < clock)
    BY <2>1 DEF Marks, LivePlaces
  <2>4. ASSUME NEW i \in Item PROVE (job.there => JobIsLatest(i)') /\ RunIsLatest(i)'
    <3>2. \/ audit'[i] = audit[i]
          \/ /\ i \in DOMAIN live.verdict
             /\ audit'[i] = [by |-> clock, answer |-> clock,
                             names |-> IF live.verdict[i] \in Publishable THEN clock ELSE 0]
      BY <2>1 DEF Recorded
    <3>3. job.there => JobIsLatest(i)'
      BY <2>1, <2>2, <2>3, <3>2 DEF InStep, JobIsLatest, Marks
    <3>4. RunIsLatest(i)'
      BY <2>1, <2>3, <3>2 DEF InStep, RunIsLatest, LivePlaces
    <3> QED BY <3>3, <3>4
  <2> QED BY <2>1, <2>2, <2>4 DEF InStep
<1>6. CASE LiveStarts
  <2>1. /\ clock' = clock + 1 /\ pc = "idle" /\ loose \subseteq loose'
        /\ UNCHANGED <<jobId, stored, answer, audit, changing, job>>
    BY <1>6 DEF LiveStarts, StartLive, NewRun, jobVars
  <2> QED BY <1>0, <2>1 DEF InStep, JobIsLatest, RunIsLatest, Marks
<1>7. CASE StartReplay
  <2>1. /\ changing' = {} /\ pc' = "replaying"
        /\ UNCHANGED <<jobId, stored, answer, audit, loose, job>>
    BY <1>7 DEF StartReplay, liveVars, history
  <2> QED BY <2>1 DEF InStep, JobIsLatest, LivePlaces
<1>8. ASSUME NEW m \in months, ReplayMonth(m) PROVE InStep'
  <2>1. PICK items \in SUBSET Replayable(m) :
           /\ changing' = items
           /\ stored' = [i \in Item |-> IF i \in items THEN clock ELSE stored[i]]
           /\ answer' = [i \in Item |-> IF i \in items THEN audit[i].answer ELSE answer[i]]
    BY <1>8 DEF ReplayMonth
  <2>2. UNCHANGED <<clock, jobId, audit, job, loose, pc>> /\ pc = "replaying"
    BY <1>8 DEF ReplayMonth
  <2>3. \A i \in items : i \in Item /\ Home[i] \notin Claimed
    BY DEF Replayable, Books, Files
  <2>4. job.there => jobId < clock
    BY <2>2 DEF Marks
  <2>5. ASSUME NEW i \in Item
        PROVE  /\ job.there => JobIsLatest(i)'
               /\ i \in items => stored'[i] = clock /\ audit[i].answer = answer'[i]
    <3>1. \/ i \in items /\ stored'[i] = clock /\ answer'[i] = audit[i].answer
             /\ Home[i] \notin Claimed
          \/ i \notin items /\ stored'[i] = stored[i] /\ answer'[i] = answer[i]
      BY <2>1, <2>3
    <3> QED BY <2>2, <2>4, <3>1 DEF InStep, JobIsLatest, Marks
  <2>6. changing' = items /\ pc' \notin LivePlaces /\ job'.there = job.there
        /\ Claimed' = Claimed
    BY <2>1, <2>2 DEF LivePlaces
  <2>7. \A i \in Item : i \in changing' =>
          Home[i] \notin Claimed' /\ stored'[i] = clock' /\ audit'[i].answer = answer'[i]
    BY <2>2, <2>3, <2>5, <2>6
  <2> QED BY <2>5, <2>6, <2>7 DEF InStep
<1>9. CASE ReplayAudit
  <2>1. UNCHANGED <<clock, jobId, stored, answer, loose, job, pc>> /\ pc = "replaying"
        /\ changing' = {}
    BY <1>9 DEF ReplayAudit, vars, liveVars, history
  <2>2. \A i \in Item :
          audit'[i] = IF i \in changing
                      THEN [by |-> clock, names |-> clock, answer |-> audit[i].answer]
                      ELSE audit[i]
    BY <1>9 DEF ReplayAudit
  <2>3. job.there => jobId < clock
    BY <2>1 DEF Marks
  <2>4. ASSUME NEW i \in Item PROVE job.there => JobIsLatest(i)'
    <3>1. \/ /\ audit'[i] = [by |-> clock, names |-> clock, answer |-> audit[i].answer]
             /\ Home[i] \notin Claimed /\ stored[i] = clock
          \/ audit'[i] = audit[i]
      BY <2>2 DEF InStep
    <3> QED BY <2>1, <2>3, <3>1 DEF InStep, JobIsLatest, Marks
  <2>5. pc' \notin LivePlaces /\ job'.there = job.there
    BY <2>1 DEF LivePlaces
  <2> QED BY <2>1, <2>4, <2>5 DEF InStep
<1>10. ASSUME UNCHANGED <<clock, jobId, stored, answer, audit>>, loose \subseteq loose',
              job'.there => job.there /\ Claimed' \subseteq Claimed,
              changing' = {} \/ UNCHANGED <<changing, job>>,
              pc' \in LivePlaces => pc \in LivePlaces
       PROVE  InStep'
  BY <1>10 DEF InStep, JobIsLatest, RunIsLatest
<1>11. CASE JobSteps /\ UNCHANGED <<liveVars, Tags>>
  <2>1. pc \in Places /\ pc' \in Places /\ (job'.there => job.there /\ Claimed' = Claimed)
    BY <1>11, JobStepsOnly, NoJobClaims
  <2> QED BY <1>0, <1>10, <1>11, <2>1 DEF Tags, liveVars, history, LivePlaces, Places
<1>12. CASE JobAbandoned
  BY <1>0, <1>10, <1>12 DEF JobAbandoned, AbandonJob, Tags, LivePlaces
<1>13. CASE JobCrash /\ UNCHANGED Tags
  BY <1>10, <1>13 DEF JobCrash, Crash, Tags, liveVars, history, LivePlaces
<1>14. CASE LiveSteps /\ UNCHANGED Tags
  BY <1>10, <1>14
     DEF LiveSteps, DecideRows, MergeLiveFailures, SaveLiveRegistry, LiveDies, Tags,
         jobVars, liveVars, history, LivePlaces
<1>15. CASE EndReplay \/ ReplayDies \/ UNCHANGED vars2
  BY <1>10, <1>15 DEF EndReplay, ReplayDies, vars2, vars, liveVars, history, LivePlaces
<1> QED BY <1>1, <1>2, <1>3, <1>4, <1>5, <1>6, <1>7, <1>8, <1>9, <1>11, <1>12, <1>13, <1>14,
           <1>15 DEF ReplayNext

(***************************************************************************)
(* Lemma: the bookkeeping above is invariant.                              *)
(***************************************************************************)
TagsInv == Books /\ Marks /\ InStep

LEMMA TagsInit == ReplayInit => TagsInv
<1> SUFFICES ASSUME ReplayInit PROVE TagsInv
  OBVIOUS
<1> USE DEF ReplayInit, LiveInit, Init, NoRecord
<1>1. Marks
  BY NoJobClaims DEF Marks, LivePlaces
<1>2. InStep
  BY NoJobClaims DEF InStep, LivePlaces
<1> QED BY <1>1, <1>2, BooksInit DEF TagsInv

LEMMA TagsStep == TagsInv /\ [ReplayNext]_vars2 => TagsInv'
BY BooksStep, MarksStep, InStepStep DEF TagsInv

-----------------------------------------------------------------------------
(***************************************************************************)
(* What a partition is skipped on.  A version that is no digest of the     *)
(* content is never seen again once the source was rewritten.              *)
(***************************************************************************)
WasVersion(p, v) == v = NoVersion \/ \E n \in Nat : n <= rewrites[p] /\ v = <<n>>

Versions ==
  \A p \in Partition :
    /\ WasVersion(p, registry[p].fingerprint)
    /\ p \in Claimed => WasVersion(p, job.claims[p].fingerprint)
    /\ registry[p].fingerprint = Version(p) =>
         /\ registry[p].ids \subseteq source[p]
         /\ registry[p].complete => source[p] \subseteq registry[p].ids

LEMMA VersionIsOnRecord ==
  ASSUME Files, ~ContentVersions, NEW p \in Partition
  PROVE  WasVersion(p, Version(p)) /\ Version(p) = <<rewrites[p]>>
<1>1. Version(p) = <<rewrites[p]>>
  BY DEF Version
<1>2. rewrites[p] \in Nat /\ rewrites[p] <= rewrites[p]
  BY DEF Files
<1>3. \E n \in Nat : n <= rewrites[p] /\ <<rewrites[p]>> = <<n>>
  BY <1>2
<1> QED BY <1>1, <1>3 DEF WasVersion

LEMMA VersionsInit == ReplayInit => Versions
<1> SUFFICES ASSUME ReplayInit, NEW p \in Partition
             PROVE  /\ WasVersion(p, registry[p].fingerprint) /\ p \notin Claimed
                    /\ registry[p].ids = {} /\ ~registry[p].complete
  BY DEF Versions
<1> QED BY NoJobClaims DEF ReplayInit, LiveInit, Init, NoEntry, WasVersion

LEMMA VersionsStep ==
  ~ContentVersions /\ Books /\ Versions /\ [ReplayNext]_vars2 => Versions'
<1> SUFFICES ASSUME ~ContentVersions, Books, Versions, [ReplayNext]_vars2 PROVE Versions'
  OBVIOUS
<1>0. Files /\ Files'
  BY FilesStep DEF Books
<1>1. ASSUME UNCHANGED <<source, rewrites, registry>>,
             Claimed' = {} \/ job'.claims = job.claims
      PROVE  Versions'
  BY <1>1 DEF Versions, WasVersion, Version
<1>2. CASE JobStarts
  <2>1. /\ UNCHANGED <<source, rewrites, registry>> /\ Claimed' = Claimable
        /\ \A p \in Claimable : job'.claims[p].fingerprint = Version(p)
    BY <1>2 DEF JobStarts, StartJob
  <2> QED BY <1>0, <2>1, VersionIsOnRecord DEF Versions, WasVersion, Version
<1>3. ASSUME NEW q \in Partition, NEW items \in SUBSET ItemsOf(q), RewriteSource(q, items)
      PROVE  Versions'
  <2>1. /\ source' = [source EXCEPT ![q] = items]
        /\ rewrites' = [rewrites EXCEPT ![q] = @ + 1] /\ UNCHANGED <<registry, job>>
    BY <1>3 DEF RewriteSource
  <2> SUFFICES ASSUME NEW p \in Partition
               PROVE  /\ WasVersion(p, registry[p].fingerprint)'
                      /\ p \in Claimed => WasVersion(p, job.claims[p].fingerprint)'
                      /\ registry[p].fingerprint = Version(p)' =>
                           /\ registry[p].ids \subseteq source'[p]
                           /\ registry[p].complete => source'[p] \subseteq registry[p].ids
    BY <2>1 DEF Versions
  <2>2. CASE p # q
    <3>1. source'[p] = source[p] /\ rewrites'[p] = rewrites[p]
      BY <1>0, <2>1, <2>2 DEF Files
    <3>2. \A v : WasVersion(p, v)' <=> WasVersion(p, v)
      BY <3>1 DEF WasVersion
    <3>3. Version(p)' = Version(p)
      BY <3>1 DEF Version
    <3> QED BY <2>1, <3>1, <3>2, <3>3 DEF Versions
  <2>3. CASE p = q
    <3>1. rewrites[p] \in Nat /\ rewrites'[p] = rewrites[p] + 1
      BY <1>0, <2>1, <2>3 DEF Files
    <3>2. ASSUME NEW v, WasVersion(p, v) PROVE WasVersion(p, v)' /\ v # <<rewrites'[p]>>
      <4>1. CASE v = NoVersion
        BY <4>1, DistinctVersions DEF WasVersion, NoVersion
      <4>2. CASE v # NoVersion
        <5>1. PICK n \in Nat : n <= rewrites[p] /\ v = <<n>>
          BY <3>2, <4>2 DEF WasVersion
        <5>2. n <= rewrites'[p] /\ n # rewrites'[p]
          BY <3>1, <5>1
        <5>3. v # <<rewrites'[p]>>
          BY <5>1, <5>2, DistinctVersions
        <5> QED BY <5>1, <5>2, <5>3 DEF WasVersion
      <4> QED BY <4>1, <4>2
    <3>3. Version(p)' = <<rewrites'[p]>>
      BY DEF Version
    <3> QED BY <2>1, <3>2, <3>3 DEF Versions
  <2> QED BY <2>2, <2>3
<1>4. ASSUME NEW m \in months, SaveRegistryShard(m) PROVE Versions'
  <2>1. /\ UNCHANGED <<source, rewrites, job>>
        /\ registry' = [p \in Partition |->
                          IF p \in MonthClaims(m) THEN CompletionEntry(p) ELSE registry[p]]
    BY <1>4 DEF SaveRegistryShard
  <2>2. ASSUME NEW p \in MonthClaims(m)
        PROVE  /\ CompletionEntry(p).fingerprint = job.claims[p].fingerprint
               /\ CompletionEntry(p).ids \subseteq source[p]
               /\ CompletionEntry(p).complete => source[p] \subseteq CompletionEntry(p).ids
               /\ p \in Claimed
    BY DEF CompletionEntry, MonthClaims
  <2> QED BY <2>1, <2>2 DEF Versions, WasVersion, Version
<1>5. CASE SaveLiveRegistry
  <2>1. /\ UNCHANGED <<source, rewrites, job>> /\ Current \in Partition
        /\ registry' = [registry EXCEPT ![Current] = LiveEntry]
    BY <1>5 DEF SaveLiveRegistry, jobVars, Books, LiveBooks, LivePlaces
  <2>2. /\ LiveEntry.fingerprint = Version(Current) /\ LiveEntry.ids \subseteq source[Current]
        /\ LiveEntry.complete => source[Current] \subseteq LiveEntry.ids
    BY DEF LiveEntry
  <2>3. \A p \in Partition : registry'[p] = IF p = Current THEN LiveEntry ELSE registry[p]
    BY <1>0, <2>1 DEF Files
  <2>4. \A p, v : (WasVersion(p, v)' <=> WasVersion(p, v)) /\ Version(p)' = Version(p)
    BY <2>1 DEF WasVersion, Version
  <2>5. WasVersion(Current, Version(Current))
    BY <1>0, <2>1, VersionIsOnRecord
  <2> HIDE DEF LiveEntry
  <2> QED BY <2>1, <2>2, <2>3, <2>4, <2>5 DEF Versions
<1>6. CASE JobSteps /\ UNCHANGED <<liveVars, Tags>>
  <2>1. Claimed' = {} \/ job'.claims = job.claims
    BY <1>6, JobStepsOnly, NoJobClaims
  <2> QED BY <1>1, <1>3, <1>4, <1>6, <2>1
          DEF JobSteps, TrimBacklog, OpenLedger, FinishRows, ResumeFinalize,
              MergeRowFailures, ClearAbandoned, RecordForceRequest
<1>7. CASE JobWrites \/ JobAbandoned \/ (JobCrash /\ UNCHANGED Tags)
  BY <1>1, <1>7 DEF JobWrites, WriteMentions, JobAbandoned, AbandonJob, JobCrash, Crash
<1>8. CASE JobFinishes
  BY <1>1, <1>8, NoJobClaims DEF JobFinishes, ClearFinished
<1>9. CASE LiveStarts \/ LiveWrites \/ LiveAudits \/ (LiveSteps /\ UNCHANGED Tags)
  BY <1>1, <1>5, <1>9
     DEF LiveStarts, StartLive, LiveWrites, WriteLiveMentions, LiveAudits, WriteLiveAudit,
         LiveSteps, DecideRows, MergeLiveFailures, LiveDies, jobVars
<1>10. CASE \/ StartReplay \/ (\E m \in months : ReplayMonth(m)) \/ ReplayAudit \/ EndReplay
            \/ ReplayDies \/ UNCHANGED vars2
  BY <1>1, <1>10
     DEF StartReplay, ReplayMonth, ReplayAudit, EndReplay, ReplayDies, vars2, vars
<1> QED BY <1>2, <1>6, <1>7, <1>8, <1>9, <1>10 DEF ReplayNext

(* Theorem: where a version changes with every write, no row of a skipped     *)
(* partition was left undecided, whichever of batch job and live run came by  *)
(* and wherever it died (outputs.py:87-93, 379-392, live.py:130-146).         *)
THEOREM SkippingIsSafeLive == ~ContentVersions => (ReplaySpec => []SkippedMeansDecided)
<1> SUFFICES ASSUME ~ContentVersions PROVE ReplaySpec => []SkippedMeansDecided
  OBVIOUS
<1>1. Books /\ Versions /\ [ReplayNext]_vars2 => Books' /\ Versions'
  BY BooksStep, VersionsStep
<1>2. Versions => SkippedMeansDecided
  BY DEF Versions, SkippedMeansDecided, UpToDate
<1> QED BY BooksInit, VersionsInit, <1>1, <1>2, PTL DEF ReplaySpec

-----------------------------------------------------------------------------
(***************************************************************************)
(* What the two writes of mentions do to an item.                          *)
(***************************************************************************)
Published(i) == i \in source[Home[i]] /\ job.rows[i] \in Publishable

\* Done before and gone from its claimed source.
Dropped(i) ==
  Home[i] \in Claimed /\ i \notin source[Home[i]] /\ i \in job.claims[Home[i]].prior

LEMMA JobWriteOf ==
  ASSUME Books, Marks, NEW m \in months, WriteMentions(m),
         Write(jobId, Terminal(m), NewMentions(m)),
         gone' = (gone \ Terminal(m)) \cup Retired(m), NEW i \in Item
  PROVE  /\ DecidedRow(i) /\ MonthOf[Home[i]] = m =>
              /\ answer'[i] = jobId
              /\ i \in mentions' <=> Published(i)
              /\ stored'[i] = IF Published(i) THEN jobId ELSE 0
              /\ i \in gone' <=> i \notin source[Home[i]]
         /\ Dropped(i) /\ MonthOf[Home[i]] = m =>
              i \notin mentions' /\ i \in gone' /\ ~DecidedRow(i)
         /\ ~(DecidedRow(i) /\ MonthOf[Home[i]] = m) => answer'[i] = answer[i]
         /\ ~((DecidedRow(i) \/ Dropped(i)) /\ MonthOf[Home[i]] = m) =>
              /\ i \in mentions' <=> i \in mentions
              /\ i \in gone' <=> i \in gone
              /\ stored'[i] = stored[i]
<1>1. /\ pc \in Finalizing
      /\ mentions' = (mentions \ (Terminal(m) \cup Retired(m))) \cup NewMentions(m)
  BY DEF WriteMentions, Finalizing
<1>2. /\ i \in Terminal(m) <=> DecidedRow(i) /\ MonthOf[Home[i]] = m
      /\ i \in NewMentions(m) <=> i \in Terminal(m) /\ Published(i)
      /\ i \in Retired(m) <=>
            /\ Home[i] \in Claimed /\ MonthOf[Home[i]] = m /\ i \notin source[Home[i]]
            /\ i \in job.claims[Home[i]].prior \/ DecidedRow(i)
  BY <1>1, RowsOfMonth DEF Published
<1>3. DecidedRow(i) => Home[i] \in Claimed /\ i \notin job.claims[Home[i]].prior
  BY DEF DecidedRow, Books, JobBooks
<1>4. /\ answer'[i] = IF i \in Terminal(m) THEN jobId ELSE answer[i]
      /\ stored'[i] = IF i \in NewMentions(m) THEN jobId
                      ELSE IF i \in mentions' THEN stored[i] ELSE 0
  BY DEF Write
<1>5. stored[i] # 0 => i \in mentions
  BY DEF Marks
<1> QED BY <1>1, <1>2, <1>3, <1>4, <1>5 DEF Dropped, Published

LEMMA LiveWriteOf ==
  ASSUME Books, Marks, LiveWrites, NEW i \in Item
  PROVE  /\ i \in DOMAIN live.verdict =>
              /\ answer'[i] = clock
              /\ i \in mentions' <=> live.verdict[i] \in Publishable
              /\ stored'[i] = IF live.verdict[i] \in Publishable THEN clock ELSE 0
              /\ i \notin gone' /\ i \notin LiveRetired
         /\ i \in LiveRetired => i \notin mentions' /\ i \in gone'
         /\ i \notin DOMAIN live.verdict => answer'[i] = answer[i]
         /\ i \notin DOMAIN live.verdict \cup LiveRetired =>
              /\ i \in mentions' <=> i \in mentions
              /\ i \in gone' <=> i \in gone
              /\ stored'[i] = stored[i]
<1>1. /\ mentions' = (mentions \ (DOMAIN live.verdict \cup LiveRetired))
                      \cup LiveDecided(Publishable)
      /\ gone' = (gone \ DOMAIN live.verdict) \cup LiveRetired
      /\ pc = "writing" /\ Write(clock, DOMAIN live.verdict, LiveDecided(Publishable))
  BY DEF LiveWrites, WriteLiveMentions
<1>2. i \in LiveDecided(Publishable) <=>
        i \in DOMAIN live.verdict /\ live.verdict[i] \in Publishable
  BY DEF LiveDecided
<1>3. i \in DOMAIN live.verdict => i \notin LiveRetired
  BY <1>1 DEF LiveRetired, Books, LiveBooks, LivePlaces
<1>4. /\ answer'[i] = IF i \in DOMAIN live.verdict THEN clock ELSE answer[i]
      /\ stored'[i] = IF i \in LiveDecided(Publishable) THEN clock
                      ELSE IF i \in mentions' THEN stored[i] ELSE 0
  BY <1>1 DEF Write
<1>5. stored[i] # 0 => i \in mentions
  BY DEF Marks
<1> QED BY <1>1, <1>2, <1>3, <1>4, <1>5

(***************************************************************************)
(* Lemmas: the steps that leave a job finalizing, or a live run under way. *)
(***************************************************************************)
LEMMA FinalizeSteps ==
  ASSUME Books, [ReplayNext]_vars2, pc' \in Finalizing
  PROVE  \/ pc' = "publishing" /\ months' = ClaimedMonths'
         \/ \E m \in months :
              /\ WriteMentions(m) /\ Write(jobId, Terminal(m), NewMentions(m))
              /\ gone' = (gone \ Terminal(m)) \cup Retired(m)
              /\ UNCHANGED <<jobId, audit>>
         \/ MergeRowFailures /\ UNCHANGED <<liveVars, Tags>>
         \/ \E m \in months : SaveRegistryShard(m) /\ UNCHANGED <<liveVars, Tags>>
         \/ UNCHANGED vars2
<1> USE DEF Finalizing
<1>1. ASSUME NEW outcome \in [DOMAIN job.rows -> Outcomes], FinishRows(outcome)
      PROVE  pc' = "publishing" /\ months' = ClaimedMonths'
  BY <1>1 DEF FinishRows, ClaimedMonths
<1>2. CASE ResumeFinalize
  BY <1>2 DEF ResumeFinalize, ClaimedMonths
<1>3. CASE JobSteps /\ UNCHANGED <<liveVars, Tags>>
  BY <1>1, <1>2, <1>3
     DEF JobSteps, TrimBacklog, OpenLedger, ClearAbandoned, RecordForceRequest, RewriteSource
<1>4. CASE JobStarts \/ JobFinishes \/ JobAbandoned \/ (JobCrash /\ UNCHANGED Tags)
  BY <1>4 DEF JobStarts, StartJob, JobFinishes, ClearFinished, JobAbandoned, AbandonJob,
              JobCrash, Crash
<1>5. CASE LiveStarts \/ LiveWrites \/ LiveAudits \/ (LiveSteps /\ UNCHANGED Tags)
  BY <1>5 DEF LiveStarts, StartLive, LiveWrites, WriteLiveMentions, LiveAudits, WriteLiveAudit,
              LiveSteps, DecideRows, MergeLiveFailures, SaveLiveRegistry, LiveDies
<1>6. CASE StartReplay \/ (\E m \in months : ReplayMonth(m)) \/ EndReplay \/ ReplayDies
  BY <1>6 DEF StartReplay, ReplayMonth, EndReplay, ReplayDies
<1>7. CASE ReplayAudit
  BY <1>7 DEF ReplayAudit, vars
<1> QED BY <1>3, <1>4, <1>5, <1>6, <1>7 DEF ReplayNext, JobWrites

LEMMA RunSteps ==
  ASSUME Books, [ReplayNext]_vars2, pc' \in LivePlaces
  PROVE  \/ LiveStarts \/ LiveWrites \/ LiveAudits
         \/ \E rows \in SUBSET live.rows : \E verdict \in [rows -> Outcomes \cap Verdicts] :
              \E fails \in BOOLEAN : DecideRows(verdict, fails) /\ UNCHANGED Tags
         \/ MergeLiveFailures /\ UNCHANGED Tags
         \/ SaveLiveRegistry /\ UNCHANGED Tags
         \/ UNCHANGED vars2
<1> USE DEF LivePlaces
<1>1. CASE JobSteps /\ UNCHANGED <<liveVars, Tags>>
  BY <1>1, JobStepsOnly DEF Places
<1>2. CASE JobStarts \/ JobWrites \/ JobFinishes \/ JobAbandoned \/ (JobCrash /\ UNCHANGED Tags)
  BY <1>2 DEF JobStarts, StartJob, JobWrites, WriteMentions, JobFinishes, ClearFinished,
              JobAbandoned, AbandonJob, JobCrash, Crash
<1>3. CASE LiveSteps /\ UNCHANGED Tags
  BY <1>3 DEF LiveSteps, LiveDies
<1>4. CASE StartReplay \/ (\E m \in months : ReplayMonth(m)) \/ EndReplay \/ ReplayDies
  BY <1>4 DEF StartReplay, ReplayMonth, EndReplay, ReplayDies
<1>5. CASE ReplayAudit
  BY <1>5 DEF ReplayAudit, vars
<1> QED BY <1>1, <1>2, <1>3, <1>4, <1>5 DEF ReplayNext

-----------------------------------------------------------------------------
(***************************************************************************)
(* How far a finalize has come.                                            *)
(***************************************************************************)
Written(p) ==
  /\ p \in Claimed
  /\ \/ pc = "publishing" /\ MonthOf[p] \notin months
     \/ pc \in {"recording", "registering", "clearing"}

Saved(p) ==
  /\ p \in Claimed
  /\ \/ pc = "registering" /\ MonthOf[p] \notin months
     \/ pc = "clearing"

JobWritten ==
  \A i \in Item : Written(Home[i]) =>
    /\ DecidedRow(i) =>
         /\ answer[i] = jobId
         /\ i \in mentions <=> Published(i)
         /\ stored[i] = IF Published(i) THEN jobId ELSE 0
         /\ i \notin source[Home[i]] => i \in gone
    /\ Dropped(i) => i \notin mentions /\ i \in gone

JobFailed ==
  pc \in {"registering", "clearing"} =>
    \A i : DecidedRow(i) /\ job.rows[i] # "SUCCESS" => i \in failures

JobSaved ==
  \A p \in Partition : Saved(p) =>
    \A i : i \in registry[p].ids <=>
             i \in source[p] /\ (i \in job.claims[p].prior \/ DecidedRow(i))

Finalized == JobWritten /\ JobFailed /\ JobSaved

LEMMA FinalizedInit == ReplayInit => Finalized
BY DEF ReplayInit, LiveInit, Init, Finalized, JobWritten, JobFailed, JobSaved, Written, Saved

LEMMA WrittenStep == TagsInv /\ JobWritten /\ [ReplayNext]_vars2 => JobWritten'
<1> SUFFICES ASSUME TagsInv, JobWritten, [ReplayNext]_vars2, NEW i \in Item, Written(Home[i])'
             PROVE  /\ DecidedRow(i)' =>
                         /\ answer'[i] = jobId'
                         /\ i \in mentions' <=> Published(i)'
                         /\ stored'[i] = IF Published(i)' THEN jobId' ELSE 0
                         /\ i \notin source'[Home[i]] => i \in gone'
                    /\ Dropped(i)' => i \notin mentions' /\ i \in gone'
  BY DEF JobWritten
<1> USE DEF TagsInv
<1>1. pc' \in Finalizing
  BY DEF Written, Finalizing
<1>2. CASE pc' = "publishing" /\ months' = ClaimedMonths'
  BY <1>2 DEF Written, ClaimedMonths
<1>3. ASSUME NEW m \in months, WriteMentions(m), Write(jobId, Terminal(m), NewMentions(m)),
             gone' = (gone \ Terminal(m)) \cup Retired(m), UNCHANGED <<jobId, audit>>
      PROVE  /\ DecidedRow(i)' =>
                  /\ answer'[i] = jobId'
                  /\ i \in mentions' <=> Published(i)'
                  /\ stored'[i] = IF Published(i)' THEN jobId' ELSE 0
                  /\ i \notin source'[Home[i]] => i \in gone'
             /\ Dropped(i)' => i \notin mentions' /\ i \in gone'
  <2>1. /\ UNCHANGED <<source, job, jobId>> /\ pc = "publishing" /\ months' = months \ {m}
        /\ pc' = IF months' = {} THEN "recording" ELSE pc
    BY <1>3 DEF WriteMentions
  <2>2. (DecidedRow(i)' <=> DecidedRow(i)) /\ (Published(i)' <=> Published(i))
        /\ (Dropped(i)' <=> Dropped(i))
    BY <2>1 DEF DecidedRow, Published, Dropped
  <2>3. Written(Home[i]) \/ MonthOf[Home[i]] = m
    BY <2>1 DEF Written
  <2>4. CASE MonthOf[Home[i]] = m
    BY <1>3, <2>1, <2>2, <2>4, JobWriteOf
  <2>5. CASE MonthOf[Home[i]] # m
    BY <1>3, <2>1, <2>2, <2>3, <2>5, JobWriteOf DEF JobWritten
  <2> QED BY <2>4, <2>5
<1>4. ASSUME UNCHANGED <<source, mentions, job, jobId, stored, answer, gone>>, Written(Home[i])
      PROVE  /\ DecidedRow(i)' =>
                  /\ answer'[i] = jobId'
                  /\ i \in mentions' <=> Published(i)'
                  /\ stored'[i] = IF Published(i)' THEN jobId' ELSE 0
                  /\ i \notin source'[Home[i]] => i \in gone'
             /\ Dropped(i)' => i \notin mentions' /\ i \in gone'
  BY <1>4 DEF JobWritten, DecidedRow, Published, Dropped
<1>5. CASE MergeRowFailures /\ UNCHANGED <<liveVars, Tags>>
  BY <1>4, <1>5 DEF MergeRowFailures, Written, liveVars, history, Tags
<1>6. CASE \E m \in months : SaveRegistryShard(m) /\ UNCHANGED <<liveVars, Tags>>
  BY <1>4, <1>6 DEF SaveRegistryShard, Written, liveVars, history, Tags
<1>7. CASE UNCHANGED vars2
  BY <1>4, <1>7 DEF Written, vars2, vars, liveVars, history
<1> QED BY <1>1, <1>2, <1>3, <1>5, <1>6, <1>7, FinalizeSteps

LEMMA FailedStep == TagsInv /\ JobFailed /\ [ReplayNext]_vars2 => JobFailed'
<1> SUFFICES ASSUME TagsInv, JobFailed, [ReplayNext]_vars2,
                    pc' \in {"registering", "clearing"}, NEW i, DecidedRow(i)',
                    job'.rows[i] # "SUCCESS"
             PROVE  i \in failures'
  BY DEF JobFailed
<1>1. pc' \in Finalizing
  BY DEF Finalizing
<1>2. ASSUME NEW m \in months, WriteMentions(m) PROVE FALSE
  BY <1>2 DEF WriteMentions
<1>3. CASE MergeRowFailures
  BY <1>3 DEF MergeRowFailures, Decided, DecidedRow
<1>4. ASSUME NEW m \in months, SaveRegistryShard(m) PROVE i \in failures'
  BY <1>4 DEF SaveRegistryShard, JobFailed, DecidedRow
<1>5. CASE UNCHANGED vars2
  BY <1>5 DEF JobFailed, DecidedRow, vars2, vars
<1> QED BY <1>1, <1>2, <1>3, <1>4, <1>5, FinalizeSteps DEF TagsInv

LEMMA SavedStep == TagsInv /\ JobSaved /\ [ReplayNext]_vars2 => JobSaved'
<1> SUFFICES ASSUME TagsInv, JobSaved, [ReplayNext]_vars2, NEW p \in Partition, Saved(p)', NEW i
             PROVE  i \in registry'[p].ids <=>
                      i \in source'[p] /\ (i \in job'.claims[p].prior \/ DecidedRow(i)')
  BY DEF JobSaved
<1> USE DEF TagsInv
<1>1. pc' \in Finalizing
  BY DEF Saved, Finalizing
<1>2. ASSUME NEW m \in months, WriteMentions(m) PROVE FALSE
  BY <1>2 DEF WriteMentions, Saved
<1>3. CASE MergeRowFailures
  BY <1>3 DEF MergeRowFailures, Saved, ClaimedMonths
<1>4. ASSUME NEW m \in months, SaveRegistryShard(m)
      PROVE  i \in registry'[p].ids <=>
               i \in source'[p] /\ (i \in job'.claims[p].prior \/ DecidedRow(i)')
  <2>1. /\ UNCHANGED <<source, job>> /\ pc = "registering" /\ months' = months \ {m}
        /\ pc' = IF months' = {} THEN "clearing" ELSE pc
        /\ registry'[p] = IF p \in MonthClaims(m) THEN CompletionEntry(p) ELSE registry[p]
    BY <1>4 DEF SaveRegistryShard
  <2>2. DecidedRow(i)' <=> DecidedRow(i)
    BY <2>1 DEF DecidedRow
  <2>3. CASE p \in MonthClaims(m)
    <3>1. i \in Terminal(MonthOf[p]) <=> DecidedRow(i) /\ MonthOf[Home[i]] = MonthOf[p]
      BY <2>1, RowsOfMonth DEF Finalizing
    <3>2. i \in source[p] => Home[i] = p
      BY DEF Books, Files
    <3> QED BY <2>1, <2>2, <2>3, <3>1, <3>2 DEF CompletionEntry
  <2>4. CASE p \notin MonthClaims(m)
    BY <2>1, <2>2, <2>4 DEF Saved, JobSaved, MonthClaims
  <2> QED BY <2>3, <2>4
<1>5. CASE UNCHANGED vars2
  BY <1>5 DEF JobSaved, Saved, DecidedRow, vars2, vars
<1>6. CASE pc' = "publishing"
  BY <1>6 DEF Saved
<1> QED BY <1>1, <1>2, <1>3, <1>4, <1>5, <1>6, FinalizeSteps

LEMMA FinalizedStep == TagsInv /\ Finalized /\ [ReplayNext]_vars2 => Finalized'
BY WrittenStep, FailedStep, SavedStep DEF Finalized

-----------------------------------------------------------------------------
(***************************************************************************)
(* How far the commit of a live run has come, and what the registry knows  *)
(* of the partitions it works on.                                          *)
(***************************************************************************)
Agree(i) == audit[i].names = stored[i] /\ audit[i].answer = answer[i]

LiveWritten ==
  MidCommit =>
    /\ \A i \in LiveRetired : i \notin mentions /\ i \in gone
    /\ \A i \in DOMAIN live.verdict :
         /\ answer[i] = clock
         /\ i \in mentions <=> live.verdict[i] \in Publishable
         /\ stored[i] = IF live.verdict[i] \in Publishable THEN clock ELSE 0
         /\ pc # "auditing" => Agree(i)
         /\ pc = "saving" /\ live.verdict[i] # "SUCCESS" => i \in failures

LiveKnown(p) ==
  \A i \in registry[p].ids :
    \/ i \in live.prior
    \/ i \in DOMAIN live.verdict /\ (live.verdict[i] # "SUCCESS" => i \in failures)

LiveKept ==
  pc \in LivePlaces =>
    /\ live.prior \subseteq registry[Current].ids \cup gone
    /\ ~live.force \/ Current \notin forgot => LiveKnown(Current)
    /\ live.force => \A q \in live.todo \ {Current} : q \in forgot \/ registry[q].ids = {}

LEMMA LiveInit2 == ReplayInit => LiveWritten /\ LiveKept
BY DEF ReplayInit, LiveInit, Init, LiveWritten, LiveKept, MidCommit, LivePlaces

LEMMA LiveWrittenStep == TagsInv /\ LiveWritten /\ [ReplayNext]_vars2 => LiveWritten'
<1> SUFFICES ASSUME TagsInv, LiveWritten, [ReplayNext]_vars2, MidCommit' PROVE LiveWritten'
  BY DEF LiveWritten
<1> USE DEF TagsInv
<1>1. pc' \in LivePlaces
  BY DEF MidCommit, LivePlaces
<1>2. CASE LiveStarts \/ SaveLiveRegistry
  BY <1>2 DEF LiveStarts, StartLive, SaveLiveRegistry, MidCommit
<1>3. ASSUME NEW rows, NEW verdict, NEW fails, DecideRows(verdict, fails) PROVE FALSE
  BY <1>3 DEF DecideRows, MidCommit
<1>4. CASE LiveWrites
  <2>1. UNCHANGED <<live, source, clock>> /\ pc' = "auditing" /\ pc = "writing"
    BY <1>4 DEF LiveWrites, WriteLiveMentions, jobVars
  <2>2. LiveRetired' = LiveRetired
    BY <2>1 DEF LiveRetired, Current
  <2>3. LiveRetired \subseteq Item /\ DOMAIN live.verdict \subseteq Item
    BY <2>1 DEF LiveRetired, Books, LiveBooks, LivePlaces, Files
  <2> QED BY <1>4, <2>1, <2>2, <2>3, LiveWriteOf DEF LiveWritten
<1>5. CASE LiveAudits
  <2>1. /\ UNCHANGED <<live, source, clock, mentions, stored, answer, gone>>
        /\ pc = "auditing" /\ pc' = "failing" /\ audit' = Recorded(clock, live.verdict)
    BY <1>5 DEF LiveAudits, WriteLiveAudit, jobVars, liveVars, history
  <2>2. LiveRetired' = LiveRetired
    BY <2>1 DEF LiveRetired, Current
  <2>3. DOMAIN live.verdict \subseteq Item
    BY <2>1 DEF Books, LiveBooks, LivePlaces, Files
  <2>4. ASSUME NEW i \in DOMAIN live.verdict PROVE Agree(i)'
    <3>1. /\ answer[i] = clock
          /\ stored[i] = IF live.verdict[i] \in Publishable THEN clock ELSE 0
      BY <2>1 DEF LiveWritten, MidCommit
    <3>2. audit'[i] = [by |-> clock, answer |-> clock,
                      names |-> IF live.verdict[i] \in Publishable THEN clock ELSE 0]
      BY <2>1, <2>3 DEF Recorded, Marks
    <3> QED BY <2>1, <3>1, <3>2 DEF Agree
  <2> QED BY <2>1, <2>2, <2>4 DEF LiveWritten, MidCommit
<1>6. CASE MergeLiveFailures /\ UNCHANGED Tags
  <2>1. /\ UNCHANGED <<live, source, clock, mentions, stored, answer, audit, gone>>
        /\ pc = "failing" /\ pc' = "saving" /\ failures' = FailuresNow
    BY <1>6 DEF MergeLiveFailures, jobVars, liveVars, history, Tags
  <2>2. LiveRetired' = LiveRetired /\ \A i : Agree(i)' <=> Agree(i)
    BY <2>1 DEF LiveRetired, Current, Agree
  <2>3. \A i \in DOMAIN live.verdict : live.verdict[i] # "SUCCESS" => i \in failures'
    BY <2>1 DEF FailuresNow, LiveDecided, Books, LiveBooks, LivePlaces
  <2> QED BY <2>1, <2>2, <2>3 DEF LiveWritten, MidCommit
<1>7. CASE UNCHANGED vars2
  BY <1>7 DEF LiveWritten, MidCommit, LiveRetired, Current, Agree, vars2, vars, liveVars, history
<1> QED BY <1>1, <1>2, <1>3, <1>4, <1>5, <1>6, <1>7, RunSteps

LEMMA LiveKeptStep ==
  TagsInv /\ LiveWritten /\ LiveKept /\ [ReplayNext]_vars2 => LiveKept'
<1> SUFFICES ASSUME TagsInv, LiveWritten, LiveKept, [ReplayNext]_vars2, pc' \in LivePlaces
             PROVE  LiveKept'
  BY DEF LiveKept
<1> USE DEF TagsInv
<1>0. Files
  BY DEF Books
<1>1. CASE LiveStarts
  <2>1. PICK force \in BOOLEAN : StartLive(force)
    BY <1>1 DEF LiveStarts
  <2> DEFINE todo == LivePending(force)
             p    == First(todo)
  <2>2. todo \in SUBSET Partition /\ todo # {} /\ live' = Visit(force, todo)
    BY <2>1 DEF StartLive, LivePending
  <2>3. /\ p \in todo /\ live'.force = force /\ live'.todo = todo
        /\ live'.prior = LiveDone(force, p) /\ DOMAIN live'.verdict = {}
    BY <1>0, <2>2, VisitShape
  <2>4. Current' = p
    BY <2>3 DEF Current, First
  <2>5. UNCHANGED registry /\ (force => HasDone(Partition) \subseteq forgot')
    BY <2>1 DEF StartLive
  <2>6. force => \A q \in todo : q \in forgot' \/ registry[q].ids = {}
    BY <2>2, <2>5 DEF HasDone
  <2> QED BY <2>3, <2>4, <2>5, <2>6 DEF LiveKept, LiveKnown, LiveDone
<1>2. ASSUME NEW rows \in SUBSET live.rows, NEW verdict \in [rows -> Outcomes \cap Verdicts],
             NEW fails \in BOOLEAN, DecideRows(verdict, fails), UNCHANGED Tags
      PROVE  LiveKept'
  <2>1. /\ live'.force = live.force /\ live'.todo = live.todo /\ live'.prior = live.prior
        /\ live'.verdict = Also(verdict) /\ pc = "deciding"
        /\ UNCHANGED <<registry, failures, gone, forgot>>
    BY <1>2 DEF DecideRows, Books, LiveBooks, history
  <2>2. Current' = Current
    BY <2>1 DEF Current
  <2>3. \A i \in DOMAIN live.verdict :
          i \in DOMAIN live'.verdict /\ live'.verdict[i] = live.verdict[i]
    BY <2>1 DEF Also, Books, LiveBooks, LivePlaces
  <2> QED BY <2>1, <2>2, <2>3 DEF LiveKept, LiveKnown, LivePlaces
<1>3. ASSUME UNCHANGED <<live, registry, forgot>>, pc \in LivePlaces,
             \A i \in live.prior : i \in gone => i \in gone',
             \A i \in DOMAIN live.verdict :
               live.verdict[i] # "SUCCESS" /\ i \in failures => i \in failures'
      PROVE  LiveKept'
  BY <1>3 DEF LiveKept, LiveKnown, Current
<1>4. CASE LiveWrites
  <2>1. UNCHANGED <<live, registry, forgot, failures>> /\ pc = "writing"
    BY <1>4 DEF LiveWrites, WriteLiveMentions
  <2>2. live.prior \subseteq Item /\ live.prior \cap DOMAIN live.verdict = {}
    BY <2>1 DEF Books, LiveBooks, LivePlaces
  <2> QED BY <1>3, <1>4, <2>1, <2>2, LiveWriteOf DEF LivePlaces
<1>5. CASE LiveAudits
  BY <1>3, <1>5 DEF LiveAudits, WriteLiveAudit, liveVars, history, LivePlaces
<1>6. CASE MergeLiveFailures /\ UNCHANGED Tags
  BY <1>3, <1>6 DEF MergeLiveFailures, FailuresNow, LiveDecided, liveVars, history, LivePlaces
<1>7. CASE SaveLiveRegistry /\ UNCHANGED Tags
  <2>1. /\ pc = "saving" /\ UNCHANGED <<source, gone, forgot, failures>>
        /\ registry' = [registry EXCEPT ![Current] = LiveEntry] /\ Current \in live.todo
        /\ live.todo \subseteq Partition /\ live.force \in BOOLEAN /\ MidCommit
    BY <1>7 DEF SaveLiveRegistry, jobVars, history, Books, LiveBooks, LivePlaces, MidCommit
  <2>2. /\ \A i : i \in registry'[Current].ids <=>
               i \in source[Current] /\ (i \in live.prior \/ i \in DOMAIN live.verdict)
        /\ \A q \in Partition \ {Current} : registry'[q] = registry[q]
    BY <1>0, <2>1 DEF LiveEntry, Files
  <2>3. CASE live' = live
    <3>1. \A i \in live.prior : i \in registry'[Current].ids \/ i \in gone
      BY <2>1, <2>2 DEF LiveWritten, LiveRetired
    <3>2. LiveKnown(Current)'
      BY <2>1, <2>2, <2>3 DEF LiveKnown, LiveWritten, Current
    <3>3. Current' = Current
      BY <2>3 DEF Current
    <3> QED BY <2>1, <2>2, <2>3, <3>1, <3>2, <3>3 DEF LiveKept, LivePlaces
  <2>4. CASE live' = Visit(live.force, live.todo \ {Current}) /\ live' # NoLive
    <3> DEFINE force == live.force
               todo  == live.todo \ {Current}
               p     == First(todo)
    <3>1. force \in BOOLEAN /\ todo \in SUBSET Partition /\ todo # {}
          /\ live' = Visit(force, todo)
      BY <2>1, <2>4 DEF Visit
    <3>2. ASSUME NEW f \in BOOLEAN, f = force
          PROVE  /\ p \in todo /\ live'.force = f /\ live'.todo = todo
                 /\ live'.prior = LiveDone(f, p) /\ DOMAIN live'.verdict = {}
      <4> HIDE DEF todo, force
      <4> QED BY <1>0, <3>1, <3>2, VisitShape
    <3>3. /\ p \in todo /\ live'.force = force /\ live'.todo = todo
          /\ live'.prior = LiveDone(force, p) /\ DOMAIN live'.verdict = {}
      BY <3>1, <3>2
    <3>4. Current' = p
      BY <3>3 DEF Current, First
    <3>5. p \in Partition \ {Current} /\ registry'[p] = registry[p]
      BY <2>1, <2>2, <3>3
    <3>6. force => \A q \in todo : q \in forgot' \/ registry'[q].ids = {}
      BY <2>1, <2>2 DEF LiveKept, LivePlaces
    <3> HIDE DEF force, todo
    <3> QED BY <3>3, <3>4, <3>5, <3>6 DEF LiveKept, LiveKnown, LiveDone
  <2> QED BY <1>7, <2>3, <2>4 DEF SaveLiveRegistry, LivePlaces
<1>8. CASE UNCHANGED vars2
  BY <1>8 DEF LiveKept, LiveKnown, Current, vars2, vars, liveVars, history
<1> QED BY <1>1, <1>2, <1>4, <1>5, <1>6, <1>7, <1>8, RunSteps

(***************************************************************************)
(* What the registry knows of the partitions a job has claimed.            *)
(***************************************************************************)
JobKnown(p) ==
  \A i \in registry[p].ids :
    \/ i \in job.claims[p].prior
    \/ DecidedRow(i) /\ (job.rows[i] # "SUCCESS" => i \in failures)

JobKept ==
  \A p \in Claimed \ loose :
    /\ job.claims[p].prior \subseteq registry[p].ids \cup gone
    /\ p \notin job.forced \/ p \notin forgot => JobKnown(p)

LEMMA JobKeptInit == ReplayInit => JobKept
BY NoJobClaims DEF ReplayInit, LiveInit, Init, JobKept

LEMMA JobKeptStep ==
  TagsInv /\ Finalized /\ JobKept /\ [ReplayNext]_vars2 => JobKept'
<1> SUFFICES ASSUME TagsInv, Finalized, JobKept, [ReplayNext]_vars2, NEW p \in (Claimed \ loose)'
             PROVE  /\ job'.claims[p].prior \subseteq registry'[p].ids \cup gone'
                    /\ p \notin job'.forced \/ p \notin forgot' => JobKnown(p)'
  BY DEF JobKept
<1> USE DEF TagsInv
<1> DEFINE Goal == /\ job'.claims[p].prior \subseteq registry'[p].ids \cup gone'
                   /\ p \notin job'.forced \/ p \notin forgot' => JobKnown(p)'
<1>0. Files /\ JobBooks
  BY DEF Books
<1>1. CASE JobStarts
  <2>1. /\ UNCHANGED registry /\ p \in Claimable /\ job'.claims[p].prior = Done(p)
        /\ job'.forced = backlog \cap Claimable /\ Claimable \subseteq Partition
        /\ HasDone(job'.forced) \subseteq forgot'
    BY <1>1 DEF JobStarts, StartJob, Claimable, Pending
  <2> QED BY <2>1 DEF JobKnown, Done, HasDone
<1>2. ASSUME job'.claims = job.claims, job'.forced = job.forced,
             \A i : DecidedRow(i) => DecidedRow(i)' /\ job'.rows[i] = job.rows[i],
             registry'[p] = registry[p], loose \subseteq loose', forgot \subseteq forgot',
             \A i \in job.claims[p].prior : i \in gone => i \in gone',
             \A i : DecidedRow(i) /\ Home[i] = p /\ job.rows[i] # "SUCCESS" /\ i \in failures
                    => i \in failures'
      PROVE  Goal
  <2>1. p \in Claimed \ loose /\ p \in Partition
    BY <1>0, <1>2 DEF JobBooks
  <2>2. \A i \in registry[p].ids : Home[i] = p
    BY <1>0, <2>1 DEF Files
  <2> QED BY <1>2, <2>1, <2>2 DEF JobKept, JobKnown
<1>3. ASSUME NEW m \in months, SaveRegistryShard(m), UNCHANGED <<liveVars, Tags>> PROVE Goal
  <2>1. UNCHANGED <<job, source, failures, gone, loose, forgot>> /\ pc = "registering"
    BY <1>3 DEF SaveRegistryShard, liveVars, history
  <2>2. p \in Claimed \ loose /\ p \in Partition
    BY <1>0, <2>1 DEF JobBooks
  <2>3. \A i : DecidedRow(i)' <=> DecidedRow(i)
    BY <2>1 DEF DecidedRow
  <2>4. CASE p \in MonthClaims(m)
    <3>1. \A i : i \in registry'[p].ids =>
            i \in source[p] /\ (i \in job.claims[p].prior \/ DecidedRow(i))
      <4>1. registry'[p] = CompletionEntry(p)
        BY <1>3, <2>2, <2>4 DEF SaveRegistryShard
      <4>2. \A i : i \in Terminal(MonthOf[p]) => DecidedRow(i)
        BY <2>1, RowsOfMonth DEF Finalizing
      <4> QED BY <4>1, <4>2 DEF CompletionEntry
    <3>2. job.claims[p].prior \cap source[p] \subseteq registry'[p].ids
      BY <1>3, <2>2, <2>4 DEF SaveRegistryShard, CompletionEntry
    <3>3. \A i \in job.claims[p].prior : i \in source[p] \/ i \in gone
      <4>1. \A i \in job.claims[p].prior : i \in Item /\ Home[i] = p
        BY <1>0, <2>2 DEF JobBooks
      <4> QED BY <2>1, <2>2, <4>1 DEF Finalized, JobWritten, Written, Dropped
    <3>4. \A i : DecidedRow(i) /\ job.rows[i] # "SUCCESS" => i \in failures
      BY <2>1 DEF Finalized, JobFailed
    <3> QED BY <2>1, <2>3, <3>1, <3>2, <3>3, <3>4 DEF JobKnown
  <2>5. CASE p \notin MonthClaims(m)
    <3>1. registry'[p] = registry[p]
      BY <1>3, <2>2, <2>5 DEF SaveRegistryShard
    <3> QED BY <1>2, <2>1, <2>3, <3>1
  <2> QED BY <2>4, <2>5
<1>4. CASE MergeRowFailures /\ UNCHANGED <<liveVars, Tags>>
  <2>1. UNCHANGED <<job, registry, gone, loose, forgot>>
        /\ failures' = (failures \ Decided({"SUCCESS"})) \cup Decided(Verdicts \ {"SUCCESS"})
    BY <1>4 DEF MergeRowFailures, liveVars, history
  <2>2. \A i : DecidedRow(i) => DecidedRow(i)'
    BY <2>1 DEF DecidedRow
  <2> QED BY <1>2, <2>1, <2>2 DEF Decided
<1>5. ASSUME NEW outcome \in [DOMAIN job.rows -> Outcomes], FinishRows(outcome),
             UNCHANGED <<liveVars, Tags>>
      PROVE  Goal
  <2>1. /\ job'.claims = job.claims /\ job'.forced = job.forced /\ ~Settled
        /\ UNCHANGED <<registry, failures, gone, loose, forgot>>
    BY <1>0, <1>5 DEF FinishRows, JobBooks, liveVars, history
  <2>2. \A i : ~DecidedRow(i)
    BY <1>0, <2>1 DEF DecidedRow, JobBooks, Open, Verdicts
  <2> QED BY <1>2, <2>1, <2>2
<1>6. CASE JobSteps /\ UNCHANGED <<liveVars, Tags>>
  <2>1. CASE UNCHANGED <<job, registry, failures>>
    BY <1>2, <1>6, <2>1 DEF DecidedRow, liveVars, history
  <2>2. CASE OpenLedger
    BY <1>0, <1>2, <1>6, <2>2 DEF OpenLedger, DecidedRow, JobBooks, liveVars, history
  <2>3. CASE ClearAbandoned
    BY <2>3, NoJobClaims DEF ClearAbandoned
  <2> QED
    BY <1>3, <1>4, <1>5, <1>6, <2>1, <2>2, <2>3
       DEF JobSteps, TrimBacklog, ResumeFinalize, RecordForceRequest, RewriteSource
<1>7. CASE JobWrites
  <2>1. PICK m \in months : /\ WriteMentions(m) /\ Write(jobId, Terminal(m), NewMentions(m))
                           /\ gone' = (gone \ Terminal(m)) \cup Retired(m)
                           /\ UNCHANGED <<loose, forgot>>
    BY <1>7 DEF JobWrites
  <2>2. UNCHANGED <<job, registry, failures>> /\ pc = "publishing"
    BY <2>1 DEF WriteMentions
  <2>3. \A i \in job.claims[p].prior : i \notin Terminal(m)
    BY <1>0, <2>2 DEF JobBooks, Terminal
  <2> QED BY <1>2, <2>1, <2>2, <2>3 DEF DecidedRow
<1>8. CASE JobFinishes
  BY <1>8, NoJobClaims DEF JobFinishes, ClearFinished
<1>9. ASSUME UNCHANGED <<job, registry, failures, gone>>, loose \subseteq loose',
             forgot \subseteq forgot'
      PROVE  Goal
  BY <1>2, <1>9 DEF DecidedRow
<1>10. CASE JobAbandoned \/ (JobCrash /\ UNCHANGED Tags)
  BY <1>9, <1>10 DEF JobAbandoned, AbandonJob, JobCrash, Crash, liveVars, history
<1>11. ASSUME pc \in LivePlaces, UNCHANGED <<job, loose>>
       PROVE  /\ p # Current
              /\ \A i \in DOMAIN live.verdict : Home[i] = Current
              /\ \A i \in job.claims[p].prior : Home[i] = p
  BY <1>0, <1>11 DEF Books, LiveBooks, LivePlaces, Files, JobBooks
<1>12. CASE LiveWrites
  <2>1. UNCHANGED <<job, registry, failures, loose, forgot>> /\ pc = "writing"
        /\ gone' = (gone \ DOMAIN live.verdict) \cup LiveRetired
    BY <1>12 DEF LiveWrites, WriteLiveMentions, jobVars
  <2> QED BY <1>2, <1>11, <2>1 DEF DecidedRow, LivePlaces
<1>13. CASE MergeLiveFailures /\ UNCHANGED Tags
  <2>1. UNCHANGED <<job, registry, gone, loose, forgot>> /\ pc = "failing"
        /\ failures' = FailuresNow
    BY <1>13 DEF MergeLiveFailures, jobVars, liveVars, history
  <2> QED BY <1>2, <1>11, <2>1 DEF DecidedRow, LivePlaces, FailuresNow, LiveDecided
<1>14. CASE SaveLiveRegistry /\ UNCHANGED Tags
  <2>1. UNCHANGED <<job, failures, gone, loose, forgot>> /\ pc = "saving"
        /\ registry' = [registry EXCEPT ![Current] = LiveEntry]
    BY <1>14 DEF SaveLiveRegistry, jobVars, history
  <2>2. registry'[p] = registry[p]
    BY <1>0, <1>11, <2>1 DEF Files, LivePlaces
  <2> QED BY <1>2, <2>1, <2>2 DEF DecidedRow
<1>15. CASE LiveStarts \/ LiveAudits \/ (LiveSteps /\ UNCHANGED Tags)
  BY <1>9, <1>13, <1>14, <1>15
     DEF LiveStarts, StartLive, LiveAudits, WriteLiveAudit, LiveSteps, DecideRows, LiveDies,
         jobVars, liveVars, history
<1>16. CASE \/ StartReplay \/ (\E m \in months : ReplayMonth(m)) \/ ReplayAudit \/ EndReplay
            \/ ReplayDies \/ UNCHANGED vars2
  BY <1>9, <1>16
     DEF StartReplay, ReplayMonth, ReplayAudit, EndReplay, ReplayDies, vars2, vars, liveVars,
         history
<1> QED BY <1>1, <1>6, <1>7, <1>8, <1>10, <1>12, <1>15, <1>16 DEF ReplayNext

-----------------------------------------------------------------------------
(***************************************************************************)
(* Lemma: an owed force is forgotten when a job has finished, the rest of  *)
(* the history never.                                                      *)
(***************************************************************************)
LEMMA HistoryGrows ==
  ASSUME Books, [ReplayNext]_vars2
  PROVE  /\ torn \subseteq torn' /\ loose \subseteq loose' /\ forgot \subseteq forgot'
         /\ OwedForce \cap Partition \subseteq OwedForce' \/ JobFinishes
<1>0. JobBooks
  BY DEF Books
<1>1. torn \subseteq torn' /\ loose \subseteq loose' /\ forgot \subseteq forgot'
  BY DEF ReplayNext, JobStarts, JobWrites, JobFinishes, JobAbandoned, JobCrash, LiveStarts,
         StartLive, LiveWrites, WriteLiveMentions, LiveAudits, WriteLiveAudit, LiveSteps,
         DecideRows, MergeLiveFailures, SaveLiveRegistry, LiveDies, StartReplay,
         ReplayMonth, ReplayAudit, EndReplay, ReplayDies, vars2, liveVars, history
<1> SUFFICES ASSUME NEW p \in OwedForce \cap Partition, ~JobFinishes PROVE p \in OwedForce'
  BY <1>1
<1> DEFINE Owed == p \in backlog \/ (job.there /\ p \in job.forced)
<1>2. Owed /\ (Owed' => p \in OwedForce')
  BY DEF OwedForce
<1> SUFFICES Owed'
  BY <1>2
<1>3. CASE JobStarts
  BY <1>0, <1>2, <1>3 DEF JobStarts, StartJob, JobBooks
<1>4. ASSUME backlog \subseteq backlog', job'.there = job.there, job'.forced = job.forced
      PROVE  Owed'
  BY <1>2, <1>4
<1>5. CASE JobSteps
  <2>1. CASE TrimBacklog
    <3>1. /\ backlog' = backlog \ Claimed /\ UNCHANGED job
          /\ job.there /\ backlog \cap Claimed \subseteq job.forced
      BY <1>0, <2>1 DEF TrimBacklog, JobBooks
    <3> QED BY <1>2, <3>1
  <2>2. CASE ClearAbandoned
    <3>1. UNCHANGED backlog /\ job.forced \subseteq backlog
      BY <1>0, <2>2 DEF ClearAbandoned, JobBooks
    <3> QED BY <1>2, <3>1
  <2>3. CASE RecordForceRequest
    <3>1. backlog' = Partition /\ job.forced \subseteq Partition /\ UNCHANGED job
      BY <1>0, <2>3 DEF RecordForceRequest, JobBooks
    <3> QED BY <1>2, <3>1
  <2>4. CASE OpenLedger
    BY <1>0, <1>4, <2>4 DEF OpenLedger, JobBooks
  <2>5. ASSUME NEW outcome \in [DOMAIN job.rows -> Outcomes], FinishRows(outcome) PROVE Owed'
    BY <1>0, <1>4, <2>5 DEF FinishRows, JobBooks
  <2> QED BY <1>4, <1>5, <2>1, <2>2, <2>3, <2>4, <2>5
          DEF JobSteps, ResumeFinalize, MergeRowFailures, SaveRegistryShard, RewriteSource
<1>6. CASE JobWrites \/ JobAbandoned \/ JobCrash
  BY <1>4, <1>6 DEF JobWrites, WriteMentions, JobAbandoned, AbandonJob, RequeueForced,
                    JobCrash, Crash
<1>7. CASE LiveStarts \/ LiveWrites \/ LiveAudits \/ LiveSteps
  BY <1>4, <1>7
     DEF LiveStarts, StartLive, LiveWrites, WriteLiveMentions, LiveAudits, WriteLiveAudit,
         LiveSteps, DecideRows, MergeLiveFailures, SaveLiveRegistry, LiveDies, jobVars
<1>8. CASE \/ StartReplay \/ (\E m \in months : ReplayMonth(m)) \/ ReplayAudit \/ EndReplay
           \/ ReplayDies \/ UNCHANGED vars2
  BY <1>4, <1>8
     DEF StartReplay, ReplayMonth, ReplayAudit, EndReplay, ReplayDies, vars2, vars
<1> QED BY <1>3, <1>5, <1>6, <1>7, <1>8 DEF ReplayNext

(***************************************************************************)
(* What is done agrees with its record, or is about to be recorded.        *)
(***************************************************************************)
Recording(i) ==
  \/ DecidedRow(i)
  \/ pc = "auditing" /\ i \in DOMAIN live.verdict
  \/ i \in changing

RecordsKept ==
  \A p \in Partition \ (OwedForce \cup torn \cup loose) :
    \A i \in registry[p].ids \ gone : Agree(i) \/ Recording(i)

CommitInv == TagsInv /\ Finalized /\ LiveWritten /\ LiveKept /\ JobKept

LEMMA CommitInit == ReplayInit => CommitInv
BY TagsInit, FinalizedInit, LiveInit2, JobKeptInit DEF CommitInv

LEMMA CommitStep == CommitInv /\ [ReplayNext]_vars2 => CommitInv'
BY TagsStep, FinalizedStep, LiveWrittenStep, LiveKeptStep, JobKeptStep DEF CommitInv

LEMMA RecordsKeptInit == ReplayInit => RecordsKept
BY DEF ReplayInit, LiveInit, Init, NoEntry, RecordsKept

LEMMA RecordsKeptStep == CommitInv /\ RecordsKept /\ [ReplayNext]_vars2 => RecordsKept'
<1> SUFFICES ASSUME CommitInv, RecordsKept, [ReplayNext]_vars2,
                    NEW p \in Partition, p \notin (OwedForce \cup torn \cup loose)',
                    NEW i \in registry'[p].ids, i \notin gone'
             PROVE  Agree(i)' \/ Recording(i)'
  BY DEF RecordsKept
<1> USE DEF CommitInv, TagsInv
<1>0. /\ Books /\ Files /\ Files' /\ JobBooks
      /\ i \in Item /\ Home[i] = p
      /\ p \notin torn \cup loose /\ (p \notin OwedForce \/ JobFinishes)
      /\ pc # "replaying" => changing = {}
  BY FilesStep, HistoryGrows DEF Books, Files, LiveBooks
<1>1. ASSUME UNCHANGED registry, ~JobFinishes, i \notin gone PROVE Agree(i) \/ Recording(i)
  BY <1>0, <1>1 DEF RecordsKept
<1>2. ASSUME UNCHANGED <<registry, gone, stored, answer, audit, changing>>, ~JobFinishes,
             DecidedRow(i) => DecidedRow(i)',
             pc # "auditing" \/ UNCHANGED <<pc, live>>
      PROVE  Agree(i)' \/ Recording(i)'
  BY <1>1, <1>2 DEF Agree, Recording
<1>3. CASE JobFinishes
  <2>1. /\ UNCHANGED <<source, registry, gone, stored, answer, changing, backlog>>
        /\ pc = "clearing" /\ job' = NoJob /\ audit' = Recorded(jobId, TerminalVerdicts)
    BY <1>3 DEF JobFinishes, ClearFinished, liveVars, history
  <2>2. job.there /\ job.ledger /\ Settled /\ changing = {} /\ p \notin backlog
    BY <1>0, <2>1 DEF JobBooks, Finalizing, OwedForce
  <2>3. CASE DecidedRow(i)
    <3>1. p \in Claimed
      BY <1>0, <2>3 DEF DecidedRow, JobBooks
    <3>2. i \in source[p] /\ Written(p)
      BY <2>1, <3>1 DEF Finalized, JobSaved, Saved, Written
    <3>3. /\ answer[i] = jobId
          /\ stored[i] = IF job.rows[i] \in Publishable THEN jobId ELSE 0
      BY <1>0, <2>3, <3>2 DEF Finalized, JobWritten, Published
    <3>4. audit[i].by <= jobId
      BY <1>0, <2>2, <3>1 DEF InStep, JobIsLatest
    <3>5. i \in DOMAIN TerminalVerdicts /\ TerminalVerdicts[i] = job.rows[i]
      BY <2>3 DEF DecidedRow, TerminalVerdicts, Verdicts
    <3>6. audit'[i] = [by |-> jobId, answer |-> jobId,
                      names |-> IF job.rows[i] \in Publishable THEN jobId ELSE 0]
      BY <1>0, <2>1, <3>4, <3>5 DEF Recorded
    <3> QED BY <2>1, <3>3, <3>6 DEF Agree
  <2>4. CASE ~DecidedRow(i)
    <3>1. p \notin OwedForce
      <4>1. ASSUME p \in job.forced PROVE FALSE
        <5>1. p \in Claimed /\ job.claims[p].prior = {}
          BY <1>0, <4>1 DEF JobBooks
        <5> QED BY <2>1, <2>4, <5>1 DEF Finalized, JobSaved, Saved
      <4> QED BY <2>2, <4>1 DEF OwedForce
    <3>2. Agree(i)
      BY <1>0, <2>1, <2>2, <2>4, <3>1 DEF RecordsKept, Recording
    <3>3. i \notin DOMAIN TerminalVerdicts
      BY <1>0, <2>2, <2>4 DEF DecidedRow, TerminalVerdicts, Settled, JobBooks, Verdicts
    <3>4. audit'[i] = audit[i]
      BY <1>0, <2>1, <3>3 DEF Recorded
    <3> QED BY <2>1, <3>2, <3>4 DEF Agree
  <2> QED BY <2>3, <2>4
<1>4. CASE JobStarts
  <2>1. ~DecidedRow(i)
    BY <1>0, <1>4 DEF JobStarts, StartJob, DecidedRow, JobBooks
  <2> QED BY <1>2, <1>4, <2>1
          DEF JobStarts, StartJob, JobFinishes, ClearFinished
<1>5. CASE JobWrites
  <2>1. PICK m \in months : /\ WriteMentions(m) /\ Write(jobId, Terminal(m), NewMentions(m))
                           /\ gone' = (gone \ Terminal(m)) \cup Retired(m)
                           /\ UNCHANGED <<audit, changing>>
    BY <1>5 DEF JobWrites
  <2>2. UNCHANGED <<job, registry>> /\ pc = "publishing" /\ ~JobFinishes
    BY <2>1 DEF WriteMentions, JobFinishes, ClearFinished
  <2>3. DecidedRow(i)' <=> DecidedRow(i)
    BY <2>2 DEF DecidedRow
  <2>4. CASE DecidedRow(i)
    BY <2>3, <2>4 DEF Recording
  <2>5. CASE ~DecidedRow(i)
    <3>1. i \notin gone /\ stored'[i] = stored[i] /\ answer'[i] = answer[i]
      BY <1>0, <2>1, <2>5, JobWriteOf
    <3> QED BY <1>1, <2>1, <2>2, <2>5, <3>1 DEF Agree, Recording
  <2> QED BY <2>4, <2>5
<1>6. ASSUME NEW m \in months, SaveRegistryShard(m), UNCHANGED <<liveVars, Tags>>
      PROVE  Agree(i)' \/ Recording(i)'
  <2>1. UNCHANGED <<job, gone, stored, answer, audit, changing>> /\ pc = "registering"
    BY <1>6 DEF SaveRegistryShard, liveVars, history, Tags
  <2>2. (DecidedRow(i)' <=> DecidedRow(i)) /\ ~JobFinishes
    BY <2>1 DEF DecidedRow, JobFinishes, ClearFinished
  <2>3. i \in registry[p].ids \/ DecidedRow(i)
    <3>1. CASE p \in MonthClaims(m)
      <4>1. registry'[p] = CompletionEntry(p) /\ p \in Claimed
        BY <1>6, <3>1 DEF SaveRegistryShard, MonthClaims
      <4>2. i \in Terminal(MonthOf[p]) => DecidedRow(i)
        BY <1>0, <2>1, RowsOfMonth DEF Finalizing
      <4>3. job.claims[p].prior \subseteq registry[p].ids \cup gone
        BY <1>0, <4>1 DEF JobKept
      <4> QED BY <2>1, <4>1, <4>2, <4>3 DEF CompletionEntry
    <3>2. CASE p \notin MonthClaims(m)
      BY <1>6, <3>2 DEF SaveRegistryShard
    <3> QED BY <3>1, <3>2
  <2> QED BY <1>0, <2>1, <2>2, <2>3 DEF RecordsKept, Agree, Recording
<1>7. CASE ClearAbandoned /\ UNCHANGED <<liveVars, Tags>>
  <2>1. ~DecidedRow(i)
    BY <1>0, <1>7 DEF ClearAbandoned, DecidedRow, JobBooks, Open, Verdicts
  <2> QED BY <1>2, <1>7, <2>1 DEF ClearAbandoned, JobFinishes, ClearFinished, liveVars, history,
                                  Tags
<1>8. ASSUME NEW outcome \in [DOMAIN job.rows -> Outcomes], FinishRows(outcome),
             UNCHANGED <<liveVars, Tags>>
      PROVE  Agree(i)' \/ Recording(i)'
  <2>1. ~Settled /\ pc = "idle" /\ UNCHANGED registry
    BY <1>8 DEF FinishRows
  <2>2. ~DecidedRow(i)
    BY <1>0, <2>1 DEF DecidedRow, JobBooks, Open, Verdicts
  <2> QED BY <1>2, <1>8, <2>1, <2>2 DEF JobFinishes, ClearFinished, liveVars, history, Tags
<1>9. CASE JobSteps /\ UNCHANGED <<liveVars, Tags>>
  <2>1. CASE UNCHANGED <<job, registry>> /\ pc \in Places \ {"clearing"}
    BY <1>2, <1>9, <2>1 DEF DecidedRow, JobFinishes, ClearFinished, Places, liveVars, history,
                            Tags
  <2>2. CASE OpenLedger
    BY <1>0, <1>2, <1>9, <2>2
       DEF OpenLedger, DecidedRow, JobBooks, JobFinishes, ClearFinished, liveVars, history, Tags
  <2> QED
    BY <1>6, <1>7, <1>8, <1>9, <2>1, <2>2
       DEF JobSteps, TrimBacklog, ResumeFinalize, MergeRowFailures, RecordForceRequest,
           RewriteSource, Places
<1>10. CASE JobAbandoned \/ (JobCrash /\ UNCHANGED Tags)
  BY <1>2, <1>3, <1>10 DEF JobAbandoned, AbandonJob, JobCrash, Crash, DecidedRow, Places, Tags,
                           liveVars, history
<1>11. CASE LiveStarts
  BY <1>2, <1>3, <1>11 DEF LiveStarts, StartLive, DecidedRow, jobVars
<1>12. CASE LiveWrites
  <2>1. UNCHANGED <<job, registry, live, audit, changing>> /\ pc = "writing" /\ pc' = "auditing"
    BY <1>12 DEF LiveWrites, WriteLiveMentions, jobVars
  <2>2. ~JobFinishes /\ (DecidedRow(i)' <=> DecidedRow(i))
    BY <2>1 DEF DecidedRow, JobFinishes, ClearFinished
  <2>3. CASE i \in DOMAIN live.verdict
    BY <2>1, <2>3 DEF Recording
  <2>4. CASE i \notin DOMAIN live.verdict
    <3>1. i \notin gone /\ stored'[i] = stored[i] /\ answer'[i] = answer[i]
      BY <1>0, <1>12, <2>4, LiveWriteOf
    <3> QED BY <1>1, <2>1, <2>2, <3>1 DEF Agree, Recording
  <2> QED BY <2>3, <2>4
<1>13. CASE LiveAudits
  <2>1. /\ UNCHANGED <<job, registry, live, stored, answer, gone, changing>>
        /\ pc = "auditing" /\ pc' = "failing" /\ audit' = Recorded(clock, live.verdict)
    BY <1>13 DEF LiveAudits, WriteLiveAudit, jobVars, liveVars, history
  <2>2. ~JobFinishes /\ (DecidedRow(i)' <=> DecidedRow(i))
    BY <2>1 DEF DecidedRow, JobFinishes, ClearFinished
  <2>3. CASE i \in DOMAIN live.verdict
    BY <2>1, <2>3, LiveWrittenStep DEF LiveWritten, MidCommit
  <2>4. CASE i \notin DOMAIN live.verdict
    <3>1. audit'[i] = audit[i]
      BY <1>0, <2>1, <2>4 DEF Recorded
    <3> QED BY <1>1, <2>1, <2>2, <2>4, <3>1 DEF Agree, Recording
  <2> QED BY <2>3, <2>4
<1>14. CASE SaveLiveRegistry /\ UNCHANGED Tags
  <2>1. /\ UNCHANGED <<job, gone, stored, answer, audit, changing>> /\ pc = "saving"
        /\ registry' = [registry EXCEPT ![Current] = LiveEntry]
    BY <1>14 DEF SaveLiveRegistry, jobVars, history, Tags
  <2>2. ~JobFinishes /\ (DecidedRow(i)' <=> DecidedRow(i))
    BY <2>1 DEF DecidedRow, JobFinishes, ClearFinished
  <2>3. CASE i \in registry[p].ids
    BY <1>0, <2>1, <2>2, <2>3 DEF RecordsKept, Agree, Recording
  <2>4. CASE i \notin registry[p].ids
    <3>1. p = Current /\ i \in live.prior \cup DOMAIN live.verdict
      BY <1>0, <2>1, <2>4 DEF LiveEntry, Files
    <3>2. i \notin live.prior
      BY <2>1, <2>4, <3>1 DEF LiveKept, LivePlaces
    <3>3. Agree(i)
      BY <2>1, <3>1, <3>2 DEF LiveWritten, MidCommit
    <3> QED BY <2>1, <3>3 DEF Agree
  <2> QED BY <2>3, <2>4
<1>15. CASE LiveDies /\ UNCHANGED Tags
  <2>1. /\ UNCHANGED <<job, registry, gone, stored, answer, audit, changing>>
        /\ pc \in LivePlaces /\ (pc = "auditing" => torn' = torn \cup {Current})
    BY <1>15 DEF LiveDies, Tags, LivePlaces, MidCommit
  <2>2. ~JobFinishes /\ (DecidedRow(i)' <=> DecidedRow(i))
    BY <2>1 DEF DecidedRow, JobFinishes, ClearFinished, LivePlaces
  <2>3. pc = "auditing" => i \notin DOMAIN live.verdict
    BY <1>0, <2>1 DEF Books, LiveBooks, LivePlaces, Files
  <2> QED BY <1>1, <2>1, <2>2, <2>3 DEF Agree, Recording
<1>16. CASE LiveSteps /\ UNCHANGED Tags
  BY <1>2, <1>3, <1>14, <1>15, <1>16
     DEF LiveSteps, DecideRows, MergeLiveFailures, DecidedRow, jobVars, liveVars, history, Tags,
         JobFinishes, ClearFinished
<1>17. CASE StartReplay
  <2>1. pc = "idle" /\ UNCHANGED <<job, registry, gone, stored, answer, audit>> /\ ~JobFinishes
    BY <1>17 DEF StartReplay, liveVars, history, JobFinishes, ClearFinished
  <2> QED BY <1>0, <1>1, <2>1 DEF Agree, Recording, DecidedRow
<1>18. ASSUME NEW m \in months, ReplayMonth(m) PROVE Agree(i)' \/ Recording(i)'
  <2>1. PICK items \in SUBSET Replayable(m) :
           /\ changing' = items
           /\ stored' = [k \in Item |-> IF k \in items THEN clock ELSE stored[k]]
           /\ answer' = [k \in Item |-> IF k \in items THEN audit[k].answer ELSE answer[k]]
    BY <1>18 DEF ReplayMonth
  <2>2. /\ UNCHANGED <<job, registry, gone, audit, pc>> /\ pc = "replaying"
        /\ changing = {} /\ ~JobFinishes
    BY <1>18 DEF ReplayMonth, liveVars, history, JobFinishes, ClearFinished
  <2>3. i \in items \/ (stored'[i] = stored[i] /\ answer'[i] = answer[i])
    BY <1>0, <2>1
  <2> QED BY <1>1, <2>1, <2>2, <2>3 DEF Agree, Recording, DecidedRow
<1>19. CASE ReplayAudit
  <2>1. /\ UNCHANGED <<job, registry, gone, stored, answer, pc>> /\ pc = "replaying"
        /\ ~JobFinishes
    BY <1>19 DEF ReplayAudit, vars, liveVars, history, JobFinishes, ClearFinished
  <2>2. audit'[i] = IF i \in changing
                    THEN [by |-> clock, names |-> clock, answer |-> audit[i].answer]
                    ELSE audit[i]
    BY <1>0, <1>19 DEF ReplayAudit
  <2>3. i \in changing => stored[i] = clock /\ audit[i].answer = answer[i]
    BY <1>0 DEF InStep
  <2> QED BY <1>1, <2>1, <2>2, <2>3 DEF Agree, Recording, DecidedRow
<1>20. CASE EndReplay \/ ReplayDies
  <2>1. /\ UNCHANGED <<job, registry, gone, stored, answer, audit>> /\ pc = "replaying"
        /\ i \notin changing /\ ~JobFinishes
    BY <1>0, <1>20 DEF EndReplay, ReplayDies, liveVars, history, JobFinishes, ClearFinished
  <2> QED BY <1>1, <2>1 DEF Agree, Recording, DecidedRow
<1>21. CASE UNCHANGED vars2
  BY <1>2, <1>3, <1>21 DEF DecidedRow, vars2, vars, liveVars, history
<1> QED BY <1>3, <1>4, <1>5, <1>9, <1>10, <1>11, <1>12, <1>13, <1>16, <1>17, <1>18, <1>19,
           <1>20, <1>21 DEF ReplayNext

(* Theorem: the newest record of an item names the mentions that are stored   *)
(* and the answers they were made from (replay.py:247-251), for every done    *)
(* row that no job has claimed and no force is owed, unless a run died or a   *)
(* job was given up between the mentions and the record.  A write of mentions *)
(* precedes the row's entry in the registry and the record follows before the *)
(* marker is cleared or the commit ends (live.py:88-116, batch.py:795-812).   *)
THEOREM RecordsNameWhatIsStored == ReplaySpec => []RecordNamesStored
<1>1. ReplayInit => CommitInv /\ RecordsKept
  BY CommitInit, RecordsKeptInit
<1>2. CommitInv /\ RecordsKept /\ [ReplayNext]_vars2 => CommitInv' /\ RecordsKept'
  BY CommitStep, RecordsKeptStep
<1>3. CommitInv /\ RecordsKept => RecordNamesStored
  <2> SUFFICES ASSUME CommitInv, RecordsKept, pc = "idle",
                      NEW p \in Partition \ (OwedForce \cup Claimed \cup torn \cup loose),
                      NEW i \in registry[p].ids \ gone
               PROVE  Agree(i)
    BY DEF RecordNamesStored, Agree
  <2>1. changing = {}
    BY DEF CommitInv, TagsInv, Books, LiveBooks
  <2>2. ~DecidedRow(i)
    BY DEF DecidedRow, CommitInv, TagsInv, Books, Files, JobBooks
  <2> QED BY <2>1, <2>2 DEF RecordsKept, Recording
<1> QED BY <1>1, <1>2, <1>3, PTL DEF ReplaySpec

-----------------------------------------------------------------------------
(***************************************************************************)
(* An item's record holds the answers its mentions were made from, or is   *)
(* about to, but where a run or a job left the two apart for good.         *)
(***************************************************************************)
RecordDue(i) == DecidedRow(i) \/ (pc = "auditing" /\ i \in DOMAIN live.verdict)

AnswersRecorded ==
  \A i \in Item :
    Home[i] \in torn \cup loose \/ audit[i].answer = answer[i] \/ RecordDue(i)

LEMMA AnswersRecordedInit == ReplayInit => AnswersRecorded
BY DEF ReplayInit, NoRecord, AnswersRecorded

LEMMA AnswersRecordedStep ==
  CommitInv /\ AnswersRecorded /\ [ReplayNext]_vars2 => AnswersRecorded'
<1> SUFFICES ASSUME CommitInv, AnswersRecorded, [ReplayNext]_vars2,
                    NEW i \in Item, Home[i] \notin (torn \cup loose)'
             PROVE  audit'[i].answer = answer'[i] \/ RecordDue(i)'
  BY DEF AnswersRecorded
<1> USE DEF CommitInv, TagsInv
<1>0. /\ JobBooks
      /\ Home[i] \notin torn \cup loose
      /\ audit[i].answer = answer[i] \/ RecordDue(i)
  BY HistoryGrows DEF Books, AnswersRecorded
<1>1. ASSUME UNCHANGED <<answer, audit>>, DecidedRow(i) => DecidedRow(i)',
             pc # "auditing" \/ UNCHANGED <<pc, live>>
      PROVE  audit'[i].answer = answer'[i] \/ RecordDue(i)'
  BY <1>0, <1>1 DEF RecordDue
<1>2. CASE JobStarts
  <2>1. ~DecidedRow(i)
    BY <1>0, <1>2 DEF JobStarts, StartJob, DecidedRow, JobBooks
  <2> QED BY <1>1, <1>2, <2>1 DEF JobStarts, StartJob
<1>3. CASE JobWrites
  <2>1. PICK m \in months : /\ WriteMentions(m) /\ Write(jobId, Terminal(m), NewMentions(m))
                           /\ gone' = (gone \ Terminal(m)) \cup Retired(m)
                           /\ UNCHANGED audit
    BY <1>3 DEF JobWrites
  <2>2. UNCHANGED job /\ pc = "publishing"
    BY <2>1 DEF WriteMentions
  <2>3. DecidedRow(i)' <=> DecidedRow(i)
    BY <2>2 DEF DecidedRow
  <2>4. ~DecidedRow(i) => answer'[i] = answer[i]
    BY <2>1, JobWriteOf
  <2> QED BY <1>0, <2>1, <2>2, <2>3, <2>4 DEF RecordDue
<1>4. CASE JobFinishes
  <2>1. /\ UNCHANGED answer /\ pc = "clearing" /\ audit' = Recorded(jobId, TerminalVerdicts)
    BY <1>4 DEF JobFinishes, ClearFinished
  <2>2. job.there /\ job.ledger /\ Settled
    BY <1>0, <2>1 DEF JobBooks, Finalizing
  <2>3. CASE DecidedRow(i)
    <3>1. Home[i] \in Claimed /\ Written(Home[i])
      BY <1>0, <2>1, <2>3 DEF DecidedRow, JobBooks, Written
    <3>2. answer[i] = jobId
      BY <2>3, <3>1 DEF Finalized, JobWritten
    <3>3. audit[i].by <= jobId
      BY <1>0, <2>2, <3>1 DEF InStep, JobIsLatest
    <3>4. i \in DOMAIN TerminalVerdicts
      BY <2>3 DEF DecidedRow, TerminalVerdicts, Verdicts
    <3> QED BY <2>1, <3>2, <3>3, <3>4 DEF Recorded
  <2>4. CASE ~DecidedRow(i)
    <3>1. i \notin DOMAIN TerminalVerdicts
      BY <1>0, <2>2, <2>4 DEF DecidedRow, TerminalVerdicts, Settled, JobBooks, Verdicts
    <3> QED BY <1>0, <2>1, <2>4, <3>1 DEF Recorded, RecordDue
  <2> QED BY <2>3, <2>4
<1>5. CASE ClearAbandoned /\ UNCHANGED Tags
  <2>1. ~DecidedRow(i)
    BY <1>0, <1>5 DEF ClearAbandoned, DecidedRow, JobBooks, Verdicts, Open
  <2> QED BY <1>1, <1>5, <2>1 DEF ClearAbandoned, Tags
<1>6. ASSUME NEW outcome \in [DOMAIN job.rows -> Outcomes], FinishRows(outcome), UNCHANGED Tags
      PROVE  audit'[i].answer = answer'[i] \/ RecordDue(i)'
  <2>1. ~DecidedRow(i) /\ pc = "idle"
    BY <1>0, <1>6 DEF FinishRows, DecidedRow, JobBooks, Verdicts, Open
  <2> QED BY <1>1, <1>6, <2>1 DEF Tags
<1>7. CASE JobSteps /\ UNCHANGED <<liveVars, Tags>>
  <2>1. CASE OpenLedger
    BY <1>1, <1>7, <2>1 DEF OpenLedger, DecidedRow, JobBooks, Tags
  <2> QED
    BY <1>1, <1>5, <1>6, <1>7, <2>1
       DEF JobSteps, TrimBacklog, ResumeFinalize, MergeRowFailures, SaveRegistryShard,
           RecordForceRequest, RewriteSource, DecidedRow, Tags
<1>8. CASE JobAbandoned \/ (JobCrash /\ UNCHANGED Tags)
  BY <1>1, <1>8 DEF JobAbandoned, AbandonJob, JobCrash, Crash, Places, DecidedRow, Tags
<1>9. CASE LiveStarts
  BY <1>1, <1>9 DEF LiveStarts, StartLive, DecidedRow, jobVars
<1>10. CASE LiveWrites
  <2>1. UNCHANGED <<job, live, audit>> /\ pc = "writing" /\ pc' = "auditing"
    BY <1>10 DEF LiveWrites, WriteLiveMentions, jobVars
  <2>2. i \notin DOMAIN live.verdict => answer'[i] = answer[i]
    BY <1>10, LiveWriteOf
  <2> QED BY <1>0, <2>1, <2>2 DEF RecordDue, DecidedRow
<1>11. CASE LiveAudits
  <2>1. /\ UNCHANGED <<job, live, answer>> /\ pc = "auditing" /\ pc' = "failing"
        /\ audit' = Recorded(clock, live.verdict)
    BY <1>11 DEF LiveAudits, WriteLiveAudit, jobVars, liveVars
  <2>2. i \in DOMAIN live.verdict => answer[i] = clock /\ audit[i].by <= clock
    BY <2>1 DEF LiveWritten, MidCommit, Marks
  <2> QED BY <1>0, <2>1, <2>2 DEF Recorded, RecordDue, DecidedRow
<1>12. CASE LiveDies /\ UNCHANGED Tags
  <2>1. UNCHANGED <<job, answer, audit>> /\ pc \in LivePlaces
        /\ (pc = "auditing" => torn' = torn \cup {Current})
    BY <1>12 DEF LiveDies, jobVars, Tags, LivePlaces, MidCommit
  <2>2. pc = "auditing" => i \notin DOMAIN live.verdict
    BY <2>1 DEF Books, LiveBooks, Files, ItemsOf
  <2> QED BY <1>0, <2>1, <2>2 DEF RecordDue, DecidedRow
<1>13. CASE LiveSteps /\ UNCHANGED Tags
  BY <1>1, <1>12, <1>13
     DEF LiveSteps, DecideRows, MergeLiveFailures, SaveLiveRegistry, DecidedRow, jobVars, Tags
<1>14. ASSUME NEW m \in months, ReplayMonth(m)
       PROVE  audit'[i].answer = answer'[i] \/ RecordDue(i)'
  <2>1. PICK items \in SUBSET Replayable(m) :
           answer' = [k \in Item |-> IF k \in items THEN audit[k].answer ELSE answer[k]]
    BY <1>14 DEF ReplayMonth
  <2> QED BY <1>0, <1>14, <2>1 DEF ReplayMonth, RecordDue, DecidedRow
<1>15. CASE ReplayAudit
  <2>1. UNCHANGED <<job, answer, pc>> /\ pc = "replaying" /\ audit'[i].answer = audit[i].answer
    BY <1>15 DEF ReplayAudit, vars
  <2> QED BY <1>0, <2>1 DEF RecordDue, DecidedRow
<1>16. CASE StartReplay \/ EndReplay \/ ReplayDies
  BY <1>1, <1>16 DEF StartReplay, EndReplay, ReplayDies, DecidedRow
<1>17. CASE UNCHANGED vars2
  BY <1>1, <1>17 DEF vars2, vars, liveVars, DecidedRow
<1> QED BY <1>2, <1>3, <1>4, <1>7, <1>8, <1>9, <1>10, <1>11, <1>13, <1>14, <1>15, <1>16, <1>17
        DEF ReplayNext

LEMMA AnswersOnlyGrow ==
  CommitInv /\ AnswersRecorded /\ [ReplayNext]_vars2 =>
    [\A i \in Item : answer'[i] < answer[i] => Home[i] \in torn \cup loose]_vars2
<1> SUFFICES ASSUME CommitInv, AnswersRecorded, ReplayNext, NEW i \in Item
             PROVE  answer'[i] < answer[i] => Home[i] \in torn \cup loose
  OBVIOUS
<1> USE DEF CommitInv, TagsInv
<1>0. answer[i] \in Nat /\ clock \in Nat /\ jobId \in Nat /\ answer[i] <= clock
  BY DEF Marks
<1>1. CASE UNCHANGED answer
  BY <1>0, <1>1
<1>2. CASE JobWrites
  <2>1. PICK m \in months : WriteMentions(m) /\ Write(jobId, Terminal(m), NewMentions(m))
    BY <1>2 DEF JobWrites
  <2>2. pc = "publishing" /\ job.there
    BY <2>1 DEF WriteMentions, Books, JobBooks, Finalizing
  <2>3. CASE i \in Terminal(m)
    <3>1. Home[i] \in Claimed
      BY <2>3 DEF Terminal, Books, JobBooks
    <3>2. answer'[i] = jobId
      BY <2>1, <2>3 DEF Write
    <3> QED BY <1>0, <2>2, <3>1, <3>2 DEF InStep, JobIsLatest
  <2>4. CASE i \notin Terminal(m)
    BY <1>0, <2>1, <2>4 DEF Write
  <2> QED BY <2>3, <2>4
<1>3. CASE LiveWrites
  BY <1>0, <1>3 DEF LiveWrites, Write
<1>4. ASSUME NEW m \in months, ReplayMonth(m)
      PROVE  answer'[i] < answer[i] => Home[i] \in torn \cup loose
  <2>1. PICK items \in SUBSET Replayable(m) :
           answer' = [k \in Item |-> IF k \in items THEN audit[k].answer ELSE answer[k]]
    BY <1>4 DEF ReplayMonth
  <2>2. CASE i \in items
    <3>1. Home[i] \notin Claimed /\ pc = "replaying"
      BY <1>4, <2>2 DEF Replayable, ReplayMonth, Books, Files
    <3>2. ~RecordDue(i)
      BY <3>1 DEF RecordDue, DecidedRow, Books, JobBooks
    <3>3. Home[i] \in torn \cup loose \/ answer'[i] = answer[i]
      BY <2>1, <2>2, <3>2 DEF AnswersRecorded
    <3> QED BY <1>0, <3>3
  <2>3. CASE i \notin items
    BY <1>0, <2>1, <2>3
  <2> QED BY <2>2, <2>3
<1> QED
  BY <1>1, <1>2, <1>3, <1>4
     DEF ReplayNext, JobStarts, JobFinishes, JobAbandoned, LiveStarts, LiveAudits, Tags,
         StartReplay, ReplayAudit, EndReplay, ReplayDies

(* Theorem: no job, live run or replay overwrites what a younger run decided, *)
(* whatever ids the runs' mentions get, but where a run died or a job was     *)
(* given up between mentions and records, or a live run was forced over a     *)
(* claim or died forced (live.py:88-91, replay.py:283-286, 332-337).  A job   *)
(* keeps to what it claimed, which others leave alone; a replay writes what   *)
(* the newest record holds, which is the answers the mentions came from.      *)
THEOREM NothingNewerIsOverwritten == ReplaySpec => NoStaleOverwrite
<1>1. ReplayInit => CommitInv /\ AnswersRecorded
  BY CommitInit, AnswersRecordedInit
<1>2. CommitInv /\ AnswersRecorded /\ [ReplayNext]_vars2 => CommitInv' /\ AnswersRecorded'
  BY CommitStep, AnswersRecordedStep
<1> QED BY <1>1, <1>2, AnswersOnlyGrow, PTL DEF ReplaySpec, NoStaleOverwrite

-----------------------------------------------------------------------------
(***************************************************************************)
(* Lemma: what is done has mentions or a failure on record.                *)
(***************************************************************************)
LEMMA DoneInit == ReplayInit => DoneIsOnRecordLive
BY DEF ReplayInit, LiveInit, Init, NoEntry, DoneIsOnRecordLive

LEMMA DoneStep ==
  CommitInv /\ DoneIsOnRecordLive /\ [ReplayNext]_vars2 => DoneIsOnRecordLive'
<1> SUFFICES ASSUME CommitInv, DoneIsOnRecordLive, [ReplayNext]_vars2,
                    NEW p \in Partition, p \notin (OwedForce \cup loose)',
                    ~(HalfForced /\ p = Current)',
                    NEW i \in registry'[p].ids, i \notin gone'
             PROVE  i \in mentions' \cup failures'
  BY DEF DoneIsOnRecordLive
<1> USE DEF CommitInv, TagsInv
<1>0. /\ Books /\ Files /\ Files' /\ JobBooks
      /\ i \in Item /\ Home[i] = p
      /\ p \notin loose /\ (p \notin OwedForce \/ JobFinishes)
  BY FilesStep, HistoryGrows DEF Books, Files
<1>1. ASSUME i \in registry[p].ids, i \notin gone, p \notin OwedForce, ~(HalfForced /\ p = Current)
      PROVE  i \in mentions \cup failures
  BY <1>0, <1>1 DEF DoneIsOnRecordLive
<1>2. ASSUME UNCHANGED <<registry, gone, failures>>, mentions \subseteq mentions', ~JobFinishes,
             ~(HalfForced /\ p = Current)
      PROVE  i \in mentions' \cup failures'
  BY <1>0, <1>1, <1>2
<1>3. DecidedRow(i) => /\ p \in Claimed /\ i \notin job.claims[p].prior
                       /\ job.rows[i] \in Publishable \/ job.rows[i] # "SUCCESS"
  BY <1>0 DEF DecidedRow, JobBooks, Publishable
<1>4. ASSUME pc \in LivePlaces
      PROVE  /\ \A k \in DOMAIN live.verdict : /\ Home[k] = Current /\ k \notin live.prior
                                             /\ live.verdict[k] \in Verdicts
             /\ \A k \in live.prior : Home[k] = Current
             /\ live.force \in BOOLEAN /\ (live.force => live.prior = {})
  BY <1>0, <1>4 DEF Books, LiveBooks, LivePlaces, Files
<1>5. ~MidCommit => ~HalfForced
  BY DEF HalfForced
<1>6. CASE JobFinishes
  <2>1. /\ UNCHANGED <<source, registry, gone, mentions, failures, backlog>>
        /\ pc = "clearing" /\ job' = NoJob
    BY <1>6 DEF JobFinishes, ClearFinished, liveVars, history
  <2>2. CASE DecidedRow(i)
    <3>1. i \in source[p] /\ Written(p)
      BY <1>3, <2>1, <2>2 DEF Finalized, JobSaved, Saved, Written
    <3>2. i \in mentions <=> job.rows[i] \in Publishable
      BY <1>0, <2>2, <3>1 DEF Finalized, JobWritten, Published
    <3>3. job.rows[i] # "SUCCESS" => i \in failures
      BY <2>1, <2>2 DEF Finalized, JobFailed
    <3> QED BY <1>3, <2>1, <2>2, <3>2, <3>3
  <2>3. CASE ~DecidedRow(i)
    <3>1. ASSUME p \in job.forced PROVE FALSE
      <4>1. p \in Claimed /\ job.claims[p].prior = {}
        BY <1>0, <3>1 DEF JobBooks
      <4> QED BY <2>1, <2>3, <4>1 DEF Finalized, JobSaved, Saved
    <3>2. p \notin OwedForce
      BY <2>1, <3>1 DEF OwedForce
    <3> QED BY <1>1, <1>5, <2>1, <3>2 DEF MidCommit
  <2> QED BY <2>2, <2>3
<1>7. CASE JobWrites
  <2>1. PICK m \in months : /\ WriteMentions(m) /\ Write(jobId, Terminal(m), NewMentions(m))
                           /\ gone' = (gone \ Terminal(m)) \cup Retired(m)
    BY <1>7 DEF JobWrites
  <2>2. UNCHANGED <<job, registry, failures>> /\ pc = "publishing" /\ ~JobFinishes
    BY <2>1 DEF WriteMentions, JobFinishes, ClearFinished
  <2>3. CASE DecidedRow(i) /\ MonthOf[Home[i]] = m
    <3>1. i \in mentions' <=> job.rows[i] \in Publishable
      BY <1>0, <2>1, <2>3, JobWriteOf DEF Published
    <3>2. p \notin job.forced
      BY <1>0, <2>2 DEF OwedForce, JobBooks, Finalizing
    <3>3. job.rows[i] # "SUCCESS" => i \in failures
      BY <1>0, <1>3, <2>2, <2>3, <3>2 DEF JobKept, JobKnown
    <3> QED BY <1>3, <2>2, <2>3, <3>1, <3>3
  <2>4. CASE ~(DecidedRow(i) /\ MonthOf[Home[i]] = m)
    <3>1. i \notin gone /\ (i \in mentions' <=> i \in mentions)
      BY <1>0, <2>1, <2>4, JobWriteOf
    <3> QED BY <1>0, <1>1, <1>5, <2>2, <3>1 DEF MidCommit
  <2> QED BY <2>3, <2>4
<1>8. CASE MergeRowFailures /\ UNCHANGED <<liveVars, Tags>>
  <2>1. UNCHANGED <<source, job, registry, gone, mentions>> /\ pc = "recording" /\ ~JobFinishes
        /\ failures' = (failures \ Decided({"SUCCESS"})) \cup Decided(Verdicts \ {"SUCCESS"})
    BY <1>8 DEF MergeRowFailures, liveVars, history, JobFinishes, ClearFinished
  <2>2. i \in mentions \cup failures
    BY <1>0, <1>1, <1>5, <2>1 DEF MidCommit
  <2>3. CASE i \in Decided({"SUCCESS"})
    <3>1. DecidedRow(i) /\ job.rows[i] \in Publishable /\ Written(Home[i])
      BY <1>0, <1>3, <2>1, <2>3 DEF Decided, DecidedRow, Verdicts, Publishable, Written
    <3>2. i \in mentions
      BY <1>0, <2>1, <3>1 DEF Finalized, JobWritten, Published
    <3> QED BY <2>1, <3>2
  <2> QED BY <2>1, <2>2, <2>3
<1>9. ASSUME NEW m \in months, SaveRegistryShard(m), UNCHANGED <<liveVars, Tags>>
      PROVE  i \in mentions' \cup failures'
  <2>1. UNCHANGED <<source, job, gone, mentions, failures>> /\ pc = "registering" /\ ~JobFinishes
    BY <1>9 DEF SaveRegistryShard, liveVars, history, JobFinishes, ClearFinished
  <2>2. CASE i \in registry[p].ids
    BY <1>0, <1>1, <1>5, <2>1, <2>2 DEF MidCommit
  <2>3. CASE i \notin registry[p].ids
    <3>1. p \in MonthClaims(m) /\ p \in Claimed /\ registry'[p] = CompletionEntry(p)
      BY <1>9, <2>3 DEF SaveRegistryShard, MonthClaims
    <3>2. i \in Terminal(MonthOf[p]) => DecidedRow(i)
      BY <1>0, <2>1, RowsOfMonth DEF Finalizing
    <3>3. i \notin job.claims[p].prior
      BY <1>0, <2>1, <2>3, <3>1 DEF JobKept
    <3>4. DecidedRow(i) /\ i \in source[p]
      BY <3>1, <3>2, <3>3 DEF CompletionEntry
    <3>5. i \in mentions <=> job.rows[i] \in Publishable
      BY <1>0, <2>1, <3>1, <3>4 DEF Finalized, JobWritten, Written, Published
    <3>6. job.rows[i] # "SUCCESS" => i \in failures
      BY <2>1, <3>4 DEF Finalized, JobFailed
    <3> QED BY <1>3, <2>1, <3>4, <3>5, <3>6
  <2> QED BY <2>2, <2>3
<1>10. CASE JobSteps /\ UNCHANGED <<liveVars, Tags>>
  BY <1>2, <1>5, <1>8, <1>9, <1>10
     DEF JobSteps, TrimBacklog, OpenLedger, FinishRows, ResumeFinalize, ClearAbandoned,
         RecordForceRequest, RewriteSource, JobFinishes, ClearFinished, MidCommit, liveVars,
         history
<1>11. CASE JobStarts \/ JobAbandoned \/ (JobCrash /\ UNCHANGED Tags)
  BY <1>2, <1>5, <1>6, <1>11
     DEF JobStarts, StartJob, JobAbandoned, AbandonJob, JobCrash, Crash, Places, MidCommit,
         liveVars, history
<1>12. CASE LiveStarts
  BY <1>2, <1>5, <1>6, <1>12 DEF LiveStarts, StartLive, MidCommit
<1>13. CASE LiveWrites
  <2>1. UNCHANGED <<live, registry, failures>> /\ pc = "writing" /\ pc' = "auditing" /\ ~JobFinishes
    BY <1>13 DEF LiveWrites, WriteLiveMentions, JobFinishes, ClearFinished
  <2>2. pc \in LivePlaces /\ ~HalfForced /\ Current' = Current
    BY <2>1 DEF LivePlaces, HalfForced, MidCommit, Current
  <2>3. CASE i \in DOMAIN live.verdict
    <3>1. p = Current /\ ~live.force
      BY <1>0, <1>4, <2>1, <2>2, <2>3 DEF HalfForced, MidCommit
    <3>2. i \notin live.prior /\ (live.verdict[i] # "SUCCESS" => i \in failures)
      BY <1>4, <2>1, <2>2, <2>3, <3>1 DEF LiveKept, LiveKnown
    <3>3. i \in mentions' <=> live.verdict[i] \in Publishable
      BY <1>0, <1>13, <2>3, LiveWriteOf
    <3> QED BY <1>4, <2>1, <2>2, <2>3, <3>2, <3>3 DEF Verdicts, Publishable
  <2>4. CASE i \notin DOMAIN live.verdict
    <3>1. i \notin gone /\ (i \in mentions' <=> i \in mentions)
      BY <1>0, <1>13, <2>4, LiveWriteOf
    <3> QED BY <1>0, <1>1, <2>1, <2>2, <3>1
  <2> QED BY <2>3, <2>4
<1>14. CASE LiveAudits
  <2>1. UNCHANGED <<live, registry, gone, mentions, failures>> /\ pc = "auditing"
        /\ pc' = "failing"
    BY <1>14 DEF LiveAudits, WriteLiveAudit, liveVars, history
  <2>2. (HalfForced /\ p = Current)' <=> (HalfForced /\ p = Current)
    BY <2>1 DEF HalfForced, MidCommit, Current
  <2> QED BY <1>2, <2>1, <2>2 DEF JobFinishes, ClearFinished
<1>15. CASE MergeLiveFailures /\ UNCHANGED Tags
  <2>1. UNCHANGED <<live, registry, gone, mentions>> /\ pc = "failing" /\ pc' = "saving"
        /\ failures' = FailuresNow /\ ~JobFinishes
    BY <1>15 DEF MergeLiveFailures, liveVars, history, JobFinishes, ClearFinished
  <2>2. (HalfForced /\ p = Current)' <=> (HalfForced /\ p = Current)
    BY <2>1 DEF HalfForced, MidCommit, Current
  <2>3. i \in mentions \cup failures
    BY <1>0, <1>1, <2>1, <2>2
  <2>4. i \in LiveDecided({"SUCCESS"}) => i \in mentions
    BY <2>1 DEF LiveDecided, LiveWritten, MidCommit, Publishable
  <2> QED BY <2>1, <2>3, <2>4 DEF FailuresNow
<1>16. CASE SaveLiveRegistry /\ UNCHANGED Tags
  <2>1. /\ UNCHANGED <<gone, mentions, failures>> /\ pc = "saving" /\ MidCommit
        /\ registry' = [registry EXCEPT ![Current] = LiveEntry] /\ ~JobFinishes
    BY <1>16 DEF SaveLiveRegistry, history, MidCommit, JobFinishes, ClearFinished
  <2>2. CASE i \in DOMAIN live.verdict
    <3>1. i \in mentions <=> live.verdict[i] \in Publishable
      BY <2>1, <2>2 DEF LiveWritten
    <3>2. live.verdict[i] # "SUCCESS" => i \in failures
      BY <2>1, <2>2 DEF LiveWritten
    <3> QED BY <1>4, <2>1, <2>2, <3>1, <3>2 DEF LivePlaces, Verdicts, Publishable
  <2>3. CASE i \notin DOMAIN live.verdict
    <3>1. p # Current => i \in registry[p].ids
      BY <1>0, <2>1 DEF Files
    <3>2. p = Current => i \in registry[p].ids /\ ~live.force
      <4>1. p = Current => i \in live.prior
        BY <1>0, <2>1, <2>3 DEF LiveEntry, Files
      <4> QED BY <1>4, <2>1, <4>1 DEF LiveKept, LivePlaces
    <3> QED BY <1>0, <1>1, <2>1, <3>1, <3>2 DEF HalfForced
  <2> QED BY <2>2, <2>3
<1>17. CASE LiveDies /\ UNCHANGED Tags
  <2>1. /\ UNCHANGED <<registry, gone, mentions, failures>> /\ ~JobFinishes
        /\ HalfForced => Current \in loose'
    BY <1>17 DEF LiveDies, JobFinishes, ClearFinished
  <2> QED BY <1>2, <2>1
<1>18. CASE LiveSteps /\ UNCHANGED Tags
  BY <1>2, <1>5, <1>15, <1>16, <1>17, <1>18
     DEF LiveSteps, DecideRows, history, MidCommit, JobFinishes, ClearFinished
<1>19. CASE StartReplay \/ (\E m \in months : ReplayMonth(m)) \/ EndReplay \/ ReplayDies
  BY <1>2, <1>5, <1>19
     DEF StartReplay, ReplayMonth, EndReplay, ReplayDies, liveVars, history, MidCommit,
         JobFinishes, ClearFinished
<1>20. CASE ReplayAudit
  BY <1>2, <1>5, <1>20 DEF ReplayAudit, vars, liveVars, history, MidCommit, JobFinishes,
                           ClearFinished
<1>21. CASE UNCHANGED vars2
  BY <1>2, <1>6, <1>21 DEF vars2, vars, liveVars, history, HalfForced, MidCommit, Current
<1> QED BY <1>6, <1>7, <1>10, <1>11, <1>12, <1>13, <1>14, <1>18, <1>19, <1>20, <1>21
        DEF ReplayNext

(* Theorem: whichever backend decided it, a row the registry marks done has   *)
(* published mentions or is on record as a failure (outputs.py:408-409,       *)
(* live.py:62-64), unless its mentions were withdrawn as its item had left,   *)
(* a force is owed, or a forced live run died or ran over a claim.  Failures  *)
(* are saved before the registry that marks their rows done.                  *)
THEOREM WhatIsDoneIsOnRecord == ReplaySpec => []DoneIsOnRecordLive
<1>1. CommitInv /\ DoneIsOnRecordLive /\ [ReplayNext]_vars2 => CommitInv' /\ DoneIsOnRecordLive'
  BY CommitStep, DoneStep
<1> QED BY CommitInit, DoneInit, <1>1, PTL DEF ReplaySpec

-----------------------------------------------------------------------------
(***************************************************************************)
(* What is published is in the registry, or about to get there.            *)
(***************************************************************************)
Known(i) ==
  \/ i \in registry[Home[i]].ids
  \/ DecidedRow(i) /\ job.rows[i] \in Publishable
  \/ MidCommit /\ i \in DOMAIN live.verdict

MentionsKnown ==
  \A i \in mentions : Home[i] \in torn \cup loose \cup forgot \/ Known(i)

LEMMA MentionsKnownInit == ReplayInit => MentionsKnown
BY DEF ReplayInit, LiveInit, Init, MentionsKnown

LEMMA MentionsKnownStep ==
  CommitInv /\ MentionsKnown /\ [ReplayNext]_vars2 => MentionsKnown'
<1> SUFFICES ASSUME CommitInv, MentionsKnown, [ReplayNext]_vars2,
                    NEW i \in mentions', Home[i] \notin (torn \cup loose \cup forgot)'
             PROVE  Known(i)'
  BY DEF MentionsKnown
<1> USE DEF CommitInv, TagsInv
<1> DEFINE p == Home[i]
<1>0. /\ Books /\ Files /\ JobBooks
      /\ i \in Item /\ p \in Partition /\ p \notin torn \cup loose \cup forgot
  BY FilesStep, HistoryGrows, ExtractJobsAssumption DEF Books, Files
<1>1. ASSUME i \in mentions PROVE Known(i)
  BY <1>0, <1>1 DEF MentionsKnown
<1>2. ASSUME mentions' \subseteq mentions, UNCHANGED registry,
             DecidedRow(i) => DecidedRow(i)' /\ job'.rows[i] = job.rows[i],
             MidCommit => MidCommit' /\ UNCHANGED live
      PROVE  Known(i)'
  BY <1>1, <1>2 DEF Known
<1>3. DecidedRow(i) => p \in Claimed /\ job.ledger /\ Settled
  BY <1>0 DEF DecidedRow, JobBooks, Open, Verdicts
<1>4. MidCommit => pc \in LivePlaces
  BY DEF MidCommit, LivePlaces
<1>5. CASE JobFinishes
  <2>1. UNCHANGED <<registry, mentions>> /\ pc = "clearing"
    BY <1>5 DEF JobFinishes, ClearFinished
  <2>2. ASSUME DecidedRow(i) PROVE i \in registry[p].ids
    <3>1. Written(p) /\ Saved(p)
      BY <1>3, <2>1, <2>2 DEF Written, Saved
    <3>2. i \in source[p]
      BY <1>0, <2>1, <2>2, <3>1 DEF Finalized, JobWritten, Published
    <3> QED BY <1>0, <2>2, <3>1, <3>2 DEF Finalized, JobSaved
  <2> QED BY <1>1, <2>1, <2>2 DEF Known, MidCommit
<1>6. CASE JobWrites
  <2>1. PICK m \in months : /\ WriteMentions(m) /\ Write(jobId, Terminal(m), NewMentions(m))
                           /\ gone' = (gone \ Terminal(m)) \cup Retired(m)
    BY <1>6 DEF JobWrites
  <2>2. UNCHANGED <<job, registry>> /\ pc = "publishing"
    BY <2>1 DEF WriteMentions
  <2>3. DecidedRow(i)' <=> DecidedRow(i)
    BY <2>2 DEF DecidedRow
  <2>4. CASE DecidedRow(i) /\ MonthOf[p] = m
    BY <1>0, <2>1, <2>2, <2>3, <2>4, JobWriteOf DEF Published, Known
  <2>5. CASE ~(DecidedRow(i) /\ MonthOf[p] = m)
    <3>1. i \in mentions
      BY <1>0, <2>1, <2>5, JobWriteOf
    <3> QED BY <1>1, <2>2, <2>3, <3>1 DEF Known, MidCommit
  <2> QED BY <2>4, <2>5
<1>7. ASSUME NEW m \in months, SaveRegistryShard(m), UNCHANGED <<liveVars, Tags>>
      PROVE  Known(i)'
  <2>1. UNCHANGED <<job, source, mentions>> /\ pc = "registering"
    BY <1>7 DEF SaveRegistryShard
  <2>2. /\ DecidedRow(i)' <=> DecidedRow(i)
        /\ ~MidCommit
    BY <2>1 DEF DecidedRow, MidCommit
  <2>3. DecidedRow(i) => job.rows[i] \in Publishable
    BY <1>0, <1>3, <2>1 DEF Finalized, JobWritten, Written, Published
  <2>4. CASE p \in MonthClaims(m) /\ ~DecidedRow(i)
    <3>1. registry'[p] = CompletionEntry(p) /\ p \in Claimed
      BY <1>0, <1>7, <2>4 DEF SaveRegistryShard, MonthClaims
    <3>2. i \in job.claims[p].prior
      BY <1>0, <1>1, <2>1, <2>2, <2>4, <3>1 DEF Known, JobKept, JobKnown
    <3>3. i \in source[p]
      BY <1>0, <2>1, <3>1, <3>2 DEF Finalized, JobWritten, Written, Dropped
    <3> QED BY <3>1, <3>2, <3>3 DEF CompletionEntry, Known
  <2>5. CASE p \notin MonthClaims(m)
    BY <1>0, <1>1, <1>7, <2>1, <2>2, <2>5 DEF SaveRegistryShard, Known
  <2> QED BY <2>1, <2>2, <2>3, <2>4, <2>5 DEF Known
<1>8. ASSUME NEW outcome \in [DOMAIN job.rows -> Outcomes], FinishRows(outcome)
      PROVE  Known(i)'
  BY <1>2, <1>3, <1>8 DEF FinishRows, MidCommit
<1>9. CASE ClearAbandoned
  BY <1>0, <1>2, <1>3, <1>9 DEF ClearAbandoned, MidCommit, JobBooks
<1>10. CASE JobSteps /\ UNCHANGED <<liveVars, Tags>>
  <2>1. CASE OpenLedger
    BY <1>0, <1>2, <2>1 DEF OpenLedger, DecidedRow, JobBooks, MidCommit
  <2> QED
    BY <1>2, <1>7, <1>8, <1>9, <1>10, <2>1
       DEF JobSteps, TrimBacklog, ResumeFinalize, MergeRowFailures, RecordForceRequest,
           RewriteSource, DecidedRow, MidCommit
<1>11. CASE JobStarts
  <2>1. ~DecidedRow(i)
    BY <1>0, <1>3, <1>11 DEF JobStarts, StartJob, JobBooks
  <2> QED BY <1>2, <1>11, <2>1 DEF JobStarts, StartJob, MidCommit
<1>12. CASE JobAbandoned \/ (JobCrash /\ UNCHANGED Tags)
  BY <1>2, <1>12 DEF JobAbandoned, AbandonJob, JobCrash, Crash, DecidedRow, Places, MidCommit
<1>13. CASE LiveStarts
  BY <1>2, <1>13 DEF LiveStarts, StartLive, DecidedRow, MidCommit, jobVars
<1>14. CASE LiveWrites
  <2>1. UNCHANGED <<job, registry, live>> /\ pc = "writing" /\ pc' = "auditing"
    BY <1>14 DEF LiveWrites, WriteLiveMentions, jobVars
  <2>2. CASE i \in DOMAIN live.verdict
    BY <2>1, <2>2 DEF Known, MidCommit
  <2>3. CASE i \notin DOMAIN live.verdict
    <3>1. i \in mentions
      BY <1>0, <1>14, <2>3, LiveWriteOf
    <3> QED BY <1>1, <2>1, <3>1 DEF Known, MidCommit, DecidedRow
  <2> QED BY <2>2, <2>3
<1>15. CASE LiveAudits
  BY <1>2, <1>15 DEF LiveAudits, WriteLiveAudit, DecidedRow, MidCommit, jobVars, liveVars
<1>16. CASE SaveLiveRegistry
  <2>1. /\ UNCHANGED <<job, source, mentions>> /\ pc = "saving" /\ MidCommit
        /\ registry' = [registry EXCEPT ![Current] = LiveEntry]
        /\ Current \in Partition /\ pc \in LivePlaces
    BY <1>4, <1>16 DEF SaveLiveRegistry, jobVars, MidCommit, Books, LiveBooks
  <2>2. CASE p = Current
    <3>1. ~DecidedRow(i)
      BY <1>0, <1>3, <2>1, <2>2 DEF Books, LiveBooks
    <3>2. i \in live.prior \/ i \in DOMAIN live.verdict
      BY <1>0, <1>1, <2>1, <2>2, <3>1 DEF Known, LiveKept, LiveKnown
    <3>3. i \in source[Current]
      BY <2>1, <3>2 DEF LiveWritten, LiveRetired, Books, LiveBooks
    <3>4. registry'[p] = LiveEntry
      BY <1>0, <2>1, <2>2 DEF Files
    <3> QED BY <3>2, <3>3, <3>4 DEF LiveEntry, Known
  <2>3. CASE p # Current
    <3>1. i \notin DOMAIN live.verdict
      BY <1>0, <2>1, <2>3 DEF Books, LiveBooks, Files
    <3>2. registry'[p] = registry[p]
      BY <1>0, <2>1, <2>3 DEF Files
    <3> QED BY <1>1, <2>1, <3>1, <3>2 DEF Known, DecidedRow
  <2> QED BY <2>2, <2>3
<1>17. CASE LiveDies
  <2>1. UNCHANGED <<job, registry, mentions>> /\ (MidCommit => Current \in torn')
    BY <1>17 DEF LiveDies
  <2>2. ~(MidCommit /\ i \in DOMAIN live.verdict)
    <3>1. MidCommit /\ i \in DOMAIN live.verdict => p = Current
      BY <1>0, <1>4 DEF Books, LiveBooks, Files
    <3> QED BY <2>1, <3>1
  <2> QED BY <1>1, <2>1, <2>2 DEF Known, DecidedRow
<1>18. CASE LiveSteps /\ UNCHANGED Tags
  BY <1>2, <1>16, <1>17, <1>18
     DEF LiveSteps, DecideRows, MergeLiveFailures, DecidedRow, MidCommit, jobVars, liveVars
<1>19. ASSUME NEW m \in months, ReplayMonth(m) PROVE Known(i)'
  <2>1. PICK items \in SUBSET Replayable(m) :
           /\ mentions' = mentions \cup items
           /\ forgot' = forgot \cup {Home[k] : k \in items \ mentions}
    BY <1>19 DEF ReplayMonth
  <2>2. i \in mentions
    BY <2>1
  <2> QED BY <1>1, <1>19, <2>2 DEF Known, ReplayMonth, DecidedRow, MidCommit
<1>20. CASE StartReplay \/ EndReplay \/ ReplayDies
  BY <1>2, <1>20 DEF StartReplay, EndReplay, ReplayDies, DecidedRow, MidCommit, liveVars
<1>21. CASE ReplayAudit \/ UNCHANGED vars2
  BY <1>2, <1>21 DEF ReplayAudit, vars2, vars, liveVars, DecidedRow, MidCommit
<1> QED BY <1>5, <1>6, <1>10, <1>11, <1>12, <1>13, <1>14, <1>15, <1>18, <1>19, <1>20, <1>21
        DEF ReplayNext

(* Theorem: where a version changes with every write, a skipped partition     *)
(* publishes no mention of an item it no longer lists, whichever backend      *)
(* visited it (outputs.py:384-386, live.py:148-151), unless a run died or a   *)
(* job was given up at it between mentions and registry, or a force had the   *)
(* registry forget it.  What is published is in the registry, or its writer   *)
(* is not done: the registry is what later runs withdraw from.                *)
THEOREM WhatIsGoneIsWithdrawn ==
  ~ContentVersions => (ReplaySpec => []SkippedPublishesNothingGone)
<1> SUFFICES ASSUME ~ContentVersions PROVE ReplaySpec => []SkippedPublishesNothingGone
  OBVIOUS
<1>1. ReplayInit => CommitInv /\ Versions /\ MentionsKnown
  BY CommitInit, VersionsInit, MentionsKnownInit
<1>2. /\ CommitInv /\ Versions /\ MentionsKnown /\ [ReplayNext]_vars2
      => CommitInv' /\ Versions' /\ MentionsKnown'
  BY CommitStep, VersionsStep, MentionsKnownStep DEF CommitInv, TagsInv
<1>3. CommitInv /\ Versions /\ MentionsKnown => SkippedPublishesNothingGone
  <2> SUFFICES ASSUME CommitInv, Versions, MentionsKnown,
                      NEW p \in Partition \ (torn \cup loose \cup forgot), UpToDate(p),
                      NEW i \in mentions \cap ItemsOf(p), i \notin source[p]
               PROVE  p \in Claimed \/ (live # NoLive /\ p = Current)
    BY DEF SkippedPublishesNothingGone
  <2>1. Home[i] = p /\ Known(i)
    BY DEF MentionsKnown, ItemsOf
  <2>2. i \notin registry[p].ids
    BY DEF Versions, UpToDate
  <2>3. DecidedRow(i) => p \in Claimed
    BY <2>1 DEF CommitInv, TagsInv, Books, JobBooks, DecidedRow
  <2>4. MidCommit /\ i \in DOMAIN live.verdict => live # NoLive /\ p = Current
    BY <2>1 DEF CommitInv, TagsInv, Books, Files, LiveBooks, MidCommit, LivePlaces, ItemsOf
  <2> QED BY <2>1, <2>2, <2>3, <2>4 DEF Known
<1> QED BY <1>1, <1>2, <1>3, PTL DEF ReplaySpec
=============================================================================
