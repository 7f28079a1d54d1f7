---------------------------- MODULE LiveExtract ----------------------------
(***************************************************************************)
(* The live extract backend (extractor/live.py) beside the batch jobs of   *)
(* ExtractJobs: it works on the same classification files, registry,       *)
(* failures and mentions, and leaves to the active job what that claimed.  *)
(*                                                                         *)
(* A live run holds the writer lease, so it runs between two ticks.  It    *)
(* extracts row after row and commits at the end of a partition, before if *)
(* a checkpoint is due, and when the provider fails.  A commit writes      *)
(* mentions, audit records, failures and the registry, in that order.      *)
(***************************************************************************)
EXTENDS ExtractJobs

VARIABLES
  live,   \* the live run under way, or NoLive
  torn,   \* history: those a run died at, or a job was given up at, between
          \* mentions and records
  loose,  \* history: those a force died at, or that were forced over a claim
  forgot, \* history: those a force took up although rows of theirs were done,
          \* or where a replay gave rows to an item that had none
  gone    \* history: the items withdrawn, having left, and not decided since

history  == <<torn, loose, forgot, gone>>
liveVars == <<live, history>>

NoLive == [force |-> FALSE, todo |-> {}, prior |-> {}, rows |-> {},
           verdict |-> <<>>, aborted |-> FALSE]

LiveInit ==
  Init /\ live = NoLive /\ torn = {} /\ loose = {} /\ forgot = {} /\ gone = {}

jobVars == <<source, rewrites, backlog, job, months, left>>

-----------------------------------------------------------------------------
\* Faulty: the claims of the active job are not looked at.
LeftToNobody(force) == {}

\* `active_job_claimed_partition_paths`: the marker's manifest tells.
LeftToTheJob(force) == IF force THEN {} ELSE Claimed

\* `pending_extract_partitions`; a force request of the batch backend is not
\* the live backend's.
LivePending(force) ==
  {p \in Partition : force \/ ~UpToDate(p)} \ LeftToTheJob(force)

LiveDone(force, p) == IF force THEN {} ELSE registry[p].ids

Current == CHOOSE p \in live.todo : \A q \in live.todo : p <= q

\* The rows of the first partition of todo become the work list.
Visit(force, todo) ==
  IF todo = {} THEN NoLive
  ELSE LET p == CHOOSE p \in todo : \A q \in todo : p <= q
       IN  [force |-> force, todo |-> todo, prior |-> LiveDone(force, p),
            rows |-> source[p] \ LiveDone(force, p), verdict |-> <<>>,
            aborted |-> FALSE]

HasDone(partitions) == {p \in partitions : registry[p].ids # {}}

StartLive(force) ==
  /\ pc = "idle"
  /\ LivePending(force) # {}
  /\ live' = Visit(force, LivePending(force))
  /\ pc' = "deciding"
  /\ loose' = IF force THEN loose \cup Claimed ELSE loose
  /\ forgot' = IF force THEN forgot \cup HasDone(Partition) ELSE forgot
  /\ UNCHANGED <<jobVars, registry, mentions, failures, torn, gone>>

\* The verdicts since the last commit.
Also(verdict) ==
  [i \in DOMAIN verdict \cup DOMAIN live.verdict |->
     IF i \in DOMAIN verdict THEN verdict[i] ELSE live.verdict[i]]

\* The workflows (module RowLifecycle) of the rows up to the next commit: the
\* last row of the partition, a row after which a checkpoint is due, or the last
\* one before the provider fails, which ends the run.
DecideRows(verdict, fails) ==
  LET rest == live.rows \ DOMAIN verdict
  IN  /\ pc = "deciding"
      /\ DOMAIN verdict \subseteq live.rows
      /\ IF fails THEN rest # {} ELSE rest = {} \/ DOMAIN verdict # {}
      /\ live' = [live EXCEPT !.rows = rest, !.verdict = Also(verdict),
                              !.aborted = fails]
      /\ pc' = "writing"
      /\ UNCHANGED <<jobVars, registry, mentions, failures, history>>

-----------------------------------------------------------------------------
LiveDecided(verdicts) == {i \in DOMAIN live.verdict : live.verdict[i] \in verdicts}

LiveRetired == live.prior \ source[Current]

\* `write_mentions_partition`
WriteLiveMentions ==
  /\ pc = "writing"
  /\ mentions' = (mentions \ (DOMAIN live.verdict \cup LiveRetired))
                   \cup LiveDecided(Publishable)
  /\ pc' = "auditing"
  /\ gone' = (gone \ DOMAIN live.verdict) \cup LiveRetired
  /\ UNCHANGED <<jobVars, registry, failures, live, torn, loose, forgot>>

\* The audit records since the last commit (module Replay).
WriteLiveAudit ==
  /\ pc = "auditing"
  /\ pc' = "failing"
  /\ UNCHANGED <<jobVars, registry, mentions, failures, liveVars>>

\* Faulty: the failures wait for the end of the partition.
FailuresAtTheEnd ==
  IF live.rows # {} THEN failures
  ELSE (failures \ LiveDecided({"SUCCESS"})) \cup LiveDecided(Verdicts \ {"SUCCESS"})

\* `merge_row_failures`
FailuresNow ==
  (failures \ LiveDecided({"SUCCESS"})) \cup LiveDecided(Verdicts \ {"SUCCESS"})

MergeLiveFailures ==
  /\ pc = "failing"
  /\ failures' = FailuresNow
  /\ pc' = "saving"
  /\ UNCHANGED <<jobVars, registry, mentions, liveVars>>

\* Faulty: a partition that was visited is complete.
LiveEntryVisited ==
  [fingerprint |-> Version(Current),
   ids         |-> (live.prior \cup DOMAIN live.verdict) \cap source[Current],
   complete    |-> TRUE]

\* `completion_entry` after a live commit: complete once no row is left.
LiveEntry ==
  LET terminal == live.prior \cup DOMAIN live.verdict
  IN  [fingerprint |-> Version(Current),
       ids         |-> terminal \cap source[Current],
       complete    |-> source[Current] \subseteq terminal]

\* The registry, and on to the next row, the next partition, or the end.
SaveLiveRegistry ==
  /\ pc = "saving"
  /\ registry' = [registry EXCEPT ![Current] = LiveEntry]
  /\ live' = IF live.aborted THEN NoLive
             ELSE IF live.rows # {} THEN live
             ELSE Visit(live.force, live.todo \ {Current})
  /\ pc' = IF live' = NoLive THEN "idle" ELSE "deciding"
  /\ UNCHANGED <<jobVars, mentions, failures, history>>

MidCommit == pc \in {"auditing", "failing", "saving"}

\* Forced rows are replaced, and the registry still has them from before.
HalfForced == live.force /\ MidCommit

\* The process dies: what its last commit did not save is gone.  A force does
\* not outlive the run, so the partition it was at may be left half replaced.
LiveDies ==
  /\ pc \in {"deciding", "writing", "auditing", "failing", "saving"}
  /\ Spend("crashes")
  /\ pc' = "idle"
  /\ live' = NoLive
  /\ torn' = IF MidCommit THEN torn \cup {Current} ELSE torn
  /\ loose' = IF HalfForced THEN loose \cup {Current} ELSE loose
  /\ UNCHANGED <<source, rewrites, backlog, job, months, registry, mentions, failures,
                 forgot, gone>>

\* A death of another holder of the lease, as in ExtractJobs.
JobCrash == pc \in Places /\ Crash /\ UNCHANGED liveVars

-----------------------------------------------------------------------------
(* Whichever backend decided it: a row the registry marks done has published  *)
(* mentions or is on record as a failure (outputs.py:408-409, live.py:62-64). *)
(* Excepted are rows whose mentions were withdrawn as their item had left,    *)
(* and partitions whose force is owed, or was lost with a live run that died  *)
(* in a commit or ran over a job's claim.                                     *)
DoneIsOnRecordLive ==
  \A p \in Partition \ (OwedForce \cup loose) :
    \/ HalfForced /\ p = Current
    \/ registry[p].ids \ gone \subseteq mentions \cup failures

(* Whichever backend visits it, a partition that is skipped publishes no      *)
(* mention of an item it no longer lists (outputs.py:384-386, live.py:148-151),*)
(* unless a run died or a job was given up at it between its mentions and the *)
(* registry, a force made the registry forget what was done, or a replay gave *)
(* rows to an item that the registry does not hold.                           *)
SkippedPublishesNothingGone ==
  \A p \in Partition \ (torn \cup loose \cup forgot) :
    (mentions \cap ItemsOf(p)) \ source[p] # {} =>
      ~UpToDate(p) \/ p \in Claimed \/ (live # NoLive /\ p = Current)
=============================================================================
