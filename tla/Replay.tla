------------------------------- MODULE Replay -------------------------------
(***************************************************************************)
(* Extraction as a whole: batch jobs (ExtractJobs), live runs (LiveExtract) *)
(* and replays of recorded answers (extractor/replay.py).                   *)
(*                                                                         *)
(* Each job, live run and replay has an id, its creation time.  Mention    *)
(* rows are told apart by the run that made them; their ids may be those   *)
(* of another run's.  An audit record says what a run made of an item; the *)
(* record of the youngest run counts.                                      *)
(***************************************************************************)
EXTENDS LiveExtract

CONSTANTS
  MentionIds,   \* MentionIds[r][i]: the ids of the mentions run r makes of item i
  MaxRuns       \* bound on the jobs, live runs and replays

ASSUME ReplayAssumption ==
  MaxRuns \in Nat /\ \A r \in 1 .. MaxRuns : DOMAIN MentionIds[r] = Item

VARIABLES
  clock,     \* the id of the latest run
  jobId,     \* the id of the active job
  stored,    \* stored[i]: the run that wrote i's stored mentions, 0 if none
  answer,    \* answer[i]: the run whose verdict on i was last written
  audit,     \* audit[i]: item i's newest record
  changing   \* replay: the items of the month whose rows change

vars2 == <<vars, liveVars, clock, jobId, stored, answer, audit, changing>>

\* A record names the run whose rows it describes, or 0: nothing to publish.
NoRecord == [by |-> 0, names |-> 0, answer |-> 0]

ReplayInit ==
  /\ LiveInit
  /\ clock = 0 /\ jobId = 0
  /\ stored = [i \in Item |-> 0] /\ answer = stored
  /\ audit = [i \in Item |-> NoRecord]
  /\ changing = {}

Tags == <<clock, jobId, stored, answer, audit, changing>>

-----------------------------------------------------------------------------
\* The rows of items published now carry the run's id; withdrawn items have none.
Write(id, decided, published) ==
  /\ stored' = [i \in Item |-> IF i \in published THEN id
                               ELSE IF i \in mentions' THEN stored[i] ELSE 0]
  /\ answer' = [i \in Item |-> IF i \in decided THEN id ELSE answer[i]]

\* A run's record of item i is the newest unless a younger run has one.
Recorded(id, verdict) ==
  [i \in Item |->
     IF i \in DOMAIN verdict /\ audit[i].by <= id
     THEN [by |-> id, names |-> IF verdict[i] \in Publishable THEN id ELSE 0,
           answer |-> id]
     ELSE audit[i]]

NewRun == clock < MaxRuns /\ clock' = clock + 1

JobStarts ==
  /\ StartJob /\ NewRun /\ jobId' = clock'
  /\ forgot' = forgot \cup HasDone(job'.forced)
  /\ UNCHANGED <<live, torn, loose, gone, stored, answer, audit, changing>>

JobWrites ==
  \E m \in months :
    /\ WriteMentions(m) /\ Write(jobId, Terminal(m), NewMentions(m))
    /\ gone' = (gone \ Terminal(m)) \cup Retired(m)
    /\ UNCHANGED <<live, torn, loose, forgot, clock, jobId, audit, changing>>

\* `write_run_records`: the audit log comes after the registry, and the marker
\* is cleared after both, so a death in between runs finalize again.
TerminalVerdicts ==
  [i \in {i \in DOMAIN job.rows : job.rows[i] # "deferred"} |-> job.rows[i]]

JobFinishes ==
  /\ ClearFinished
  /\ audit' = Recorded(jobId, TerminalVerdicts)
  /\ UNCHANGED <<liveVars, clock, jobId, stored, answer, changing>>

\* A job that was about to finalize, or had begun to, is given up.
JobAbandoned ==
  /\ AbandonJob
  /\ torn' = IF job.ledger /\ Settled THEN torn \cup Claimed ELSE torn
  /\ UNCHANGED <<live, loose, forgot, gone, Tags>>

JobSteps ==
  \/ TrimBacklog \/ OpenLedger
  \/ \E outcome \in [DOMAIN job.rows -> Outcomes] : FinishRows(outcome)
  \/ ResumeFinalize \/ MergeRowFailures
  \/ \E m \in months : SaveRegistryShard(m)
  \/ ClearAbandoned
  \/ RecordForceRequest
  \/ \E p \in Partition : \E items \in SUBSET ItemsOf(p) : RewriteSource(p, items)

-----------------------------------------------------------------------------
LiveStarts == \E force \in BOOLEAN :
  StartLive(force) /\ NewRun /\ UNCHANGED <<jobId, stored, answer, audit, changing>>

LiveWrites ==
  /\ WriteLiveMentions /\ Write(clock, DOMAIN live.verdict, LiveDecided(Publishable))
  /\ UNCHANGED <<clock, jobId, audit, changing>>

LiveAudits ==
  /\ WriteLiveAudit /\ audit' = Recorded(clock, live.verdict)
  /\ UNCHANGED <<clock, jobId, stored, answer, changing>>

LiveSteps ==
  \/ \E rows \in SUBSET live.rows : \E verdict \in [rows -> Outcomes \cap Verdicts] :
       \E fails \in BOOLEAN : DecideRows(verdict, fails)
  \/ MergeLiveFailures \/ SaveLiveRegistry \/ LiveDies

-----------------------------------------------------------------------------
\* `latest_recorded_outcomes`, and the claims of the active job.
StartReplay ==
  /\ pc = "idle" /\ NewRun
  /\ pc' = "replaying" /\ months' = Month
  /\ changing' = {}
  /\ UNCHANGED <<source, rewrites, registry, mentions, failures, backlog, job, left,
                 liveVars, jobId, stored, answer, audit>>

\* A mention's id hashes what it says but for its relations to other mentions
\* (`MENTION_ID_COLUMNS`), so two runs may make the same ids of an item, or
\* none: an item may disclose no debt.
IdsOf(r, i) == IF r = 0 THEN {} ELSE MentionIds[r][i]

\* The dataset holds just the ids that the newest record names.
InStepWith(i) ==
  audit[i].names # 0 /\ IdsOf(audit[i].names, i) = IdsOf(stored[i], i)

\* Faulty: items a job has claimed are replayed too.
ReplayableClaimed(m) ==
  {i \in UNION {source[p] : p \in {q \in Partition : MonthOf[q] = m}} : InStepWith(i)}

\* Relevant items no job claimed whose rows are those their record names.
Replayable(m) ==
  {i \in UNION {source[p] : p \in {q \in Partition \ Claimed : MonthOf[q] = m}} :
     InStepWith(i)}

\* The month file is written for the items whose rows the current code derives
\* otherwise; the others are the same, or the validators reject them now.  An
\* item that had no rows, and whose record names none, may get some.
ReplayMonth(m) ==
  /\ pc = "replaying" /\ NextMonth(m) /\ changing = {}
  /\ months' = months \ {m}
  /\ \E items \in SUBSET Replayable(m) :
       /\ changing' = items
       /\ mentions' = mentions \cup items
       /\ stored' = [i \in Item |-> IF i \in items THEN clock ELSE stored[i]]
       /\ answer' = [i \in Item |-> IF i \in items THEN audit[i].answer ELSE answer[i]]
       /\ forgot' = forgot \cup {Home[i] : i \in items \ mentions}
  /\ UNCHANGED <<source, rewrites, registry, failures, backlog, job, left, pc,
                 live, torn, loose, gone, clock, jobId, audit>>

\* Its records are written right after it.
ReplayAudit ==
  /\ pc = "replaying" /\ changing # {}
  /\ audit' = [i \in Item |-> IF i \in changing
                 THEN [by |-> clock, names |-> clock, answer |-> audit[i].answer]
                 ELSE audit[i]]
  /\ changing' = {}
  /\ UNCHANGED <<vars, liveVars, clock, jobId, stored, answer>>

EndReplay ==
  /\ pc = "replaying" /\ months = {} /\ changing = {}
  /\ pc' = "idle"
  /\ UNCHANGED <<source, rewrites, registry, mentions, failures, backlog, job, months, left,
                 liveVars, clock, jobId, stored, answer, audit, changing>>

ReplayDies ==
  /\ pc = "replaying"
  /\ Spend("crashes")
  /\ pc' = "idle" /\ months' = {} /\ changing' = {}
  /\ torn' = torn \cup {Home[i] : i \in changing}
  /\ UNCHANGED <<source, rewrites, registry, mentions, failures, backlog, job,
                 live, loose, forgot, gone, clock, jobId, stored, answer, audit>>

-----------------------------------------------------------------------------
ReplayNext ==
  \/ JobStarts \/ JobWrites \/ JobFinishes \/ JobAbandoned
  \/ JobSteps /\ UNCHANGED <<liveVars, Tags>>
  \/ JobCrash /\ UNCHANGED Tags
  \/ LiveStarts \/ LiveWrites \/ LiveAudits
  \/ LiveSteps /\ UNCHANGED Tags
  \/ StartReplay \/ \E m \in months : ReplayMonth(m)
  \/ ReplayAudit \/ EndReplay \/ ReplayDies

ReplaySpec == ReplayInit /\ [][ReplayNext]_vars2

-----------------------------------------------------------------------------
(* An item's newest record names the mentions the dataset holds, and holds    *)
(* the answers they were made from (replay.py:247-251), for every row that is *)
(* done and that nobody is about to write, except where a run died or a job   *)
(* was given up between mentions and records, and for withdrawn rows.         *)
RecordNamesStored ==
  pc = "idle" =>
    \A p \in Partition \ (OwedForce \cup Claimed \cup torn \cup loose) :
      \A i \in registry[p].ids \ gone :
        audit[i].names = stored[i] /\ audit[i].answer = answer[i]

(* Stored mentions never go back to the answers of an earlier run: no job,    *)
(* live run or replay overwrites what a younger run decided (live.py:88-91,   *)
(* replay.py:283-286).  Excepted are partitions where a run died or a job was *)
(* given up between mentions and records - an older record that names the     *)
(* same ids counts as in step there (replay.py:332-337) - and those a live    *)
(* run was forced over a job's claim, or died forced.                         *)
NoStaleOverwrite ==
  [][\A i \in Item : answer'[i] < answer[i] => Home[i] \in torn \cup loose]_vars2
=============================================================================
