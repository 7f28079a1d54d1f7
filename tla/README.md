# Commercial debt tracker: TLA+ models and proofs

This directory models the parts of the commercial debt tracker (`src/cdt`)
whose correctness depends on the order of events: who may write, what survives
a process that dies, and what is extracted, paid for and published when ticks,
rewrites, resets and provider failures interleave. TLC checks the models on
small instances; TLAPS proves the theorems listed below for every value of the
constants.

Paths are relative to the repository root; most code is in `src/cdt`.

## The system and its components

The tracker downloads SEC filings, cuts them into items, classifies which items
are about debt, has a language model extract debt instruments from those, links
the mentions of one instrument over time, and publishes the result. Each stage
reads month files of the previous one from artifact storage (S3 or a local
directory) and writes its own. There is no database: all coordination goes
through objects in storage.

| Component | State it keeps | Operations | What is hard about it | What makes it correct |
|---|---|---|---|---|
| Writer lease (`lease.py`, `run.py`) | `locks/pipeline-writer.json`; each run's own idea of its lease | acquire, wait, renew, throttled renewal, release, watchdog | races, lost answers, wedged holders | one holder at a time, an overtaken holder finds out, the lease comes free |
| Conditional writes (`storage/objects.py`) | the objects and their versions | create if absent, versioned read, replace if match | an answer lost after the write landed, a create that is not atomic locally | at most one of several racing writers succeeds |
| Row workflow (`extractor/workflow.py`, `state.py`, `stages.py`) | stage, attempts, aborts, mentions and verdict of one item | begin, score an answer, retry, advance, salvage, abort, error | the abort cap across ticks, a model that gives up, losing what was found | a verdict after boundedly many calls, earned, and nothing found thrown away |
| Batch extract job (`extractor/batch.py`) | `active-job.json`, a job's manifest, rows and batches; batches at the provider | one tick: load, adopt orphans, fold, save, submit, save, finish | a death between any two writes, batches that expire, unreadable files | nothing paid twice, answers go to their own request, no row lost, the job ends |
| Job succession and outputs (`batch.py`, `extractor/outputs.py`) | completion registry, mention files, failure registry, force backlog | claim, finalize, abandon, reset, force | sources rewritten while a job runs, a finalize that dies half-way, requests larger than a job | skipped means decided, done means on record, force requests survive |
| Completion registries (`completion.py`) | one JSON shard per date and stage | load, save changed entries by compare-and-swap | concurrent writers, partial saves | no entry lost, retry bounded |
| Stage loop (`partition_stage.py`, segmenter, classifier) | month outputs, registry, failure list | process pending sources, buffer a month, checkpoint | deaths between checkpoint writes | a complete source has its output, and its failures on the list |
| Live backend (`extractor/live.py`) | rows in flight, checkpoints | concurrent calls, commit per partition, abort | rows finish in any order | as for the batch outputs |
| Ingest (`ingest/`) | documents files, failure registry, run records | list, download, flush | partial failure, retries | every filing is stored once or on the failure list |
| Instrument lineage (`matcher/instruments.py`, `lineage_inference.py`) | amendment pointers and families of one CIK's rebuild | derive, break cycles, infer from ordinals, roll up | cycles across extracted and inferred pointers | every family has a head, no pointer is lost but to a cycle |
| Matcher (`matcher/`) | instrument tables, digests, id redirects | re-cluster changed CIKs, carry ids, write shards | deaths between tables, ids that must stay stable | ids never change meaning, pending CIKs are found again |
| Publish (`publish.py`) | snapshot generations, `latest.json`, latest copies | write a generation, move the pointer, prune | deaths between tables, shrinkage, skipping | readers see whole generations |
| Pipeline driver (`pipeline.py`, `run.py`) | what failed in this run | prepare each genre, match, publish | a genre fails, the lease is lost between stages | writes only under the lease, failed genres stay pending |
| Replay (`extractor/replay.py`) | mentions rebuilt from audit records | replay | beside an active job | records name what is stored, nothing younger is overwritten |

How they interact: every run that writes holds the lease. `cdt run daily` and
`historical` ingest, segment and classify (rewriting classification month files)
and then match and publish. `cdt run poll` is the hourly tick that advances the
one active extract job; the tick that finishes a job matches and publishes.
The row workflow is called by the batch fold and by the live backend. Registries
tell each stage which sources changed since it last completed them.

`PROJECT.json` lists every component with its status and every hazard with its
source line and the properties that cover it.

## Modules

| Module | Models | EXTENDS / INSTANCE |
|---|---|---|
| `ExclusiveLease` | what a lease promises: abstract specification | |
| `Lease` | the lease protocol, conditional writes, watchdog | INSTANCE `ExclusiveLease` |
| `RowWorkflow` | the row workflow as operators on a row | |
| `RowLifecycle` | one row under arbitrary answers, aborts and errors | `RowWorkflow` |
| `PaidWork` | what a batch job promises about its rows: abstract specification | |
| `BatchJob` | one batch job from creation to finalize | `RowWorkflow`, INSTANCE `PaidWork` |
| `ExtractJobs` | jobs in succession, claims, outputs, force backlog | |
| `LiveExtract` | live runs beside those jobs | `ExtractJobs` |
| `Replay` | jobs, live runs and replays with their ids, mentions and audit records | `LiveExtract` |
| `PartitionStage` | segment and triage on the shared stage loop, registries, failure list, retry | |
| `MatchStage` | the match stage: clusters, ids, redirects, shard files, digests | |
| `Publish` | match, then publish: generations, pointer, latest copies, guard, pruning | `MatchStage` |
| `Ingest` | one genre's ingest: manifests, failures, mirror, buffered documents | |
| `Pipeline` | whole daily runs and poll ticks over both genres | `Ingest` |
| `Lineage` | one CIK's rebuild: amendment pointers, ordinals, families | |
| `LeaseProofs`, `RowProofs`, `BatchJobProofs`, `PartitionStageProofs`, `PublishProofs`, `PipelineProofs`, `ReplayProofs`, `LineageProofs` | theorems | the module they are about (`ReplayProofs`: also `ExtractJobs`), `TLAPS` |
| `MCLease`, `MCRowLifecycle`, `MCBatchJob`, `MCExtractJobs`, `MCReplay`, `MCPartitionStage`, `MCPublish`, `MCPipeline`, `MCLineage` | values of the constants for TLC | the module they check |

How they compose: `Replay` holds all of extraction, `Publish` matcher and
publication together, `Pipeline` the order of stages with ingest in detail. Each
takes the exclusion that `Lease` establishes for granted: one writer at a time,
which may die between any two durable writes. `Publish` alone also lets a writer
that lost its lease come late (`WriteLate`). What a composition abstracts to one
step (a job's rows, a match, a publish) has a module of its own.

### Lease

`object` is the lock file: absent, unreadable, or a holder with an expiry. Each
run has a program counter; every storage request of `acquire_lease`,
`renew_lease` and `release_lease` is one action: `Create`, `ReadCurrent`,
`TakeOver`, `RenewRead`, `RenewSwap`, `ReleaseRead`, `ReleaseSwap`. `seen` is
what the run last read with its version; the version is a hash of the content on
S3, so `object = seen[p]` is the version check. `stamp` is the time the code read
before its requests; a lease expires at `stamp + TTL` and not at the time the
write landed. `CreateAnswerLost`, `TakeOverAnswerLost` and `RenewAnswerLost` are
a PUT that landed and whose retry is refused. `CreateTorn` is the local
exclusive create that dies before its body is written. `Sleep`, `Wake` and
`GiveUp` are `acquire_lease_with_wait`; `renewedAt` is `last_renewed` of the
throttled hook, whose skipped calls change nothing. `Alive` is the watchdog: no
action of a run happens at or after its deadline, and `Reap` then ends it
without releasing.

Assumptions: one clock for all hosts (the code compares UTC clocks of different
hosts and has no margin for skew); S3 conditional writes are atomic; the local
replace, which is documented as best-effort, is modelled as atomic too. Stage
commands (`_with_writer_lease`) have no watchdog: a `Deadline` beyond `MaxTime`
is such a run.

`ExclusiveLease` is the promise: the lease changes hands only once it expired,
and only its holder extends or releases it. `Lease` implements it with the
`holder` and `expires` of the object as the abstract state.

### RowWorkflow and RowLifecycle

A row is the data of `ExtractionRowState` that decides control: stage, attempt,
aborts in the stage, the most an earlier ner attempt tagged, valid entries of
the last `instrument_ie` answer, mentions held, whether something was salvaged,
and the verdict. An answer is three facts: its structure passes, how much it
found (nothing, one, several; at ner: nothing, entities, a debt instrument), and
whether the next stage can build a prompt from it. `HandleResponse` is
`handle_response` with the validation, the advance, the salvage or the retry it
leads to; `HandleProviderAbort` is the resend or the termination at the cap.
`RowLifecycle` feeds a row any sequence of answers, aborts and call failures,
with the attempt budget chosen anew for each answer, as a batch row may meet
different `--max-attempts`.

### BatchJob

`saved` and `ledger` are `state.jsonl.gz` and `batches.json`; `api` and `ended`
are the provider's batches; `mem` is the running tick's `JobState`, lost when it
ends or dies. One tick is `LoadJob`, `Reconcile`, `Fold`, `SaveRows`,
`SaveLedger`, `BuildRequests`, then `Submit`, `SaveChunkRows`, `SaveChunkLedger`
for each chunk, and `Settle`, which waits, requeues stranded rows, or hands over
to finalize. `Track` is the tick's dict of in-flight batches taking in new ones. `Crash` may come between any two; losing the lease at a renewal and
an exception from the API are the same. What a finished batch holds for a row
(answer, abort, error line, 429/5xx line, nothing) and whether its output file
can be read are chosen in `Fold`: since a tick that dies before saving leaves no
trace, choosing at the fold allows no behaviour a fixed result would not. Two
ticks that fold the same unsaved batch may in the model read different results,
which the properties tolerate. A request is identified by stage, attempt,
aborts, resubmissions and infrastructure rounds, since a change of any of them
means a result was folded.

`PaidWork` is the promise, without ticks, memory, ledgers or batches: pieces of
work that are each at a request until they have a verdict, the requests asked
for each, and how often something was paid for it. A request is asked only for a
piece that needs it and only once; a piece moves on only after something was
asked for it, and never back to a request that was; a deferral is not taken
back; the job closes when no piece needs more, and is given up only before it
asked for anything. `BatchJob` implements it with the rows of `state.jsonl.gz`
as the work and what the provider's batches carry as what was asked and paid, so
a death changes nothing of it. That a batch adds one payment and one new request
for each of its rows is `NothingPaidTwice`, which is stated, and proved, for
itself as well. A marker whose `batches.json` is lost or corrupted later, by
something other than the program, is outside this: the code then abandons
batches it paid for and says so in its log.

The marker's creation order (manifest, state, marker) precedes `Init`, which is
the tick that created the job, in memory. `AdoptionMayFail` switches on gaps in
the provider's listing and unreadable input files. A submission is one step; a
duplicate made by the SDK's own retry is not modelled.

### ExtractJobs

`source[p]` is what the classification file of partition `p` lists as relevant;
`registry`, `mentions`, `failures`, `backlog` are the extract stage's outputs; a
`job` is the active one. The inside of a job is one step (`FinishRows`) here,
since `BatchJob` has it. The rest is step by step: `StartJob`, `TrimBacklog`,
`OpenLedger` for creation, `WriteMentions` per month, `MergeRowFailures`,
`SaveRegistryShard` per month and `ClearFinished` for finalize,
`AbandonJob` and `ClearAbandoned` for reset and self-heal, `RecordForceRequest`
for `--force`. `RewriteSource` is any other stage; it happens only while `pc` is
idle, because both sides hold the lease, but at any point of a job's life, and
between two attempts at a finalize. Finalize reads the sources again once it
starts; they cannot change before it ends or dies.

Partitions never disappear, so the branch that clears a backlog of vanished
partitions is left out. The manifest of an abandoned job is always readable
(the code drops the force request of an unreadable one and says so). Items keep
their home partition, and an item id names its content.

### LiveExtract

`StartLive` makes the work list: pending partitions without those the active job
claims, or with `--force` everything. `DecideRows` decides some open rows of the
current partition (`RowLifecycle` has the inside of it) and either commits (at
the end of the partition, or before if a checkpoint is due) or, when the
provider fails, commits what is decided and stops. A commit is
`WriteLiveMentions`, `WriteLiveAudit`, `MergeLiveFailures`, `SaveLiveRegistry`,
in the code's order; `LiveDies` may come between any two. The history variables
`torn` (a run died, or a job was given up, between mentions and registry or
record), `loose` and `forgot` (the registry does not hold, or a force did not
look at, what has mentions) remember the partitions for which the properties
make an exception, each explained under Known limits; `gone` holds the rows whose
mentions were withdrawn because their item had left the source and that nobody
has decided since.

### Replay

A job, a live run and a replay have an id, their creation time; mentions are
known by the run that stored them (`stored`) and the run whose answers they were
made from (`answer`). The ids they have in the dataset are another matter: they
hash what a mention says but for its relations, so two runs may make the same
ids, or none (`MentionIds`, any function; `IdsOf`). A replay takes a month at a
time (`ReplayMonth`, `ReplayAudit`), leaves out items that are claimed by the
active job or out of step, that is, whose stored ids are not those their record
names (`InStepWith`), and writes new mentions only where the current code
makes something else of the recorded answer, which is a free choice (`changing`).
It may give rows to an item that had none; that it takes all rows of an item
away is not modelled.
`full.jsonl` and the checkpoint files are one record per item, `audit`: the run
that wrote it, the stored mentions it names, and the run whose answers it holds.
`JobAbandoned` is a reset, here also of a job that had begun to finalize.

### PartitionStage

Segment works on days and writes months of windows; triage works on months of
windows and writes snippets. A document is the number of its latest text, a
window carries the number of the text it was cut from. `StartRun` loads the
registry and picks the pending partitions; `CutDay` and `TriageMonth` take one
partition into the buffer; `Flush` writes the month file; `ReadShard`,
`SwapShard`, `LoseRace`, `GiveUp` save the registry shard by compare-and-swap,
`SaveList` the failure list. `OtherRunSaves` is a writer of the same shard,
counted in `others`. `StartRetry` to `EndRetry` is the retry of recorded
failures. The fingerprint of windows is `cuts`, a number that changes with every
write of the file, as local modification times do. Calls that fail for want of
the provider leave a filing open, those that fail on the filing put it on the
list. `run.owed` are the filings whose rows a run has flushed and whose registry
entry or list entry it has yet to save; if it dies, they join the history
`adrift` until a run judges them again. The 8-K stages run the same loop with one kind of partition. The loop's
branch for a held partition without done keys, which neither stage takes, is
left out.

### MatchStage and Publish

A mention is its place in sort order; which mentions the scoring links is a
constant per code version. `MatchCik` is what a rebuild makes of one CIK: the
clusters (`Clustering`), ids carried from the stored clusters, minted or content
ids for the rest, and redirects from retired ids. `Carry` goes down the levels of
evidence (`CarriedDownTo`, one `CarryLevel` after the other): greedily where
mentions are shared, none where two clusters have an equal claim. `StartMatch` picks the affected CIKs (changed
digests, schema version, rebuild marker, remint); then shard after shard
`WriteRedirects`, `WriteInstruments`, `WriteEdges`, `WriteDigests`, and in the end
`WriteManifest` and `DeleteMarker`. `Deploy` is a later code version.

A publish is `BeginPublish` (the skip gate on the source digest), `WriteTable`
five times, `Refuse` (the shrinkage guard) or `MovePointer`, `CopyLatest` per
table, `RecordDigest` and `Prune`. Run ids are numbers in the order of their
start. `Extract` changes what an item says, between runs; `PublishAlone` is
`cdt publish`.

### Ingest and Pipeline

A manifest says one of a few things (`Writings`), may be rewritten by the
scraper at any time, and is read in key order (`ReadEightK`, `ReadSixK`,
`Unreadable`). What was read becomes a candidate, `AddRow` puts it in the
buffer, `WritePartition` flushes a day when the buffer is full or the scan is at
its end, `EndIngestEarly` and `EndIngest` leave it. `known` is the failure
registry, `mirror` the mirrored 6-K submissions. Rows are stored without text
(no `--download`), and a manifest does not change its filing date.

`Pipeline` runs the genres in order: `IngestGenre`, `PrepareGenre` (segment and
classify), `GenreRaises`. 6-K filings whose stage-2 call failed on the provider
are held: the run warns of them, leaves them pending and goes on (`run.held`).
Then, on the live backend, `Extract` or
`ExtractAborts`; then `MatchAndPublish`. On the batch backend the poll tick has
`Submit`, `Finalize`, `ClearMarker`, and matches and publishes if its job is
complete. `Die` ends a run at any step, by death or a lost lease.

### Lineage

A behaviour is one rebuild from any input: `WalkOn` and `EndBreaking` break
cycles of extracted pointers at the newest instrument, `Infer` offers the
ordinal rule's pointers, `CheckNext` refuses those that would close a cycle,
`Fill` publishes what is left, and `Rollup` names families over amendments,
splits and retirements. Names are reduced to a stem and a rank, borrowers and start dates to which pairs they keep
apart.

## Runs

| Run | Question | Bounds, and why they are enough |
|---|---|---|
| `lease` | Is the lease exclusive and overlap detectable, is the abstract lease implemented, does it come free? | a poll (deadline = TTL = 2) and a daily run (deadline 4, waits 1), interval 1, starts until 3, clock to 9: each can expire, be overtaken, come back and be overtaken again, and after the last start the deadlines and TTL pass |
| `row_lifecycle` | Do rows end, within budget, with a verdict they earned, and nothing found thrown away? | the code's resend cap 6, budgets 1 and 3 mixed |
| `batch_job` | Is anything paid for twice or mixed up, is the promise of `PaidWork` kept? | two items, so batches of one and of two, partly folded; two attempts; two deaths: a request submitted, its tick dead, its batch adopted, and dead again |
| `batch_job_gaps` | Are rows without a verdict ever finalized, does every job end? | one item, listing gaps and unreadable files, every cap 2, two deaths |
| `extract_jobs` | Are force requests kept, is everything extracted in the end? | two partitions of one month, three items, claims of at most two rows, so a request larger than a job; a rewrite, force, reset, death and deferral each |
| `live_extract` | Across backends: is done on record, skipped decided and free of stale mentions, do records name what is stored, is nothing newer overwritten? | two partitions of two months, the second listing nothing, so it is visited without rows; two items, a checkpoint after either or none; three runs, so any two kinds and a third that finds what they left, the first two making the same mention ids of one item and none of the other; one rewrite in all (`CONSTRAINT OneRewrite`), one force, reset and death |
| `stages` | Is what a stage skips current, are failures listed, other writers' entries kept, everything triaged in the end? | three filings, two on two days of one month and one in the next, so a month file has two sources; texts of version 2 are gated; two compare-and-swap attempts; one rewrite, of the first text, and other runs' entries in its shard (`CONSTRAINT FirstMonthChanges`); three troubles (forces, retries, failed calls, deaths, lost races): a forced run whose call fails may die |
| `match_publish` | Is what match and publish skip current, what readers resolve whole and in agreement, do ids lead on, is everything published in the end? | eleven mentions of three CIKs in two shards, two code versions, two changes (one may be the late mention), two troubles (forces, remints, deaths, a new version): clusters split, merge, vanish and come back, a shard's writes are interrupted twice, the mentions change again after a match that died, and the guard refuses a loss |
| `pipeline` | Is every readable filing stored, does success mean nothing is left, does everything get published? | four manifests: two 8-K of one accession, of which the first is invalid, an 8-K a day later that is absent at first, a 6-K; window of two days, buffer of two rows, two days pass, one scrape; two troubles (raises, aborts, held filings, deaths, forces) |
| `lineage` | Do families have heads, are pointers lost to cycles only? | four instruments, so two cycles, or one of extracted and inferred pointers, with a tail; every input within the stated sets |
| `batch_job_misfold`, `ingest_repairs` | see Findings | one item, two attempts, two deaths; the pipeline instance with two scrapes |

`CHECK_DEADLOCK FALSE` is set wherever the system may stop: all runs over, a row
decided, a job finished, a rebuild done, or nothing pending. Only `batch_job`
declares a symmetry, of its two items; it checks no liveness.
Crashes, rewrites, forces, resets, deferrals, scrapes and the clock are bounded
in guards by `MaxCrashes`, `MaxRewrites`, `MaxForces`, `MaxResets`, `MaxDefers`,
`MaxScrapes`, `MaxTime`, `LastStart`, `LastDay`, `MaxRuns` and `MaxChanges`;
`MaxTroubles` is one budget for all kinds of trouble of a module together, so two
means any two of them, in either order.

### Fairness

`Lease`: weak fairness on the clock and on `Reap`, the watchdog timer; none on
anything a run does, since it may hang anywhere. `RowLifecycle`: something comes
back for the row's request, eventually, because the driver sends it until it
does. `BatchJob`: ticks are scheduled hourly for ever (`Tick`) and the provider
ends every batch within its completion window (`BatchEnds`); crashes are bounded.
`ExtractJobs`: ticks only; nobody has to rewrite, force or reset.
`PartitionStage`: a run that started goes on (`WF` of `Step`; its deaths and
lost races are bounded) and the schedule starts each stage plainly again and
again (`SF`, since a retry or a forced run may be in the way each time).
`Publish`: runs end, done or dead, and plain matches start again and again.
`Pipeline`: a run goes on, and the daily and hourly schedules start theirs again
and again, with `SF` because each may find the other's run in its way. Forces,
remints, deployments, repairs and replays are never assumed to happen.

## Findings

Two comments promise more than the code does, each shown by a run in which TLC
finds the promise broken:

* `batch_job_misfold`: an adopted orphan is recorded only after the fold, rows
  before batches. Two deaths around that save fold one answer twice, the second
  time as the answer to the row's next request (`batch.py:795-798`).
* `ingest_repairs`: daily runs re-scan their window "so late or repaired scraper
  manifests are still picked up" (`pipeline.py:59-60`), but a manifest once read
  as invalid, empty or malformed is in the failure registry and skipped before
  it is read (`eightk.py:122`, `sixk.py:201`), until a run with `--force`.

Three more promises hold but for named cases. The property of the passing run
states the promise with just that exception, and is violated in the same run
without it:

* `match_publish`, `PublishedIdsLeadOn`: "A redirect whose target later stops
  being used follows that target's redirect" (`docs/schema.md:520`, and
  `identity.py:3-7`). A run that retires p for n rewrites x → p to x → n. If it
  stops before its edges and the mentions change, the next run retires p again,
  for m, and publishes p → m; but x → n names an id that never came to be, and
  `updated_redirects` (`identity.py:335-344`) drops it. Only ids in the stored
  edges are "retired again" (`matching-and-lineage.md:311-312`). The exception is
  `LostWithDead`, collected in `ties`.
* `stages`, `FailedFilingsAreListed`: a filing stage 2 could not judge "is written
  as failed and listed" (`sixk.py:890-896`). A run that dies between registry
  and list (`partition_stage.py:269-271`) leaves it unlisted in a complete month.
  One forced over a judged filing that dies before the registry leaves the failed
  row under the old done key: later runs carry it over and neither judge nor list
  it, against `DoneFilingsHaveVerdicts` too. The exception is `adrift`.
* `live_extract`, `NoStaleOverwrite`: a replay leaves out items whose mentions
  "some later write replaced" (`docs/decisions/extraction.md:333`). It compares
  ids, which hash no relations (`schema.py:379-400`). A forced job that makes the
  same ids again with other relations, writes them and is reset before it records
  them leaves the older record in step, and a replay puts the older relations
  back (`replay.py:332-337`). The exception is `torn`.

### Known limits

The properties hold with these exceptions, which the modules state as guards,
constants or history variables, and which are consequences of the code as it is.

* Extract, versions. On S3 the version of a source is its content's MD5
  (`objects.py:276-277`). A source that changes while a job runs and then changes
  back matches the finished entry, and its returned rows are not extracted:
  `ContentVersions = TRUE` breaks `SkippedMeansDecided`, and `SkippingIsSafe`
  assumes `~ContentVersions`. Likewise windows that return to earlier bytes
  break `CompleteIsCurrent` when a run died in between.
* Extract, force. A force, batch or live, takes prior ids as none
  (`outputs.py:143-152`, `live.py:148-151`), so mentions of items already gone
  are not pruned by it (`forgot`); a forced live run that aborts has forgotten
  which rows were done. If it dies between the mentions and the failures, rows
  marked done have neither (`loose`). If it runs over a job's claim, the job's
  finalize overwrites it (`loose`).
* Extract, deaths. A live run that dies between mentions and registry at an item
  that then leaves the source leaves a mention nobody prunes (`torn`). A replay
  that dies exactly between the month file and the audit leaves the item out of
  step, so later replays leave it out (`replay.py:365-378`), unless it made the
  ids it replaced. A reset between a
  finalize's mentions and its registry leaves mentions without an entry
  (`batch.py:1174`): the claim is then `torn` as well, which `RecordNamesStored`
  and `SkippedPublishesNothingGone` leave out, while `SkippedMeansDecided` and
  `DoneIsOnRecordLive` hold through it. Until the next record a replay may put
  older answers with the same ids back (Findings).
* Extract, replay. A replay under newer code may give rows to an item that had
  none, and that the registry does not hold since it was out of the source for a
  while. If the item leaves again before a run visits its partition, nobody
  withdraws them (`forgot`).
* Stages. A death may leave a failed filing `adrift` (Findings). A force is not
  durable, and a recovered filing is judged again when its month next changes, as
  the retry leaves the registry alone.
* Match. A CIK whose match died half-way and whose mentions then return to the
  stored digest, or a first match that died before its manifest followed by a
  new `MATCHER_SCHEMA_VERSION`, is not clustered again: `ChangeHalfMatched =
  TRUE` with `MaxChanges = 2` shows it against `SkippedCiksAreCurrent`. Two
  clusters with an equal claim to an id leave it, and what was redirected to it,
  without a redirect, and so does a death with redirects to ids it did not write
  (`ties`; Findings).
* Publish. `cdt publish` alone after a match that died publishes tables that
  disagree until the next whole run (`history.alone`). A forced publish that
  shrinks a table and dies among its latest copies makes plain publishes refuse
  until another force. Late mentions stay once written, so a late write that is
  undone again is not covered.
* Pipeline. 6-K filings held after provider failures do not fail the run: it
  exits 0 with them stored and unclassified, on no list, and a warning
  (`sixk.py:852-858`); `SuccessLeavesNothing` says so. They stay pending for the
  next run.
* Ingest. A filing that is unreadable on every day of its window is not stored,
  and nothing records it.

## Theorems

All hold for every value of the constants that satisfies the modules' named
assumptions (`LeaseAssumption`, `RowWorkflowAssumption`, `RowLifecycleAssumption`, `BatchJobAssumption`,
`ExtractJobsAssumption`, `ReplayAssumption`, `PartitionStageAssumption`, `IngestAssumption`, `MatchStageAssumption`,
`PublishAssumption`, `LineageAssumption`), with any number of runs, items,
partitions, manifests, mentions and instruments and no bound on the faults.

**Lease** (`LeaseProofs`). `TypeCorrect`; `LeaseInvariant`, that
`TypeOK /\ LeaseInv` is inductive; from it `MutualExclusion`,
`ShortRunsAreExclusive`, `ThrottlingIsSafe`, `OverlapIsDetectable` and the
refinement `LeaseImplementsExclusiveLease`. `UnexpiredHoldersAgree` is not
inductive: it needs that a taker swaps only a body whose expiry was past when it
looked (`TakersSawItExpired`), that a renewer or releaser swaps only its own
body (`WritersSawTheirOwn`), and that a holder's unexpired belief is backed by
an object that names it for at least as long (`BeliefIsSupported`). The crucial
case is a takeover or release that succeeds: the object still equals what was
seen, so it cannot name another run whose belief is unexpired. From the same
invariant `ReleasesAreByTheHolder`: a write that shortens the lease is the
holder's own. `LeaseAssumption`
needs `Interval <= TTL`, which holds of the code's 5 minutes and 2 hours.

**Rows** (`RowProofs`). `TypeCorrect`, `CostIsBounded` (calls of a stage are at
most attempts plus aborts, attempts stay below the largest budget while a row is
open and aborts at most at the cap), `NobodyGivesUp` (the row's own high-water
mark equals the history's while it is at ner), `SuccessNeedsAnswers` and
`FindsAreKept`. The last two need that the stages behind a row each had an
answer that validated, and that salvage takes what the row holds before it ends.

**Batch job** (`BatchJobProofs`). `NoRowIsLost`: a job goes to finalize only when
every stored row is decided or deferred. `SavedInv` says that stored and
in-memory rows are the same wherever a tick builds requests or settles, which is
where the decision is made, whatever was adopted, requeued or lost before.
`EveryRequestIsSentOnce`, `OneDeathIsHarmless` and `BatchJobImplementsPaidWork` assume `~AdoptionMayFail`, that
is, that the provider lists all batches and their input files can be read.
Requests of a row are ordered by how far the row had come (`Earlier`): every
answer, abort and resubmission moves it on (`FoldMovesOn`). `PaidInv` says that a
row that waits on nothing is strictly past all requests of its that were ever
submitted: in storage past those the stored ledger knows, in memory past all,
because a tick that has reconciled knows every batch (`LedgerOk`). So whatever is
submitted next is new. `FitInv` adds, until the second death, that a batch still
to be adopted asked just what its rows are at in storage (`OrphansFit`); the
second death falsifies this, which `batch_job_misfold` shows is a fault of the
code and not of the invariant. `BatchJobImplementsPaidWork` is the refinement,
for any number of deaths. The abstract work changes only at a save, so its
invariant `WorkInv` adds to `PaidInv` what memory holds against storage: a row is
where it was loaded until the fold, then it is that or has learnt something from
a batch that asked for it (`LearntOf`); a job whose ledger was never written has
no batch. Then a save is a `Learn` (`SaveLearns`), a submission an `Ask`
(`SubmitAsks`), a settled job a `Close`, an unusable one an `Abandon`, and
everything else, deaths among it, a stutter (`PaidWorkStep`).

**Extract jobs** (`ReplayProofs`, its first part). `TypeCorrect`, `ForceRequestsAreKept`
and `SkippingIsSafe`. The invariant of the last, `SkipInv`, says that an entry
or claim whose version is the current one was made of the current content, and
that a version once recorded is not from the future.

**Replay** (`ReplayProofs`), the composition of jobs, live runs and replays.
`NothingNewerIsOverwritten` needs `Marks` (no tag is from the future; a live run
or replay beside a job is the younger), `InStep` (nobody but a force touches what
the job claimed, so what a job writes is the youngest there) and
`AnswersRecorded`: an item's newest record holds the answers its mentions came
from, or a run is about to write that record, or its partition is `torn` or
`loose`. So what a replay puts back, whatever ids it compares, is the answer that
is there. `RecordsNameWhatIsStored` and `WhatIsDoneIsOnRecord` need how
far a commit has come: `Finalized` says what a finalize has written, failed and
saved of the months behind it, `LiveWritten` the same of a live commit, and
`JobKept` and `LiveKept` that what either took for done when it started is still
done or was withdrawn. Then a done row agrees with its record or its run has yet
to write one (`RecordsKept`), and `DoneIsOnRecordLive` is inductive as failures
are saved before the registry. `SkippingIsSafeLive` (`Versions`) and `WhatIsGoneIsWithdrawn`
(`MentionsKnown`: what is published is in the registry, or its writer is not done
yet) assume `~ContentVersions`, as `SkippingIsSafe` does.

**Stages** (`PartitionStageProofs`). `SkippedPartitionsAreCurrent` and
`SwapsKeepOthersEntries`. The invariant says of every
entry, stored (`RegistryOk`), loaded or about to be saved (`EntriesOk`), that it
is not from the future, that what its done keys name was written, and that a
text it calls done and that is gone never returns (`KeysOk`); and of buffered
outputs that they were made of the present source (`OutputsOk`). The crucial
steps are the flush, where the file gets the buffer's rows before any entry says
so, and a cut, which makes every entry of its month stale.
`CarriedRowsAreVerdicts` and `NoFailureIsForgotten` are about what is carried
over, through deaths anywhere: `TriageInv` says that a run in progress has in
hand what the registry says (`RunBooks`), that every done key of present
windows, stored or in hand, stands for a row judged on them (`KeysJudged`), and
that a filing with such a key is not on the list while a failed one is
(`ListOk`), each but for the filings whose flushed row waits for registry or list
(`run.owed`, which a death makes `adrift`) and those dead runs left so.

**Publish** (`PublishProofs`). `ReadersFindTheirGeneration`: `Progress` ties the
step of a publish to the tables its generation already has, and says that it
differs from the generation of the pointer and the one before.
`SkippedPublishesChangeNothing`: `GateInv` says that the tables a publish has
written so far (`Made`), and the latest copies it has refreshed (`Copied`), hold
what its digest was taken of, the mentions file perhaps more, namely what late
writers added; and the same of the pointer once it records a digest. A digest
equal to the present sources then leaves no room for more. It assumes
`LateMentionsStay`, that no item of a late writer is extracted again, as a late
write that is undone makes the digest match a file with a row too many (Known
limits).

**Matching** (`PublishProofs` too, since publish decides when a run is over). The
lemmas are about `MatchCik`. Clusters divide the mentions (`ClusteringDivides`).
No cluster is carried two ids and no id goes to two clusters (`CarryIsFree`): on
one level because greedy and uncontested pairs do not conflict (`GreedyIsFree`;
a greedy choice exists for every finite set of pairs, by a smallest set without
one), across levels because a level only takes what nothing above uses, so the
highest level where it failed would not exist. A minted id is new since there are
fewer carried ids than numbers to try (`MintIsNew`). So ids are distinct
(`IdsAreDistinct`), and whatever is stored, edges, instruments and redirects that
`MatchCik` returns belong together (`MatchCikAgrees`); no assumption on the stored
tables is needed, as redirects are resolved against the new ids.
`EveryRemintIsFinished` has no hypothesis: `Remints` says that a run beside the
remint marker is a remint, rebuilds every shard, and leaves content ids in those
it is done with; `Outputs`, that what it is about to write is what `MatchCik` made.
`SkippedCiksNeedNoMatch`: without a marker and a stale schema each CIK's tables
are fresh, that is, what its digest's mentions make, or half done with a digest
that differs from its mentions (`TablesFresh`); while a run goes on, each CIK it
has passed is settled or was left alone with reason (`RunSettles`). It assumes
`~ChangeHalfMatched` and `LateMentionsStay`, which Known limits explain: a half
done CIK whose mentions return to its digest is really skipped.
`PublishedTablesBelongTogether` assumes `~ChangeHalfMatched`: when a whole run
reaches publish every CIK is settled, so what the digest was taken of agrees, the
generation holds that by `GateInv`, and without late mentions it holds no more
(`AgreeInv`).

**Ingest and pipeline** (`PipelineProofs`). `ScannedManifestsAreStored`: `ScanInv`
says of every good manifest behind the scan that it is remembered, stored,
buffered or a candidate (`Kept`). `SuccessIsComplete`: `RunInv` says what is
prepared, held and extracted at each step of a run that has not failed, and
`GenresAreApart` that preparing one genre leaves nothing of the other.

**Lineage** (`LineageProofs`). `FamiliesAreHeaded` and
`PointersAreLostToCyclesOnly`. The module computes ancestors and components in
as many rounds as there are instruments; the first lemmas say that those rounds
are enough (more steps than instruments come round, by the pigeonhole; a round
that adds nothing is the last), so that an instrument's ancestors are the least
set with its parent and its members' parents (`AncestorsClosed`, `LeastClosed`),
and its component the least connected one (`ComponentsAreConnected`,
`ComponentIsLeast`). From there no proof counts steps. A line of ancestors meets
at most one cycle (`OneCycle`), and nobody on it has two children there
(`OneChildOnCycle`), which makes the pointer that a walk drops the only one
dropped (`WalkBreaks`). The invariant `IInv` says: what walks have been through
is closed, without cycles, and one pointer short of each named cycle (`Broken`);
while children are checked, every cycle has one that is still to be looked at,
and from the parent of a refused child pointers lead back to it (`Checked`). The
last is what a reader of the code may doubt, as a later refusal takes a pointer
away: it takes one on a cycle, and the line from the earlier parent ends at the
earlier child, which has no pointer, so it meets no cycle (`ChildIsRefused`). A
family's head is one with the most ancestors.

Only model-checked: all liveness (the prover cannot do it), and
`PublishedIdsLeadOn`. Every other invariant and action property of the passing runs is a theorem.

## What is left

1. A composition of the lease with a stage, so that an overtaken writer races
   with its successor in more than `WriteLate`.
2. Ingest with `--download`, and historical runs over more than one window.

## Not modelled

Prompts, parsing, normalizers and validators, segmentation rules, the 6-K
relevance model and its training are functions from text or numbers without
state. Matcher scoring is real-valued; `MatchStage` takes its links as a
constant. Parquet and S3 I/O beyond the conditional writes, path helpers,
settings, argument parsing and the column contract of published tables hold no
protocol. Infrastructure code, scripts and notebooks are outside the program.
Logging, alarms and reports are left out everywhere.

In `ExtractJobs` partitions never disappear, so the branch that clears a backlog
of vanished ones is left out; in `BatchJob` a duplicate made by the SDK's own
retry of a submission is not modelled.

## Running

`tlc -config Lease.cfg MCLease.tla` and likewise for the other configurations
(the module of each is in `PROJECT.json`); `match_publish`, `stages`,
`pipeline` and `live_extract` (4.8 million states) take about two minutes,
`lineage` (a million) about one, the others less. `tlapm LeaseProofs.tla`
and likewise for the other proof modules.
