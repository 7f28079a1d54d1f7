------------------------------ MODULE Pipeline ------------------------------
(***************************************************************************)
(* Whole runs (pipeline.py, run.py): the daily run prepares one genre after *)
(* the other, extracts (live backend) or leaves that to the poller (batch   *)
(* backend), matches and publishes; a poll tick advances the batch job and, *)
(* when that completes, matches and publishes.  Runs hold the writer lease, *)
(* so there is one at a time (module Lease); a run may die or lose it.      *)
(*                                                                         *)
(* Ingest is module Ingest.  What segment and classify (PartitionStage),    *)
(* the batch job (ExtractJobs, BatchJob), live extraction (LiveExtract) and *)
(* match and publish (MatchStage, Publish) do inside is one step each here. *)
(***************************************************************************)
EXTENDS Ingest

VARIABLES
  prepared,   \* the accessions classified
  job,        \* the accessions the active batch job claimed
  mentions,   \* the accessions extracted
  published,  \* the accessions whose mentions are published
  run         \* the run under way, or how the last one ended

pipelineVars == <<prepared, job, mentions, published>>
vars == <<ingestVars, pipelineVars, run>>

NoRun == [pc |-> "idle", mode |-> "none", force |-> FALSE, genres |-> <<>>,
          failed |-> {}, held |-> {}, exit |-> 0]

Init ==
  /\ IngestInit
  /\ prepared = {} /\ job = {} /\ mentions = {} /\ published = {}
  /\ run = NoRun

-----------------------------------------------------------------------------
\* GENRES, in order.
Genres == <<"8-K", "6-K">>

\* A run ends: 1 if a genre failed, else 0.
Ended(r) == [NoRun EXCEPT !.exit = IF r.failed = {} THEN 0 ELSE 1]

Raised == [NoRun EXCEPT !.exit = 1]

\* A run of mode "daily" (batch backend) or "live" starts.
StartDaily(mode, force) ==
  /\ run.pc = "idle"
  /\ IF force THEN Spend("troubles") ELSE UNCHANGED left
  /\ run' = [NoRun EXCEPT !.pc = "genre", !.mode = mode, !.force = force, !.genres = Genres]
  /\ UNCHANGED <<today, scraped, documents, mirror, known, ing, scanned, pipelineVars>>

\* What a daily run does once its genres are prepared.
AfterGenres == IF run.mode = "live" THEN "extract" ELSE "publish"

\* `_prepare_genre`: ingest, ...
IngestGenre ==
  /\ run.pc = "genre" /\ ing.pc = "none"
  /\ IF run.genres = <<>>
     THEN run' = [run EXCEPT !.pc = AfterGenres] /\ UNCHANGED ing
     ELSE StartIngest(Head(run.genres), run.force) /\ UNCHANGED run
  /\ UNCHANGED <<today, scraped, documents, mirror, known, scanned, left, pipelineVars>>

\* What of a genre is stored and still to be classified.
PendingOf(genre) == (documents \cap AccessionsOf(genre)) \ prepared

\* ... then segment and classify what of the genre is pending.  6-K filings whose
\* stage-2 call failed on the provider are held: a warning names their months, they
\* stay pending, and the run goes on as if it had classified them.
PrepareGenre ==
  /\ run.pc = "genre" /\ ing.pc = "done"
  /\ \E held \in SUBSET PendingOf(ing.genre) :
       /\ held # {} => ing.genre = "6-K"
       /\ IF held = {} THEN UNCHANGED left ELSE Spend("troubles")
       /\ prepared' = prepared \cup (PendingOf(ing.genre) \ held)
       /\ run' = [run EXCEPT !.genres = Tail(@), !.held = @ \cup held]
  /\ ing' = NoIngest
  /\ UNCHANGED <<today, scraped, documents, mirror, known, scanned,
                 job, mentions, published>>

\* Faulty: a genre that raises is skipped and forgotten.
GenreRaisesUnseen ==
  /\ run.pc = "genre" /\ ing.pc # "none"
  /\ Spend("troubles")
  /\ ing' = NoIngest
  /\ run' = [run EXCEPT !.genres = Tail(@)]
  /\ UNCHANGED <<today, scraped, documents, mirror, known, scanned, pipelineVars>>

\* A chain that raises is recorded and the next genre still runs.  What it had
\* classified before it raised (at the end, if spans are stale) stays classified.
GenreRaises ==
  /\ run.pc = "genre" /\ ing.pc # "none"
  /\ Spend("troubles")
  /\ \E some \in SUBSET PendingOf(ing.genre) :
       /\ some # {} => ing.pc = "done"
       /\ prepared' = prepared \cup some
  /\ ing' = NoIngest
  /\ run' = [run EXCEPT !.genres = Tail(@), !.failed = @ \cup {ing.genre}]
  /\ UNCHANGED <<today, scraped, documents, mirror, known, scanned,
                 job, mentions, published>>

-----------------------------------------------------------------------------
\* What the live backend has to extract: nothing the batch job claimed.
LiveWork == IF run.force THEN prepared ELSE prepared \ (mentions \cup job)

Extract ==
  /\ run.pc = "extract"
  /\ mentions' = mentions \cup LiveWork
  /\ run' = [run EXCEPT !.pc = "publish"]
  /\ UNCHANGED <<ingestVars, prepared, job, published>>

\* The provider fails: what is decided is committed and the run raises.
ExtractAborts ==
  /\ run.pc = "extract"
  /\ Spend("troubles")
  /\ \E some \in SUBSET LiveWork : mentions' = mentions \cup some
  /\ run' = Raised
  /\ UNCHANGED <<today, scraped, documents, mirror, known, ing, scanned,
                 prepared, job, published>>

\* Faulty: a daily run of the batch backend leaves the publish to the poller.
PublishIfExtracted ==
  /\ run.pc = "publish"
  /\ published' = IF run.mode = "daily" THEN published ELSE mentions
  /\ run' = Ended(run)
  /\ UNCHANGED <<ingestVars, prepared, job, mentions>>

\* `run_match_and_finalize`, and the end of the run.
MatchAndPublish ==
  /\ run.pc = "publish"
  /\ published' = mentions
  /\ run' = Ended(run)
  /\ UNCHANGED <<ingestVars, prepared, job, mentions>>

-----------------------------------------------------------------------------
\* A poll tick without a job claims what is pending, if anything is.
Submit ==
  /\ run.pc = "idle" /\ job = {}
  /\ prepared \ mentions # {}
  /\ job' = prepared \ mentions
  /\ run' = NoRun
  /\ UNCHANGED <<ingestVars, prepared, mentions, published>>

\* The tick that finds all answers writes their mentions, ...
Finalize ==
  /\ run.pc = "idle" /\ job # {}
  /\ mentions' = mentions \cup job
  /\ run' = [NoRun EXCEPT !.pc = "clear", !.mode = "poll"]
  /\ UNCHANGED <<ingestVars, prepared, job, published>>

\* ... clears the marker, and goes on to publish.
ClearMarker ==
  /\ run.pc = "clear"
  /\ job' = {}
  /\ run' = [run EXCEPT !.pc = "publish"]
  /\ UNCHANGED <<ingestVars, prepared, mentions, published>>

\* A run is killed, loses its lease, or its publish is refused.
Die ==
  /\ run.pc # "idle"
  /\ Spend("troubles")
  /\ ing' = NoIngest
  /\ run' = Raised
  /\ UNCHANGED <<today, scraped, documents, mirror, known, scanned, pipelineVars>>

RunStep ==
  \/ IngestGenre \/ PrepareGenre \/ GenreRaises
  \/ IngestStep /\ UNCHANGED <<pipelineVars, run>>
  \/ Extract \/ ExtractAborts \/ MatchAndPublish \/ ClearMarker

Next ==
  \/ \E mode \in {"daily", "live"}, force \in BOOLEAN : StartDaily(mode, force)
  \/ RunStep
  \/ Submit \/ Finalize
  \/ Die
  \/ NextDay /\ UNCHANGED <<pipelineVars, run>>
  \/ \E m \in Manifest, w \in Writings : Scrape(m, w) /\ UNCHANGED <<pipelineVars, run>>

Spec == Init /\ [][Next]_vars

\* A run that started goes on until it ends; the daily schedule and the poller
\* start again and again, and the provider answers a job some time.
FairSpec ==
  /\ Spec
  /\ WF_vars(RunStep)
  /\ SF_vars(StartDaily("daily", FALSE))
  /\ SF_vars(Submit)
  /\ SF_vars(Finalize)

-----------------------------------------------------------------------------
\* run.py:196-203, 229-234: a daily run that reports success left nothing
\* behind but what it warned of (sixk.py:852-858): every stored 8-K filing is
\* prepared, every stored 6-K filing is prepared or was held by this run, what was
\* extracted is published, and the live backend extracted all but what a job had
\* claimed.
SuccessLeavesNothing ==
  [][run.pc # "idle" /\ run'.pc = "idle" /\ run'.exit = 0 /\ run.mode # "poll" =>
       /\ documents \subseteq prepared \cup run.held
       /\ run.held \subseteq AccessionsOf("6-K")
       /\ mentions \subseteq published'
       /\ run.mode = "live" => prepared \subseteq mentions \cup job]_vars

\* Whatever dies, however the two schedules fall, and whichever tick extracted
\* it: a filing in the last window that can be read and is not a known failure
\* is stored, and every stored filing is published.
EverythingReachesReaders ==
  <>[](/\ \A m \in Manifest \ known :
            scraped[m] = "good" /\ DayOf[m] \in Window => AccessionOf[m] \in documents
       /\ documents \subseteq published)
=============================================================================
