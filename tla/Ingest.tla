------------------------------- MODULE Ingest -------------------------------
(***************************************************************************)
(* One genre's ingest (ingest/core.py, ingest/eightk.py, ingest/sixk.py):   *)
(* it reads the scraper's manifests of a window of days, remembers those    *)
(* that can never be read, mirrors 6-K submissions, and merges a row per    *)
(* accession into the documents partitions, a buffer of rows at a time.     *)
(*                                                                         *)
(* A manifest is its place in key order.  The scraper writes and repairs    *)
(* manifests whenever it likes; co-registrants have one manifest each of    *)
(* the same accession.  Rows are stored without their text, as daily runs   *)
(* store them (no --download).                                              *)
(***************************************************************************)
EXTENDS Integers, FiniteSets, Sequences

CONSTANTS
  Manifest,      \* the manifests the scraper may ever write
  AccessionOf,   \* AccessionOf[m]
  GenreOf,       \* GenreOf[m]: "8-K" or "6-K"
  DayOf,         \* DayOf[m]: its filing date
  FirstScraped,  \* what the scraper has written at first
  Lookback,      \* DAILY_LOOKBACK_DAYS
  FlushRows,     \* ingest_flush_rows
  LastDay,       \* bound on the days that pass
  MaxScrapes,    \* bound on the manifests written or repaired
  MaxTroubles    \* bound on failures, deaths and forces

Accession == {AccessionOf[m] : m \in Manifest}
Genre     == {"8-K", "6-K"}

\* What a manifest may say: it is no manifest; the scrape failed; it names no
\* document of the filing; its 6-K text is not a <DOCUMENT>; or all is well.
Writings == {"absent", "invalid", "failed", "empty", "malformed", "good"}

ASSUME IngestAssumption ==
  /\ Manifest \subseteq Nat \ {0}
  /\ GenreOf \in [Manifest -> Genre]
  /\ DayOf \in [Manifest -> Nat]
  /\ FirstScraped \in [Manifest -> Writings]
  /\ FlushRows \in Nat \ {0} /\ Lookback \in Nat \ {0}
  /\ \A m, n \in Manifest : AccessionOf[m] = AccessionOf[n] =>
       GenreOf[m] = GenreOf[n] /\ DayOf[m] = DayOf[n]

VARIABLES
  today,      \* the date
  scraped,    \* scraped[m]: what the scraper's bucket holds
  documents,  \* the accessions with a row in the documents partitions
  mirror,     \* the accessions with a mirrored 6-K submission
  known,      \* failures/ingest/failures.json: manifests not to be read again
  ing,        \* the ingest under way
  scanned,    \* history: <<m, excused>> for each manifest that was good all
              \* through an ingest of its day; excused if it was a known failure
  left        \* how many scrapes and troubles are left

ingestVars == <<today, scraped, documents, mirror, known, ing, scanned, left>>

-----------------------------------------------------------------------------
AccessionsOf(g) == {AccessionOf[m] : m \in {m \in Manifest : GenreOf[m] = g}}
AccessionDay(a) == DayOf[CHOOSE m \in Manifest : AccessionOf[m] = a]

\* `resolve_mode_dates`: the daily window ends yesterday.
Window == (today - Lookback)..(today - 1)

NoIngest == [pc |-> "none", genre |-> "8-K", force |-> FALSE, days |-> {}, at |-> 0,
             memory |-> {}, existing |-> {}, seen |-> {}, candidates |-> <<>>,
             rows |-> {}, flushing |-> FALSE, good |-> {}]

IngestInit ==
  /\ today = 1
  /\ scraped = FirstScraped
  /\ documents = {} /\ mirror = {} /\ known = {}
  /\ ing = NoIngest
  /\ scanned = {}
  /\ left = [scrapes |-> MaxScrapes, troubles |-> MaxTroubles]

Spend(what) == left[what] > 0 /\ left' = [left EXCEPT ![what] = @ - 1]

-----------------------------------------------------------------------------
\* The scraper writes a manifest, late or again.
Scrape(m, writing) ==
  /\ writing # scraped[m] /\ writing # "absent"
  /\ writing = "malformed" => GenreOf[m] = "6-K"
  /\ Spend("scrapes")
  /\ scraped' = [scraped EXCEPT ![m] = writing]
  /\ ing' = [ing EXCEPT !.good = @ \ {m}]
  /\ UNCHANGED <<today, documents, mirror, known, scanned>>

NextDay ==
  /\ today < LastDay
  /\ today' = today + 1
  /\ UNCHANGED <<scraped, documents, mirror, known, ing, scanned, left>>

-----------------------------------------------------------------------------
\* `_existing_accessions`: what is stored under the window's days.
Existing == {a \in documents : AccessionDay(a) \in Window}

\* `run_ingest_pipeline` up to the first candidate.
StartIngest(g, force) ==
  ing' = [NoIngest EXCEPT !.pc = "reading", !.genre = g, !.force = force,
            !.days = Window, !.memory = known,
            !.existing = IF force THEN {} ELSE Existing,
            !.good = {m \in Manifest : GenreOf[m] = g /\ DayOf[m] \in Window
                                         /\ scraped[m] = "good"}]

\* `_iter_manifest_keys`: what is there when the listing gets to it.
Ahead == {m \in Manifest : /\ m > ing.at /\ GenreOf[m] = ing.genre
                           /\ DayOf[m] \in ing.days /\ scraped[m] # "absent"}

IsNext(m) == m \in Ahead /\ \A n \in Ahead : m <= n

\* An existing mirror is used without a look at the documents, unless forced.
Reused(m) == GenreOf[m] = "6-K" /\ AccessionOf[m] \in mirror /\ ~ing.force

Yields(m) == scraped[m] = "good" \/ (Reused(m) /\ scraped[m] \in {"empty", "malformed"})

\* `do_not_retry`; a scrape that failed is not recorded.
Permanent(m) == ~Yields(m) /\ scraped[m] \in {"invalid", "empty", "malformed"}

Skipped(m) == ~ing.force /\ m \in ing.memory

\* `IngestFailures.record` and `clear`
Remembered(m) ==
  IF Permanent(m) THEN ing.memory \cup {m}
  ELSE IF Yields(m) /\ ing.force THEN ing.memory \ {m} ELSE ing.memory

\* One manifest of either genre.  The registry may write itself after any entry.
Read(m) ==
  /\ ing.pc = "reading" /\ IsNext(m) /\ ~ing.flushing
  /\ IF Skipped(m)
     THEN ing' = [ing EXCEPT !.at = m] /\ UNCHANGED known
     ELSE /\ ing' = [ing EXCEPT !.at = m, !.memory = Remembered(m),
                       !.candidates = IF Yields(m) THEN Append(@, m) ELSE @]
          /\ known' \in {known, Remembered(m)}
  /\ UNCHANGED <<today, scraped, documents, scanned, left>>

\* 8-K manifests are all read before the first row is made of one.
ReadEightK(m) == GenreOf[m] = "8-K" /\ Read(m) /\ UNCHANGED mirror

\* A 6-K is mirrored and then becomes a row at once.
ReadSixK(m) ==
  /\ GenreOf[m] = "6-K" /\ ing.candidates = <<>>
  /\ Read(m)
  /\ mirror' = IF Yields(m) /\ ~Skipped(m) THEN mirror \cup {AccessionOf[m]} ELSE mirror

\* A manifest, or a document of it, cannot be read just now.
Unreadable(m) ==
  /\ ing.pc = "reading" /\ IsNext(m) /\ ~ing.flushing
  /\ ing.genre = "6-K" => ing.candidates = <<>>
  /\ ~Skipped(m)
  /\ Spend("troubles")
  /\ ing' = [ing EXCEPT !.at = m, !.good = @ \ {m}]
  /\ UNCHANGED <<today, scraped, documents, mirror, known, scanned>>

\* A candidate becomes a row, unless its accession was seen or is stored.
AddRow ==
  /\ ing.candidates # <<>> /\ ~ing.flushing
  /\ ing.genre = "8-K" => Ahead = {}
  /\ LET a    == AccessionOf[Head(ing.candidates)]
         rows == IF a \in ing.seen \cup ing.existing THEN ing.rows
                 ELSE ing.rows \cup {a}
     IN  ing' = [ing EXCEPT !.candidates = Tail(@), !.seen = @ \cup {a},
                   !.rows = rows, !.flushing = Cardinality(rows) >= FlushRows]
  /\ UNCHANGED <<today, scraped, documents, mirror, known, scanned, left>>

\* `_write_document_partitions`: day after day, one row per accession.
WritePartition ==
  /\ ing.flushing
  /\ LET day  == CHOOSE d \in {AccessionDay(a) : a \in ing.rows} :
                   \A a \in ing.rows : d <= AccessionDay(a)
         part == {a \in ing.rows : AccessionDay(a) = day}
     IN  /\ documents' = documents \cup part
         /\ ing' = [ing EXCEPT !.rows = @ \ part, !.flushing = ing.rows # part]
  /\ UNCHANGED <<today, scraped, mirror, known, scanned, left>>

ScanEnds == ing.pc = "reading" /\ Ahead = {} /\ ing.candidates = <<>> /\ ~ing.flushing

\* The rows that are left in the buffer, ...
FlushRest ==
  /\ ScanEnds /\ ing.rows # {}
  /\ ing' = [ing EXCEPT !.flushing = TRUE]
  /\ UNCHANGED <<today, scraped, documents, mirror, known, scanned, left>>

Scanned == {<<m, m \in ing.memory>> : m \in ing.good}

\* Faulty: the rows left in the buffer are forgotten.
EndIngestEarly ==
  /\ ScanEnds
  /\ known' = ing.memory
  /\ scanned' = scanned \cup Scanned
  /\ ing' = [NoIngest EXCEPT !.pc = "done", !.genre = ing.genre]
  /\ UNCHANGED <<today, scraped, documents, mirror, left>>

\* ... and the failures.
EndIngest ==
  /\ ScanEnds /\ ing.rows = {}
  /\ known' = ing.memory
  /\ scanned' = scanned \cup Scanned
  /\ ing' = [NoIngest EXCEPT !.pc = "done", !.genre = ing.genre]
  /\ UNCHANGED <<today, scraped, documents, mirror, left>>

IngestStep ==
  \/ \E m \in Manifest : ReadEightK(m) \/ ReadSixK(m) \/ Unreadable(m)
  \/ AddRow \/ WritePartition \/ FlushRest \/ EndIngest

-----------------------------------------------------------------------------
\* A manifest that was good, and could be read, all through an ingest of its
\* day has its row in the documents, unless it was a known failure by then,
\* however rows were buffered and whatever died before or since.
ScannedIsStored ==
  \A s \in scanned : s[2] \/ AccessionOf[s[1]] \in documents

\* pipeline.py:59-60: daily runs re-scan their window "so late or repaired
\* scraper manifests are still picked up".
RepairedIsPickedUp == \A s \in scanned : AccessionOf[s[1]] \in documents
=============================================================================
