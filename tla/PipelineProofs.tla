--------------------------- MODULE PipelineProofs ---------------------------
(***************************************************************************)
(* Proofs about Ingest as Pipeline runs it, for any manifests, days,       *)
(* window, buffer and any number of repairs, failures, forces and deaths.  *)
(***************************************************************************)
EXTENDS Pipeline, TLAPS

USE IngestAssumption

(***************************************************************************)
(* The shapes EXCEPT relies on.                                            *)
(***************************************************************************)
Ingests == [pc : {"none", "reading", "done"}, genre : Genre, force : BOOLEAN,
            days : SUBSET Int, at : Nat, memory : SUBSET Manifest,
            existing : SUBSET Accession, seen : SUBSET Accession,
            candidates : Seq(Manifest), rows : SUBSET Accession,
            flushing : BOOLEAN, good : SUBSET Manifest]

Runs == [pc : {"idle", "genre", "extract", "publish", "clear"},
         mode : {"none", "daily", "live", "poll"}, force : BOOLEAN,
         genres : Seq(Genre), failed : SUBSET Genre,
         held : SUBSET AccessionsOf("6-K"), exit : {0, 1}]

Shapes ==
  /\ today \in Nat
  /\ scraped \in [Manifest -> Writings]
  /\ documents \subseteq Accession /\ known \subseteq Manifest
  /\ ing \in Ingests

(***************************************************************************)
(* Where the accession of a manifest that was read may be.                 *)
(***************************************************************************)
IsCandidate(a) == \E i \in 1 .. Len(ing.candidates) : AccessionOf[ing.candidates[i]] = a

Kept(m) ==
  \/ m \in ing.memory
  \/ AccessionOf[m] \in documents \cup ing.rows
  \/ IsCandidate(AccessionOf[m])

(***************************************************************************)
(* What the ingest skips is stored or will be; the good manifests behind   *)
(* the one it is at are kept; those of the days it scans are still ahead.  *)
(***************************************************************************)
ScanInv ==
  /\ ing.existing \subseteq documents
  /\ ing.seen \subseteq documents \cup ing.rows
  /\ \A m \in ing.good : /\ scraped[m] = "good" /\ GenreOf[m] = ing.genre
                         /\ DayOf[m] \in ing.days
                         /\ m <= ing.at => Kept(m)

IInv == Shapes /\ ScanInv /\ ScannedIsStored

LEMMA NoIngestShape == NoIngest \in Ingests
BY DEF NoIngest, Ingests, Genre

(***************************************************************************)
(* An ingest runs for the first of the genres that a daily run has left.   *)
(***************************************************************************)
RunShape ==
  /\ run \in Runs
  /\ ing.pc # "reading" => ing.candidates = <<>> /\ ~ing.flushing
  /\ ing.pc # "none" => run.pc = "genre" /\ run.genres # <<>>

LEMMA Endings == NoRun \in Runs /\ Raised \in Runs /\ Ended(run) \in Runs
<1>1. NoRun \in Runs
  BY DEF NoRun, Runs
<1>2. Raised = [NoRun EXCEPT !.exit = 1] /\ Raised \in Runs
  BY <1>1 DEF Raised, Runs
<1>3. CASE run.failed = {}
  <2>1. Ended(run) = [NoRun EXCEPT !.exit = 0]
    BY <1>3 DEF Ended
  <2> QED BY <1>1, <1>2, <2>1 DEF Runs
<1>4. CASE run.failed # {}
  <2>1. Ended(run) = [NoRun EXCEPT !.exit = 1]
    BY <1>4 DEF Ended
  <2> QED BY <1>1, <1>2, <2>1
<1> QED BY <1>1, <1>2, <1>3, <1>4

LEMMA IngestStepReads == ASSUME RunShape, IngestStep PROVE ing.pc = "reading"
BY DEF RunShape, IngestStep, ReadEightK, ReadSixK, Read, Unreadable, AddRow, WritePartition,
   FlushRest, EndIngest, ScanEnds

LEMMA InitRunShape == Init => RunShape
BY Endings DEF Init, IngestInit, NoIngest, RunShape

LEMMA NextRunShape == RunShape /\ IInv /\ [Next]_vars => RunShape'
<1> SUFFICES ASSUME RunShape, IInv, [Next]_vars PROVE RunShape'
  OBVIOUS
<1> USE DEF RunShape
<1>1. NoIngest.pc = "none" /\ NoIngest.candidates = <<>> /\ ~NoIngest.flushing
  BY DEF NoIngest
<1>2. ing \in Ingests
  BY DEF IInv, Shapes
<1>3. CASE IngestStep /\ UNCHANGED run
  <2>1. ing.pc = "reading"
    BY <1>3, IngestStepReads
  <2>2. ing'.pc = "reading" \/ ing' = [NoIngest EXCEPT !.pc = "done", !.genre = ing.genre]
    BY <1>2, <1>3, <2>1 DEF IngestStep, ReadEightK, ReadSixK, Read, Unreadable, AddRow,
       WritePartition, FlushRest, EndIngest, Ingests
  <2>3. ing'.pc # "reading" => ing'.candidates = <<>> /\ ~ing'.flushing
    BY <2>2 DEF NoIngest
  <2> QED BY <1>3, <2>1, <2>3
<1>4. ASSUME NEW mode \in {"daily", "live"}, NEW force \in BOOLEAN, StartDaily(mode, force)
      PROVE  RunShape'
  <2>1. Genres \in Seq(Genre)
    BY DEF Genres, Genre
  <2>2. run' \in Runs /\ ing' = ing /\ ing.pc = "none"
    BY <1>2, <1>4, <2>1, Endings DEF StartDaily, Runs, Ingests
  <2> QED BY <2>2
<1>5. CASE IngestGenre
  <2>1. CASE run.genres = <<>>
    BY <1>5, <2>1 DEF IngestGenre, AfterGenres, Runs
  <2>2. CASE run.genres # <<>>
    <3>1. run' = run /\ run.pc = "genre" /\ StartIngest(Head(run.genres), run.force)
      BY <1>5, <2>2 DEF IngestGenre
    <3>2. ing'.pc = "reading"
      BY <3>1 DEF StartIngest, NoIngest
    <3> QED BY <2>2, <3>1, <3>2
  <2> QED BY <2>1, <2>2
<1>6. CASE PrepareGenre \/ GenreRaises
  <2>1. ing.pc # "none" /\ ing' = NoIngest
    BY <1>6 DEF PrepareGenre, GenreRaises
  <2>2. Tail(run.genres) \in Seq(Genre) /\ ing.genre \in Genre
    BY <1>2, <2>1 DEF Runs, Ingests
  <2>3. run.failed \cup {ing.genre} \in SUBSET Genre
    BY <2>2 DEF Runs
  <2>4. [run EXCEPT !.genres = Tail(@), !.failed = @ \cup {ing.genre}] \in Runs
    BY <2>2, <2>3 DEF Runs
  <2>5. ASSUME NEW held \in SUBSET PendingOf(ing.genre), held # {} => ing.genre = "6-K"
        PROVE  [run EXCEPT !.genres = Tail(@), !.held = @ \cup held] \in Runs
    <3>1. run.held \cup held \subseteq AccessionsOf("6-K")
      BY <2>2, <2>5 DEF Runs, PendingOf
    <3> QED BY <2>2, <3>1 DEF Runs
  <2>6. run' \in Runs
    BY <1>6, <2>4, <2>5 DEF PrepareGenre, GenreRaises
  <2> QED BY <1>1, <2>1, <2>6
<1>7. CASE Extract \/ ClearMarker
  BY <1>7 DEF Extract, ClearMarker, ingestVars, Runs
<1>8. CASE Submit \/ Finalize \/ MatchAndPublish
  <2>1. [NoRun EXCEPT !.pc = "clear", !.mode = "poll"] \in Runs
    BY Endings DEF Runs
  <2> QED BY <1>8, <2>1, Endings DEF Submit, Finalize, MatchAndPublish, ingestVars
<1>9. CASE ExtractAborts \/ Die
  BY <1>1, <1>9, Endings DEF ExtractAborts, Die
<1>10. ASSUME NEW m \in Manifest, NEW w \in Writings, Scrape(m, w), UNCHANGED run
       PROVE  RunShape'
  BY <1>2, <1>10 DEF Scrape, Ingests
<1>11. ASSUME UNCHANGED <<ing, run>> PROVE RunShape'
  BY <1>11
<1> QED
  BY <1>3, <1>4, <1>5, <1>6, <1>7, <1>8, <1>9, <1>10, <1>11
  DEF Next, vars, RunStep, NextDay, ingestVars

LEMMA InitIInv == Init => IInv
BY NoIngestShape DEF Init, IngestInit, IInv, Shapes, ScanInv, NoIngest, ScannedIsStored,
   Writings

(***************************************************************************)
(* Lemma: reading the next manifest keeps what is good behind it.          *)
(***************************************************************************)
LEMMA ReadKeeps ==
  ASSUME IInv, NEW m \in Manifest, Read(m)
  PROVE  ing' \in Ingests /\ known' \subseteq Manifest /\ ScanInv'
<1> USE DEF IInv, Shapes, Read
<1>1. Remembered(m) \subseteq Manifest
  BY DEF Remembered, Ingests
<1>2. CASE Skipped(m)
  <2>1. /\ ing' = [ing EXCEPT !.at = m] /\ known' = known
        /\ documents' = documents /\ scraped' = scraped
    BY <1>2
  <2>2. ing' \in Ingests
    BY <2>1 DEF Ingests
  <2>3. ASSUME NEW n \in ing.good, n <= m PROVE Kept(n)'
    <3>1. CASE n <= ing.at
      BY <2>1, <3>1 DEF ScanInv, Kept, IsCandidate, Ingests
    <3>2. CASE n > ing.at
      <4>1. n \in Ahead
        BY <3>2 DEF Ahead, ScanInv, Ingests
      <4>2. n = m
        BY <4>1, <2>3 DEF IsNext, Ingests
      <4> QED BY <4>2, <1>2, <2>1 DEF Skipped, Kept, Ingests
    <3> QED BY <3>1, <3>2 DEF Ingests
  <2> QED BY <2>1, <2>2, <2>3 DEF ScanInv, Ingests
<1>3. CASE ~Skipped(m)
  <2> DEFINE cs == IF Yields(m) THEN Append(ing.candidates, m) ELSE ing.candidates
  <2>1. /\ ing' = [ing EXCEPT !.at = m, !.memory = Remembered(m), !.candidates = cs]
        /\ known' \in {known, Remembered(m)}
        /\ documents' = documents /\ scraped' = scraped
    BY <1>3
  <2>2. /\ cs \in Seq(Manifest)
        /\ \A i \in 1 .. Len(ing.candidates) :
             i \in 1 .. Len(cs) /\ cs[i] = ing.candidates[i]
        /\ Yields(m) => Len(cs) \in 1 .. Len(cs) /\ cs[Len(cs)] = m
    BY DEF Ingests
  <2>3. ing' \in Ingests /\ known' \subseteq Manifest
    BY <1>1, <2>1, <2>2 DEF Ingests
  <2>4. ASSUME NEW n \in ing.good, n <= m PROVE Kept(n)'
    <3>1. /\ ing'.memory = Remembered(m) /\ ing'.candidates = cs /\ ing'.rows = ing.rows
      BY <2>1 DEF Ingests
    <3>2. CASE n <= ing.at
      <4>1. n # m
        BY <3>2 DEF IsNext, Ahead, Ingests
      <4>2. n \in ing.memory => n \in Remembered(m)
        BY <4>1 DEF Remembered
      <4>3. IsCandidate(AccessionOf[n]) => IsCandidate(AccessionOf[n])'
        BY <2>2, <3>1 DEF IsCandidate
      <4> QED BY <3>1, <3>2, <4>2, <4>3, <2>1 DEF ScanInv, Kept
    <3>3. CASE n > ing.at
      <4>1. n \in Ahead
        BY <3>3 DEF Ahead, ScanInv, Ingests
      <4>2. n = m
        BY <4>1, <2>4 DEF IsNext, Ingests
      <4>3. Yields(m)
        BY <4>2 DEF ScanInv, Yields
      <4> QED BY <4>2, <4>3, <2>2, <3>1 DEF Kept, IsCandidate
    <3> QED BY <3>2, <3>3 DEF Ingests
  <2> QED BY <2>1, <2>3, <2>4 DEF ScanInv, Ingests
<1> QED BY <1>2, <1>3

(***************************************************************************)
(* Lemma: a candidate that becomes no row has one already.                 *)
(***************************************************************************)
LEMMA AddRowKeeps ==
  ASSUME IInv, AddRow
  PROVE  ing' \in Ingests /\ ScanInv'
<1> USE DEF IInv, Shapes
<1> DEFINE c == Head(ing.candidates)
           a == AccessionOf[c]
           rows == IF a \in ing.seen \cup ing.existing THEN ing.rows
                   ELSE ing.rows \cup {a}
<1>1. /\ ing.candidates \in Seq(Manifest) /\ ing.candidates # <<>>
      /\ ing' = [ing EXCEPT !.candidates = Tail(@), !.seen = @ \cup {a},
                   !.rows = rows, !.flushing = Cardinality(rows) >= FlushRows]
      /\ documents' = documents /\ scraped' = scraped
  BY DEF AddRow, Ingests
<1>2. c \in Manifest /\ a \in Accession /\ Tail(ing.candidates) \in Seq(Manifest)
  BY <1>1 DEF Accession
<1>3. (Cardinality(rows) >= FlushRows) \in BOOLEAN
  OBVIOUS
<1>4. ing' \in Ingests
  BY <1>1, <1>2, <1>3 DEF Ingests
<1>5. a \in documents \cup rows /\ ing.rows \subseteq rows
  BY DEF ScanInv
<1>6. ASSUME NEW m \in ing.good, m <= ing.at PROVE Kept(m)'
  <2>1. /\ ing'.memory = ing.memory /\ ing'.rows = rows
        /\ ing'.candidates = Tail(ing.candidates)
    BY <1>1 DEF Ingests
  <2>2. CASE m \in ing.memory \/ AccessionOf[m] \in documents \cup ing.rows
    BY <1>1, <1>5, <2>1, <2>2 DEF Kept
  <2>3. CASE IsCandidate(AccessionOf[m])
    <3>1. PICK i \in 1 .. Len(ing.candidates) : AccessionOf[ing.candidates[i]] = AccessionOf[m]
      BY <2>3 DEF IsCandidate
    <3>2. CASE i = 1
      BY <1>1, <1>5, <2>1, <3>1, <3>2 DEF Kept
    <3>3. CASE i # 1
      <4>1. i - 1 \in 1 .. Len(Tail(ing.candidates))
            /\ Tail(ing.candidates)[i - 1] = ing.candidates[i]
        BY <1>1, <3>3
      <4> QED BY <3>1, <4>1, <2>1 DEF Kept, IsCandidate
    <3> QED BY <3>2, <3>3
  <2> QED BY <1>6, <2>2, <2>3 DEF ScanInv, Kept
<1> QED BY <1>1, <1>4, <1>5, <1>6 DEF ScanInv, Ingests

(***************************************************************************)
(* Lemma: every step of an ingest keeps the invariant; the last one may    *)
(* say of what was good all along that it is kept for good.                *)
(***************************************************************************)
LEMMA IngestStepIInv == ASSUME IInv, IngestStep PROVE IInv'
<1> USE DEF IInv, Shapes
<1>1. ASSUME NEW m \in Manifest, ReadEightK(m) \/ ReadSixK(m)
      PROVE  IInv'
  <2>1. Read(m)
    BY <1>1 DEF ReadEightK, ReadSixK
  <2>2. ing' \in Ingests /\ known' \subseteq Manifest /\ ScanInv'
    BY <2>1, ReadKeeps
  <2>3. UNCHANGED <<today, scraped, documents, scanned>>
    BY <2>1 DEF Read
  <2> QED BY <2>2, <2>3 DEF ScannedIsStored
<1>2. ASSUME NEW m \in Manifest, Unreadable(m)
      PROVE  IInv'
  <2>1. /\ ing' = [ing EXCEPT !.at = m, !.good = @ \ {m}]
        /\ UNCHANGED <<today, scraped, documents, known, scanned>>
    BY <1>2 DEF Unreadable
  <2>2. ing' \in Ingests
    BY <2>1 DEF Ingests
  <2>3. ASSUME NEW n \in ing.good \ {m}, n <= m PROVE n <= ing.at
    <3>1. n \in Ahead \/ n <= ing.at
      BY DEF Ahead, ScanInv, Ingests
    <3> QED BY <2>3, <3>1, <1>2 DEF Unreadable, IsNext, Ingests
  <2>4. ScanInv'
    BY <2>1, <2>3 DEF ScanInv, Kept, IsCandidate, Ingests
  <2> QED BY <2>1, <2>2, <2>4 DEF ScannedIsStored
<1>3. CASE AddRow
  BY <1>3, AddRowKeeps DEF AddRow, ScannedIsStored
<1>4. CASE WritePartition
  <2> DEFINE day  == CHOOSE d \in {AccessionDay(a) : a \in ing.rows} :
                       \A a \in ing.rows : d <= AccessionDay(a)
             part == {a \in ing.rows : AccessionDay(a) = day}
  <2>1. /\ documents' = documents \cup part
        /\ ing' = [ing EXCEPT !.rows = @ \ part, !.flushing = ing.rows # part]
        /\ UNCHANGED <<today, scraped, known, scanned>>
    BY <1>4 DEF WritePartition
  <2>2. part \subseteq ing.rows
    OBVIOUS
  <2> HIDE DEF part
  <2>3. (ing.rows # part) \in BOOLEAN
    OBVIOUS
  <2>4. ing' \in Ingests /\ documents' \subseteq Accession
    BY <2>1, <2>2, <2>3 DEF Ingests
  <2>5. /\ ing'.rows = ing.rows \ part /\ ing'.memory = ing.memory
        /\ ing'.candidates = ing.candidates /\ ing'.at = ing.at /\ ing'.good = ing.good
        /\ ing'.seen = ing.seen /\ ing'.existing = ing.existing
        /\ ing'.genre = ing.genre /\ ing'.days = ing.days
    BY <2>1 DEF Ingests
  <2>6. documents' \cup ing'.rows = documents \cup ing.rows
    BY <2>1, <2>2, <2>5
  <2>7. ScanInv'
    BY <2>1, <2>5, <2>6 DEF ScanInv, Kept, IsCandidate
  <2> QED BY <2>1, <2>4, <2>7 DEF ScannedIsStored
<1>5. CASE FlushRest
  <2>1. /\ ing' = [ing EXCEPT !.flushing = TRUE]
        /\ UNCHANGED <<today, scraped, documents, known, scanned>>
    BY <1>5 DEF FlushRest
  <2>2. ing' \in Ingests
    BY <2>1 DEF Ingests
  <2>3. ScanInv'
    BY <2>1 DEF ScanInv, Kept, IsCandidate, Ingests
  <2> QED BY <2>1, <2>2, <2>3 DEF ScannedIsStored
<1>6. CASE EndIngest
  <2>1. /\ known' = ing.memory /\ scanned' = scanned \cup Scanned
        /\ ing' = [NoIngest EXCEPT !.pc = "done", !.genre = ing.genre]
        /\ UNCHANGED <<today, scraped, documents>>
        /\ Ahead = {} /\ ing.candidates = <<>> /\ ing.rows = {}
    BY <1>6 DEF EndIngest, ScanEnds
  <2>2. ing' \in Ingests /\ known' \subseteq Manifest
    BY <2>1, NoIngestShape DEF Ingests, NoIngest
  <2>3. ScanInv'
    BY <2>1 DEF ScanInv, NoIngest
  <2>4. ASSUME NEW m \in ing.good
        PROVE  m \in ing.memory \/ AccessionOf[m] \in documents
    <3>1. m \in Ahead \/ m <= ing.at
      BY DEF Ahead, ScanInv, Ingests
    <3>2. ~IsCandidate(AccessionOf[m])
      BY <2>1 DEF IsCandidate
    <3> QED BY <2>1, <3>1, <3>2 DEF ScanInv, Kept
  <2>5. ScannedIsStored'
    <3> SUFFICES ASSUME NEW s \in scanned'
                 PROVE  s[2] \/ AccessionOf[s[1]] \in documents'
      BY DEF ScannedIsStored
    <3>1. CASE s \in scanned
      BY <2>1, <3>1 DEF ScannedIsStored
    <3>2. CASE s \in Scanned
      <4>1. PICK m \in ing.good : s = <<m, m \in ing.memory>>
        BY <3>2 DEF Scanned
      <4>2. s[1] = m /\ s[2] = (m \in ing.memory)
        BY <4>1
      <4>3. CASE m \in ing.memory
        BY <4>2, <4>3
      <4>4. CASE AccessionOf[m] \in documents
        BY <4>2, <4>4, <2>1
      <4> QED BY <2>4, <4>3, <4>4
    <3> QED BY <2>1, <3>1, <3>2
  <2> QED BY <2>1, <2>2, <2>3, <2>5
<1> QED BY <1>1, <1>2, <1>3, <1>4, <1>5, <1>6 DEF IngestStep

(***************************************************************************)
(* Lemma: so does everything else a pipeline, the scraper or time does.    *)
(***************************************************************************)
LEMMA NextIInv == RunShape /\ IInv /\ [Next]_vars => IInv'
<1> SUFFICES ASSUME RunShape, IInv, [Next]_vars PROVE IInv'
  OBVIOUS
<1> USE DEF IInv, Shapes
<1>1. CASE IngestStep
  BY <1>1, IngestStepIInv
<1>2. ASSUME UNCHANGED <<today, scraped, documents, known, ing, scanned>> PROVE IInv'
  BY <1>2 DEF ScanInv, Kept, IsCandidate, ScannedIsStored
<1>3. ASSUME ing' = NoIngest, UNCHANGED <<today, scraped, documents, known, scanned>>
      PROVE  IInv'
  BY <1>3, NoIngestShape DEF NoIngest, ScanInv, ScannedIsStored
<1>4. ASSUME UNCHANGED <<scraped, documents, known, ing, scanned>>, today' \in Nat
      PROVE  IInv'
  BY <1>4 DEF ScanInv, Kept, IsCandidate, ScannedIsStored
<1>5. CASE IngestGenre
  <2>1. CASE run.genres = <<>>
    BY <1>5, <2>1, <1>4 DEF IngestGenre
  <2>2. CASE run.genres # <<>>
    <3>1. /\ ing.pc = "none" /\ StartIngest(Head(run.genres), run.force)
          /\ UNCHANGED <<today, scraped, documents, known, scanned>>
      BY <1>5, <2>2 DEF IngestGenre
    <3>2. Existing \subseteq documents /\ Window \subseteq Int
      BY DEF Existing, Window
    <3>3. Head(run.genres) \in Genre /\ run.force \in BOOLEAN
      BY <2>2 DEF RunShape, Runs
    <3>4. ing' \in Ingests
      BY <3>1, <3>2, <3>3, NoIngestShape DEF StartIngest, Ingests, NoIngest
    <3> QED BY <3>1, <3>2, <3>4 DEF StartIngest, NoIngest, ScanInv, ScannedIsStored
  <2> QED BY <2>1, <2>2
<1>6. ASSUME NEW m \in Manifest, NEW w \in Writings, Scrape(m, w) PROVE IInv'
  <2>1. /\ scraped' = [scraped EXCEPT ![m] = w]
        /\ ing' = [ing EXCEPT !.good = @ \ {m}]
        /\ UNCHANGED <<today, documents, known, scanned>>
    BY <1>6 DEF Scrape
  <2>2. ing' \in Ingests /\ scraped' \in [Manifest -> Writings]
    BY <2>1 DEF Ingests
  <2>3. ScanInv'
    BY <2>1 DEF ScanInv, Kept, IsCandidate, Ingests
  <2> QED BY <2>1, <2>2, <2>3 DEF ScannedIsStored
<1>7. ASSUME NEW mode \in {"daily", "live"}, NEW force \in BOOLEAN, StartDaily(mode, force)
      PROVE  IInv'
  BY <1>7, <1>2 DEF StartDaily
<1>8. CASE Extract \/ MatchAndPublish \/ ClearMarker \/ Submit \/ Finalize \/ ExtractAborts
  BY <1>8, <1>2 DEF Extract, MatchAndPublish, ClearMarker, Submit, Finalize, ExtractAborts,
     ingestVars
<1>9. CASE PrepareGenre \/ GenreRaises \/ Die
  BY <1>9, <1>3 DEF PrepareGenre, GenreRaises, Die
<1>10. CASE NextDay
  BY <1>10, <1>4 DEF NextDay
<1>11. CASE UNCHANGED vars
  BY <1>11, <1>2 DEF vars, ingestVars
<1> QED
  BY <1>1, <1>5, <1>6, <1>7, <1>8, <1>9, <1>10, <1>11 DEF Next, RunStep

(***************************************************************************)
(* Theorem: what was good all through an ingest of its day is stored or    *)
(* was a known failure.                                                    *)
(***************************************************************************)
THEOREM ScannedManifestsAreStored == Spec => []ScannedIsStored
<1>1. IInv => ScannedIsStored
  BY DEF IInv
<1> QED BY InitRunShape, NextRunShape, InitIInv, NextIInv, <1>1, PTL DEF Spec

(***************************************************************************)
(* What a run has done so far: the genres it is through with, and did not  *)
(* fail at, have nothing stored that is neither prepared nor held by it.   *)
(* An ingest reads and stores filings of its own genre only.               *)
(***************************************************************************)
Left(genres) == {genres[i] : i \in 1 .. Len(genres)}

PreparedBut(genres) ==
  \A g \in Genre \ genres : documents \cap AccessionsOf(g) \subseteq prepared \cup run.held

OwnGenre ==
  /\ ing.rows \subseteq AccessionsOf(ing.genre)
  /\ \A i \in 1 .. Len(ing.candidates) : GenreOf[ing.candidates[i]] = ing.genre

RunInv ==
  /\ OwnGenre
  /\ ing.pc # "none" => ing.genre = Head(run.genres)
  /\ run.pc = "genre" => run.mode \in {"daily", "live"}
                         /\ PreparedBut(run.failed \cup Left(run.genres))
  /\ run.pc = "extract" => run.mode = "live" /\ PreparedBut(run.failed)
  /\ run.pc = "clear" => run.mode = "poll"
  /\ run.pc = "publish" /\ run.mode # "poll" => PreparedBut(run.failed)
  /\ run.pc = "publish" /\ run.mode = "live" => prepared \subseteq mentions \cup job

LEMMA GenresAreApart ==
  ASSUME NEW g \in Genre, NEW h \in Genre, g # h
  PROVE  AccessionsOf(g) \cap AccessionsOf(h) = {}
BY DEF AccessionsOf

LEMMA HeadAndTail ==
  ASSUME NEW gs \in Seq(Genre), gs # <<>>
  PROVE  /\ Head(gs) \in Genre /\ Tail(gs) \in Seq(Genre)
         /\ Left(gs) = {Head(gs)} \cup Left(Tail(gs))
<1>1. Head(gs) \in Left(gs) /\ Head(gs) \in Genre /\ Tail(gs) \in Seq(Genre)
  BY DEF Left
<1>2. ASSUME NEW i \in 1 .. Len(Tail(gs)) PROVE Tail(gs)[i] \in Left(gs)
  <2>1. i + 1 \in 1 .. Len(gs) /\ Tail(gs)[i] = gs[i + 1]
    OBVIOUS
  <2> QED BY <2>1 DEF Left
<1>3. ASSUME NEW i \in 1 .. Len(gs), i # 1 PROVE gs[i] \in Left(Tail(gs))
  <2>1. i - 1 \in 1 .. Len(Tail(gs)) /\ Tail(gs)[i - 1] = gs[i]
    BY <1>3
  <2> QED BY <2>1 DEF Left
<1>4. ASSUME NEW g \in Left(gs) PROVE g \in {Head(gs)} \cup Left(Tail(gs))
  <2>1. PICK i \in 1 .. Len(gs) : g = gs[i]
    BY DEF Left
  <2>2. i = 1 => g = Head(gs)
    BY <2>1
  <2> QED BY <1>3, <2>1, <2>2
<1>5. ASSUME NEW g \in Left(Tail(gs)) PROVE g \in Left(gs)
  BY <1>2 DEF Left
<1> QED BY <1>1, <1>4, <1>5

LEMMA InitRunInv == Init => RunInv
BY DEF Init, IngestInit, NoIngest, NoRun, RunInv, OwnGenre

(***************************************************************************)
(* Lemma: an ingest stores filings of its own genre.                       *)
(***************************************************************************)
LEMMA IngestStepOwnGenre ==
  ASSUME RunShape, IInv, OwnGenre, IngestStep
  PROVE  /\ OwnGenre'
         /\ documents' \subseteq documents \cup AccessionsOf(ing.genre)
         /\ ing'.pc # "none" /\ ing'.genre = ing.genre
<1>1. ing \in Ingests /\ documents \subseteq Accession
  BY DEF IInv, Shapes
<1>2. ing.pc = "reading"
  BY IngestStepReads
<1>3. ASSUME NEW m \in Manifest, ReadEightK(m) \/ ReadSixK(m) \/ Unreadable(m)
      PROVE  /\ ing'.rows = ing.rows /\ ing'.genre = ing.genre /\ ing'.pc = "reading"
             /\ ing'.candidates \in {ing.candidates, Append(ing.candidates, m)}
             /\ GenreOf[m] = ing.genre /\ documents' = documents
  BY <1>1, <1>3 DEF ReadEightK, ReadSixK, Read, Unreadable, IsNext, Ahead, Ingests
<1>4. ASSUME NEW m \in Manifest, ReadEightK(m) \/ ReadSixK(m) \/ Unreadable(m)
      PROVE  OwnGenre'
  <2>1. /\ ing.candidates \in Seq(Manifest) /\ GenreOf[m] = ing.genre
        /\ ing'.rows = ing.rows /\ ing'.genre = ing.genre
    BY <1>1, <1>3, <1>4 DEF Ingests
  <2>2. ASSUME NEW i \in 1 .. Len(ing'.candidates)
        PROVE  ing'.candidates[i] = m \/ (i \in 1 .. Len(ing.candidates)
                                            /\ ing'.candidates[i] = ing.candidates[i])
    <3>1. CASE ing'.candidates = ing.candidates
      BY <3>1
    <3>2. CASE ing'.candidates = Append(ing.candidates, m)
      <4>1. /\ Len(ing'.candidates) = Len(ing.candidates) + 1
            /\ ing'.candidates[i] = IF i <= Len(ing.candidates) THEN ing.candidates[i] ELSE m
        BY <2>1, <3>2
      <4>2. Len(ing.candidates) \in Nat
        BY <2>1
      <4> QED BY <4>1, <4>2
    <3> QED BY <1>3, <1>4, <3>1, <3>2
  <2>3. ASSUME NEW i \in 1 .. Len(ing'.candidates)
        PROVE  GenreOf[ing'.candidates[i]] = ing'.genre
    BY <2>1, <2>2 DEF OwnGenre
  <2> QED BY <2>1, <2>3 DEF OwnGenre
<1>5. CASE AddRow
  <2> DEFINE a == AccessionOf[Head(ing.candidates)]
  <2>1. /\ ing.candidates \in Seq(Manifest) /\ ing.candidates # <<>>
        /\ ing'.candidates = Tail(ing.candidates) /\ ing'.genre = ing.genre
        /\ ing'.rows \subseteq ing.rows \cup {a} /\ ing'.pc = ing.pc
        /\ documents' = documents
    BY <1>1, <1>5 DEF AddRow, Ingests
  <2>2. Head(ing.candidates) \in Manifest /\ GenreOf[Head(ing.candidates)] = ing.genre
    BY <2>1 DEF OwnGenre
  <2>3. a \in AccessionsOf(ing.genre)
    BY <2>2 DEF AccessionsOf
  <2>4. ASSUME NEW i \in 1 .. Len(Tail(ing.candidates))
        PROVE  GenreOf[Tail(ing.candidates)[i]] = ing.genre
    <3>1. i + 1 \in 1 .. Len(ing.candidates)
          /\ Tail(ing.candidates)[i] = ing.candidates[i + 1]
      BY <2>1
    <3> QED BY <3>1 DEF OwnGenre
  <2>5. OwnGenre'
    BY <2>1, <2>3, <2>4 DEF OwnGenre
  <2> QED BY <1>2, <2>1, <2>5
<1>6. CASE WritePartition
  <2> DEFINE day  == CHOOSE d \in {AccessionDay(a) : a \in ing.rows} :
                       \A a \in ing.rows : d <= AccessionDay(a)
             part == {a \in ing.rows : AccessionDay(a) = day}
  <2>1. /\ documents' = documents \cup part
        /\ ing' = [ing EXCEPT !.rows = @ \ part, !.flushing = ing.rows # part]
    BY <1>6 DEF WritePartition
  <2>2. part \subseteq ing.rows
    OBVIOUS
  <2> HIDE DEF part
  <2>3. /\ ing'.rows = ing.rows \ part /\ ing'.candidates = ing.candidates
        /\ ing'.genre = ing.genre /\ ing'.pc = ing.pc
    BY <1>1, <2>1 DEF Ingests
  <2> QED BY <1>2, <2>1, <2>2, <2>3 DEF OwnGenre
<1>7. CASE FlushRest
  BY <1>1, <1>7 DEF FlushRest, ScanEnds, OwnGenre, Ingests
<1>8. CASE EndIngest
  <2>1. /\ ing'.rows = {} /\ ing'.candidates = <<>> /\ ing'.genre = ing.genre
        /\ ing'.pc = "done" /\ documents' = documents
    BY <1>8 DEF EndIngest, NoIngest
  <2> QED BY <2>1 DEF OwnGenre
<1> QED BY <1>3, <1>4, <1>5, <1>6, <1>7, <1>8 DEF IngestStep

LEMMA NextRunInv == RunShape /\ IInv /\ RunInv /\ [Next]_vars => RunInv'
<1> SUFFICES ASSUME RunShape, IInv, RunInv, [Next]_vars PROVE RunInv'
  OBVIOUS
<1> USE DEF RunInv
<1>1. /\ ing \in Ingests /\ run \in Runs /\ documents \subseteq Accession
      /\ ing.pc # "none" => run.pc = "genre" /\ run.genres # <<>>
  BY DEF IInv, Shapes, RunShape
<1>2. NoIngest.pc = "none" /\ NoIngest.rows = {} /\ NoIngest.candidates = <<>>
  BY DEF NoIngest
<1>3. CASE IngestStep /\ UNCHANGED <<pipelineVars, run>>
  <2>1. /\ OwnGenre' /\ ing'.pc # "none" /\ ing'.genre = ing.genre
        /\ documents' \subseteq documents \cup AccessionsOf(ing.genre)
        /\ ing.pc = "reading"
    BY <1>3, IngestStepOwnGenre, IngestStepReads
  <2>2. run' = run /\ prepared' = prepared /\ run.pc = "genre" /\ run.genres # <<>>
    BY <1>1, <1>3, <2>1 DEF pipelineVars
  <2>3. ing.genre \in Left(run.genres)
    BY <1>1, <2>1, <2>2, HeadAndTail DEF Runs
  <2>4. ASSUME NEW g \in Genre \ (run.failed \cup Left(run.genres))
        PROVE  documents' \cap AccessionsOf(g) \subseteq prepared \cup run.held
    <3>1. AccessionsOf(g) \cap AccessionsOf(ing.genre) = {}
      BY <1>1, <2>3, GenresAreApart DEF Ingests
    <3> QED BY <2>1, <2>2, <3>1 DEF PreparedBut
  <2> QED BY <2>1, <2>2, <2>4 DEF PreparedBut
<1>4. ASSUME NEW mode \in {"daily", "live"}, NEW force \in BOOLEAN, StartDaily(mode, force)
      PROVE  RunInv'
  <2>1. /\ run' = [NoRun EXCEPT !.pc = "genre", !.mode = mode, !.force = force,
                     !.genres = Genres]
        /\ ing' = ing /\ ing.pc = "none" /\ documents' = documents /\ prepared' = prepared
    BY <1>1, <1>4 DEF StartDaily, pipelineVars
  <2>2. run'.pc = "genre" /\ run'.mode = mode /\ run'.genres = Genres
    BY <2>1 DEF NoRun
  <2>3. Genre \subseteq Left(Genres)
    BY DEF Genre, Genres, Left
  <2> QED BY <2>1, <2>2, <2>3 DEF PreparedBut, OwnGenre
<1>5. CASE IngestGenre
  <2>1. CASE run.genres = <<>>
    <3>1. Left(run.genres) = {}
      BY <2>1 DEF Left
    <3>2. /\ run' = [run EXCEPT !.pc = AfterGenres] /\ ing' = ing /\ ing.pc = "none"
          /\ run.pc = "genre"
          /\ documents' = documents /\ prepared' = prepared
      BY <1>5, <2>1 DEF IngestGenre, pipelineVars
    <3>3. /\ run'.pc = AfterGenres /\ run'.mode = run.mode /\ run'.failed = run.failed
          /\ run'.held = run.held
      BY <1>1, <3>2 DEF Runs
    <3> QED BY <3>1, <3>2, <3>3 DEF AfterGenres, PreparedBut, OwnGenre
  <2>2. CASE run.genres # <<>>
    <3>1. /\ run' = run /\ run.pc = "genre" /\ StartIngest(Head(run.genres), run.force)
          /\ documents' = documents /\ prepared' = prepared
      BY <1>5, <2>2 DEF IngestGenre, pipelineVars
    <3>2. ing'.genre = Head(run.genres) /\ ing'.rows = {} /\ ing'.candidates = <<>>
      BY <3>1 DEF StartIngest, NoIngest
    <3> QED BY <3>1, <3>2 DEF PreparedBut, OwnGenre
  <2> QED BY <2>1, <2>2
<1>6. CASE PrepareGenre \/ GenreRaises
  <2>1. /\ ing.pc # "none" /\ ing' = NoIngest /\ run.pc = "genre" /\ run.genres # <<>>
        /\ ing.genre = Head(run.genres) /\ documents' = documents
        /\ prepared \subseteq prepared'
    BY <1>1, <1>6 DEF PrepareGenre, GenreRaises, pipelineVars
  <2>2. /\ run'.pc = "genre" /\ run'.mode = run.mode /\ run'.genres = Tail(run.genres)
        /\ run.failed \subseteq run'.failed /\ run.held \subseteq run'.held
    BY <1>1, <1>6, <2>1 DEF PrepareGenre, GenreRaises, Runs
  <2>3. Left(run.genres) = {ing.genre} \cup Left(Tail(run.genres))
    BY <1>1, <2>1, HeadAndTail DEF Runs
  <2>4. \/ ing.genre \in run'.failed
        \/ documents \cap AccessionsOf(ing.genre) \subseteq prepared' \cup run'.held
    <3>1. CASE PrepareGenre
      <4>1. PICK held \in SUBSET PendingOf(ing.genre) :
              /\ prepared' = prepared \cup (PendingOf(ing.genre) \ held)
              /\ run' = [run EXCEPT !.genres = Tail(@), !.held = @ \cup held]
        BY <3>1 DEF PrepareGenre
      <4>2. run'.held = run.held \cup held
        BY <1>1, <4>1 DEF Runs
      <4> QED BY <4>1, <4>2 DEF PendingOf
    <3>2. CASE GenreRaises
      BY <1>1, <3>2 DEF GenreRaises, Runs
    <3> QED BY <1>6, <3>1, <3>2
  <2> QED BY <1>2, <2>1, <2>2, <2>3, <2>4 DEF PreparedBut, OwnGenre
<1>7. CASE Extract
  BY <1>1, <1>7 DEF Extract, LiveWork, Runs, ingestVars, PreparedBut, OwnGenre
<1>8. CASE ClearMarker \/ Submit \/ Finalize
  <2>1. ing' = ing /\ ing.pc = "none"
    BY <1>1, <1>8 DEF ClearMarker, Submit, Finalize, ingestVars
  <2>2. CASE ClearMarker
    <3>1. run'.pc = "publish" /\ run'.mode = "poll"
      BY <1>1, <2>2 DEF ClearMarker, Runs
    <3> QED BY <2>1, <3>1 DEF OwnGenre
  <2>3. CASE Submit
    <3>1. run'.pc = "idle"
      BY <2>3 DEF Submit, NoRun
    <3> QED BY <2>1, <3>1 DEF OwnGenre
  <2>4. CASE Finalize
    <3>1. run'.pc = "clear" /\ run'.mode = "poll"
      BY <2>4 DEF Finalize, NoRun
    <3> QED BY <2>1, <3>1 DEF OwnGenre
  <2> QED BY <1>8, <2>2, <2>3, <2>4
<1>9. CASE MatchAndPublish
  <2>1. run'.pc = "idle" /\ ing' = ing /\ ing.pc = "none"
    BY <1>1, <1>9 DEF MatchAndPublish, Ended, NoRun, ingestVars
  <2> QED BY <2>1 DEF OwnGenre
<1>10. CASE ExtractAborts \/ Die
  <2>1. run'.pc = "idle" /\ (ing' = NoIngest \/ (ing' = ing /\ ing.pc = "none"))
    <3>1. Raised.pc = "idle"
      BY DEF Raised, NoRun
    <3>2. CASE ExtractAborts
      <4>1. run' = Raised /\ ing' = ing /\ run.pc = "extract"
        BY <3>2 DEF ExtractAborts
      <4> QED BY <1>1, <3>1, <4>1
    <3>3. CASE Die
      <4>1. run' = Raised /\ ing' = NoIngest
        BY <3>3 DEF Die
      <4> QED BY <3>1, <4>1
    <3> QED BY <1>10, <3>2, <3>3
  <2> QED BY <1>2, <2>1 DEF OwnGenre
<1>11. ASSUME UNCHANGED <<documents, run, pipelineVars>>,
              ing' = ing \/ \E S : ing' = [ing EXCEPT !.good = S]
       PROVE  RunInv'
  <2>1. /\ ing'.pc = ing.pc /\ ing'.genre = ing.genre /\ ing'.rows = ing.rows
        /\ ing'.candidates = ing.candidates
    BY <1>1, <1>11 DEF Ingests
  <2> QED BY <1>11, <2>1 DEF pipelineVars, PreparedBut, OwnGenre
<1>12. ASSUME NEW m \in Manifest, NEW w \in Writings,
              Scrape(m, w), UNCHANGED <<pipelineVars, run>>
       PROVE  RunInv'
  BY <1>11, <1>12 DEF Scrape
<1>13. CASE NextDay /\ UNCHANGED <<pipelineVars, run>>
  BY <1>11, <1>13 DEF NextDay
<1>14. CASE UNCHANGED vars
  BY <1>11, <1>14 DEF vars, ingestVars
<1> QED
  BY <1>3, <1>4, <1>5, <1>6, <1>7, <1>8, <1>9, <1>10, <1>12, <1>13, <1>14
  DEF Next, RunStep

(***************************************************************************)
(* Theorem: a daily run that reports success left nothing behind but the   *)
(* 6-K filings it held on the provider and warned of.                      *)
(***************************************************************************)
THEOREM SuccessIsComplete == Spec => SuccessLeavesNothing
<1> DEFINE Complete ==
      run.pc # "idle" /\ run'.pc = "idle" /\ run'.exit = 0 /\ run.mode # "poll" =>
        /\ documents \subseteq prepared \cup run.held
        /\ run.held \subseteq AccessionsOf("6-K")
        /\ mentions \subseteq published'
        /\ run.mode = "live" => prepared \subseteq mentions \cup job
<1>1. RunShape /\ IInv /\ RunInv /\ [Next]_vars => [Complete]_vars
  <2> SUFFICES ASSUME RunShape, IInv, RunInv, Next,
                      run.pc # "idle", run'.pc = "idle", run'.exit = 0, run.mode # "poll"
               PROVE  /\ documents \subseteq prepared \cup run.held
                      /\ run.held \subseteq AccessionsOf("6-K")
                      /\ mentions \subseteq published'
                      /\ run.mode = "live" => prepared \subseteq mentions \cup job
    OBVIOUS
  <2>1. run \in Runs /\ documents \subseteq Accession
    BY DEF RunShape, IInv, Shapes
  <2>2. Raised.exit = 1
    BY DEF Raised, NoRun
  <2>3. MatchAndPublish
    <3>1. run'.pc # run.pc
      OBVIOUS
    <3>2. ~(ExtractAborts \/ Die)
      BY <2>2 DEF ExtractAborts, Die
    <3>3. ~(IngestGenre \/ PrepareGenre \/ GenreRaises \/ Extract \/ ClearMarker)
      BY <2>1 DEF IngestGenre, AfterGenres, PrepareGenre, GenreRaises, Extract, ClearMarker, Runs
    <3>4. ~(Submit \/ Finalize)
      BY DEF Submit, Finalize
    <3>5. ASSUME NEW mode \in {"daily", "live"}, NEW force \in BOOLEAN PROVE ~StartDaily(mode, force)
      BY DEF StartDaily
    <3> QED BY <3>1, <3>2, <3>3, <3>4, <3>5 DEF Next, RunStep
  <2>4. run.failed = {}
    BY <2>3 DEF MatchAndPublish, Ended, NoRun
  <2>5. PreparedBut({}) /\ (run.mode = "live" => prepared \subseteq mentions \cup job)
    BY <2>3, <2>4 DEF MatchAndPublish, RunInv
  <2>6. ASSUME NEW a \in documents PROVE a \in prepared \cup run.held
    <3>1. PICK m \in Manifest : a = AccessionOf[m]
      BY <2>1 DEF Accession
    <3>2. GenreOf[m] \in Genre /\ a \in AccessionsOf(GenreOf[m])
      BY <3>1 DEF AccessionsOf
    <3> QED BY <2>5, <3>2 DEF PreparedBut
  <2> QED BY <2>1, <2>3, <2>5, <2>6 DEF MatchAndPublish, Runs
<1> QED
  BY InitRunShape, NextRunShape, InitIInv, NextIInv, InitRunInv, NextRunInv, <1>1, PTL
  DEF Spec, SuccessLeavesNothing
=============================================================================
