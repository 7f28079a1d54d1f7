------------------------ MODULE PartitionStageProofs ------------------------
(***************************************************************************)
(* Proofs about PartitionStage, for any filings, days, months and gate,    *)
(* and any number of rewrites, forces, retries, failed calls, deaths and   *)
(* lost registry races.                                                    *)
(***************************************************************************)
EXTENDS PartitionStage, TLAPS, WellFoundedInduction

USE PartitionStageAssumption

(***************************************************************************)
(* What an entry of a registry promises about the files, given as          *)
(* arguments: it is not from the future, what it calls done was written,   *)
(* and a text it calls done and that is gone never comes back.             *)
(***************************************************************************)
Cutting(d) == IF d \in Gated THEN 0 ELSE d

SegmentEntryOk(p, e, ds, ws) ==
  e.fingerprint # NoVersion =>
    /\ \A f \in FilingsOf("segment", p) :
         e.fingerprint[1][f] \in Nat /\ e.fingerprint[1][f] <= ds[f]
    /\ e.fingerprint = <<[f \in FilingsOf("segment", p) |-> ds[f]]>> =>
         \A f \in FilingsOf("segment", p) : ws[f] = Cutting(ds[f])

KeysOk(m, done, ds, ws, sn) ==
  \A f \in FilingsOf("triage", m) : \A w \in Nat \ {0} : <<f, w>> \in done =>
    /\ w <= ds[f] /\ w \notin Gated
    /\ ws[f] = w => sn[f].win = w
    /\ ws[f] # w => w < ds[f]

TriageEntryOk(m, e, ds, ws, cs, sn) ==
  /\ e.fingerprint # NoVersion => e.fingerprint[1] \in Nat /\ e.fingerprint[1] <= cs[m]
  /\ e.complete /\ cs[m] > 0 /\ e.fingerprint = <<cs[m]>> =>
       \A f \in FilingsOf("triage", m) : sn[f].win = ws[f]
  /\ KeysOk(m, e.done, ds, ws, sn)

EntryOk(s, p, e, ds, ws, cs, sn) ==
  /\ s = "segment" => SegmentEntryOk(p, e, ds, ws)
  /\ s = "triage" => TriageEntryOk(p, e, ds, ws, cs, sn)

(***************************************************************************)
(* What the buffered output of a partition will write.                     *)
(***************************************************************************)
CutOk(p, o, ds) == \A f \in FilingsOf("segment", p) : o.rows[f] = Cutting(ds[f])

TriagedOk(m, o, ws, sn) ==
  \A f \in FilingsOf("triage", m) :
    /\ o.rows[f] = sn[f] \/ o.rows[f].win = ws[f]
    /\ o.complete => o.rows[f].win = ws[f]
    /\ \A w \in Nat \ {0} : <<f, w>> \in o.done => w = ws[f] /\ o.rows[f].win = w

OutputOk(s, p, o, ds, ws, sn) ==
  /\ s = "segment" => CutOk(p, o, ds)
  /\ s = "triage" => TriagedOk(p, o, ws, sn)

(***************************************************************************)
(* The invariant.                                                          *)
(***************************************************************************)
FilesOk ==
  /\ docs \in [Filing -> Nat \ {0}] /\ windows \in [Filing -> Nat] /\ cuts \in [Month -> Nat]
  /\ DOMAIN snippets = Filing
  /\ \A f \in Filing : windows[f] <= docs[f] /\ (windows[f] = 0 \/ windows[f] \notin Gated)

RegistryOk ==
  /\ DOMAIN registry = Stage
  /\ \A s \in Stage : DOMAIN registry[s] = Partition(s)
  /\ \A s \in Stage : \A p \in Partition(s) :
       EntryOk(s, p, registry[s][p], docs, windows, cuts, snippets)

RunShape ==
  /\ run = [pc |-> run.pc, stage |-> run.stage, force |-> run.force, todo |-> run.todo,
            entries |-> run.entries, dirty |-> run.dirty, month |-> run.month,
            outputs |-> run.outputs, list |-> run.list, changed |-> run.changed,
            owed |-> run.owed, shard |-> run.shard, seen |-> run.seen,
            tries |-> run.tries]
  /\ run.stage \in Stage
  /\ run.pc \notin {"retry", "retry_list"} => run.todo \subseteq Partition(run.stage)
  /\ DOMAIN run.outputs \subseteq Partition(run.stage)
  /\ run.pc \in {"retry", "retry_list"} => run.stage = "triage" /\ run.outputs = NoOutputs

EntriesOk ==
  run.pc \in {"loop", "saving", "swap"} =>
    /\ DOMAIN run.entries = Partition(run.stage)
    /\ \A p \in Partition(run.stage) :
         EntryOk(run.stage, p, run.entries[p], docs, windows, cuts, snippets)

OutputsOk ==
  \A p \in DOMAIN run.outputs :
    /\ MonthOfPartition(run.stage, p) = run.month
    /\ OutputOk(run.stage, p, run.outputs[p], docs, windows, snippets)

IInv == FilesOk /\ RegistryOk /\ RunShape /\ EntriesOk /\ OutputsOk

LEMMA NoOutputsIsEmpty == DOMAIN NoOutputs = {}
BY DEF NoOutputs

LEMMA NoEntryOk ==
  ASSUME NEW s \in Stage, NEW p, NEW ds, NEW ws, NEW cs, NEW sn
  PROVE  EntryOk(s, p, NoEntry, ds, ws, cs, sn)
BY DEF EntryOk, SegmentEntryOk, TriageEntryOk, KeysOk, NoEntry, NoVersion

LEMMA InitIInv == Init => IInv
<1> SUFFICES ASSUME Init PROVE IInv
  OBVIOUS
<1>1. FilesOk
  BY DEF Init, FilesOk
<1>2. RegistryOk
  BY NoEntryOk DEF Init, RegistryOk
<1>3. RunShape /\ EntriesOk /\ OutputsOk
  BY NoOutputsIsEmpty DEF Init, RunShape, EntriesOk, OutputsOk, Idle, Stage
<1> QED BY <1>1, <1>2, <1>3 DEF IInv

(***************************************************************************)
(* Lemma: promises survive a write of rows that either stay or belong to   *)
(* the present windows.                                                    *)
(***************************************************************************)
LEMMA KeptBySnippets ==
  ASSUME NEW s, NEW p, NEW e, NEW ds, NEW ws, NEW cs, NEW sn, NEW sn2,
         \A f \in Filing : sn2[f] = sn[f] \/ sn2[f].win = ws[f],
         EntryOk(s, p, e, ds, ws, cs, sn)
  PROVE  EntryOk(s, p, e, ds, ws, cs, sn2)
BY DEF EntryOk, TriageEntryOk, KeysOk, FilingsOf

(***************************************************************************)
(* Lemma: ... and a cut of any days of a month.                            *)
(***************************************************************************)
LEMMA KeptByCut ==
  ASSUME NEW s \in Stage, NEW p \in Partition(s), NEW e,
         NEW ds \in [Filing -> Nat \ {0}], NEW ws \in [Filing -> Nat],
         NEW ws2 \in [Filing -> Nat], NEW cs \in [Month -> Nat], NEW cs2 \in [Month -> Nat],
         NEW sn,
         \A f \in Filing : ws2[f] = ws[f] \/ ws2[f] = Cutting(ds[f]),
         \A f \in Filing : MonthOf[DayOf[f]] # run.month => ws2[f] = ws[f],
         \A m \in Month : cs2[m] = IF m = run.month /\ cs2[m] # 0 THEN cs[m] + 1 ELSE cs[m],
         EntryOk(s, p, e, ds, ws, cs, sn)
  PROVE  EntryOk(s, p, e, ds, ws2, cs2, sn)
<1>1. CASE s = "segment"
  BY <1>1 DEF EntryOk, SegmentEntryOk, FilingsOf
<1>2. CASE s = "triage"
  <2>1. p \in Month /\ TriageEntryOk(p, e, ds, ws, cs, sn)
    BY <1>2 DEF EntryOk, Partition
  <2>2. e.fingerprint # NoVersion => e.fingerprint[1] \in Nat /\ e.fingerprint[1] <= cs2[p]
    BY <2>1 DEF TriageEntryOk
  <2>3. ASSUME e.complete, cs2[p] > 0, e.fingerprint = <<cs2[p]>>,
               NEW f \in FilingsOf("triage", p)
        PROVE  sn[f].win = ws2[f]
    <3>1. e.fingerprint # NoVersion /\ e.fingerprint[1] = cs2[p]
      BY <2>3 DEF NoVersion
    <3>2. cs2[p] = cs[p] /\ p # run.month
      BY <2>1, <2>3, <3>1 DEF TriageEntryOk
    <3>3. f \in Filing /\ MonthOf[DayOf[f]] = p
      BY <2>3 DEF FilingsOf, Home
    <3> QED BY <2>1, <2>3, <3>2, <3>3 DEF TriageEntryOk
  <2>4. ASSUME NEW f \in FilingsOf("triage", p), NEW w \in Nat \ {0}, <<f, w>> \in e.done
        PROVE  w <= ds[f] /\ w \notin Gated /\ (ws2[f] = w => sn[f].win = w) /\ (ws2[f] # w => w < ds[f])
    <3>1. f \in Filing /\ ds[f] \in Nat /\ ws[f] \in Nat
      BY <2>4 DEF FilingsOf
    <3>2. w <= ds[f] /\ w \notin Gated /\ (ws[f] = w => sn[f].win = w) /\ (ws[f] # w => w < ds[f])
      BY <2>1, <2>4 DEF TriageEntryOk, KeysOk
    <3>3. CASE ws2[f] = ws[f]
      BY <3>2, <3>3
    <3>4. CASE ws2[f] = Cutting(ds[f]) /\ ws[f] # w
      BY <3>1, <3>2, <3>4 DEF Cutting
    <3>5. CASE ws2[f] = Cutting(ds[f]) /\ ws[f] = w
      BY <3>1, <3>2, <3>5 DEF Cutting
    <3> QED BY <3>1, <3>3, <3>4, <3>5
  <2> QED BY <1>2, <2>2, <2>3, <2>4 DEF EntryOk, TriageEntryOk, KeysOk
<1> QED BY <1>1, <1>2 DEF Stage

(***************************************************************************)
(* Lemma: what `_WindowPartitionTriage` yields for filings whose keys are  *)
(* sound.                                                                  *)
(***************************************************************************)
LEMMA TriageOutputOk ==
  ASSUME FilesOk, NEW m, NEW done, NEW infra, NEW failed,
         NEW among \in SUBSET FilingsOf("triage", m),
         KeysOk(m, done, docs, windows, snippets)
  PROVE  LET o == Triage(among, done, infra, failed) IN
         /\ \A f \in among : /\ o.rows[f] = snippets[f] \/ o.rows[f].win = windows[f]
                             /\ o.complete => o.rows[f].win = windows[f]
         /\ \A f \in among : \A w \in Nat \ {0} :
              <<f, w>> \in o.done => w = windows[f] /\ o.rows[f].win = w
<1> DEFINE fresh == Windowed(among) \ Carried(among, done)
           held  == Stale(fresh) \cup infra
           o     == Triage(among, done, infra, failed)
<1>1. /\ o.complete = (held = {})
      /\ o.done = {<<f, windows[f]>> : f \in Windowed(among) \ (held \cup failed)}
      /\ \A f \in among : o.rows[f] =
           IF f \in fresh \ held THEN Verdict(f, failed)
           ELSE IF f \in Windowed(among) THEN snippets[f] ELSE NoRow
  BY DEF Triage, Output
<1>2. \A f \in Carried(among, done) : snippets[f].win = windows[f]
  <2> TAKE f \in Carried(among, done)
  <2>1. f \in FilingsOf("triage", m) /\ f \in Filing /\ windows[f] # 0
        /\ <<f, windows[f]>> \in done
    BY DEF Carried, Windowed, FilingsOf
  <2>2. windows[f] \in Nat \ {0}
    BY <2>1 DEF FilesOk
  <2> QED BY <2>1, <2>2 DEF KeysOk
<1>3. \A f \in among : f \notin Windowed(among) => windows[f] = 0
  BY DEF Windowed
<1>4. ASSUME NEW f \in among
      PROVE  /\ o.rows[f] = snippets[f] \/ o.rows[f].win = windows[f]
             /\ f \notin held => o.rows[f].win = windows[f]
  <2> HIDE DEF o, held
  <2>1. CASE f \in fresh \ held
    <3>1. o.rows[f] = Verdict(f, failed)
      BY <1>1, <2>1
    <3> QED BY <3>1 DEF Verdict
  <2>2. CASE f \notin fresh \ held /\ f \in Windowed(among)
    <3>1. o.rows[f] = snippets[f]
      BY <1>1, <2>2
    <3>2. f \notin held => f \in Carried(among, done)
      BY <2>2
    <3> QED BY <1>2, <3>1, <3>2
  <2>3. CASE f \notin Windowed(among)
    <3>1. o.rows[f] = NoRow
      BY <1>1, <2>3
    <3> QED BY <1>3, <2>3, <3>1 DEF NoRow
  <2> QED BY <2>1, <2>2, <2>3
<1>5. ASSUME NEW f \in among, NEW w \in Nat \ {0}, <<f, w>> \in o.done
      PROVE  w = windows[f] /\ o.rows[f].win = w
  <2>1. PICK g \in Windowed(among) \ (held \cup failed) : <<f, w>> = <<g, windows[g]>>
    BY <1>1, <1>5
  <2> QED BY <1>4, <2>1
<1> HIDE DEF o, held
<1> QED BY <1>1, <1>4, <1>5 DEF o

LEMMA MonthsCount ==
  ASSUME NEW s \in Stage, NEW p \in Partition(s)
  PROVE  MonthOfPartition(s, p) \in Month /\ MonthOfPartition(s, p) # NoMonth
BY DEF Stage, Partition, MonthOfPartition, Month, NoMonth, Day

(***************************************************************************)
(* Lemma: the loop buffers an output that is sound for its partition.      *)
(***************************************************************************)
LEMMA TakeIInv ==
  ASSUME IInv, NEW p \in Partition(run.stage), NEW output, Take(p, output),
         OutputOk(run.stage, p, output, docs, windows, snippets)
  PROVE  IInv'
<1> USE DEF IInv
<1>1. PICK due \in BOOLEAN, list \in {run'.list}, changed \in {run'.changed} :
        run' = [run EXCEPT
            !.pc = IF due THEN "saving" ELSE "loop",
            !.todo = @ \ {p},
            !.month = MonthOfPartition(run.stage, p),
            !.outputs = [q \in DOMAIN @ \cup {p} |-> IF q = p THEN output ELSE @[q]],
            !.list = list,
            !.changed = changed]
  BY DEF Take, RunShape
<1>2. /\ run'.pc \in {"saving", "loop"} /\ run'.stage = run.stage
      /\ run'.todo = run.todo \ {p} /\ run'.entries = run.entries
      /\ run'.month = MonthOfPartition(run.stage, p)
      /\ DOMAIN run'.outputs = DOMAIN run.outputs \cup {p}
      /\ \A q \in DOMAIN run.outputs \cup {p} :
           run'.outputs[q] = IF q = p THEN output ELSE run.outputs[q]
  BY <1>1 DEF RunShape
<1>3. RunShape'
  <2>2. run' = [pc |-> run'.pc, stage |-> run'.stage, force |-> run'.force,
                todo |-> run'.todo, entries |-> run'.entries, dirty |-> run'.dirty,
                month |-> run'.month, outputs |-> run'.outputs, list |-> run'.list,
                changed |-> run'.changed, owed |-> run'.owed, shard |-> run'.shard,
                seen |-> run'.seen, tries |-> run'.tries]
    BY <1>1 DEF RunShape
  <2> QED BY <1>2, <2>2 DEF RunShape, Take
<1>4. FilesOk' /\ RegistryOk' /\ EntriesOk'
  BY <1>2 DEF Take, FilesOk, RegistryOk, EntriesOk
<1>5. \A q \in DOMAIN run.outputs : run'.month = MonthOfPartition(run.stage, q)
  <2> TAKE q \in DOMAIN run.outputs
  <2>1. MonthOfPartition(run.stage, q) = run.month /\ q \in Partition(run.stage)
    BY DEF OutputsOk, RunShape
  <2>2. run.month # NoMonth
    BY <2>1, MonthsCount DEF RunShape
  <2> QED BY <1>2, <2>1, <2>2 DEF Take
<1>6. OutputsOk'
  BY <1>2, <1>5 DEF OutputsOk, Take
<1> QED BY <1>3, <1>4, <1>6

(***************************************************************************)
(* Lemma: steps that write no file and no registry.                        *)
(***************************************************************************)
LEMMA RunOnlyIInv ==
  ASSUME IInv, UNCHANGED <<docs, windows, cuts, snippets, registry>>, RunShape',
         \/ run'.pc \in {"idle", "retry", "retry_list"} /\ run'.outputs = NoOutputs
         \/ /\ run.pc \in {"loop", "saving", "swap"}
            /\ run'.entries = run.entries /\ run'.outputs = run.outputs
            /\ run'.stage = run.stage /\ run'.month = run.month
  PROVE  IInv'
<1>1. FilesOk' /\ RegistryOk'
  BY DEF IInv, FilesOk, RegistryOk
<1>2. EntriesOk' /\ OutputsOk'
  BY NoOutputsIsEmpty DEF IInv, EntriesOk, OutputsOk
<1> QED BY <1>1, <1>2 DEF IInv

(***************************************************************************)
(* Lemma: a flush makes good the entries of what it writes.                *)
(***************************************************************************)
LEMMA FlushIInv == IInv /\ Flush => IInv'
<1> SUFFICES ASSUME IInv, Flush PROVE IInv'
  OBVIOUS
<1> USE DEF IInv
<1>1. PICK pc \in {run.pc, "saving"}, dirty \in {run'.dirty}, owed \in {run'.owed} :
        run' = [run EXCEPT
          !.pc = pc,
          !.entries = [p \in DOMAIN @ |->
                         IF p \in DOMAIN run.outputs THEN Entry(p) ELSE @[p]],
          !.dirty = dirty, !.owed = owed, !.month = NoMonth, !.outputs = NoOutputs]
  BY DEF Flush, RunShape
<1>2. /\ run.pc \in {"loop", "saving"} /\ run'.pc \in {"loop", "saving"}
      /\ run'.stage = run.stage /\ run'.todo = run.todo /\ run'.outputs = NoOutputs
      /\ DOMAIN run'.entries = Partition(run.stage)
      /\ \A p \in Partition(run.stage) : run'.entries[p] =
           IF p \in DOMAIN run.outputs THEN Entry(p) ELSE run.entries[p]
      /\ UNCHANGED <<docs, registry>>
  BY <1>1 DEF Flush, RunShape, EntriesOk
<1>3. RunShape'
  <2>1. run' = [pc |-> run'.pc, stage |-> run'.stage, force |-> run'.force,
                todo |-> run'.todo, entries |-> run'.entries, dirty |-> run'.dirty,
                month |-> run'.month, outputs |-> run'.outputs, list |-> run'.list,
                changed |-> run'.changed, owed |-> run'.owed, shard |-> run'.shard,
                seen |-> run'.seen, tries |-> run'.tries]
    BY <1>1 DEF RunShape
  <2> QED BY <1>2, <2>1, NoOutputsIsEmpty DEF RunShape
<1>4. OutputsOk'
  BY <1>2, NoOutputsIsEmpty DEF OutputsOk
<1>5. \A p \in DOMAIN run.outputs :
        /\ p \in Partition(run.stage) /\ MonthOfPartition(run.stage, p) = run.month
        /\ OutputOk(run.stage, p, run.outputs[p], docs, windows, snippets)
  BY DEF OutputsOk, RunShape
<1>6. CASE run.stage = "segment"
  <2>1. UNCHANGED snippets /\ windows' = Written(windows)
    BY <1>6 DEF Flush
  <2>2. /\ cuts' \in [Month -> Nat]
        /\ \A m \in Month : cuts'[m] =
             IF m = run.month /\ cuts'[m] # 0 THEN cuts[m] + 1 ELSE cuts[m]
    <3>1. \/ cuts' = [cuts EXCEPT ![run.month] = @ + 1]
          \/ cuts' = cuts /\ ~(cuts[run.month] > 0)
      BY <1>6 DEF Flush
    <3> QED BY <3>1 DEF FilesOk
  <2>3. ASSUME NEW f \in Filing
        PROVE  /\ windows'[f] = IF DayOf[f] \in DOMAIN run.outputs
                                THEN Cutting(docs[f]) ELSE windows[f]
               /\ MonthOf[DayOf[f]] # run.month => windows'[f] = windows[f]
    BY <1>5, <1>6, <2>1 DEF Written, Home, OutputOk, CutOk, FilingsOf, MonthOfPartition
  <2>4. FilesOk' /\ windows' \in [Filing -> Nat]
    BY <1>2, <2>1, <2>2, <2>3 DEF FilesOk, Cutting, Written
  <2>5. ASSUME NEW s \in Stage, NEW p \in Partition(s), NEW e,
               EntryOk(s, p, e, docs, windows, cuts, snippets)
        PROVE  EntryOk(s, p, e, docs, windows', cuts', snippets)
    <3>1. /\ docs \in [Filing -> Nat \ {0}] /\ windows \in [Filing -> Nat]
          /\ cuts \in [Month -> Nat]
      BY DEF FilesOk
    <3>2. \A f \in Filing : windows'[f] = windows[f] \/ windows'[f] = Cutting(docs[f])
      BY <2>3
    <3>3. \A f \in Filing : MonthOf[DayOf[f]] # run.month => windows'[f] = windows[f]
      BY <2>3
    <3>4. windows' \in [Filing -> Nat]
      BY <2>4
    <3> HIDE DEF IInv
    <3> QED BY <2>2, <2>5, <3>1, <3>2, <3>3, <3>4, KeptByCut
  <2>6. RegistryOk'
    BY <1>2, <2>1, <2>5 DEF RegistryOk
  <2>7. ASSUME NEW p \in DOMAIN run.outputs
        PROVE  EntryOk("segment", p, Entry(p), docs, windows', cuts', snippets)
    <3>1. Entry(p).fingerprint = <<[f \in FilingsOf("segment", p) |-> docs[f]]>>
      BY <1>6 DEF Entry, Version
    <3>2. \A f \in FilingsOf("segment", p) :
            windows'[f] = Cutting(docs[f]) /\ docs[f] \in Nat
      BY <2>3 DEF FilingsOf, Home, FilesOk
    <3> QED BY <3>1, <3>2 DEF EntryOk, SegmentEntryOk
  <2>8. EntriesOk'
    BY <1>2, <1>6, <2>1, <2>5, <2>7 DEF EntriesOk, RunShape
  <2> QED BY <1>3, <1>4, <2>4, <2>6, <2>8
<1>7. CASE run.stage = "triage"
  <2>1. UNCHANGED <<windows, cuts>> /\ snippets' = Written(snippets)
    BY <1>7 DEF Flush
  <2>2. \A f \in Filing : MonthOf[DayOf[f]] \in DOMAIN run.outputs =>
          f \in FilingsOf("triage", MonthOf[DayOf[f]])
          /\ snippets'[f] = run.outputs[MonthOf[DayOf[f]]].rows[f]
    BY <1>7, <2>1 DEF Written, Home, FilingsOf
  <2>3. \A f \in Filing : snippets'[f] = snippets[f] \/ snippets'[f].win = windows[f]
    BY <1>5, <1>7, <2>1, <2>2 DEF Written, Home, OutputOk, TriagedOk
  <2>4. FilesOk'
    BY <1>2, <2>1 DEF FilesOk, Written
  <2>5. ASSUME NEW s, NEW p, NEW e, EntryOk(s, p, e, docs, windows, cuts, snippets)
        PROVE  EntryOk(s, p, e, docs, windows, cuts, snippets')
    BY <2>3, <2>5, KeptBySnippets
  <2>6. RegistryOk'
    BY <1>2, <2>1, <2>5 DEF RegistryOk
  <2>7. ASSUME NEW p \in DOMAIN run.outputs
        PROVE  EntryOk("triage", p, Entry(p), docs, windows, cuts, snippets')
    <3>1. p \in Month /\ TriagedOk(p, run.outputs[p], windows, snippets)
      BY <1>5, <1>7 DEF OutputOk, Partition
    <3>2. ASSUME NEW f \in FilingsOf("triage", p)
          PROVE  f \in Filing /\ snippets'[f] = run.outputs[p].rows[f]
      BY <2>2 DEF FilingsOf, Home
    <3>3. /\ Entry(p).fingerprint = IF cuts[p] = 0 THEN NoVersion ELSE <<cuts[p]>>
          /\ Entry(p).done = run.outputs[p].done
          /\ Entry(p).complete = run.outputs[p].complete
      BY <1>7 DEF Entry, Version
    <3>4. Entry(p).fingerprint # NoVersion =>
            Entry(p).fingerprint[1] \in Nat /\ Entry(p).fingerprint[1] <= cuts[p]
      BY <3>1, <3>3 DEF FilesOk
    <3>5. KeysOk(p, Entry(p).done, docs, windows, snippets')
      BY <3>1, <3>2, <3>3 DEF KeysOk, TriagedOk, FilesOk
    <3>6. Entry(p).complete => \A f \in FilingsOf("triage", p) : snippets'[f].win = windows[f]
      BY <3>1, <3>2, <3>3 DEF TriagedOk
    <3> QED BY <3>4, <3>5, <3>6 DEF EntryOk, TriageEntryOk
  <2>8. EntriesOk'
    BY <1>2, <1>7, <2>1, <2>5, <2>7 DEF EntriesOk, RunShape
  <2> QED BY <1>3, <1>4, <2>4, <2>6, <2>8
<1> QED BY <1>6, <1>7 DEF RunShape, Stage

LEMMA SwapIInv == IInv /\ SwapShard => IInv'
<1> SUFFICES ASSUME IInv, SwapShard PROVE IInv'
  OBVIOUS
<1> USE DEF IInv
<1>1. /\ run.pc = "swap" /\ Shard(run.stage, run.shard) = run.seen
      /\ UNCHANGED <<docs, windows, cuts, snippets>>
      /\ registry' = [registry EXCEPT
                        ![run.stage] = Overlay(run.stage, run.shard, run.seen)]
  BY DEF SwapShard
<1>2. RunShape'
  BY DEF SwapShard, RunShape
<1>3. /\ run'.pc = "saving" /\ run'.entries = run.entries /\ run'.outputs = run.outputs
      /\ run'.stage = run.stage /\ run'.month = run.month
  BY DEF SwapShard, RunShape
<1>4. ASSUME NEW p \in Partition(run.stage)
      PROVE  Overlay(run.stage, run.shard, run.seen)[p]
               \in {run.entries[p], registry[run.stage][p]}
  BY <1>1 DEF Overlay, Shard
<1>5. RegistryOk'
  <2>1. DOMAIN registry' = Stage
    BY <1>1 DEF RegistryOk
  <2>2. ASSUME NEW s \in Stage
        PROVE  registry'[s] = IF s = run.stage THEN Overlay(s, run.shard, run.seen)
                              ELSE registry[s]
    BY <1>1, <2>2 DEF RegistryOk
  <2>3. ASSUME NEW s \in Stage PROVE DOMAIN registry'[s] = Partition(s)
    BY <2>2, <2>3 DEF RegistryOk, Overlay
  <2>4. ASSUME NEW s \in Stage, NEW p \in Partition(s)
        PROVE  EntryOk(s, p, registry'[s][p], docs, windows, cuts, snippets)
    BY <1>1, <1>4, <2>2, <2>4 DEF RegistryOk, EntriesOk
  <2> QED BY <1>1, <2>1, <2>3, <2>4 DEF RegistryOk
<1>6. FilesOk' /\ EntriesOk' /\ OutputsOk'
  BY <1>1, <1>3 DEF FilesOk, EntriesOk, OutputsOk
<1> QED BY <1>2, <1>5, <1>6

(***************************************************************************)
(* Lemma: a retry writes only verdicts on the present windows.             *)
(***************************************************************************)
LEMMA RetryIInv ==
  ASSUME IInv, NEW m, NEW infra, NEW failed, RetryMonth(m, infra, failed)
  PROVE  IInv'
<1> DEFINE listed == run.list \cap FilingsOf("triage", m)
           output == Triage(listed, {}, infra, failed)
<1> USE DEF IInv
<1>2. /\ UNCHANGED <<docs, windows, cuts, registry>>
      /\ snippets' = IF output.complete
                     THEN [f \in Filing |-> IF f \in listed THEN output.rows[f]
                                            ELSE snippets[f]]
                     ELSE snippets
  BY DEF RetryMonth
<1>3. output.complete => \A f \in listed : output.rows[f].win = windows[f]
  <2>1. KeysOk(m, {}, docs, windows, snippets)
    BY DEF KeysOk
  <2> QED BY <2>1, TriageOutputOk
<1>4. \A f \in Filing : snippets'[f] = snippets[f] \/ snippets'[f].win = windows[f]
  BY <1>2, <1>3
<1>5. FilesOk'
  BY <1>2 DEF FilesOk
<1>6. RegistryOk'
  BY <1>2, <1>4, KeptBySnippets DEF RegistryOk
<1>7. RunShape' /\ run'.pc \in {"retry", "retry_list"} /\ run'.outputs = NoOutputs
  BY DEF RetryMonth, RunShape
<1>8. EntriesOk' /\ OutputsOk'
  BY <1>7, NoOutputsIsEmpty DEF EntriesOk, OutputsOk
<1> QED BY <1>5, <1>6, <1>7, <1>8

(***************************************************************************)
(* Lemma: the invariant is inductive.                                      *)
(***************************************************************************)
LEMMA NextIInv == IInv /\ [Next]_vars => IInv'
<1> SUFFICES ASSUME IInv, [Next]_vars PROVE IInv'
  OBVIOUS
<1>1. ASSUME NEW f \in Filing, RewriteDocument(f) PROVE IInv'
  <2>1. /\ UNCHANGED <<windows, cuts, snippets, registry, run>> /\ run = Idle
        /\ docs' = [docs EXCEPT ![f] = @ + 1]
    BY <1>1 DEF RewriteDocument
  <2>2. \A g \in Filing : docs'[g] \in {docs[g], docs[g] + 1}
    BY <2>1 DEF IInv, FilesOk
  <2>3. FilesOk'
    BY <2>1, <2>2 DEF IInv, FilesOk
  <2>4. ASSUME NEW s \in Stage, NEW p \in Partition(s), NEW e,
               EntryOk(s, p, e, docs, windows, cuts, snippets)
        PROVE  EntryOk(s, p, e, docs', windows, cuts, snippets)
    <3>1. \A g \in Filing : docs[g] \in Nat /\ docs'[g] \in Nat /\ docs[g] <= docs'[g]
      BY <2>2 DEF IInv, FilesOk
    <3>2. CASE s = "segment"
      <4>1. SUFFICES ASSUME e.fingerprint # NoVersion
                     PROVE  SegmentEntryOk(p, e, docs', windows)
        BY <3>2 DEF EntryOk, SegmentEntryOk
      <4>2. \A g \in FilingsOf("segment", p) :
              e.fingerprint[1][g] \in Nat /\ e.fingerprint[1][g] <= docs[g] /\ g \in Filing
        BY <2>4, <3>2, <4>1 DEF EntryOk, SegmentEntryOk, FilingsOf
      <4>3. ASSUME e.fingerprint = <<[g \in FilingsOf("segment", p) |-> docs'[g]]>>
            PROVE  \A g \in FilingsOf("segment", p) : docs'[g] = docs[g]
        <5>1. \A g \in FilingsOf("segment", p) : e.fingerprint[1][g] = docs'[g]
          BY <4>3
        <5> QED BY <3>1, <4>2, <5>1
      <4>4. ASSUME e.fingerprint = <<[g \in FilingsOf("segment", p) |-> docs'[g]]>>
            PROVE  \A g \in FilingsOf("segment", p) : windows[g] = Cutting(docs'[g])
        <5>1. [g \in FilingsOf("segment", p) |-> docs'[g]]
                = [g \in FilingsOf("segment", p) |-> docs[g]]
          BY <4>3, <4>4
        <5>2. \A g \in FilingsOf("segment", p) : windows[g] = Cutting(docs[g])
          BY <2>4, <3>2, <4>1, <4>4, <5>1 DEF EntryOk, SegmentEntryOk
        <5> QED BY <4>3, <4>4, <5>2
      <4>5. \A g \in FilingsOf("segment", p) : e.fingerprint[1][g] <= docs'[g]
        BY <3>1, <4>2
      <4> QED BY <4>2, <4>4, <4>5 DEF SegmentEntryOk
    <3>3. CASE s = "triage"
      BY <2>4, <3>1, <3>3 DEF EntryOk, TriageEntryOk, KeysOk, FilingsOf
    <3> QED BY <3>2, <3>3 DEF Stage
  <2>5. RegistryOk'
    BY <2>1, <2>4 DEF IInv, RegistryOk
  <2>6. RunShape' /\ EntriesOk' /\ OutputsOk'
    BY <2>1, NoOutputsIsEmpty DEF IInv, RunShape, EntriesOk, OutputsOk, Idle
  <2> QED BY <2>3, <2>5, <2>6 DEF IInv
<1>2. ASSUME NEW s \in Stage, NEW force \in BOOLEAN, StartRun(s, force) PROVE IInv'
  <2>1. /\ run'.pc = "loop" /\ run'.stage = s /\ run'.todo = Pending(s, force)
        /\ run'.entries = IF force THEN [p \in Partition(s) |-> NoEntry] ELSE registry[s]
        /\ run'.outputs = NoOutputs /\ run'.month = NoMonth
        /\ UNCHANGED <<docs, windows, cuts, snippets, registry>>
    BY <1>2 DEF StartRun, Idle
  <2>2. RunShape'
    BY <1>2, <2>1, NoOutputsIsEmpty DEF StartRun, Idle, RunShape, Pending, Present
  <2>3. FilesOk' /\ RegistryOk' /\ OutputsOk'
    BY <2>1, NoOutputsIsEmpty DEF IInv, FilesOk, RegistryOk, OutputsOk
  <2>4. EntriesOk'
    BY <2>1, NoEntryOk DEF IInv, EntriesOk, RegistryOk
  <2> QED BY <2>2, <2>3, <2>4 DEF IInv
<1>3. ASSUME NEW p \in Day, CutDay(p) PROVE IInv'
  <2>1. run.stage = "segment" /\ p \in Partition(run.stage) /\ Take(p, Cut(p))
    BY <1>3 DEF CutDay, Partition
  <2>2. OutputOk(run.stage, p, Cut(p), docs, windows, snippets)
    BY <2>1 DEF OutputOk, CutOk, Cut, Output, Cutting
  <2> QED BY <2>1, <2>2, TakeIInv
<1>4. ASSUME NEW p \in run.todo, NEW infra, NEW failed, TriageMonth(p, infra, failed)
      PROVE  IInv'
  <2> DEFINE output == Triage(FilingsOf("triage", p), DoneKeys(p), infra, failed)
  <2>1. /\ run.pc = "loop" /\ run.stage = "triage" /\ p \in Partition(run.stage)
        /\ p \in Month /\ Take(p, output)
    BY <1>4 DEF TriageMonth, IInv, RunShape, Partition
  <2>2. KeysOk(p, DoneKeys(p), docs, windows, snippets)
    <3>1. KeysOk(p, run.entries[p].done, docs, windows, snippets)
      BY <2>1 DEF IInv, EntriesOk, EntryOk, TriageEntryOk
    <3> QED BY <3>1 DEF DoneKeys, KeysOk
  <2>3. TriagedOk(p, output, windows, snippets)
    <3> HIDE DEF output
    <3>1. /\ \A f \in FilingsOf("triage", p) :
               /\ output.rows[f] = snippets[f] \/ output.rows[f].win = windows[f]
               /\ output.complete => output.rows[f].win = windows[f]
          /\ \A f \in FilingsOf("triage", p) : \A w \in Nat \ {0} :
               <<f, w>> \in output.done => w = windows[f] /\ output.rows[f].win = w
      BY <2>1, <2>2, TriageOutputOk DEF output, IInv
    <3> QED BY <3>1 DEF TriagedOk
  <2>4. OutputOk(run.stage, p, output, docs, windows, snippets)
    BY <2>1, <2>3 DEF OutputOk
  <2> HIDE DEF output
  <2> QED BY <2>1, <2>4, TakeIInv
<1>5. ASSUME NEW p, NEW infra, NEW failed, RetryMonth(p, infra, failed) PROVE IInv'
  BY <1>5, RetryIInv
<1>6. CASE Flush
  BY <1>6, FlushIInv
<1>7. CASE SwapShard
  BY <1>7, SwapIInv
<1>8. CASE ReadShard
  <2>1. RunShape' /\ run.pc = "saving" /\ run'.entries = run.entries
        /\ run'.outputs = run.outputs /\ run'.stage = run.stage /\ run'.month = run.month
    BY <1>8 DEF ReadShard, IInv, RunShape
  <2> QED BY <1>8, <2>1, RunOnlyIInv DEF ReadShard
<1>9. CASE LoseRace
  <2>1. RunShape' /\ run.pc = "swap" /\ run'.entries = run.entries
        /\ run'.outputs = run.outputs /\ run'.stage = run.stage /\ run'.month = run.month
    BY <1>9 DEF LoseRace, IInv, RunShape
  <2> QED BY <1>9, <2>1, RunOnlyIInv DEF LoseRace
<1>10. ASSUME run' = Idle, UNCHANGED <<docs, windows, cuts, snippets, registry>> PROVE IInv'
  <2>1. RunShape' /\ run'.pc = "idle" /\ run'.outputs = NoOutputs
    BY <1>10, NoOutputsIsEmpty DEF Idle, RunShape, Stage
  <2> QED BY <1>10, <2>1, RunOnlyIInv
<1>11. CASE GiveUp \/ EndRetry \/ Crash
  BY <1>10, <1>11 DEF GiveUp, EndRetry, Crash
<1>12. CASE SaveList
  <2>1. CASE run' = Idle
    BY <1>10, <1>12, <2>1 DEF SaveList
  <2>2. CASE run' # Idle
    <3>1. RunShape' /\ run.pc = "saving" /\ run'.entries = run.entries
          /\ run'.outputs = run.outputs /\ run'.stage = run.stage /\ run'.month = run.month
      BY <1>12, <2>2 DEF SaveList, IInv, RunShape
    <3> QED BY <1>12, <3>1, RunOnlyIInv DEF SaveList
  <2> QED BY <2>1, <2>2
<1>13. CASE StartRetry
  <2>1. RunShape' /\ run'.pc = "retry" /\ run'.outputs = NoOutputs
    BY <1>13, NoOutputsIsEmpty DEF StartRetry, Idle, RunShape, Stage
  <2> QED BY <1>13, <2>1, RunOnlyIInv DEF StartRetry
<1>14. CASE RetrySaveList
  <2>1. RunShape' /\ run'.pc = "retry" /\ run'.outputs = NoOutputs
    BY <1>14 DEF RetrySaveList, IInv, RunShape
  <2> QED BY <1>14, <2>1, RunOnlyIInv DEF RetrySaveList
<1>15. ASSUME UNCHANGED <<docs, windows, cuts, snippets, registry, run>> PROVE IInv'
  BY <1>15 DEF IInv, FilesOk, RegistryOk, RunShape, EntriesOk, OutputsOk
<1>16. CASE \E m \in Month : OtherRunSaves(m)
  BY <1>15, <1>16 DEF OtherRunSaves
<1>17. CASE UNCHANGED vars
  BY <1>15, <1>17 DEF vars
<1>18. CASE Step
  BY <1>3, <1>4, <1>5, <1>6, <1>7, <1>8, <1>9, <1>11, <1>12, <1>14, <1>18 DEF Step
<1> QED
  BY <1>1, <1>2, <1>11, <1>13, <1>16, <1>17, <1>18 DEF Next

(***************************************************************************)
(* Theorem: a day or month that no run takes up again was written from     *)
(* just the source it has, whatever was rewritten, forced or retried and   *)
(* wherever runs died or lost a race.                                      *)
(***************************************************************************)
THEOREM SkippedPartitionsAreCurrent == Spec => []CompleteIsCurrent
<1>1. IInv => CompleteIsCurrent
  <2> SUFFICES ASSUME IInv, NEW s \in Stage, NEW p \in Present(s), UpToDate(s, p)
               PROVE  Current(s, p)
    BY DEF CompleteIsCurrent
  <2>1. /\ p \in Partition(s) /\ Version(s, p) # NoVersion
        /\ registry[s][p].complete /\ registry[s][p].fingerprint = Version(s, p)
    BY DEF Present, UpToDate
  <2>2. EntryOk(s, p, registry[s][p], docs, windows, cuts, snippets)
    BY <2>1 DEF IInv, RegistryOk
  <2>3. CASE s = "segment"
    BY <2>1, <2>2, <2>3 DEF EntryOk, SegmentEntryOk, Version, Current, Cutting
  <2>4. CASE s = "triage"
    <3>1. p \in Month /\ cuts[p] \in Nat \ {0} /\ Version(s, p) = <<cuts[p]>>
      BY <2>1, <2>4 DEF Version, Partition, IInv, FilesOk
    <3> QED BY <2>1, <2>2, <2>4, <3>1 DEF EntryOk, TriageEntryOk, Current
  <2> QED BY <2>3, <2>4 DEF Stage
<1> QED BY InitIInv, NextIInv, <1>1, PTL DEF Spec

(***************************************************************************)
(* Theorem: a compare-and-swap never reverts an entry that another run     *)
(* stored in the shard.                                                    *)
(***************************************************************************)
THEOREM SwapsKeepOthersEntries == Spec => OtherRunsEntriesSurvive
<1> DEFINE Counts == others \in [Month -> Nat]
<1>1. Init => Counts
  BY DEF Init
<1>2. ASSUME Counts, [Next]_vars
      PROVE  Counts' /\ \A m \in Month : others'[m] >= others[m]
  <2>1. CASE SwapShard
    <3>1. run.stage = "triage" => run.seen[2] = others[run.shard]
      BY <2>1 DEF SwapShard, Shard
    <3>2. others' = others
      BY <1>2, <2>1, <3>1 DEF SwapShard
    <3> QED BY <1>2, <3>2
  <2>2. CASE \E m \in Month : OtherRunSaves(m)
    BY <1>2, <2>2 DEF OtherRunSaves
  <2>3. CASE UNCHANGED others
    BY <1>2, <2>3
  <2>4. CASE Step /\ ~SwapShard
    <3>1. ASSUME NEW p, CutDay(p) PROVE UNCHANGED others
      BY <3>1 DEF CutDay, Take
    <3>2. ASSUME NEW p, NEW infra, NEW failed,
                 TriageMonth(p, infra, failed) \/ RetryMonth(p, infra, failed)
          PROVE  UNCHANGED others
      BY <3>2 DEF TriageMonth, Take, RetryMonth
    <3>3. ASSUME \/ Flush \/ ReadShard \/ LoseRace \/ GiveUp \/ SaveList
                 \/ RetrySaveList \/ EndRetry
          PROVE  UNCHANGED others
      BY <3>3 DEF Flush, ReadShard, LoseRace, GiveUp, SaveList, RetrySaveList, EndRetry
    <3> QED BY <2>3, <2>4, <3>1, <3>2, <3>3 DEF Step
  <2>5. CASE (\E f \in Filing : RewriteDocument(f)) \/ StartRetry \/ Crash
             \/ (\E s \in Stage, force \in BOOLEAN : StartRun(s, force)) \/ UNCHANGED vars
    <3>1. UNCHANGED others
      BY <2>5 DEF RewriteDocument, StartRetry, Crash, StartRun, vars
    <3> QED BY <2>3, <3>1
  <2> QED BY <1>2, <2>1, <2>2, <2>4, <2>5 DEF Next
<1>3. Counts /\ [Next]_vars => Counts'
  BY <1>2
<1>4. Counts /\ [Next]_vars => [\A m \in Month : others'[m] >= others[m]]_others
  BY <1>2
<1> HIDE DEF Counts
<1> QED BY <1>1, <1>3, <1>4, PTL DEF Spec, OtherRunsEntriesSurvive

-----------------------------------------------------------------------------
(***************************************************************************)
(* Triage's done keys and its failure list.  First what the run has in     *)
(* hand: partitions it has taken wait for their flush and their swap, only *)
(* triage judges and owes, and a retry only shortens the list it took.     *)
(***************************************************************************)
Triaging == run.stage = "triage" /\ run.pc \in {"loop", "saving", "swap"}
Retrying == run.pc \in {"retry", "retry_list"}
Waiting  == DOMAIN run.outputs \cup run.dirty

\* The failure list as the run has it.
Listed == IF run.changed THEN run.list ELSE failures

RunFields ==
  /\ run.pc \in {"idle", "loop", "saving", "swap", "retry", "retry_list"}
  /\ run.force \in BOOLEAN /\ run.changed \in BOOLEAN
  /\ run.dirty \subseteq Partition(run.stage)
  /\ run.todo \cap Waiting = {} /\ DOMAIN run.outputs \cap run.dirty = {}

Debts ==
  /\ run.stage = "segment" => ~run.changed /\ run.owed = {} /\ JudgedNow = {}
  /\ Retrying => ~run.changed /\ run.owed = {} /\ run.dirty = {}

InHand ==
  /\ Retrying => run.list \subseteq failures /\ run.todo \cap Pending("triage", FALSE) = {}
  /\ Triaging /\ ~run.force =>
       /\ \A m \in run.todo : run.entries[m].done = registry["triage"][m].done
       /\ \A m \in run.todo \cup Waiting : ~UpToDate("triage", m)

NeverCut == \A f \in Filing : cuts[Home("triage", f)] = 0 => windows[f] = 0

RunBooks == RunFields /\ Debts /\ InHand /\ NeverCut

(***************************************************************************)
(* A filing whose done key is kept was judged on its present windows,      *)
(* unless a dead run left it adrift, or this one failed it over a key it   *)
(* has still to take out of the registry.                                  *)
(***************************************************************************)
HasKey(f, done) == windows[f] # 0 /\ <<f, windows[f]>> \in done

Judged(row, f) == row = [win |-> windows[f], verdict |-> "judged"]

\* What the output `o` of a month will write for a filing: a verdict and its key
\* if it judges the filing, the row it has if it does not.
Verdicts(o, f) ==
  /\ f \in o.judged =>
       o.rows[f].verdict = "failed" \/ (Judged(o.rows[f], f) /\ HasKey(f, o.done))
  /\ f \notin o.judged =>
       IF windows[f] = 0 THEN o.rows[f].verdict # "failed" ELSE o.rows[f] = snippets[f]
  /\ HasKey(f, o.done) => Judged(o.rows[f], f) \/ f \in adrift \ o.judged

KeysJudged ==
  /\ \A m \in Month : \A f \in FilingsOf("triage", m) :
       HasKey(f, registry["triage"][m].done) =>
         Judged(snippets[f], f) \/ f \in adrift \/ (f \in run.owed /\ m \in run.dirty)
  /\ Triaging => \A m \in Month : \A f \in FilingsOf("triage", m) :
       HasKey(f, run.entries[m].done) => Judged(snippets[f], f) \/ f \in adrift
  /\ Triaging => \A m \in DOMAIN run.outputs :
       /\ run.outputs[m].judged \subseteq FilingsOf("triage", m)
       /\ \A f \in FilingsOf("triage", m) :
            /\ Verdicts(run.outputs[m], f)
            /\ ~run.force /\ HasKey(f, registry["triage"][m].done) =>
                 f \notin run.outputs[m].judged

(***************************************************************************)
(* A filing on the list has no done key, one that failed is on the list.   *)
(***************************************************************************)
Sound(f, list, done, row) ==
  /\ f \in list => ~HasKey(f, done)
  /\ row.verdict = "failed" => f \in list

ListOk ==
  /\ \A m \in Month : UpToDate("triage", m) => \A f \in FilingsOf("triage", m) :
       Sound(f, failures, registry["triage"][m].done, snippets[f])
         \/ f \in run.owed \cup adrift
  /\ Triaging => \A m \in Month : \A f \in FilingsOf("triage", m) :
       /\ m \notin Waiting /\ UpToDate("triage", m) =>
            Sound(f, Listed, registry["triage"][m].done, snippets[f]) \/ f \in adrift
       /\ m \in DOMAIN run.outputs /\ run.outputs[m].complete =>
            /\ Sound(f, Listed, run.outputs[m].done, run.outputs[m].rows[f])
                 \/ f \in adrift \ run.outputs[m].judged
            /\ run.outputs[m].rows[f].verdict = "failed" =>
                 f \in adrift \cup run.outputs[m].judged
       /\ m \in run.dirty /\ run.entries[m].complete =>
            /\ Sound(f, Listed, run.entries[m].done, snippets[f]) \/ f \in adrift
            /\ Sound(f, failures, run.entries[m].done, snippets[f])
                 \/ f \in run.owed \cup adrift
  /\ Retrying => \A f \in Filing :
       f \in failures \ run.list => snippets[f].verdict # "failed" \/ f \in adrift

TriageInv == RunBooks /\ KeysJudged /\ ListOk

LEMMA InitTriageInv == Init => TriageInv
<1> SUFFICES ASSUME Init PROVE TriageInv
  OBVIOUS
<1> USE NoOutputsIsEmpty DEF Init, Idle
<1>1. RunBooks
  BY DEF RunBooks, RunFields, Debts, JudgedNow, InHand, NeverCut, Waiting, Retrying, Triaging
<1>2. ~Triaging /\ ~Retrying
  BY DEF Triaging, Retrying
<1>3. ASSUME NEW f \in Filing, NEW done
      PROVE  ~HasKey(f, done) /\ snippets[f].verdict # "failed"
  BY DEF HasKey, NoRow
<1>4. \A m \in Month : FilingsOf("triage", m) \subseteq Filing
  BY DEF FilingsOf
<1>5. KeysJudged /\ ListOk
  BY <1>2, <1>3, <1>4 DEF KeysJudged, ListOk, Sound
<1> QED BY <1>1, <1>5 DEF TriageInv

(***************************************************************************)
(* Lemma: what a triage of filings yields, as to keys and failures.        *)
(***************************************************************************)
LEMMA TriageVerdicts ==
  ASSUME NEW among, NEW done, NEW infra, NEW failed,
         CallsFail(among, done, infra, failed),
         \A f \in among : HasKey(f, done) => Judged(snippets[f], f) \/ f \in adrift
  PROVE  LET o == Triage(among, done, infra, failed) IN
         /\ o.failures = failed /\ failed \subseteq among /\ o.judged \subseteq among
         /\ \A f \in among :
              /\ Verdicts(o, f)
              /\ HasKey(f, done) => f \notin o.judged
              /\ o.complete => (o.rows[f].verdict = "failed" =>
                                  \/ f \in failed /\ f \in o.judged
                                  \/ f \in adrift \ o.judged)
              /\ f \in failed => ~HasKey(f, o.done)
<1> DEFINE fresh == Windowed(among) \ Carried(among, done)
           held  == Stale(fresh) \cup infra
           o     == Triage(among, done, infra, failed)
<1>1. /\ o.complete = (held = {}) /\ o.failures = failed /\ o.judged = fresh \ held
      /\ o.done = {<<f, windows[f]>> : f \in Windowed(among) \ (held \cup failed)}
      /\ \A f \in among : o.rows[f] =
           IF f \in fresh \ held THEN Verdict(f, failed)
           ELSE IF f \in Windowed(among) THEN snippets[f] ELSE NoRow
  BY DEF Triage, Output
<1>2. \A f \in among : /\ f \in Windowed(among) <=> windows[f] # 0
                       /\ f \in Carried(among, done) <=> HasKey(f, done)
  BY DEF Windowed, Carried, HasKey
<1>3. failed \subseteq fresh /\ fresh \subseteq among /\ fresh \subseteq Windowed(among)
  BY DEF CallsFail, Windowed
<1>4. /\ \A f : HasKey(f, o.done) => f \in Windowed(among) \ (held \cup failed)
      /\ \A f \in Windowed(among) \ (held \cup failed) : windows[f] # 0 => HasKey(f, o.done)
  <2> HIDE DEF o, held
  <2> QED BY <1>1 DEF HasKey
<1> HIDE DEF o, held
<1>5. ASSUME NEW f \in among
      PROVE  /\ Verdicts(o, f)
             /\ HasKey(f, done) => f \notin o.judged
             /\ o.complete => (o.rows[f].verdict = "failed" =>
                                 \/ f \in failed /\ f \in o.judged
                                 \/ f \in adrift \ o.judged)
  <2>1. CASE f \in fresh \ held
    <3>1. o.rows[f] = Verdict(f, failed) /\ ~HasKey(f, done) /\ f \in o.judged
          /\ f \in Windowed(among) /\ windows[f] # 0
      BY <1>1, <1>2, <1>3, <2>1
    <3>2. IF f \in failed THEN o.rows[f].verdict = "failed"
          ELSE Judged(o.rows[f], f) /\ o.rows[f].verdict # "failed"
      BY <3>1 DEF Verdict, Judged
    <3>3. f \in failed => ~HasKey(f, o.done)
      BY <1>4
    <3>4. f \notin failed => HasKey(f, o.done)
      BY <1>4, <2>1, <3>1
    <3> QED BY <3>1, <3>2, <3>3, <3>4 DEF Verdicts
  <2>2. CASE f \in Windowed(among) /\ f \notin fresh \ held
    <3>1. o.rows[f] = snippets[f] /\ f \notin o.judged /\ windows[f] # 0
      BY <1>1, <1>2, <2>2
    <3>2. f \in held \/ HasKey(f, done)
      BY <1>2, <2>2
    <3>3. HasKey(f, done) =>
            (Judged(snippets[f], f) /\ snippets[f].verdict # "failed") \/ f \in adrift
      BY DEF Judged
    <3>4. HasKey(f, o.done) => f \notin held
      BY <1>4
    <3>5. o.complete => f \notin held
      BY <1>1
    <3> QED BY <3>1, <3>2, <3>3, <3>4, <3>5 DEF Verdicts
  <2>3. CASE f \notin Windowed(among)
    <3>1. o.rows[f] = NoRow /\ windows[f] = 0 /\ f \notin o.judged
      BY <1>1, <1>2, <1>3, <2>3
    <3> QED BY <3>1 DEF NoRow, HasKey, Verdicts
  <2> QED BY <2>1, <2>2, <2>3
<1> QED BY <1>1, <1>3, <1>4, <1>5 DEF o

(***************************************************************************)
(* Lemmas: what the larger steps of a run make of its fields.              *)
(***************************************************************************)
LEMMA MonthPartitions ==
  /\ Partition("triage") = Month
  /\ \A m : MonthOfPartition("triage", m) = m /\ ShardKeys("triage", m) = {p \in Month : p = m}
  /\ \A f : Home("triage", f) = MonthOf[DayOf[f]]
  /\ \A f \in Filing : Home("triage", f) \in Month
  /\ \A m : \A f \in FilingsOf("triage", m) : f \in Filing /\ Home("triage", f) = m
BY DEF Partition, MonthOfPartition, ShardKeys, Home, FilingsOf, Month, Day

LEMMA LeastIsIn ==
  ASSUME NEW S \in SUBSET Nat, S # {}
  PROVE  Least(S) \in S
<1>1. PICK x \in S : \A y \in S : ~(<<y, x>> \in OpToRel(<, Nat))
  BY NatLessThanWellFounded, WFMin
<1>2. \A y \in S : ~(y < x)
  BY <1>1 DEF OpToRel
<1>3. \A y \in S : x <= y
  BY <1>2
<1> QED BY <1>3 DEF Least

LEMMA TakeFields ==
  ASSUME IInv, RunFields, Debts, NEW p \in Partition(run.stage), NEW output, Take(p, output)
  PROVE  LET list2 == IF output.complete /\ run.stage = "triage"
                      THEN ReplaceFailures(Listed, p, output.failures) ELSE Listed IN
         /\ run.pc = "loop" /\ run'.pc \in {"loop", "saving"} /\ p \in run.todo
         /\ run'.stage = run.stage /\ run'.force = run.force /\ run'.owed = run.owed
         /\ run'.dirty = run.dirty /\ run'.entries = run.entries
         /\ run'.todo = run.todo \ {p}
         /\ run'.changed \in BOOLEAN /\ (run.stage = "segment" => ~run'.changed)
         /\ Listed' = list2
         /\ DOMAIN run'.outputs = DOMAIN run.outputs \cup {p}
         /\ \A q \in DOMAIN run.outputs \cup {p} :
              run'.outputs[q] = IF q = p THEN output ELSE run.outputs[q]
         /\ UNCHANGED <<docs, windows, cuts, snippets, registry, failures, adrift>>
<1> DEFINE list2 == IF output.complete /\ run.stage = "triage"
                    THEN ReplaceFailures(Listed, p, output.failures) ELSE Listed
<1>1. PICK due \in BOOLEAN :
        run' = [run EXCEPT
            !.pc = IF due THEN "saving" ELSE "loop",
            !.todo = @ \ {p},
            !.month = MonthOfPartition(run.stage, p),
            !.outputs = [q \in DOMAIN @ \cup {p} |-> IF q = p THEN output ELSE @[q]],
            !.list = list2,
            !.changed = @ \/ list2 # Listed]
  BY DEF Take, Listed
<1> HIDE DEF list2
<1>2. /\ run'.pc \in {"loop", "saving"}
      /\ run'.stage = run.stage /\ run'.force = run.force /\ run'.owed = run.owed
      /\ run'.dirty = run.dirty /\ run'.entries = run.entries
      /\ run'.todo = run.todo \ {p}
      /\ run'.list = list2 /\ run'.changed = (run.changed \/ list2 # Listed)
      /\ DOMAIN run'.outputs = DOMAIN run.outputs \cup {p}
      /\ \A q \in DOMAIN run.outputs \cup {p} :
           run'.outputs[q] = IF q = p THEN output ELSE run.outputs[q]
  BY <1>1 DEF IInv, RunShape
<1>3. /\ run.pc = "loop" /\ p \in run.todo
      /\ UNCHANGED <<docs, windows, cuts, snippets, registry, failures, adrift>>
  <2>1. run.todo \in SUBSET Nat /\ run.todo # {} /\ p = Least(run.todo)
    BY DEF Take, IInv, RunShape, Stage, Partition, Month, Day
  <2> QED BY <2>1, LeastIsIn DEF Take
<1>4. run'.changed \in BOOLEAN
  BY <1>2 DEF RunFields
<1>5. Listed' = list2
  BY <1>2, <1>3 DEF Listed, RunFields
<1>6. run.stage = "segment" => ~run'.changed
  BY <1>2 DEF list2, Debts
<1> QED BY <1>2, <1>3, <1>4, <1>5, <1>6 DEF list2

LEMMA FlushFields ==
  ASSUME IInv, Flush
  PROVE  /\ run.pc \in {"loop", "saving"} /\ run'.pc \in {"loop", "saving"}
         /\ run'.stage = run.stage /\ run'.force = run.force /\ run'.todo = run.todo
         /\ run'.owed = (IF run.stage = "triage" THEN run.owed \cup OwedBy(snippets')
                         ELSE run.owed)
         /\ run'.changed = run.changed /\ run'.list = run.list
         /\ run'.dirty = run.dirty \cup DOMAIN run.outputs
         /\ run'.outputs = NoOutputs /\ run'.month = NoMonth
         /\ \A p \in Partition(run.stage) : run'.entries[p] =
              IF p \in DOMAIN run.outputs THEN Entry(p) ELSE run.entries[p]
         /\ adrift' = adrift \ JudgedNow
         /\ UNCHANGED <<docs, registry, failures>>
BY DEF Flush, IInv, RunShape, EntriesOk

LEMMA SwapFields ==
  ASSUME IInv, SwapShard
  PROVE  /\ run.pc = "swap" /\ run'.pc = "saving"
         /\ run'.stage = run.stage /\ run'.force = run.force /\ run'.todo = run.todo
         /\ run'.owed = run.owed /\ run'.changed = run.changed
         /\ run'.list = run.list /\ run'.entries = run.entries
         /\ run'.outputs = run.outputs
         /\ run'.dirty = run.dirty \ ShardKeys(run.stage, run.shard)
         /\ UNCHANGED <<docs, windows, cuts, snippets, failures, adrift>>
         /\ \A m \in Month : registry'["triage"][m] =
              IF run.stage = "triage" /\ m = run.shard /\ m \in run.dirty
              THEN run.entries[m] ELSE registry["triage"][m]
<1>1. /\ run.pc = "swap" /\ run'.pc = "saving"
      /\ run'.stage = run.stage /\ run'.force = run.force /\ run'.todo = run.todo
      /\ run'.owed = run.owed /\ run'.changed = run.changed
      /\ run'.list = run.list /\ run'.entries = run.entries
      /\ run'.outputs = run.outputs
      /\ run'.dirty = run.dirty \ ShardKeys(run.stage, run.shard)
      /\ UNCHANGED <<docs, windows, cuts, snippets, failures, adrift>>
  BY DEF SwapShard, IInv, RunShape
<1>2. registry' = [registry EXCEPT ![run.stage] = Overlay(run.stage, run.shard, run.seen)]
      /\ Shard(run.stage, run.shard) = run.seen
  BY DEF SwapShard
<1>3. ASSUME NEW m \in Month
      PROVE  registry'["triage"][m] =
               IF run.stage = "triage" /\ m = run.shard /\ m \in run.dirty
               THEN run.entries[m] ELSE registry["triage"][m]
  <2>1. CASE run.stage = "triage"
    <3>1. registry'["triage"] = Overlay("triage", run.shard, run.seen)
      BY <1>2, <2>1 DEF IInv, RegistryOk, Stage
    <3>2. Overlay("triage", run.shard, run.seen)[m] =
            IF m = run.shard THEN IF m \in run.dirty THEN run.entries[m] ELSE run.seen[1][m]
            ELSE registry["triage"][m]
      BY MonthPartitions DEF Overlay
    <3>3. m = run.shard => run.seen[1][m] = registry["triage"][m]
      BY <1>2, <2>1, MonthPartitions DEF Shard
    <3> QED BY <2>1, <3>1, <3>2, <3>3
  <2>2. CASE run.stage # "triage"
    BY <1>2, <2>2 DEF IInv, RegistryOk, Stage
  <2> QED BY <2>1, <2>2
<1> QED BY <1>1, <1>3

(***************************************************************************)
(* Lemma: a cut makes no month up to date and brings no done key back.     *)
(***************************************************************************)
LEMMA CutBringsNothingBack ==
  ASSUME IInv, NeverCut, Flush, run.stage = "segment", NEW m \in Month
  PROVE  /\ UpToDate("triage", m)' => UpToDate("triage", m)
         /\ \A f \in FilingsOf("triage", m) :
              HasKey(f, registry["triage"][m].done)' =>
                windows'[f] = windows[f] /\ HasKey(f, registry["triage"][m].done)
         /\ NeverCut'
<1>1. UNCHANGED registry /\ windows' = Written(windows)
  BY DEF Flush
<1>2. TriageEntryOk(m, registry["triage"][m], docs, windows, cuts, snippets)
  BY MonthPartitions DEF IInv, RegistryOk, EntryOk, Stage
<1>3. \A f \in Filing : windows'[f] = IF DayOf[f] \in DOMAIN run.outputs
                                    THEN Cutting(docs[f]) ELSE windows[f]
  BY <1>1 DEF Written, Home, IInv, OutputsOk, OutputOk, CutOk, FilingsOf
<1>4. \/ /\ cuts' = [cuts EXCEPT ![run.month] = @ + 1]
      \/ /\ cuts' = cuts /\ ~(cuts[run.month] > 0)
         /\ \A p \in DOMAIN run.outputs : \A f \in FilingsOf("segment", p) :
              run.outputs[p].rows[f] = 0
  BY DEF Flush
<1>5. ASSUME NEW f \in FilingsOf("triage", m), HasKey(f, registry["triage"][m].done)'
      PROVE  windows'[f] = windows[f] /\ HasKey(f, registry["triage"][m].done)
  <2> DEFINE w == windows'[f]
  <2>1. f \in Filing /\ windows'[f] # 0 /\ <<f, windows'[f]>> \in registry["triage"][m].done
    BY <1>1, <1>5 DEF HasKey, FilingsOf
  <2>2. docs[f] \in Nat \ {0} /\ windows[f] \in Nat
    BY <2>1 DEF IInv, FilesOk
  <2>3. CASE windows'[f] = docs[f]
    <3>1. <<f, docs[f]>> \in registry["triage"][m].done
      BY <2>1, <2>3
    <3>2. windows[f] # docs[f] => docs[f] < docs[f]
      BY <1>2, <2>2, <3>1 DEF TriageEntryOk, KeysOk
    <3> QED BY <2>1, <2>2, <2>3, <3>2 DEF HasKey
  <2>4. CASE windows'[f] = windows[f]
    BY <2>1, <2>4 DEF HasKey
  <2> QED BY <1>3, <2>1, <2>3, <2>4 DEF Cutting
<1>6. UpToDate("triage", m)' => UpToDate("triage", m)
  <2>1. CASE cuts'[m] = cuts[m]
    BY <1>1, <2>1 DEF UpToDate, Version
  <2>2. CASE cuts'[m] # cuts[m]
    <3>1. cuts'[m] = cuts[m] + 1 /\ cuts[m] \in Nat
      BY <1>4, <2>2 DEF IInv, FilesOk
    <3>2. Version("triage", m)' = <<cuts[m] + 1>> /\ Version("triage", m)' # NoVersion
      BY <3>1 DEF Version, NoVersion
    <3>3. registry["triage"][m].fingerprint # Version("triage", m)'
      BY <1>2, <3>1, <3>2 DEF TriageEntryOk
    <3> QED BY <1>1, <3>3 DEF UpToDate
  <2> QED BY <2>1, <2>2
<1>7. NeverCut'
  <2> SUFFICES ASSUME NEW f \in Filing, cuts'[MonthOf[DayOf[f]]] = 0 PROVE windows'[f] = 0
    BY MonthPartitions DEF NeverCut
  <2>0. MonthOf[DayOf[f]] \in Month /\ cuts \in [Month -> Nat]
    BY DEF Month, Day, IInv, FilesOk
  <2>1. cuts[MonthOf[DayOf[f]]] = 0 /\ windows[f] = 0
    BY <1>4, <2>0, MonthPartitions DEF NeverCut
  <2>2. CASE DayOf[f] \in DOMAIN run.outputs
    <3>1. f \in FilingsOf("segment", DayOf[f])
      BY DEF FilingsOf, Home
    <3>2. MonthOf[DayOf[f]] = run.month
      BY <2>2 DEF IInv, OutputsOk, MonthOfPartition
    <3>3. run.outputs[DayOf[f]].rows[f] = 0
      BY <1>4, <2>0, <2>2, <2>1, <3>1, <3>2
    <3>4. windows'[f] = run.outputs[DayOf[f]].rows[f]
      BY <1>1, <2>2 DEF Written, Home
    <3> QED BY <3>3, <3>4
  <2>3. CASE DayOf[f] \notin DOMAIN run.outputs
    BY <1>3, <2>1, <2>3
  <2> QED BY <2>2, <2>3
<1> QED BY <1>5, <1>6, <1>7

(***************************************************************************)
(* Lemmas: steps that write no file, no entry and no list, ...             *)
(***************************************************************************)
LEMMA SameDates ==
  ASSUME UNCHANGED <<cuts, registry>>
  PROVE  /\ \A m : UpToDate("triage", m)' <=> UpToDate("triage", m)
         /\ Pending("triage", FALSE)' = Pending("triage", FALSE)
BY DEF UpToDate, Version, Pending, Present, Partition

LEMMA SameBooks ==
  ASSUME KeysJudged, ListOk,
         UNCHANGED <<windows, cuts, snippets, registry, failures, adrift>>,
         run'.stage = run.stage, run'.force = run.force, run'.entries = run.entries,
         run'.dirty = run.dirty, run'.outputs = run.outputs, run'.list = run.list,
         run'.changed = run.changed, run'.owed = run.owed,
         Triaging' <=> Triaging, Retrying' <=> Retrying
  PROVE  KeysJudged' /\ ListOk'
<1>1. /\ \A f, done : HasKey(f, done)' <=> HasKey(f, done)
      /\ \A row, f : Judged(row, f)' <=> Judged(row, f)
      /\ \A f, list, done, row : Sound(f, list, done, row)' <=> Sound(f, list, done, row)
      /\ Listed' = Listed /\ Waiting' = Waiting
  BY DEF HasKey, Judged, Sound, Listed, Waiting
<1>2. KeysJudged'
  BY <1>1 DEF KeysJudged, Verdicts, HasKey, Judged
<1>3. ListOk'
  BY <1>1, SameDates DEF ListOk, Sound, HasKey
<1> QED BY <1>2, <1>3

LEMMA StandsTriageInv ==
  ASSUME TriageInv,
         UNCHANGED <<windows, cuts, snippets, registry, failures, run, adrift>>
  PROVE  TriageInv'
<1>1. KeysJudged' /\ ListOk'
  BY SameBooks DEF TriageInv, Triaging, Retrying
<1>2. RunFields' /\ NeverCut' /\ InHand'
  BY SameDates DEF TriageInv, RunBooks, RunFields, NeverCut, InHand, Waiting, Retrying, Triaging
<1>3. Debts'
  BY DEF TriageInv, RunBooks, Debts, Retrying, JudgedNow
<1> QED BY <1>1, <1>2, <1>3 DEF TriageInv, RunBooks

\* ... runs that end or die, with what they owe left adrift, ...
LEMMA EndsTriageInv ==
  ASSUME TriageInv, run' = Idle, adrift' = adrift \cup run.owed,
         UNCHANGED <<windows, cuts, snippets, registry, failures>>
  PROVE  TriageInv'
<1>1. run'.owed = {} /\ run'.dirty = {} /\ run'.outputs = NoOutputs
  BY DEF Idle
<1>2. ~Triaging' /\ ~Retrying' /\ run'.stage = "segment"
  BY DEF Triaging, Retrying, Idle
<1>3. KeysJudged'
  BY <1>1, <1>2 DEF TriageInv, KeysJudged, HasKey, Judged
<1>4. ListOk'
  BY <1>2, SameDates DEF TriageInv, ListOk, Sound, HasKey
<1>5. RunBooks'
  BY <1>2, NoOutputsIsEmpty
  DEF TriageInv, RunBooks, RunFields, Debts, JudgedNow, InHand, NeverCut, Waiting, Idle
<1> QED BY <1>3, <1>4, <1>5 DEF TriageInv

\* ... the read of a shard, and a race lost over it.
LEMMA ReadTriageInv == IInv /\ TriageInv /\ (ReadShard \/ LoseRace) => TriageInv'
<1> SUFFICES ASSUME IInv, TriageInv, ReadShard \/ LoseRace PROVE TriageInv'
  OBVIOUS
<1>1. /\ UNCHANGED <<windows, cuts, snippets, registry, failures, adrift>>
      /\ run.pc \in {"saving", "swap"} /\ run'.pc \in {"saving", "swap"}
      /\ run'.stage = run.stage /\ run'.force = run.force /\ run'.entries = run.entries
      /\ run'.dirty = run.dirty /\ run'.outputs = run.outputs /\ run'.list = run.list
      /\ run'.changed = run.changed /\ run'.owed = run.owed /\ run'.todo = run.todo
  BY DEF ReadShard, LoseRace, IInv, RunShape
<1>2. (Triaging' <=> Triaging) /\ ~Retrying /\ ~Retrying'
  BY <1>1 DEF Triaging, Retrying
<1>3. KeysJudged' /\ ListOk'
  BY <1>1, <1>2, SameBooks DEF TriageInv
<1>4. RunFields' /\ NeverCut' /\ InHand'
  BY <1>1, <1>2, SameDates DEF TriageInv, RunBooks, RunFields, NeverCut, InHand, Waiting
<1>5. Debts'
  BY <1>1, <1>2 DEF TriageInv, RunBooks, Debts, JudgedNow
<1> QED BY <1>3, <1>4, <1>5 DEF TriageInv, RunBooks

(***************************************************************************)
(* Lemma: a run starts from the registry, or from nothing.                 *)
(***************************************************************************)
LEMMA StartTriageInv ==
  ASSUME IInv, TriageInv, NEW s \in Stage, NEW force \in BOOLEAN, StartRun(s, force)
  PROVE  TriageInv'
<1>1. /\ UNCHANGED <<windows, cuts, snippets, registry, failures, adrift>>
      /\ run'.pc = "loop" /\ run'.stage = s /\ run'.force = force
      /\ run'.todo = Pending(s, force) /\ run'.dirty = {} /\ run'.outputs = NoOutputs
      /\ run'.entries = IF force THEN [p \in Partition(s) |-> NoEntry] ELSE registry[s]
      /\ run'.changed = FALSE /\ run'.owed = {}
      /\ run.owed = {}
  BY DEF StartRun, Idle
<1>2. ~Retrying' /\ Waiting' = {} /\ Listed' = failures /\ (Triaging' => s = "triage")
  BY <1>1, NoOutputsIsEmpty DEF Retrying, Waiting, Listed, Triaging
<1>3. ASSUME s = "triage", NEW m \in Month
      PROVE  run'.entries[m].done = IF force THEN {} ELSE registry["triage"][m].done
  BY <1>1, <1>3, MonthPartitions DEF NoEntry
<1>4. \A m \in Month : \A f \in FilingsOf("triage", m) :
        HasKey(f, registry["triage"][m].done) => Judged(snippets[f], f) \/ f \in adrift
  BY <1>1 DEF TriageInv, KeysJudged
<1>5. KeysJudged'
  BY <1>1, <1>2, <1>3, <1>4, NoOutputsIsEmpty DEF KeysJudged, HasKey, Judged
<1>6. \A m \in Month : UpToDate("triage", m) => \A f \in FilingsOf("triage", m) :
        Sound(f, failures, registry["triage"][m].done, snippets[f]) \/ f \in adrift
  BY <1>1 DEF TriageInv, ListOk
<1>7. ListOk'
  BY <1>1, <1>2, <1>6, SameDates, NoOutputsIsEmpty DEF ListOk, Sound, HasKey
<1>8. RunFields' /\ Debts' /\ NeverCut'
  <2>1. JudgedNow' = {}
    BY <1>1, NoOutputsIsEmpty DEF JudgedNow
  <2> QED BY <1>1, <1>2, <2>1, NoOutputsIsEmpty
      DEF TriageInv, RunBooks, RunFields, Debts, NeverCut
<1>9. InHand'
  <2>1. s = "triage" => Pending(s, force) \subseteq Month
    BY MonthPartitions DEF Pending, Present
  <2>2. ~force => \A m \in Pending(s, force) : ~UpToDate(s, m)
    BY DEF Pending
  <2> QED BY <1>1, <1>2, <1>3, <2>1, <2>2, SameDates DEF InHand
<1> QED BY <1>5, <1>7, <1>8, <1>9 DEF TriageInv, RunBooks

(***************************************************************************)
(* Lemma: a swap takes the entries of a month from the run's hands.        *)
(***************************************************************************)
LEMMA SwapTriageInv == IInv /\ TriageInv /\ SwapShard => TriageInv'
<1> SUFFICES ASSUME IInv, TriageInv, SwapShard PROVE TriageInv'
  OBVIOUS
<1> DEFINE Took(m) == run.stage = "triage" /\ m = run.shard /\ m \in run.dirty
<1>1. /\ run.pc = "swap" /\ run'.pc = "saving"
      /\ run'.stage = run.stage /\ run'.force = run.force /\ run'.todo = run.todo
      /\ run'.owed = run.owed /\ run'.changed = run.changed
      /\ run'.list = run.list /\ run'.entries = run.entries
      /\ run'.outputs = run.outputs
      /\ run'.dirty = run.dirty \ ShardKeys(run.stage, run.shard)
      /\ UNCHANGED <<docs, windows, cuts, snippets, failures, adrift>>
      /\ \A m \in Month : registry'["triage"][m] =
           IF Took(m) THEN run.entries[m] ELSE registry["triage"][m]
  BY SwapFields
<1>2. /\ ~Retrying /\ ~Retrying' /\ (Triaging' <=> Triaging)
      /\ Triaging <=> run.stage = "triage"
      /\ Listed' = Listed /\ DOMAIN run'.outputs = DOMAIN run.outputs
  BY <1>1 DEF Retrying, Triaging, Listed
<1>3. run.stage = "triage" => run'.dirty = {m \in run.dirty : m # run.shard}
  <2>1. run.dirty \subseteq Partition(run.stage)
    BY DEF TriageInv, RunBooks, RunFields
  <2> QED BY <1>1, <2>1, MonthPartitions
<1>4. \A m \in Month : Took(m) => m \in Waiting /\ m \notin run'.dirty
                                  /\ m \notin DOMAIN run.outputs /\ m \notin run.todo
  BY <1>3 DEF TriageInv, RunBooks, RunFields, Waiting
<1>5. \A m \in Month : ~Took(m) => /\ UpToDate("triage", m)' <=> UpToDate("triage", m)
                                   /\ registry'["triage"][m].done = registry["triage"][m].done
                                   /\ run.stage = "triage" => (m \in run'.dirty <=> m \in run.dirty)
                                   /\ run.stage = "triage" => (m \in Waiting' <=> m \in Waiting)
  BY <1>1, <1>2, <1>3 DEF UpToDate, Version, Waiting
<1>6. \A m \in Month : Took(m) /\ UpToDate("triage", m)' => run.entries[m].complete
  BY <1>1 DEF UpToDate
<1> HIDE DEF Took
<1>7. /\ \A f, done : HasKey(f, done)' <=> HasKey(f, done)
      /\ \A row, f : Judged(row, f)' <=> Judged(row, f)
  BY <1>1 DEF HasKey, Judged
<1>8. KeysJudged'
  <2>1. ASSUME NEW m \in Month,
               NEW f \in FilingsOf("triage", m), HasKey(f, registry'["triage"][m].done)
        PROVE  Judged(snippets[f], f) \/ f \in adrift \/ (f \in run.owed /\ m \in run'.dirty)
    <3>1. CASE Took(m)
      BY <1>1, <1>2, <2>1, <3>1 DEF TriageInv, KeysJudged, Took
    <3>2. CASE ~Took(m) /\ run.stage = "triage"
      BY <1>5, <2>1, <3>2 DEF TriageInv, KeysJudged
    <3>3. CASE ~Took(m) /\ run.stage # "triage"
      <4>1. run.owed = {}
        BY <3>3 DEF TriageInv, RunBooks, Debts, IInv, RunShape, Stage
      <4> QED BY <1>5, <2>1, <3>3, <4>1 DEF TriageInv, KeysJudged
    <3> QED BY <3>1, <3>2, <3>3
  <2>2. Triaging => \A m \in Month : \A f \in FilingsOf("triage", m) :
          HasKey(f, run.entries[m].done) => Judged(snippets[f], f) \/ f \in adrift
    BY DEF TriageInv, KeysJudged
  <2>3. ASSUME Triaging, NEW m \in DOMAIN run.outputs
        PROVE  /\ run.outputs[m].judged \subseteq FilingsOf("triage", m)
               /\ \A f \in FilingsOf("triage", m) :
                    /\ Verdicts(run.outputs[m], f)
                    /\ ~run.force /\ HasKey(f, registry'["triage"][m].done) =>
                         f \notin run.outputs[m].judged
    <3>1. m \in Month /\ ~Took(m)
      BY <1>2, <1>4, <2>3, MonthPartitions DEF IInv, RunShape
    <3> QED BY <1>5, <2>3, <3>1 DEF TriageInv, KeysJudged
  <2> QED BY <1>1, <1>2, <1>7, <2>1, <2>2, <2>3 DEF KeysJudged, Verdicts, HasKey, Judged
<1>9. ListOk'
  <2>1. ASSUME NEW m \in Month, UpToDate("triage", m)', NEW f \in FilingsOf("triage", m)
        PROVE  Sound(f, failures, registry'["triage"][m].done, snippets[f])
                 \/ f \in run.owed \cup adrift
    <3>1. CASE Took(m)
      <4>1. Triaging
        BY <1>1, <1>2, <2>1, <3>1 DEF Took
      <4> QED BY <1>1, <1>6, <2>1, <3>1, <4>1 DEF TriageInv, ListOk, Took
    <3>2. CASE ~Took(m)
      BY <1>1, <1>5, <2>1, <3>2 DEF TriageInv, ListOk
    <3> QED BY <3>1, <3>2
  <2>2. ASSUME Triaging, NEW m \in Month, NEW f \in FilingsOf("triage", m)
        PROVE  /\ m \notin Waiting' /\ UpToDate("triage", m)' =>
                    Sound(f, Listed, registry'["triage"][m].done, snippets[f]) \/ f \in adrift
               /\ m \in DOMAIN run.outputs /\ run.outputs[m].complete =>
                    /\ Sound(f, Listed, run.outputs[m].done, run.outputs[m].rows[f])
                         \/ f \in adrift \ run.outputs[m].judged
                    /\ run.outputs[m].rows[f].verdict = "failed" =>
                         f \in adrift \cup run.outputs[m].judged
               /\ m \in run'.dirty /\ run.entries[m].complete =>
                    /\ Sound(f, Listed, run.entries[m].done, snippets[f]) \/ f \in adrift
                    /\ Sound(f, failures, run.entries[m].done, snippets[f])
                         \/ f \in run.owed \cup adrift
    <3>1. CASE Took(m)
      BY <1>1, <1>4, <1>6, <2>2, <3>1 DEF TriageInv, ListOk, Took
    <3>2. CASE ~Took(m)
      BY <1>2, <1>5, <2>2, <3>2 DEF TriageInv, ListOk
    <3> QED BY <3>1, <3>2
  <2> QED BY <1>1, <1>2, <1>7, <2>1, <2>2 DEF ListOk, Sound, HasKey
<1>10. RunFields' /\ Debts' /\ NeverCut'
  BY <1>1, <1>2 DEF TriageInv, RunBooks, RunFields, Debts, JudgedNow, NeverCut, Waiting
<1>11. InHand'
  <2>1. ASSUME Triaging, ~run.force, NEW m \in run.todo \cup Waiting'
        PROVE  ~UpToDate("triage", m)' /\ (m \in run.todo => ~Took(m))
    <3>1. m \in Month /\ m \in run.todo \cup Waiting
      BY <1>1, <1>2, <2>1, MonthPartitions
      DEF IInv, RunShape, TriageInv, RunBooks, RunFields, Waiting
    <3>2. ~Took(m)
      BY <1>2, <1>4, <2>1, <3>1 DEF Waiting
    <3> QED BY <1>5, <2>1, <3>1, <3>2 DEF TriageInv, RunBooks, InHand
  <2>2. Triaging => run.todo \subseteq Month
    BY <1>1, <1>2, MonthPartitions DEF IInv, RunShape
  <2>3. ASSUME Triaging, ~run.force, NEW m \in run.todo
        PROVE  run.entries[m].done = registry'["triage"][m].done
    BY <1>5, <2>1, <2>2, <2>3 DEF TriageInv, RunBooks, InHand
  <2> QED BY <1>1, <1>2, <2>1, <2>3 DEF InHand
<1> QED BY <1>8, <1>9, <1>10, <1>11 DEF TriageInv, RunBooks

(***************************************************************************)
(* Lemma: a saved list is the one the run has kept.                        *)
(***************************************************************************)
LEMMA SaveTriageInv == IInv /\ TriageInv /\ SaveList => TriageInv'
<1> SUFFICES ASSUME IInv, TriageInv, SaveList PROVE TriageInv'
  OBVIOUS
<1>1. /\ run.pc = "saving" /\ run.dirty = {} /\ failures' = Listed
      /\ UNCHANGED <<docs, windows, cuts, snippets, registry, others, adrift>>
  BY DEF SaveList, Listed
<1>2. DOMAIN run.outputs = {}
  <2>1. \A p \in DOMAIN run.outputs :
          MonthOfPartition(run.stage, p) = NoMonth /\ p \in Partition(run.stage)
    BY DEF SaveList, IInv, OutputsOk, RunShape
  <2> QED BY <2>1, MonthsCount DEF IInv, RunShape
<1>3. Waiting = {} /\ ~Retrying /\ (Triaging <=> run.stage = "triage")
  BY <1>1, <1>2 DEF Waiting, Retrying, Triaging
<1>4. \A m \in Month : \A f \in FilingsOf("triage", m) :
        HasKey(f, registry["triage"][m].done) => Judged(snippets[f], f) \/ f \in adrift
  BY <1>1 DEF TriageInv, KeysJudged
<1>5. \A m \in Month : UpToDate("triage", m) => \A f \in FilingsOf("triage", m) :
        Sound(f, failures', registry["triage"][m].done, snippets[f]) \/ f \in adrift
  <2>1. CASE run.stage = "triage"
    BY <1>1, <1>3, <2>1 DEF TriageInv, ListOk
  <2>2. CASE run.stage # "triage"
    <3>1. ~run.changed /\ run.owed = {} /\ Listed = failures
      BY <2>2 DEF TriageInv, RunBooks, RunFields, Debts, IInv, RunShape, Stage, Listed
    <3> QED BY <1>1, <2>2, <3>1 DEF TriageInv, ListOk
  <2> QED BY <2>1, <2>2
<1>6. \/ run' = Idle
      \/ /\ run'.pc = "loop" /\ run'.stage = run.stage /\ run'.force = run.force
         /\ run'.todo = run.todo /\ run'.entries = run.entries /\ run'.dirty = {}
         /\ DOMAIN run'.outputs = {} /\ run'.changed = FALSE /\ run'.owed = {}
  BY <1>1, <1>2 DEF SaveList, IInv, RunShape
<1>7. /\ ~Retrying' /\ Waiting' = {} /\ Listed' = failures' /\ run'.dirty = {}
      /\ DOMAIN run'.outputs = {} /\ run'.owed = {} /\ run'.changed = FALSE
      /\ Triaging' => /\ run.stage = "triage" /\ Triaging /\ run'.entries = run.entries
                      /\ run'.force = run.force /\ run'.todo = run.todo
  BY <1>1, <1>3, <1>6, NoOutputsIsEmpty DEF Retrying, Triaging, Waiting, Listed, Idle
<1>8. KeysJudged'
  BY <1>1, <1>4, <1>7 DEF TriageInv, KeysJudged, HasKey, Judged
<1>9. ListOk'
  BY <1>1, <1>5, <1>7, SameDates DEF ListOk, Sound, HasKey
<1>10. RunFields' /\ Debts' /\ NeverCut'
  <2>1. run'.pc \in {"idle", "loop"} /\ run'.force \in BOOLEAN
    <3>1. run.force \in BOOLEAN
      BY DEF TriageInv, RunBooks, RunFields
    <3>2. CASE run' = Idle
      BY <3>2 DEF Idle
    <3> QED BY <1>6, <3>1, <3>2
  <2>2. RunFields' /\ Debts'
    BY <1>7, <2>1 DEF RunFields, Debts, JudgedNow
  <2> QED BY <1>1, <2>2 DEF TriageInv, RunBooks, NeverCut
<1>11. InHand'
  BY <1>1, <1>3, <1>7, SameDates DEF TriageInv, RunBooks, InHand
<1> QED BY <1>8, <1>9, <1>10, <1>11 DEF TriageInv, RunBooks

(***************************************************************************)
(* Lemmas: a retry drops a filing from its list only with a verdict that   *)
(* is none of a failed one, and saves the list after the rows.             *)
(***************************************************************************)
LEMMA StartRetryTriageInv == TriageInv /\ StartRetry => TriageInv'
<1> SUFFICES ASSUME TriageInv, StartRetry PROVE TriageInv'
  OBVIOUS
<1>1. /\ UNCHANGED <<windows, cuts, snippets, registry, failures, adrift>>
      /\ run'.pc = "retry" /\ run'.stage = "triage" /\ run'.list = failures
      /\ run'.todo = {Home("triage", f) : f \in failures} \ Pending("triage", FALSE)
      /\ run'.dirty = {} /\ run'.outputs = NoOutputs /\ run'.force = FALSE
      /\ run'.changed = FALSE /\ run'.owed = {}
      /\ run.owed = {}
  BY DEF StartRetry, Idle
<1>2. ~Triaging' /\ Waiting' = {} /\ DOMAIN run'.outputs = {}
  BY <1>1, NoOutputsIsEmpty DEF Triaging, Waiting
<1>3. KeysJudged'
  BY <1>1, <1>2 DEF TriageInv, KeysJudged, HasKey, Judged
<1>4. ListOk'
  BY <1>1, <1>2, SameDates DEF TriageInv, ListOk, Sound, HasKey
<1>5. RunFields' /\ Debts' /\ NeverCut'
  BY <1>1, <1>2 DEF TriageInv, RunBooks, RunFields, Debts, JudgedNow, NeverCut
<1>6. InHand'
  BY <1>1, <1>2, SameDates DEF InHand
<1> QED BY <1>3, <1>4, <1>5, <1>6 DEF TriageInv, RunBooks

LEMMA RetryTriageInv ==
  ASSUME IInv, TriageInv, NEW p \in run.todo, NEW infra, NEW failed,
         RetryMonth(p, infra, failed)
  PROVE  TriageInv'
<1> DEFINE listed == run.list \cap FilingsOf("triage", p)
           output == Triage(listed, {}, infra, failed)
<1>1. /\ UNCHANGED <<docs, windows, cuts, registry, others, failures, adrift>>
      /\ snippets' = IF output.complete
                     THEN [f \in Filing |-> IF f \in listed THEN output.rows[f]
                                            ELSE snippets[f]]
                     ELSE snippets
      /\ run.pc = "retry" /\ CallsFail(listed, {}, infra, failed)
  BY DEF RetryMonth
<1>2. /\ run'.pc \in {"retry", "retry_list"} /\ run'.stage = run.stage
      /\ run'.force = run.force /\ run'.todo = run.todo \ {p} /\ run'.dirty = run.dirty
      /\ run'.outputs = run.outputs /\ run'.changed = run.changed /\ run'.owed = run.owed
      /\ run'.list = IF output.complete THEN ReplaceFailures(run.list, p, failed)
                     ELSE run.list
  BY DEF RetryMonth, IInv, RunShape
<1>3. /\ Retrying /\ Retrying' /\ ~Triaging' /\ run.list \subseteq failures
      /\ run.owed = {} /\ run.dirty = {} /\ ~run.changed
      /\ run.stage = "triage"
  BY <1>1, <1>2 DEF Retrying, Triaging, TriageInv, RunBooks, InHand, Debts, IInv, RunShape
<1>4. /\ failed \subseteq listed
      /\ \A f \in listed : output.complete /\ output.rows[f].verdict = "failed" =>
           f \in failed \cup adrift
  <2>1. \A f \in listed : HasKey(f, {}) => Judged(snippets[f], f) \/ f \in adrift
    BY DEF HasKey
  <2>2. \A f \in listed : output.complete =>
          (output.rows[f].verdict = "failed" => f \in failed \cup adrift)
    BY <1>1, <2>1, TriageVerdicts
  <2>3. failed \subseteq listed
    BY <1>1, <2>1, TriageVerdicts
  <2> QED BY <2>2, <2>3
<1>5. ASSUME NEW f \in listed
      PROVE  /\ f \in Filing /\ f \in failures
             /\ ~HasKey(f, registry["triage"][p].done) \/ f \in adrift
  <2>1. f \in Filing /\ Home("triage", f) = p /\ p \in Month /\ f \in failures
    BY <1>3, MonthPartitions
  <2>2. CASE cuts[p] = 0
    BY <2>1, <2>2 DEF TriageInv, RunBooks, NeverCut, HasKey
  <2>3. CASE cuts[p] # 0
    <3>1. p \notin Pending("triage", FALSE)
      BY <1>1, <1>3 DEF TriageInv, RunBooks, InHand
    <3>2. UpToDate("triage", p)
      BY <2>1, <2>3, <3>1, MonthPartitions DEF Pending, Present, Version, NoVersion
    <3> QED BY <1>3, <2>1, <3>2 DEF TriageInv, ListOk, Sound
  <2> QED BY <2>1, <2>2, <2>3
<1>6. \A f \in Filing : f \notin listed => snippets'[f] = snippets[f]
  BY <1>1 DEF IInv, FilesOk
<1>7. \A f \in Filing : f \in listed =>
        snippets'[f] = IF output.complete THEN output.rows[f] ELSE snippets[f]
  BY <1>1
<1>8. \A m \in Month : \A f \in FilingsOf("triage", m) : f \in listed => m = p
  BY MonthPartitions
<1> HIDE DEF listed, output
<1>9. /\ \A f, done : HasKey(f, done)' <=> HasKey(f, done)
      /\ \A row, f : Judged(row, f)' <=> Judged(row, f)
  BY <1>1 DEF HasKey, Judged
<1>10. \A m \in Month : \A f \in FilingsOf("triage", m) :
         HasKey(f, registry["triage"][m].done) => Judged(snippets'[f], f) \/ f \in adrift
  BY <1>3, <1>5, <1>6, <1>8, MonthPartitions DEF TriageInv, KeysJudged
<1>11. KeysJudged'
  BY <1>1, <1>3, <1>9, <1>10 DEF KeysJudged, HasKey, Judged
<1>12. \A m \in Month : UpToDate("triage", m) => \A f \in FilingsOf("triage", m) :
         Sound(f, failures, registry["triage"][m].done, snippets'[f]) \/ f \in adrift
  BY <1>3, <1>5, <1>6, MonthPartitions DEF TriageInv, ListOk, Sound
<1>13. ASSUME NEW f \in Filing, f \in failures \ run'.list
       PROVE  snippets'[f].verdict # "failed" \/ f \in adrift
  <2>1. CASE f \in run.list
    <3>1. output.complete /\ f \in FilingsOf("triage", p) /\ f \notin failed
      BY <1>2, <1>13, <2>1 DEF ReplaceFailures
    <3>2. f \in listed
      BY <2>1, <3>1 DEF listed
    <3> QED BY <1>4, <1>5, <1>7, <3>1, <3>2
  <2>2. CASE f \notin run.list
    <3>1. f \notin listed /\ (snippets[f].verdict # "failed" \/ f \in adrift)
      BY <1>3, <1>13, <2>2 DEF listed, TriageInv, ListOk
    <3>2. snippets'[f] = snippets[f]
      BY <1>1, <1>6, <3>1
    <3> QED BY <3>1, <3>2
  <2> QED BY <2>1, <2>2
<1>14. ListOk'
  BY <1>1, <1>3, <1>12, <1>13, SameDates DEF ListOk, Sound, HasKey
<1>15. RunFields' /\ Debts' /\ NeverCut'
  BY <1>1, <1>2, <1>3 DEF TriageInv, RunBooks, RunFields, Debts, JudgedNow, NeverCut, Waiting
<1>16. InHand'
  <2>1. run'.list \subseteq failures
    BY <1>2, <1>3, <1>4, <1>5 DEF ReplaceFailures
  <2> QED BY <1>1, <1>2, <1>3, <2>1, SameDates DEF TriageInv, RunBooks, InHand
<1> QED BY <1>11, <1>14, <1>15, <1>16 DEF TriageInv, RunBooks

LEMMA RetrySaveTriageInv == IInv /\ TriageInv /\ RetrySaveList => TriageInv'
<1> SUFFICES ASSUME IInv, TriageInv, RetrySaveList PROVE TriageInv'
  OBVIOUS
<1>1. /\ UNCHANGED <<docs, windows, cuts, snippets, registry, others, adrift>>
      /\ failures' = run.list /\ run.pc = "retry_list" /\ run'.pc = "retry"
      /\ run'.stage = run.stage /\ run'.force = run.force /\ run'.todo = run.todo
      /\ run'.dirty = run.dirty /\ run'.outputs = run.outputs /\ run'.list = run.list
      /\ run'.changed = run.changed /\ run'.owed = run.owed
  BY DEF RetrySaveList, IInv, RunShape
<1>2. /\ Retrying /\ Retrying' /\ ~Triaging' /\ run.list \subseteq failures
      /\ run.owed = {} /\ run.dirty = {} /\ ~run.changed
  BY <1>1 DEF Retrying, Triaging, TriageInv, RunBooks, InHand, Debts
<1>3. KeysJudged'
  BY <1>1, <1>2 DEF TriageInv, KeysJudged, HasKey, Judged
<1>4. ASSUME NEW m \in Month, UpToDate("triage", m), NEW f \in FilingsOf("triage", m)
      PROVE  Sound(f, failures', registry["triage"][m].done, snippets[f]) \/ f \in adrift
  <2>1. f \in Filing
        /\ (Sound(f, failures, registry["triage"][m].done, snippets[f]) \/ f \in adrift)
    BY <1>2, <1>4, MonthPartitions DEF TriageInv, ListOk
  <2>2. f \in failures \ run.list => snippets[f].verdict # "failed" \/ f \in adrift
    BY <1>2, <2>1 DEF TriageInv, ListOk
  <2> QED BY <1>1, <1>2, <2>1, <2>2 DEF Sound
<1>5. ListOk'
  BY <1>1, <1>2, <1>4, SameDates DEF ListOk, Sound, HasKey
<1>6. RunFields' /\ Debts' /\ NeverCut' /\ InHand'
  <2>1. JudgedNow' = JudgedNow
    BY <1>1 DEF JudgedNow
  <2> QED BY <1>1, <1>2, <2>1, SameDates
      DEF TriageInv, RunBooks, RunFields, Debts, NeverCut, Waiting, InHand
<1> QED BY <1>3, <1>5, <1>6 DEF TriageInv, RunBooks

(***************************************************************************)
(* Lemma: a flush of windows costs keys and dates, and gives none back; a  *)
(* flush of snippets is what the entries it makes speak of.                *)
(***************************************************************************)
LEMMA FlushTriageInv == IInv /\ TriageInv /\ Flush => TriageInv'
<1> SUFFICES ASSUME IInv, TriageInv, Flush PROVE TriageInv'
  OBVIOUS
<1>1. /\ run.pc \in {"loop", "saving"} /\ run'.pc \in {"loop", "saving"}
      /\ run'.stage = run.stage /\ run'.force = run.force /\ run'.todo = run.todo
      /\ run'.owed = (IF run.stage = "triage" THEN run.owed \cup OwedBy(snippets')
                      ELSE run.owed)
      /\ run'.changed = run.changed /\ run'.list = run.list
      /\ run'.dirty = run.dirty \cup DOMAIN run.outputs
      /\ run'.outputs = NoOutputs /\ run'.month = NoMonth
      /\ \A p \in Partition(run.stage) : run'.entries[p] =
           IF p \in DOMAIN run.outputs THEN Entry(p) ELSE run.entries[p]
      /\ adrift' = adrift \ JudgedNow
      /\ UNCHANGED <<docs, registry, failures>>
  BY FlushFields
<1>2. /\ ~Retrying /\ ~Retrying' /\ (Triaging' <=> Triaging)
      /\ Triaging <=> run.stage = "triage"
      /\ Listed' = Listed /\ DOMAIN run'.outputs = {} /\ Waiting' = Waiting
  BY <1>1, NoOutputsIsEmpty DEF Retrying, Triaging, Listed, Waiting
<1>3. RunFields' /\ Debts'
  <2>1. run.dirty \cup DOMAIN run.outputs \subseteq Partition(run.stage)
    BY DEF TriageInv, RunBooks, RunFields, IInv, RunShape
  <2>2. run'.force \in BOOLEAN /\ run'.changed \in BOOLEAN
    BY <1>1 DEF TriageInv, RunBooks, RunFields
  <2>3. run'.todo \cap Waiting' = {}
    BY <1>1, <1>2 DEF TriageInv, RunBooks, RunFields
  <2>4. RunFields'
    BY <1>1, <1>2, <2>1, <2>2, <2>3 DEF RunFields
  <2>5. Debts'
    BY <1>1, <1>2 DEF TriageInv, RunBooks, RunFields, Debts, JudgedNow
  <2> QED BY <2>4, <2>5
<1>4. CASE run.stage = "segment"
  <2>1. /\ ~Triaging' /\ run'.stage = "segment" /\ UNCHANGED <<snippets, adrift>>
        /\ run.owed = {} /\ run'.owed = {}
    BY <1>1, <1>2, <1>4 DEF Flush, TriageInv, RunBooks, Debts
  <2>2. \A m \in Month :
          /\ UpToDate("triage", m)' => UpToDate("triage", m)
          /\ \A f \in FilingsOf("triage", m) :
               HasKey(f, registry["triage"][m].done)' =>
                 windows'[f] = windows[f] /\ HasKey(f, registry["triage"][m].done)
    BY <1>4, CutBringsNothingBack DEF TriageInv, RunBooks
  <2>3. NeverCut'
    <3>1. CASE Month = {}
      BY <3>1, MonthPartitions DEF NeverCut
    <3>2. CASE Month # {}
      BY <1>4, <3>2, CutBringsNothingBack DEF TriageInv, RunBooks
    <3> QED BY <3>1, <3>2
  <2>4. KeysJudged'
    BY <1>4, <2>1, <2>2 DEF TriageInv, KeysJudged, Judged
  <2>5. ListOk'
    BY <1>1, <1>2, <1>4, <2>1, <2>2 DEF TriageInv, ListOk, Sound
  <2>6. InHand'
    BY <1>2, <2>1 DEF InHand
  <2> QED BY <1>3, <2>3, <2>4, <2>5, <2>6 DEF TriageInv, RunBooks
<1>5. CASE run.stage = "triage"
  <2>1. UNCHANGED <<windows, cuts>> /\ snippets' = Written(snippets) /\ Triaging
    BY <1>2, <1>5 DEF Flush
  <2>2. /\ \A f, done : HasKey(f, done)' <=> HasKey(f, done)
        /\ \A row, f : Judged(row, f)' <=> Judged(row, f)
    BY <2>1 DEF HasKey, Judged
  <2>3. ASSUME NEW m \in Month, NEW f \in FilingsOf("triage", m)
        PROVE  snippets'[f] = IF m \in DOMAIN run.outputs THEN run.outputs[m].rows[f]
                              ELSE snippets[f]
    BY <1>5, <2>1, MonthPartitions DEF Written
  <2>4. \A m \in Month : /\ m \in DOMAIN run.outputs =>
                              /\ run'.entries[m].done = run.outputs[m].done
                              /\ run'.entries[m].complete = run.outputs[m].complete
                         /\ m \notin DOMAIN run.outputs => run'.entries[m] = run.entries[m]
    <3>1. \A m \in Month : run'.entries[m] =
            IF m \in DOMAIN run.outputs THEN Entry(m) ELSE run.entries[m]
      BY <1>1, <1>5, MonthPartitions
    <3>2. \A m : Entry(m).done = run.outputs[m].done
                 /\ Entry(m).complete = run.outputs[m].complete
      BY DEF Entry
    <3> QED BY <3>1, <3>2
  <2>5. \A m \in DOMAIN run.outputs : m \in Month /\ m \in run'.dirty /\ m \in Waiting
                                      /\ m \notin run.dirty /\ m \notin run.todo
    BY <1>1, <1>5, MonthPartitions
    DEF IInv, RunShape, Waiting, TriageInv, RunBooks, RunFields
  <2>6. ASSUME NEW m \in Month, NEW f \in FilingsOf("triage", m)
        PROVE  f \in JudgedNow <=> m \in DOMAIN run.outputs /\ f \in run.outputs[m].judged
    <3>1. \A n \in DOMAIN run.outputs : run.outputs[n].judged \subseteq FilingsOf("triage", n)
      BY <2>1 DEF TriageInv, KeysJudged
    <3>2. \A n : f \in FilingsOf("triage", n) => n = m
      BY <2>6, MonthPartitions
    <3> QED BY <3>1, <3>2 DEF JudgedNow
  <2>7. /\ \A f \in JudgedNow : snippets'[f].verdict = "failed" => f \in run'.owed
        /\ \A m \in DOMAIN run.outputs : \A f \in failures :
             HasKey(f, run.outputs[m].done) => f \in run'.owed
        /\ run.owed \subseteq run'.owed
    BY <1>1, <1>5 DEF OwedBy, HasKey
  <2>8. KeysJudged'
    <3>1. UNCHANGED registry /\ run'.force = run.force /\ DOMAIN run'.outputs = {}
      BY <1>1, <1>2
    <3>2. /\ \A f, m : HasKey(f, registry["triage"][m].done)'
                       <=> HasKey(f, registry["triage"][m].done)
          /\ \A f, m : HasKey(f, run.entries[m].done)' <=> HasKey(f, run'.entries[m].done)
          /\ \A f : Judged(snippets[f], f)' <=> Judged(snippets'[f], f)
      BY <2>1, <3>1 DEF HasKey, Judged
    <3>3. ASSUME NEW m \in Month, NEW f \in FilingsOf("triage", m),
                 HasKey(f, registry["triage"][m].done)
          PROVE  Judged(snippets'[f], f) \/ f \in adrift' \/ (f \in run'.owed /\ m \in run'.dirty)
      <4>1. windows[f] # 0
        BY <3>3 DEF HasKey
      <4>2. Judged(snippets[f], f) \/ f \in adrift \/ (f \in run.owed /\ m \in run.dirty)
        BY <3>3 DEF TriageInv, KeysJudged
      <4>3. CASE f \in JudgedNow
        <5>1. m \in DOMAIN run.outputs /\ f \in run.outputs[m].judged
              /\ Verdicts(run.outputs[m], f) /\ snippets'[f] = run.outputs[m].rows[f]
          BY <2>1, <2>3, <2>6, <3>3, <4>3 DEF TriageInv, KeysJudged
        <5>2. snippets'[f].verdict = "failed" \/ Judged(snippets'[f], f)
          BY <5>1 DEF Verdicts
        <5> QED BY <2>5, <2>7, <4>3, <5>1, <5>2
      <4>4. CASE f \notin JudgedNow
        <5>1. m \in DOMAIN run.outputs =>
                Verdicts(run.outputs[m], f) /\ f \notin run.outputs[m].judged
          BY <2>1, <2>6, <3>3, <4>4 DEF TriageInv, KeysJudged
        <5>2. snippets'[f] = snippets[f]
          BY <2>3, <3>3, <4>1, <5>1 DEF Verdicts
        <5> QED BY <1>1, <2>7, <4>2, <4>4, <5>2
      <4> QED BY <4>3, <4>4
    <3>4. ASSUME NEW m \in Month, NEW f \in FilingsOf("triage", m),
                 HasKey(f, run'.entries[m].done)
          PROVE  Judged(snippets'[f], f) \/ f \in adrift'
      <4>1. CASE m \in DOMAIN run.outputs
        <5>1. Verdicts(run.outputs[m], f) /\ HasKey(f, run.outputs[m].done)
          BY <2>1, <2>4, <3>4, <4>1 DEF TriageInv, KeysJudged
        <5>2. Judged(run.outputs[m].rows[f], f) \/ f \in adrift \ run.outputs[m].judged
          BY <5>1 DEF Verdicts
        <5> QED BY <1>1, <2>3, <2>6, <3>4, <4>1, <5>2
      <4>2. CASE m \notin DOMAIN run.outputs
        <5>1. Judged(snippets[f], f) \/ f \in adrift
          BY <2>1, <2>4, <3>4, <4>2 DEF TriageInv, KeysJudged
        <5> QED BY <1>1, <2>3, <2>6, <3>4, <4>2, <5>1
      <4> QED BY <4>1, <4>2
    <3> QED BY <1>1, <1>5, <3>1, <3>2, <3>3, <3>4 DEF KeysJudged
  <2>9. ASSUME NEW m \in Month, UpToDate("triage", m), NEW f \in FilingsOf("triage", m)
        PROVE  Sound(f, failures, registry["triage"][m].done, snippets'[f])
                 \/ f \in run'.owed \cup adrift'
    <3>1. Sound(f, failures, registry["triage"][m].done, snippets[f])
            \/ f \in run.owed \cup adrift
      BY <2>9 DEF TriageInv, ListOk
    <3>2. CASE f \in JudgedNow
      <4>1. m \in DOMAIN run.outputs /\ f \in run.outputs[m].judged
            /\ Verdicts(run.outputs[m], f) /\ snippets'[f] = run.outputs[m].rows[f]
        BY <2>1, <2>3, <2>6, <2>9, <3>2 DEF TriageInv, KeysJudged
      <4>2. snippets'[f].verdict = "failed" => f \in run'.owed
        BY <2>7, <3>2
      <4>3. snippets'[f].verdict # "failed" => (f \in failures => f \in run'.owed)
        BY <2>7, <4>1 DEF Verdicts
      <4> QED BY <4>2, <4>3 DEF Sound
    <3>3. CASE f \notin JudgedNow
      <4>1. m \in DOMAIN run.outputs =>
              Verdicts(run.outputs[m], f) /\ f \notin run.outputs[m].judged
        BY <2>1, <2>6, <2>9, <3>3 DEF TriageInv, KeysJudged
      <4>2. \/ snippets'[f] = snippets[f]
            \/ windows[f] = 0 /\ snippets'[f].verdict # "failed"
        BY <2>3, <2>9, <4>1 DEF Verdicts
      <4>3. windows[f] = 0 => ~HasKey(f, registry["triage"][m].done)
        BY DEF HasKey
      <4> QED BY <1>1, <2>7, <3>1, <3>3, <4>2, <4>3 DEF Sound
    <3> QED BY <3>2, <3>3
  <2>10. ASSUME NEW m \in Month, NEW f \in FilingsOf("triage", m)
         PROVE  /\ m \notin Waiting /\ UpToDate("triage", m) =>
                     Sound(f, Listed, registry["triage"][m].done, snippets'[f])
                       \/ f \in adrift'
                /\ m \in run'.dirty /\ run'.entries[m].complete =>
                     /\ Sound(f, Listed, run'.entries[m].done, snippets'[f]) \/ f \in adrift'
                     /\ Sound(f, failures, run'.entries[m].done, snippets'[f])
                          \/ f \in run'.owed \cup adrift'
    <3>1. CASE m \in DOMAIN run.outputs
      <4>1. snippets'[f] = run.outputs[m].rows[f] /\ m \in Waiting
            /\ run'.entries[m].done = run.outputs[m].done
            /\ run'.entries[m].complete = run.outputs[m].complete
        BY <2>3, <2>4, <2>5, <2>10, <3>1
      <4>2. run.outputs[m].complete =>
              /\ Sound(f, Listed, run.outputs[m].done, run.outputs[m].rows[f])
                   \/ f \in adrift \ run.outputs[m].judged
              /\ run.outputs[m].rows[f].verdict = "failed" =>
                   f \in adrift \cup run.outputs[m].judged
        BY <2>1, <2>10, <3>1 DEF TriageInv, ListOk
      <4>3. f \in adrift \ run.outputs[m].judged => f \in adrift'
        BY <1>1, <2>6, <2>10, <3>1
      <4>4. f \in failures /\ HasKey(f, run.outputs[m].done) => f \in run'.owed
        BY <2>7, <3>1
      <4>5. f \in run.outputs[m].judged /\ run.outputs[m].rows[f].verdict = "failed" =>
              f \in run'.owed
        BY <2>6, <2>7, <2>10, <3>1, <4>1
      <4> QED BY <4>1, <4>2, <4>3, <4>4, <4>5 DEF Sound
    <3>2. CASE m \notin DOMAIN run.outputs
      <4>1. /\ snippets'[f] = snippets[f] /\ run'.entries[m] = run.entries[m]
            /\ f \in adrift => f \in adrift'
            /\ m \in run'.dirty <=> m \in run.dirty
        BY <1>1, <2>3, <2>4, <2>6, <2>10, <3>2
      <4>2. f \in run.owed => f \in run'.owed
        BY <2>7
      <4> QED BY <2>1, <4>1, <4>2 DEF TriageInv, ListOk
    <3> QED BY <3>1, <3>2
  <2>11. ListOk'
    BY <1>1, <1>2, <1>5, <2>1, <2>2, <2>9, <2>10, SameDates DEF ListOk, Sound, HasKey
  <2>12. NeverCut'
    BY <2>1 DEF TriageInv, RunBooks, NeverCut
  <2>13. InHand'
    <3>1. run.todo \subseteq Month
      BY <1>1, <1>5, MonthPartitions DEF IInv, RunShape
    <3>2. \A m \in run.todo : run'.entries[m] = run.entries[m]
      BY <2>4, <2>5, <3>1
    <3> QED BY <1>1, <1>2, <2>1, <3>2, SameDates DEF TriageInv, RunBooks, InHand
  <2> QED BY <1>3, <2>8, <2>11, <2>12, <2>13 DEF TriageInv, RunBooks
<1> QED BY <1>4, <1>5 DEF IInv, RunShape, Stage

(***************************************************************************)
(* Lemmas: a partition taken moves from what the run has to do to what it  *)
(* has in hand.                                                            *)
(***************************************************************************)
LEMMA TakeBooks ==
  ASSUME IInv, TriageInv, NEW p \in Partition(run.stage), NEW output, Take(p, output),
         run.stage = "segment" => output.judged = {}
  PROVE  RunBooks'
<1>1. /\ run.pc = "loop" /\ run'.pc \in {"loop", "saving"} /\ p \in run.todo
      /\ run'.stage = run.stage /\ run'.force = run.force /\ run'.owed = run.owed
      /\ run'.dirty = run.dirty /\ run'.entries = run.entries
      /\ run'.todo = run.todo \ {p}
      /\ run'.changed \in BOOLEAN /\ (run.stage = "segment" => ~run'.changed)
      /\ DOMAIN run'.outputs = DOMAIN run.outputs \cup {p}
      /\ \A q \in DOMAIN run.outputs \cup {p} :
           run'.outputs[q] = IF q = p THEN output ELSE run.outputs[q]
      /\ UNCHANGED <<docs, windows, cuts, snippets, registry, failures, adrift>>
  BY TakeFields DEF TriageInv, RunBooks
<1>2. ~Retrying' /\ (Triaging' <=> Triaging) /\ Waiting' = Waiting \cup {p}
  BY <1>1 DEF Retrying, Triaging, Waiting
<1>3. RunFields' /\ Debts'
  <2>1. /\ run.todo \cap Waiting = {} /\ DOMAIN run.outputs \cap run.dirty = {}
        /\ run.force \in BOOLEAN
        /\ run.dirty \subseteq Partition(run.stage)
    BY DEF TriageInv, RunBooks, RunFields
  <2>2. p \notin run.dirty
    BY <1>1, <2>1 DEF Waiting
  <2>3. RunFields'
    BY <1>1, <1>2, <2>1, <2>2 DEF RunFields
  <2>4. run.stage = "segment" => JudgedNow' = {}
    BY <1>1 DEF JudgedNow, TriageInv, RunBooks, Debts
  <2>5. Debts'
    BY <1>1, <1>2, <2>4 DEF TriageInv, RunBooks, Debts
  <2> QED BY <2>3, <2>5
<1>4. InHand' /\ NeverCut'
  BY <1>1, <1>2, SameDates DEF TriageInv, RunBooks, InHand, NeverCut
<1> QED BY <1>3, <1>4 DEF RunBooks

LEMMA CutTriageInv ==
  ASSUME IInv, TriageInv, NEW p \in Day, CutDay(p)
  PROVE  TriageInv'
<1>1. run.stage = "segment" /\ p \in Partition(run.stage) /\ Take(p, Cut(p))
      /\ Cut(p).judged = {}
  BY DEF CutDay, Partition, Cut, Output
<1>2. /\ run.pc = "loop" /\ run'.pc \in {"loop", "saving"} /\ run'.stage = "segment"
      /\ run.owed = {} /\ run'.owed = {}
      /\ UNCHANGED <<windows, cuts, snippets, registry, failures, adrift>>
  BY <1>1, TakeFields DEF TriageInv, RunBooks, Debts
<1>3. ~Retrying' /\ ~Triaging'
  BY <1>2 DEF Retrying, Triaging
<1>4. KeysJudged'
  BY <1>1, <1>2, <1>3 DEF TriageInv, KeysJudged, HasKey, Judged
<1>5. ListOk'
  BY <1>1, <1>2, <1>3, SameDates DEF TriageInv, ListOk, Sound, HasKey
<1> QED BY <1>1, <1>4, <1>5, TakeBooks DEF TriageInv

LEMMA JudgeTriageInv ==
  ASSUME IInv, TriageInv, NEW p \in run.todo, NEW infra, NEW failed,
         TriageMonth(p, infra, failed)
  PROVE  TriageInv'
<1> DEFINE among  == FilingsOf("triage", p)
           output == Triage(among, DoneKeys(p), infra, failed)
<1>1. /\ run.pc = "loop" /\ run.stage = "triage" /\ Take(p, output)
      /\ CallsFail(among, DoneKeys(p), infra, failed) /\ Triaging
  BY DEF TriageMonth, Triaging
<1>2. p \in Partition(run.stage) /\ p \in Month
  BY <1>1, MonthPartitions DEF IInv, RunShape
<1>3. \A f \in among : HasKey(f, DoneKeys(p)) => Judged(snippets[f], f) \/ f \in adrift
  BY <1>1, <1>2 DEF TriageInv, KeysJudged, DoneKeys, HasKey
<1>4. /\ output.failures = failed /\ failed \subseteq among /\ output.judged \subseteq among
      /\ \A f \in among :
           /\ Verdicts(output, f)
           /\ HasKey(f, DoneKeys(p)) => f \notin output.judged
           /\ output.complete => (output.rows[f].verdict = "failed" =>
                                    \/ f \in failed /\ f \in output.judged
                                    \/ f \in adrift \ output.judged)
           /\ f \in failed => ~HasKey(f, output.done)
  <2> HIDE DEF among
  <2> QED BY <1>1, <1>3, TriageVerdicts
<1> HIDE DEF output
<1>5. /\ run'.pc \in {"loop", "saving"}
      /\ run'.stage = "triage" /\ run'.force = run.force /\ run'.owed = run.owed
      /\ run'.dirty = run.dirty /\ run'.entries = run.entries
      /\ Listed' = IF output.complete THEN ReplaceFailures(Listed, p, failed) ELSE Listed
      /\ DOMAIN run'.outputs = DOMAIN run.outputs \cup {p}
      /\ \A q \in DOMAIN run.outputs \cup {p} :
           run'.outputs[q] = IF q = p THEN output ELSE run.outputs[q]
      /\ UNCHANGED <<windows, cuts, snippets, registry, failures, adrift>>
  BY <1>1, <1>2, <1>4, TakeFields DEF TriageInv, RunBooks
<1>6. ~Retrying' /\ Triaging' /\ Waiting' = Waiting \cup {p}
  BY <1>5 DEF Retrying, Triaging, Waiting
<1>7. p \notin Waiting /\ p \notin run.dirty /\ DOMAIN run.outputs \subseteq Month
  BY <1>1, MonthPartitions DEF TriageInv, RunBooks, RunFields, Waiting, IInv, RunShape
<1>8. /\ \A f, done : HasKey(f, done)' <=> HasKey(f, done)
      /\ \A row, f : Judged(row, f)' <=> Judged(row, f)
  BY <1>5 DEF HasKey, Judged
<1>9. ASSUME NEW m \in Month, m # p, NEW f \in FilingsOf("triage", m)
      PROVE  f \in Listed' <=> f \in Listed
  <2>1. f \notin among
    BY <1>9, MonthPartitions
  <2> QED BY <1>4, <1>5, <2>1 DEF ReplaceFailures
<1>10. ASSUME NEW f \in among, output.complete
       PROVE  f \in Listed' <=> f \in failed
  BY <1>5, <1>10 DEF ReplaceFailures
<1>11. KeysJudged'
  <2>1. ASSUME NEW f \in among, ~run.force, HasKey(f, registry["triage"][p].done)
        PROVE  f \notin output.judged
    <3>1. DoneKeys(p) = registry["triage"][p].done
      BY <1>1, <2>1 DEF DoneKeys, TriageInv, RunBooks, InHand
    <3> QED BY <1>4, <2>1, <3>1
  <2>2. ASSUME NEW m \in DOMAIN run'.outputs
        PROVE  /\ run'.outputs[m].judged \subseteq FilingsOf("triage", m)
               /\ \A f \in FilingsOf("triage", m) :
                    /\ Verdicts(run'.outputs[m], f)
                    /\ ~run.force /\ HasKey(f, registry["triage"][m].done) =>
                         f \notin run'.outputs[m].judged
    <3>1. CASE m = p
      BY <1>4, <1>5, <2>1, <3>1
    <3>2. CASE m # p
      BY <1>1, <1>5, <3>2 DEF TriageInv, KeysJudged
    <3> QED BY <3>1, <3>2
  <2>3. /\ \A m \in Month : \A f \in FilingsOf("triage", m) :
             HasKey(f, registry["triage"][m].done) =>
               Judged(snippets[f], f) \/ f \in adrift \/ (f \in run.owed /\ m \in run.dirty)
        /\ \A m \in Month : \A f \in FilingsOf("triage", m) :
             HasKey(f, run.entries[m].done) => Judged(snippets[f], f) \/ f \in adrift
    BY <1>1 DEF TriageInv, KeysJudged
  <2> QED BY <1>5, <1>6, <1>8, <2>2, <2>3 DEF KeysJudged, Verdicts, HasKey, Judged
<1>12. ListOk'
  <2>1. ASSUME NEW m \in Month, UpToDate("triage", m), NEW f \in FilingsOf("triage", m)
        PROVE  Sound(f, failures, registry["triage"][m].done, snippets[f])
                 \/ f \in run.owed \cup adrift
    BY <2>1 DEF TriageInv, ListOk
  <2>2. ASSUME NEW m \in Month, NEW f \in FilingsOf("triage", m)
        PROVE  /\ m \notin Waiting' /\ UpToDate("triage", m) =>
                    Sound(f, Listed', registry["triage"][m].done, snippets[f])
                      \/ f \in adrift
               /\ m \in DOMAIN run'.outputs /\ run'.outputs[m].complete =>
                    /\ Sound(f, Listed', run'.outputs[m].done, run'.outputs[m].rows[f])
                         \/ f \in adrift \ run'.outputs[m].judged
                    /\ run'.outputs[m].rows[f].verdict = "failed" =>
                         f \in adrift \cup run'.outputs[m].judged
               /\ m \in run.dirty /\ run.entries[m].complete =>
                    /\ Sound(f, Listed', run.entries[m].done, snippets[f]) \/ f \in adrift
                    /\ Sound(f, failures, run.entries[m].done, snippets[f])
                         \/ f \in run.owed \cup adrift
    <3>1. CASE m = p
      BY <1>4, <1>5, <1>6, <1>7, <1>10, <2>2, <3>1 DEF Sound
    <3>2. CASE m # p
      BY <1>1, <1>5, <1>6, <1>9, <2>2, <3>2 DEF Sound, TriageInv, ListOk
    <3> QED BY <3>1, <3>2
  <2> QED BY <1>5, <1>6, <1>8, <2>1, <2>2, SameDates DEF ListOk, Sound, HasKey
<1>13. RunBooks'
  BY <1>1, <1>2, TakeBooks
<1> QED BY <1>11, <1>12, <1>13 DEF TriageInv

(***************************************************************************)
(* Lemma: the invariant is inductive.                                      *)
(***************************************************************************)
LEMMA NextTriageInv ==
  ASSUME IInv, TriageInv, [Next]_vars
  PROVE  TriageInv'
<1>1. CASE Step
  <2>1. ASSUME NEW p \in Day, CutDay(p) PROVE TriageInv'
    BY <2>1, CutTriageInv
  <2>2. ASSUME NEW p \in run.todo, NEW infra, NEW failed, TriageMonth(p, infra, failed)
        PROVE  TriageInv'
    BY <2>2, JudgeTriageInv
  <2>3. ASSUME NEW p \in run.todo, NEW infra, NEW failed, RetryMonth(p, infra, failed)
        PROVE  TriageInv'
    BY <2>3, RetryTriageInv
  <2>4. CASE Flush \/ ReadShard \/ SwapShard \/ LoseRace \/ SaveList \/ RetrySaveList
    BY <2>4, FlushTriageInv, ReadTriageInv, SwapTriageInv, SaveTriageInv, RetrySaveTriageInv
  <2>5. CASE GiveUp \/ EndRetry
    <3>1. adrift' = adrift \cup run.owed
      BY <2>5 DEF GiveUp, EndRetry, Retrying, TriageInv, RunBooks, Debts
    <3> QED BY <2>5, <3>1, EndsTriageInv DEF GiveUp, EndRetry
  <2> QED BY <1>1, <2>1, <2>2, <2>3, <2>4, <2>5 DEF Step
<1>2. CASE \E s \in Stage, force \in BOOLEAN : StartRun(s, force)
  BY <1>2, StartTriageInv
<1>3. CASE StartRetry
  BY <1>3, StartRetryTriageInv
<1>4. CASE Crash
  BY <1>4, EndsTriageInv DEF Crash
<1>5. CASE (\E f \in Filing : RewriteDocument(f)) \/ (\E m \in Month : OtherRunSaves(m))
           \/ UNCHANGED vars
  <2>1. UNCHANGED <<windows, cuts, snippets, registry, failures, run, adrift>>
    BY <1>5 DEF RewriteDocument, OtherRunSaves, vars
  <2> QED BY <2>1, StandsTriageInv
<1> QED BY <1>1, <1>2, <1>3, <1>4, <1>5 DEF Next

LEMMA TriageInvHolds == Spec => [](IInv /\ TriageInv)
<1>1. IInv /\ TriageInv /\ [Next]_vars => (IInv /\ TriageInv)'
  BY NextIInv, NextTriageInv
<1> QED BY InitIInv, InitTriageInv, <1>1, PTL DEF Spec

(***************************************************************************)
(* Theorem: a filing whose done key is stored has a verdict on just those  *)
(* windows, so what a later triage carries over is one, whatever was cut   *)
(* again, forced, retried or refused by the provider, and wherever runs    *)
(* died; and it is no failed one, but where a run died between writing the *)
(* row and saving the registry and the failure list, and only until a run  *)
(* judges the filing again.                                                *)
(***************************************************************************)
THEOREM CarriedRowsAreVerdicts == Spec => []DoneFilingsHaveVerdicts
<1>1. IInv /\ TriageInv => DoneFilingsHaveVerdicts
  <2> SUFFICES ASSUME IInv, TriageInv, run = Idle, NEW m \in Month,
                      NEW f \in FilingsOf("triage", m),
                      HasKey(f, registry["triage"][m].done)
               PROVE  /\ snippets[f].win = windows[f]
                      /\ snippets[f].verdict = "judged" \/ f \in adrift
    BY DEF DoneFilingsHaveVerdicts, HasKey
  <2>1. snippets[f].win = windows[f]
    <3>1. KeysOk(m, registry["triage"][m].done, docs, windows, snippets)
      BY MonthPartitions DEF IInv, RegistryOk, EntryOk, TriageEntryOk, Stage
    <3>2. windows[f] \in Nat \ {0}
      BY MonthPartitions DEF IInv, FilesOk, HasKey
    <3> QED BY <3>1, <3>2 DEF KeysOk, HasKey
  <2>2. run.owed = {}
    BY DEF Idle
  <2>3. Judged(snippets[f], f) \/ f \in adrift
    BY <2>2 DEF TriageInv, KeysJudged
  <2> QED BY <2>1, <2>3 DEF Judged
<1> QED BY <1>1, TriageInvHolds, PTL

(***************************************************************************)
(* Theorem: a filing that failed is on the failure list, for a retry to    *)
(* find, or in a month that triage takes up anyway, but where a run died   *)
(* between the filing's row and the save of the list.                      *)
(***************************************************************************)
THEOREM NoFailureIsForgotten == Spec => []FailedFilingsAreListed
<1>1. IInv /\ TriageInv => FailedFilingsAreListed
  <2> SUFFICES ASSUME TriageInv, run = Idle, NEW f \in Filing,
                      snippets[f].verdict = "failed", UpToDate("triage", Home("triage", f))
               PROVE  f \in failures \cup adrift
    BY DEF FailedFilingsAreListed
  <2>1. run.owed = {} /\ Home("triage", f) \in Month
        /\ f \in FilingsOf("triage", Home("triage", f))
    BY MonthPartitions DEF Idle, FilingsOf
  <2> QED BY <2>1 DEF TriageInv, ListOk, Sound
<1> QED BY <1>1, TriageInvHolds, PTL
=============================================================================
