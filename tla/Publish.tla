------------------------------ MODULE Publish -------------------------------
(***************************************************************************)
(* The end of a whole run (pipeline.py run_match_and_finalize): match, then *)
(* publish (publish.py).  A publish writes the tables of a new generation,  *)
(* moves the pointer to it, refreshes the latest copies, records in the     *)
(* pointer what the generation was made of, and prunes old generations.     *)
(***************************************************************************)
EXTENDS MatchStage, Sequences

CONSTANT Late   \* mentions a run whose lease was taken over may write

ASSUME PublishAssumption == Late \subseteq Mention

VARIABLES
  pointer,   \* latest.json
  gens,      \* gens[g][t]: the table files of the generations in snapshots/
  latest,    \* latest[t]: the latest.parquet of a table
  pub,       \* the publish under way
  late,      \* the mentions a late writer wrote during a publish
  history    \* since the pointer moved: the mentions present all the time, the
             \* generation it named before, whether `cdt publish` moved it

publishVars == <<pointer, gens, latest, pub, late, history>>
vars == <<matchVars, publishVars>>

-----------------------------------------------------------------------------
\* FINAL_OUTPUT_TABLES, in the order they are written.
Tables == <<"items", "instruments", "mentions", "edges", "redirects">>
Table  == {Tables[i] : i \in DOMAIN Tables}

\* What the rows of a table would be; of the items only the referenced ones.
Source(t, referenced) ==
  CASE t = "items"       -> referenced
    [] t = "instruments" -> instruments
    [] t = "mentions"    -> mentions
    [] t = "edges"       -> edges
    [] t = "redirects"   -> redirects

ReferencedItems == {ItemOf[m] : m \in mentions}

\* `publish_source_digest`: the contents of the sources and the code.
SourceDigest == <<mentions, edges, instruments, redirects, code>>

NoPointer == [gen |-> 0, digest |-> <<>>]
NoFile    == <<>>   \* content is wrapped, so no table equals it

IdlePublish == [pc |-> "idle", gen |-> 0, previous |-> 0, digest |-> <<>>,
                force |-> FALSE, whole |-> FALSE, items |-> {}, next |-> 1]

PublishInit ==
  /\ pointer = NoPointer
  /\ gens = [g \in {} |-> <<>>]
  /\ latest = [t \in Table |-> NoFile]
  /\ pub = IdlePublish
  /\ late = {}
  /\ history = [present |-> {}, outgoing |-> 0, alone |-> FALSE]

Init == MatchInit /\ PublishInit

-----------------------------------------------------------------------------
\* Faulty: a published root counts as current, whatever its sources.
NothingNewOncePublished == pointer.digest # <<>> /\ \A t \in Table : latest[t] # NoFile

\* `publish_would_republish_nothing`
NothingNew ==
  /\ pointer.digest # <<>>
  /\ pointer.digest = SourceDigest
  /\ \A t \in Table : latest[t] # NoFile

\* The run id of a generation is a time of day; later ones are larger.
NextGen == 1 + Greatest(DOMAIN gens \cup {0, pointer.gen})

\* `publish_final_tables`: the digest is taken before anything is read.
BeginPublish(force, whole) ==
  IF NothingNew /\ ~force
  THEN UNCHANGED pub
  ELSE pub' = [IdlePublish EXCEPT !.pc = "tables", !.gen = NextGen,
                    !.previous = pointer.gen, !.digest = SourceDigest,
                    !.force = force, !.whole = whole, !.items = ReferencedItems]

\* A whole run goes on from match to publish, ...
PublishMatched ==
  /\ run.pc = "matched" /\ pub.pc = "idle"
  /\ run' = Idle
  /\ BeginPublish(FALSE, TRUE)
  /\ UNCHANGED <<mentions, code, edges, instruments, redirects, digests, marker,
                 manifest, ties, begun, left, pointer, gens, latest, late, history>>

\* ... and `cdt publish` publishes whatever match last wrote.
PublishAlone(force) ==
  /\ run = Idle /\ pub.pc = "idle"
  /\ Spend("troubles", 1)
  /\ BeginPublish(force, FALSE)
  /\ UNCHANGED <<mentions, code, edges, instruments, redirects, digests, marker,
                 manifest, run, ties, begun, pointer, gens, latest, late, history>>

\* `_stream_published_table`
WriteTable ==
  /\ pub.pc = "tables"
  /\ LET t    == Tables[pub.next]
         file == <<Source(t, pub.items)>>
         old  == IF pub.gen \in DOMAIN gens THEN gens[pub.gen] ELSE [u \in {} |-> <<>>]
     IN  gens' = [g \in DOMAIN gens \cup {pub.gen} |->
                    IF g = pub.gen
                    THEN [u \in DOMAIN old \cup {t} |-> IF u = t THEN file ELSE old[u]]
                    ELSE gens[g]]
  /\ pub' = IF pub.next = Len(Tables) THEN [pub EXCEPT !.pc = "guard", !.next = 1]
            ELSE [pub EXCEPT !.next = @ + 1]
  /\ UNCHANGED <<matchVars, pointer, latest, late, history>>

-----------------------------------------------------------------------------
\* Rows of a table file.
RowCount(t, file) ==
  IF file = NoFile THEN 0
  ELSE IF t \in {"items", "mentions"} THEN Cardinality(file[1])
  ELSE Cardinality(UNION {IF t = "edges" THEN UNION {file[1][c][p] : p \in DOMAIN file[1][c]}
                          ELSE DOMAIN file[1][c] : c \in Cik})

\* `_guard_against_shrinkage`, FINAL_SNAPSHOT_GUARD_RATIO = 1/2
Shrinks(of) ==
  \E t \in Table \ {"redirects"} :
    /\ RowCount(t, latest[t]) > 0
    /\ 2 * RowCount(t, of[t]) < RowCount(t, latest[t])

Refuse ==
  /\ pub.pc = "guard"
  /\ ~pub.force /\ Shrinks(gens[pub.gen])
  /\ gens' = [g \in DOMAIN gens \ {pub.gen} |-> gens[g]]
  /\ pub' = IdlePublish
  /\ UNCHANGED <<matchVars, pointer, latest, late, history>>

\* The pointer moves before the latest copies do, and without a digest.
MovePointer ==
  /\ pub.pc = "guard"
  /\ pub.force \/ ~Shrinks(gens[pub.gen])
  /\ pointer' = [gen |-> pub.gen, digest |-> <<>>]
  /\ pub' = [pub EXCEPT !.pc = "copies"]
  /\ history' = [present |-> mentions, outgoing |-> pointer.gen, alone |-> ~pub.whole]
  /\ UNCHANGED <<matchVars, gens, latest, late>>

CopyLatest ==
  /\ pub.pc = "copies"
  /\ LET t == Tables[pub.next] IN latest' = [latest EXCEPT ![t] = gens[pub.gen][t]]
  /\ pub' = IF pub.next = Len(Tables) THEN [pub EXCEPT !.pc = "digest", !.next = 1]
            ELSE [pub EXCEPT !.next = @ + 1]
  /\ UNCHANGED <<matchVars, pointer, gens, late, history>>

\* Faulty: the digest of the sources as they are by now.
RecordDigestOfNow ==
  /\ pub.pc = "digest"
  /\ pointer' = [pointer EXCEPT !.digest = SourceDigest]
  /\ pub' = [pub EXCEPT !.pc = "prune"]
  /\ UNCHANGED <<matchVars, gens, latest, late, history>>

RecordDigest ==
  /\ pub.pc = "digest"
  /\ pointer' = [pointer EXCEPT !.digest = pub.digest]
  /\ pub' = [pub EXCEPT !.pc = "prune"]
  /\ UNCHANGED <<matchVars, gens, latest, late, history>>

\* Faulty: only the new generation is kept.
PruneAllOthers ==
  /\ pub.pc = "prune"
  /\ gens' = [g \in DOMAIN gens \cap {pub.gen} |-> gens[g]]
  /\ pub' = IdlePublish
  /\ UNCHANGED <<matchVars, pointer, latest, late, history>>

\* `_prune_old_snapshots` keeps this generation and the one it replaced.
Prune ==
  /\ pub.pc = "prune"
  /\ gens' = [g \in DOMAIN gens \cap {pub.gen, pub.previous} |-> gens[g]]
  /\ pub' = IdlePublish
  /\ UNCHANGED <<matchVars, pointer, latest, late, history>>

PublishStep ==
  \/ PublishMatched \/ WriteTable \/ Refuse \/ MovePointer \/ CopyLatest
  \/ RecordDigest \/ Prune

-----------------------------------------------------------------------------
\* A run that was overtaken while it wedged writes mentions of an item of its
\* own beside a publish.  They stay: sources that come back to what they were
\* look unchanged, since their versions are those of their contents.
WriteLate(m) ==
  /\ pub.pc # "idle"
  /\ m \in Late \ mentions
  /\ Spend("changes", 1)
  /\ mentions' = mentions \cup {m}
  /\ late' = late \cup {m}
  /\ UNCHANGED <<code, edges, instruments, redirects, digests, marker, manifest,
                 run, ties, begun, pointer, gens, latest, pub, history>>

\* A match or publish dies, or loses its lease at a renewal.
Crash ==
  /\ run # Idle \/ pub.pc # "idle"
  /\ Spend("troubles", 1)
  /\ run' = Idle
  /\ pub' = IdlePublish
  /\ UNCHANGED <<mentions, code, edges, instruments, redirects, digests, marker,
                 manifest, ties, begun, pointer, gens, latest, late, history>>

\* `cdt match` stops after the match.
StopAtMatch ==
  /\ run.pc = "matched"
  /\ Spend("troubles", 1)
  /\ run' = Idle
  /\ UNCHANGED <<mentions, code, edges, instruments, redirects, digests, marker,
                 manifest, ties, begun, publishVars>>

Next ==
  \/ /\ pub.pc = "idle"
     /\ \/ /\ \E i \in Item : \E found \in Answers[i] : Extract(i, found)
           /\ history' = [history EXCEPT !.present = @ \cap mentions']
           /\ UNCHANGED <<pointer, gens, latest, pub, late>>
        \/ /\ Deploy \/ \E force, remint \in BOOLEAN : StartMatch(force, remint)
           /\ UNCHANGED publishVars
  \/ MatchStep /\ UNCHANGED publishVars
  \/ PublishStep
  \/ \E force \in BOOLEAN : PublishAlone(force)
  \/ \E m \in Late : WriteLate(m)
  \/ StopAtMatch \/ Crash

Spec == Init /\ [][Next]_vars

\* A run ends, done or dead (it renews its lease or its watchdog ends it), and
\* the daily run matches and publishes again and again.
FairSpec ==
  /\ Spec
  /\ []<>(run = Idle /\ pub.pc = "idle")
  /\ SF_vars(pub.pc = "idle" /\ StartMatch(FALSE, FALSE) /\ UNCHANGED publishVars)

-----------------------------------------------------------------------------
File(g, t) == gens[g][t][1]

WholeGeneration(g) == g \in DOMAIN gens /\ DOMAIN gens[g] = Table

\* publish.py:657-660: the generation the pointer names is whole, and so is the
\* one it named before, for the reader who still reads it, whatever dies.
PointedGenerationsExist ==
  \A g \in {pointer.gen, history.outgoing} \ {0} : WholeGeneration(g)

\* A publish that the gate skips would publish what is published already, late
\* writers or not.
SkippedPublishIsCurrent ==
  NothingNew => \A t \in Table :
    /\ File(pointer.gen, t) = Source(t, ReferencedItems)
    /\ latest[t] = gens[pointer.gen][t]

\* The tables of the generation that readers resolve belong together, whenever
\* a whole run published it: every mention is in one instrument, every
\* instrument has its members and its row, every redirect leads to one of them.
PublishedTablesAgree ==
  LET g == pointer.gen IN
  g # 0 /\ ~history.alone /\ late = {} => \A c \in Cik :
    LET ids == DOMAIN File(g, "edges")[c]
    IN  /\ DOMAIN File(g, "instruments")[c] = ids
        /\ UNION {File(g, "edges")[c][p] : p \in ids}
             = {m \in File(g, "mentions") : CikOf[m] = c}
        /\ \A p, q \in ids : p # q =>
             File(g, "edges")[c][p] \cap File(g, "edges")[c][q] = {}
        /\ \A q \in DOMAIN File(g, "redirects")[c] :
             q \notin ids /\ File(g, "redirects")[c][q] \in ids
        /\ \A m \in File(g, "mentions") : ItemOf[m] \in File(g, "items")

\* An instrument of an old generation that kept a mention all the while.
Survives(c, p) == File(pointer.gen, "edges")[c][p] \cap history.present # {}

\* The ids a generation lists, and those it redirects.
Lists(g, c)     == DOMAIN File(g, "edges")[c]
Redirected(g, c) == DOMAIN File(g, "redirects")[c]

\* identity.py:3-7, docs/schema.md:520: an id a reader knows leads on.  When the
\* pointer moves, an instrument of the generation before that kept a mention all
\* the while is still there or redirected, and a redirect whose target is now
\* redirected itself has followed it.  The code breaks the promise for the ids in
\* `ties`, and for no others: two clusters had an equal claim to the id or to what
\* it led to, or it was redirected to an id that a match died before it wrote.
PublishedIdsLeadOn ==
  [][pointer.gen # 0 /\ pointer'.gen # pointer.gen
       /\ late = {} /\ ~history.alone /\ ~history'.alone =>
     \A c \in Cik :
       LET now == Lists(pointer'.gen, c) \cup Redirected(pointer'.gen, c) \cup ties
       IN  /\ \A p \in Lists(pointer.gen, c) : Survives(c, p) => p \in now
           /\ \A q \in Redirected(pointer.gen, c) :
                File(pointer.gen, "redirects")[c][q] \in Redirected(pointer'.gen, c)
                  => q \in now]_<<pointer, history>>

\* Whatever dies and however often, what extract found is matched and published
\* in the end, or the guard refuses what it finds.
EverythingIsPublished ==
  <>[]( /\ \A c \in Cik : digests[c] = MentionsOf(c)
        /\ \/ Shrinks([t \in Table |-> <<Source(t, ReferencedItems)>>])
           \/ /\ pointer.gen # 0
              /\ \A t \in Table : File(pointer.gen, t) = Source(t, ReferencedItems))
=============================================================================
