----------------------------- MODULE MatchStage -----------------------------
(***************************************************************************)
(* The match stage (matcher/stage.py, matcher/identity.py): it clusters    *)
(* the mentions of each changed CIK into debt instruments, carries the ids *)
(* of the stored clusters over to the new ones, redirects the ids it       *)
(* retires, and rewrites the files of one CIK shard after the other.       *)
(*                                                                         *)
(* A mention is its place in `mention_sort_key` order.  Which mentions are *)
(* linked is what matcher/scoring.py makes of their text.  Runs hold the   *)
(* writer lease, so there is one at a time; every durable write is a step. *)
(***************************************************************************)
EXTENDS Integers, FiniteSets

CONSTANTS
  Mention,
  CikOf,            \* CikOf[m]
  ItemOf,           \* ItemOf[m]
  Stated,           \* Stated[m]: the <<field, value>> pairs of CONTENT_FIELDS
  ShardOf,          \* ShardOf[c]
  Linked,           \* Linked[v]: the pairs that code version v puts together
  Answers,          \* Answers[i]: the mention sets extract may find in an item
  FirstMentions,    \* what extract has found before the first match
  ChangeHalfMatched, \* may the mentions of a CIK whose match died change back, or
                    \* the code change before the first match is finished?
  MaxChanges,       \* bound on changes of the mentions
  MaxTroubles       \* bound on forces, remints, deaths and later code

Cik   == {CikOf[m] : m \in Mention}
Item  == {ItemOf[m] : m \in Mention}
Shard == {ShardOf[c] : c \in Cik}
Code  == DOMAIN Linked   \* values of MATCHER_SCHEMA_VERSION
MaxEvidence == Cardinality(Mention) + 10

ASSUME MatchStageAssumption ==
  /\ Mention \subseteq Nat /\ IsFiniteSet(Mention) /\ FirstMentions \subseteq Mention
  /\ CikOf \in [Mention -> Nat]
  /\ \A m \in Mention : IsFiniteSet(Stated[m])
  /\ \A i \in Item : Answers[i] \subseteq SUBSET Mention
  /\ ShardOf \in [Cik -> Nat]
  /\ Code \subseteq Nat /\ 1 \in Code
  /\ ChangeHalfMatched \in BOOLEAN
  /\ {MaxChanges, MaxTroubles} \subseteq Nat

VARIABLES
  mentions,     \* what the mentions files hold
  code,         \* the MATCHER_SCHEMA_VERSION that runs
  edges,        \* edges[c][id]: the member mentions of an instrument
  instruments,  \* instruments[c][id]: the content its row states
  redirects,    \* redirects[c][id]: the successor of a retired id
  digests,      \* digests[c]: the mentions a CIK was last matched from
  marker,       \* rebuild-pending.json
  manifest,     \* the schema version of the latest match manifest
  run,          \* the match run under way
  ties,         \* history: the ids ever left without a successor: ambiguous, redirected
                \* to such an id, or to one that a match died before it wrote
  begun,        \* history: the CIKs whose tables are newer than their digests
  left          \* how many changes and troubles are left

tables    == <<edges, instruments, redirects>>
matchVars == <<mentions, code, edges, instruments, redirects, digests, marker,
               manifest, run, ties, begun, left>>

-----------------------------------------------------------------------------
Least(S)    == CHOOSE x \in S : \A y \in S : x <= y
Greatest(S) == CHOOSE x \in S : \A y \in S : x >= y

MentionsOf(c) == {m \in mentions : CikOf[m] = c}

\* `cluster_mentions`: in sort order, a mention joins the cluster of the first
\* mention it is linked to, or seeds a cluster of its own.
SeedOf(ms, links) ==
  LET seed[m \in ms] ==
        LET earlier == {n \in ms : n < m /\ {n, m} \in links}
        IN  IF earlier = {} THEN m ELSE seed[Least(earlier)]
  IN  seed

Clustering(ms, links) ==
  LET seed == SeedOf(ms, links)
  IN  {{m \in ms : seed[m] = s} : s \in {seed[m] : m \in ms}}

Clusters(ms) == Clustering(ms, Linked[code])

States(cluster) == UNION {Stated[m] : m \in cluster}

\* `build_debt_instrument_rows`: of each field the value that the most recent
\* member with one states.
RowContent(cluster) ==
  {s \in States(cluster) :
     s \in Stated[Greatest({m \in cluster : \E t \in Stated[m] : t[1] = s[1]})]}

-----------------------------------------------------------------------------
\* `_content_agreement`
Agreement(cluster, content) == Cardinality(content \cap States(cluster))

Items(cluster) == {ItemOf[m] : m \in cluster}

\* `_pairs`: a cluster and a previous id that share a mention, or that share an
\* item and agree on some content.  `prev` are the stored members by id, `said`
\* the stored content.
Evidence(k, p, prev, said) ==
  LET shared == Cardinality(k \cap prev[p])
      agreed == IF shared > 0 \/ p \notin DOMAIN said THEN 0
                ELSE Agreement(k, said[p])
      items  == Cardinality(Items(k) \cap Items(prev[p]))
  IN  (shared * MaxEvidence + agreed) * MaxEvidence + items

SharesMention(e) == e >= MaxEvidence * MaxEvidence

MayCarry(k, p, prev, said) ==
  \/ k \cap prev[p] # {}
  \/ /\ Items(k) \cap Items(prev[p]) # {}
     /\ p \in DOMAIN said /\ Agreement(k, said[p]) > 0

Pairs(ks, prev, said) ==
  {[cluster |-> x[1], id |-> x[2], evidence |-> Evidence(x[1], x[2], prev, said)] :
     x \in {x \in ks \X DOMAIN prev : MayCarry(x[1], x[2], prev, said)}}

Conflict(a, b) == a.cluster = b.cluster \/ a.id = b.id

\* Ids are compared as they are minted; any fixed order of hashes would do.
IdBefore(i, j) == i[1] < j[1] \/ (i[1] = j[1] /\ i[2] < j[2])

\* The order pairs are sorted in.
Before(a, b) ==
  \/ a.evidence > b.evidence
  \/ /\ a.evidence = b.evidence
     /\ \/ Least(a.cluster) < Least(b.cluster)
        \/ a.cluster = b.cluster /\ IdBefore(a.id, b.id)

\* Taken one after the other, each cluster and each id once.
Greedy(pairs) ==
  CHOOSE taken \in SUBSET pairs :
    /\ \A a, b \in taken : a # b => ~Conflict(a, b)
    /\ \A a \in pairs \ taken : \E b \in taken : Conflict(a, b) /\ Before(b, a)

Uncontested(pairs) == {a \in pairs : \A b \in pairs : Conflict(a, b) => a = b}

NothingCarried == [taken |-> {}, tied |-> {}]

\* The pairs with just this evidence whose cluster and id nothing above uses.
Available(pairs, e, above) ==
  {a \in pairs : a.evidence = e /\ \A b \in above.taken \cup above.tied : ~Conflict(a, b)}

\* One level of evidence: pairs that share mentions are taken greedily; of those
\* that share only items, the uncontested ones, and the rest is blocked.
CarryLevel(e, open, above) ==
  IF SharesMention(e)
  THEN [above EXCEPT !.taken = @ \cup Greedy(open)]
  ELSE [taken |-> above.taken \cup Uncontested(open),
        tied  |-> above.tied \cup (open \ Uncontested(open))]

Levels(pairs) == {0} \cup {a.evidence : a \in pairs}

Above(e, pairs) == {l \in Levels(pairs) : l > e}

\* What is carried on all levels from the highest down to each.
CarriedDownTo(pairs) ==
  LET downTo[e \in Levels(pairs)] ==
        LET above == IF Above(e, pairs) = {} THEN NothingCarried
                     ELSE downTo[Least(Above(e, pairs))]
        IN  CarryLevel(e, Available(pairs, e, above), above)
  IN  downTo

\* `_carry`
Carry(pairs) == CarriedDownTo(pairs)[0]

\* `mint_instrument_id`: the content id of a cluster is its seed; taken ids are
\* passed over.
ContentId(k) == <<Least(k), 0>>

Mint(k, taken) ==
  <<Least(k), Least({n \in 0..Cardinality(Mention) : <<Least(k), n>> \notin taken})>>

\* `assign_instrument_ids`
FinalIds(ks, pairs, remint) ==
  LET taken   == IF remint THEN {} ELSE Carry(pairs).taken
      carried == {a.id : a \in taken}
  IN  [k \in ks |-> IF \E a \in taken : a.cluster = k
                    THEN (CHOOSE a \in taken : a.cluster = k).id
                    ELSE Mint(k, carried)]

Live(final) == {final[k] : k \in DOMAIN final}

Tied(pairs, remint) == IF remint THEN {} ELSE {a.id : a \in Carry(pairs).tied}

\* Faulty: only ids whose cluster got a new id are redirected.
RetiredToMinted(pairs, final, remint) ==
  LET gone == {a.id : a \in {b \in pairs : final[b.cluster] \notin {c.id : c \in pairs}}}
                \ (Live(final) \cup Tied(pairs, remint))
  IN  [p \in gone |->
         final[(CHOOSE a \in pairs : a.id = p /\ \A b \in pairs :
                  b.id = p /\ b # a => Before(a, b)).cluster]]

\* A retired id is redirected to the cluster of its best pair, unless it is tied.
Retired(pairs, final, remint) ==
  LET gone == {a.id : a \in pairs} \ (Live(final) \cup Tied(pairs, remint))
  IN  [p \in gone |->
         final[(CHOOSE a \in pairs : a.id = p /\ \A b \in pairs :
                  b.id = p /\ b # a => Before(a, b)).cluster]]

\* `updated_redirects`: a stored redirect whose target retired follows it; one
\* that leads to no live id, or whose own id lives again, is dropped.
UpdatedRedirects(stored, retired, live) ==
  LET merged == [p \in DOMAIN stored \cup DOMAIN retired |->
                   IF p \in DOMAIN retired THEN retired[p] ELSE stored[p]]
      hops   == Cardinality(DOMAIN merged)
      end[n \in 0..hops, p \in DOMAIN merged \cup {merged[q] : q \in DOMAIN merged}] ==
        IF p \in live \/ p \notin DOMAIN merged \/ n = 0 THEN p
        ELSE end[n - 1, merged[p]]
      kept   == {p \in DOMAIN merged \ live : end[hops, p] \in live}
  IN  [p \in kept |-> end[hops, p]]

\* The ids that `updated_redirects` drops because what they are redirected to was
\* never written, as the match that named it died before its edges.
LostWithDead(c, live) ==
  {p \in DOMAIN redirects[c] \ (DOMAIN edges[c] \cup live) :
     redirects[c][p] \notin DOMAIN edges[c] \cup live}

\* `match_cik` of the present mentions, beside the stored tables of the CIK.
MatchCik(c, remint) ==
  LET ks    == Clusters(MentionsOf(c))
      pairs == Pairs(ks, edges[c], instruments[c])
      final == FinalIds(ks, pairs, remint)
      clusterOf(p) == CHOOSE k \in ks : final[k] = p
  IN  [edges       |-> [p \in Live(final) |-> clusterOf(p)],
       instruments |-> [p \in Live(final) |-> RowContent(clusterOf(p))],
       redirects   |-> UpdatedRedirects(redirects[c],
                         Retired(pairs, final, remint), Live(final)),
       ties        |-> LET tied == Tied(pairs, remint)
                       IN  tied \cup {p \in DOMAIN redirects[c] : redirects[c][p] \in tied}
                             \cup LostWithDead(c, Live(final))]

-----------------------------------------------------------------------------
NoTable  == <<>>
NoDigest == {}    \* a CIK without mentions has no digest

Idle == [pc |-> "idle", rebuild |-> FALSE, remint |-> FALSE, affected |-> {},
         todo |-> {}, out |-> <<>>]

MatchInit ==
  /\ mentions = FirstMentions
  /\ code = 1
  /\ edges = [c \in Cik |-> NoTable]
  /\ instruments = [c \in Cik |-> NoTable]
  /\ redirects = [c \in Cik |-> NoTable]
  /\ digests = [c \in Cik |-> NoDigest]
  /\ marker = "none"
  /\ manifest = 0
  /\ run = Idle
  /\ ties = {}
  /\ begun = {}
  /\ left = [changes |-> MaxChanges, troubles |-> MaxTroubles]

Spend(what, n) == n <= left[what] /\ left' = [left EXCEPT ![what] = @ - n]

\* Extract replaces the mentions of an item.
Extract(i, found) ==
  /\ run = Idle
  /\ Spend("changes", 1)
  /\ mentions' = {m \in mentions : ItemOf[m] # i} \cup found
  /\ ChangeHalfMatched
     \/ \A c \in begun : MentionsOf(c)' = digests[c] => UNCHANGED MentionsOf(c)
  /\ UNCHANGED <<code, edges, instruments, redirects, digests, marker, manifest,
                 run, ties, begun>>

\* A later matcher is deployed.
Deploy ==
  /\ run = Idle
  /\ code + 1 \in Code
  /\ ChangeHalfMatched \/ manifest # 0 \/ \A c \in Cik : digests[c] = NoDigest
  /\ Spend("troubles", 1)
  /\ code' = code + 1
  /\ UNCHANGED <<mentions, edges, instruments, redirects, digests, marker,
                 manifest, run, ties, begun>>

\* `_stale_schema_forces_rematch`
StaleSchema == manifest # 0 /\ manifest < code

\* `_existing_shards`, and those of the affected CIKs
ShardsToWrite(affected, rebuild) ==
  {ShardOf[c] : c \in affected}
    \cup (IF rebuild THEN {ShardOf[c] : c \in
                            {c \in Cik : \E d \in Cik : ShardOf[d] = ShardOf[c]
                                           /\ edges[d] # NoTable}} ELSE {})

\* Faulty: a rebuild that stopped is repeated without its remint.
StartMatchForgetful(force, remint) ==
  /\ run = Idle
  /\ IF force \/ remint THEN Spend("troubles", 1) ELSE UNCHANGED left
  /\ LET rebuild == force \/ remint \/ marker # "none" \/ StaleSchema
         affected == {c \in Cik : \/ digests[c] # MentionsOf(c)
                                  \/ rebuild /\ MentionsOf(c) # {}}
         shards  == ShardsToWrite(affected, rebuild)
     IN  /\ marker' = IF ~rebuild \/ marker # "none" THEN marker
                      ELSE IF remint THEN "remint" ELSE "rebuild"
         /\ run' = [Idle EXCEPT !.rebuild = rebuild, !.remint = remint,
                      !.affected = affected, !.todo = shards,
                      !.pc = IF shards = {} THEN "manifest" ELSE "redirects"]
  /\ UNCHANGED <<mentions, code, edges, instruments, redirects, digests,
                 manifest, ties, begun>>

\* The marker of a rebuild that stopped makes this run a rebuild, with its
\* remint; a rebuild leaves its marker before it reads anything.
StartMatch(force, remint) ==
  /\ run = Idle
  /\ IF force \/ remint THEN Spend("troubles", 1) ELSE UNCHANGED left
  /\ LET again   == remint \/ marker = "remint"
         rebuild == force \/ again \/ marker # "none" \/ StaleSchema
         affected == {c \in Cik : \/ digests[c] # MentionsOf(c)
                                  \/ rebuild /\ MentionsOf(c) # {}}
         shards  == ShardsToWrite(affected, rebuild)
     IN  /\ marker' = IF ~rebuild THEN marker
                      ELSE IF again THEN "remint" ELSE "rebuild"
         /\ run' = [Idle EXCEPT !.rebuild = rebuild, !.remint = again,
                      !.affected = affected, !.todo = shards,
                      !.pc = IF shards = {} THEN "manifest" ELSE "redirects"]
  /\ UNCHANGED <<mentions, code, edges, instruments, redirects, digests,
                 manifest, ties, begun>>

-----------------------------------------------------------------------------
Current == Least(run.todo)   \* the shard that is next

\* Faulty: a CIK that lost its last mention keeps its rows.
ReplacedPresent(s) ==
  {c \in Cik : ShardOf[c] = s /\ (run.rebuild \/ c \in run.affected)
                /\ MentionsOf(c) # {}}

\* The CIKs of a shard whose rows this run replaces; a rebuild replaces all.
Replaced(s) == {c \in Cik : ShardOf[c] = s /\ (run.rebuild \/ c \in run.affected)}

NoRows == [edges |-> NoTable, instruments |-> NoTable, redirects |-> NoTable, ties |-> {}]

Overwritten(table, name, out) ==
  [c \in Cik |-> IF c \in DOMAIN out THEN out[c][name] ELSE table[c]]

\* Faulty: the digests are written with the first table.
WriteRedirectsAndDigests ==
  /\ run.pc = "redirects"
  /\ LET out == [c \in Replaced(Current) |->
                   IF MentionsOf(c) = {} THEN NoRows ELSE MatchCik(c, run.remint)]
     IN  /\ begun' = begun \cup DOMAIN out
         /\ redirects' = Overwritten(redirects, "redirects", out)
         /\ ties' = ties \cup UNION {out[c].ties : c \in DOMAIN out}
         /\ digests' = [c \in Cik |-> IF c \in DOMAIN out THEN MentionsOf(c) ELSE digests[c]]
         /\ run' = [run EXCEPT !.pc = "instruments", !.out = out]
  /\ UNCHANGED <<mentions, code, edges, instruments, marker, manifest, left>>

\* A shard is read and matched whole, then written: redirects first, ...
WriteRedirects ==
  /\ run.pc = "redirects"
  /\ LET out == [c \in Replaced(Current) |->
                   IF MentionsOf(c) = {} THEN NoRows ELSE MatchCik(c, run.remint)]
     IN  /\ begun' = begun \cup DOMAIN out
         /\ redirects' = Overwritten(redirects, "redirects", out)
         /\ ties' = ties \cup UNION {out[c].ties : c \in DOMAIN out}
         /\ run' = [run EXCEPT !.pc = "instruments", !.out = out]
  /\ UNCHANGED <<mentions, code, edges, instruments, digests, marker, manifest, left>>

WriteInstruments ==
  /\ run.pc = "instruments"
  /\ instruments' = Overwritten(instruments, "instruments", run.out)
  /\ run' = [run EXCEPT !.pc = "edges"]
  /\ UNCHANGED <<mentions, code, edges, redirects, digests, marker, manifest,
                 ties, begun, left>>

\* ... edges last, ...
WriteEdges ==
  /\ run.pc = "edges"
  /\ edges' = Overwritten(edges, "edges", run.out)
  /\ run' = [run EXCEPT !.pc = "digests"]
  /\ UNCHANGED <<mentions, code, instruments, redirects, digests, marker,
                 manifest, ties, begun, left>>

\* ... and then the digests of the shard.
WriteDigests ==
  /\ run.pc = "digests"
  /\ digests' = [c \in Cik |-> IF c \in DOMAIN run.out THEN MentionsOf(c) ELSE digests[c]]
  /\ begun' = begun \ DOMAIN run.out
  /\ run' = [run EXCEPT !.todo = @ \ {Current}, !.out = <<>>,
                        !.pc = IF run.todo = {Current} THEN "manifest" ELSE "redirects"]
  /\ UNCHANGED <<mentions, code, edges, instruments, redirects, marker, manifest,
                 ties, left>>

WriteManifest ==
  /\ run.pc = "manifest"
  /\ manifest' = code
  /\ run' = [run EXCEPT !.pc = IF run.rebuild THEN "marker" ELSE "matched"]
  /\ UNCHANGED <<mentions, code, edges, instruments, redirects, digests, marker,
                 ties, begun, left>>

DeleteMarker ==
  /\ run.pc = "marker"
  /\ marker' = "none"
  /\ run' = [run EXCEPT !.pc = "matched"]
  /\ UNCHANGED <<mentions, code, edges, instruments, redirects, digests, manifest,
                 ties, begun, left>>

MatchStep ==
  \/ WriteRedirects \/ WriteInstruments \/ WriteEdges \/ WriteDigests
  \/ WriteManifest \/ DeleteMarker

-----------------------------------------------------------------------------
\* A CIK that the next plain run will leave alone has just the clusters the
\* present code makes of its present mentions, in tables that agree.
SkippedCiksAreCurrent ==
  \A c \in Cik :
    marker = "none" /\ ~StaleSchema /\ manifest # 0 /\ digests[c] = MentionsOf(c) =>
      /\ {edges[c][p] : p \in DOMAIN edges[c]} = Clusters(MentionsOf(c))
      /\ DOMAIN instruments[c] = DOMAIN edges[c]
      /\ \A p \in DOMAIN edges[c] : instruments[c][p] = RowContent(edges[c][p])
      /\ \A q \in DOMAIN redirects[c] :
           q \notin DOMAIN edges[c] /\ redirects[c][q] \in DOMAIN edges[c]

\* A remint that stopped is finished as a remint by whatever run comes next:
\* once its marker is gone every id is the content id of its cluster.
RemintsFinish ==
  [][marker = "remint" /\ marker' = "none" =>
       \A c \in Cik : \A p \in DOMAIN edges[c] : p = ContentId(edges[c][p])]_marker
=============================================================================
