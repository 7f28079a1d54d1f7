--------------------------- MODULE LineageProofs ---------------------------
(***************************************************************************)
(* Proofs about Lineage, for any instruments and any input of the kinds    *)
(* its assumption allows.  The ancestors of an instrument and its          *)
(* component, which the definitions compute in rounds, are least closed    *)
(* sets; from there on the proofs no longer count.                         *)
(***************************************************************************)
EXTENDS Lineage, TLAPS, FiniteSetTheorems

Count == Cardinality(Instrument)

\* The instruments are finitely many numbers, and None is no instrument.
LEMMA Instruments ==
  /\ Instrument \subseteq Nat /\ None \notin Instrument /\ IsFiniteSet(Instrument)
  /\ Count \in Nat /\ (Instrument # {} => Count >= 1)
<1>1. Instrument \subseteq Nat /\ None \notin Instrument /\ IsFiniteSet(Instrument)
  BY LineageAssumption DEF None
<1>2. Count \in Nat
  BY <1>1, FS_CardinalityType DEF Count
<1>3. Count = 0 <=> Instrument = {}
  BY <1>1, FS_EmptySet DEF Count
<1>4. Count # 0 => Count >= 1
  BY <1>2
<1> QED BY <1>1, <1>2, <1>3, <1>4

\* A set of numbers that has a member has its least one.
LEMMA LeastIsIn ==
  ASSUME NEW S \in SUBSET Nat, S # {}
  PROVE  Least(S) \in S /\ \A x \in S : Least(S) <= x
<1>1. PICK n \in S : \A y \in S : ~(<<y, n>> \in OpToRel(<, Nat))
  BY NatLessThanWellFounded, WFMin
<1>2. \A y \in S : ~(y < n)
  BY <1>1 DEF OpToRel
<1>3. \A y \in S : n <= y
  BY <1>2
<1>4. \A x \in S : (\A y \in S : x <= y) => x = n
  BY <1>3
<1> QED BY <1>3, <1>4 DEF Least

(***************************************************************************)
(* Lemma: induction over an interval, for a set of numbers.                *)
(***************************************************************************)
LEMMA Interval ==
  ASSUME NEW n \in Nat, NEW G, 0 \in G,
         \A k \in 0 .. n : k \in G /\ k < n => k + 1 \in G
  PROVE  \A k \in 0 .. n : k \in G
<1> SUFFICES ASSUME NEW j \in 0 .. n, j \notin G PROVE FALSE
  OBVIOUS
<1> DEFINE Bad == {k \in 0 .. n : k \notin G}
<1>1. Bad \in SUBSET Nat /\ Bad # {}
  OBVIOUS
<1> DEFINE m == Least(Bad)
<1>2. m \in Bad /\ \A k \in Bad : m <= k
  <2> HIDE DEF Bad
  <2> QED BY <1>1, LeastIsIn
<1> HIDE DEF m
<1>3. m # 0 /\ m \in 0 .. n /\ m \notin G
  BY <1>2
<1>4. m - 1 \in 0 .. n /\ m - 1 < n /\ (m - 1) + 1 = m
  BY <1>3
<1>5. m - 1 \in G
  <2> SUFFICES ASSUME m - 1 \notin G PROVE FALSE
    OBVIOUS
  <2>1. m - 1 \in Bad
    BY <1>4
  <2>2. m <= m - 1
    BY <1>2, <2>1
  <2> QED BY <1>3, <2>2
<1> QED BY <1>3, <1>4, <1>5

-----------------------------------------------------------------------------
(***************************************************************************)
(* Lemma: the k-th ancestors are those of the definition.                  *)
(***************************************************************************)
Further(links, before) ==
  [i \in Instrument |-> IF before[i] = None THEN None ELSE links[before[i]]]

LevelOf(links, up, k) == IF k = 0 THEN [i \in Instrument |-> i] ELSE Further(links, up[k - 1])

IsUpTo(up, links, n) == up = [k \in 0 .. n |-> LevelOf(links, up, k)]

LEMMA AncestorLevels ==
  ASSUME NEW links
  PROVE  /\ DOMAIN Ancestor(links) = 0 .. Count
         /\ Ancestor(links)[0] = [i \in Instrument |-> i]
         /\ \A k \in 0 .. Count : k < Count =>
              Ancestor(links)[k + 1] = Further(links, Ancestor(links)[k])
<1> DEFINE G == {n \in 0 .. Count : \E up : IsUpTo(up, links, n)}
<1>1. 0 \in G
  <2> DEFINE f == [k \in 0 .. 0 |-> [i \in Instrument |-> i]]
  <2>1. IsUpTo(f, links, 0)
    BY DEF IsUpTo, LevelOf
  <2> HIDE DEF f
  <2> QED BY <2>1, Instruments
<1>2. ASSUME NEW n \in 0 .. Count, n \in G, n < Count
      PROVE  n + 1 \in G
  <2>1. PICK f : IsUpTo(f, links, n)
    BY <1>2
  <2> DEFINE g == [k \in 0 .. n + 1 |-> LevelOf(links, f, k)]
  <2>2. ASSUME NEW k \in 0 .. n + 1
        PROVE  LevelOf(links, f, k) = LevelOf(links, g, k)
    <3>1. CASE k = 0
      BY <3>1 DEF LevelOf
    <3>2. CASE k # 0
      <4>1. k - 1 \in 0 .. n /\ k - 1 \in 0 .. n + 1
        BY <3>2
      <4>2. f[k - 1] = LevelOf(links, f, k - 1)
        BY <2>1, <4>1 DEF IsUpTo
      <4>3. g[k - 1] = f[k - 1]
        BY <4>1, <4>2
      <4> HIDE DEF g
      <4> QED BY <3>2, <4>3 DEF LevelOf
    <3> QED BY <3>1, <3>2
  <2>3. IsUpTo(g, links, n + 1)
    <3> DEFINE h == [k \in 0 .. n + 1 |-> LevelOf(links, g, k)]
    <3>1. g = h
      BY <2>2
    <3> HIDE DEF g
    <3> QED BY <3>1 DEF IsUpTo
  <2> HIDE DEF g
  <2> QED BY <1>2, <2>3, Instruments
<1>3. Count \in G
  <2> HIDE DEF G
  <2> QED BY <1>1, <1>2, Interval, Instruments
<1>4. PICK f : IsUpTo(f, links, Count)
  BY <1>3
<1> DEFINE Step(u) == [k \in 0 .. Count |-> LevelOf(links, u, k)]
<1>5. f = Step(f)
  BY <1>4 DEF IsUpTo
<1>6. Ancestor(links) = CHOOSE u : u = Step(u)
  BY DEF Ancestor, LevelOf, Further, Count
<1> HIDE DEF Step
<1>7. Ancestor(links) = Step(Ancestor(links))
  BY <1>5, <1>6, Zenon
<1> DEFINE up == Ancestor(links)
<1> HIDE DEF up
<1>8. up = [k \in 0 .. Count |-> LevelOf(links, up, k)]
  BY <1>7 DEF Step, up
<1>9. DOMAIN up = 0 .. Count
  BY <1>8
<1>10. up[0] = [i \in Instrument |-> i]
  BY <1>8, Instruments DEF LevelOf
<1>11. ASSUME NEW k \in 0 .. Count, k < Count
       PROVE  up[k + 1] = Further(links, up[k])
  <2>1. k + 1 \in 0 .. Count /\ k + 1 # 0 /\ (k + 1) - 1 = k
    BY <1>11, Instruments
  <2>2. up[k + 1] = LevelOf(links, up, k + 1)
    BY <1>8, <2>1
  <2> QED BY <2>1, <2>2 DEF LevelOf
<1> QED BY <1>9, <1>10, <1>11 DEF up

-----------------------------------------------------------------------------
(***************************************************************************)
(* The ancestors of an instrument are the least set that has its parent    *)
(* and the parents of its members.                                         *)
(***************************************************************************)
Links == [Instrument -> Instrument \cup {None}]

Closed(links, T) == \A x \in T : links[x] # None => links[x] \in T

\* Of one instrument: each further ancestor is the parent of the one before.
LEMMA AncestorStep ==
  ASSUME NEW links \in Links, NEW i \in Instrument
  PROVE  /\ Ancestor(links)[0][i] = i
         /\ \A k \in 0 .. Count :
              /\ Ancestor(links)[k][i] \in Instrument \cup {None}
              /\ k < Count => Ancestor(links)[k + 1][i] =
                   IF Ancestor(links)[k][i] = None THEN None ELSE links[Ancestor(links)[k][i]]
<1> DEFINE up == Ancestor(links)
           G == {k \in 0 .. Count : up[k][i] \in Instrument \cup {None}}
<1> HIDE DEF up
<1>1. up[0][i] = i
  BY AncestorLevels DEF up
<1>2. ASSUME NEW k \in 0 .. Count, k < Count
      PROVE  up[k + 1][i] = IF up[k][i] = None THEN None ELSE links[up[k][i]]
  <2>1. up[k + 1] = Further(links, up[k])
    BY <1>2, AncestorLevels DEF up
  <2> QED BY <2>1 DEF Further
<1>3. 0 \in G
  BY <1>1, Instruments
<1>4. ASSUME NEW k \in 0 .. Count, k \in G, k < Count PROVE k + 1 \in G
  <2>1. up[k][i] \in Instrument => links[up[k][i]] \in Instrument \cup {None}
    BY DEF Links
  <2> QED BY <1>2, <1>4, <2>1, Instruments
<1>5. \A k \in 0 .. Count : k \in G
  <2> HIDE DEF G
  <2> QED BY <1>3, <1>4, Interval, Instruments
<1> QED BY <1>1, <1>2, <1>5 DEF up

\* The ancestors are instruments, and those that some number of steps leads to.
LEMMA AncestorsAre ==
  ASSUME NEW links \in Links, NEW i \in Instrument
  PROVE  /\ Ancestors(links, i) \subseteq Instrument
         /\ \A k \in 1 .. Count : Ancestor(links)[k][i] # None =>
              Ancestor(links)[k][i] \in Ancestors(links, i)
         /\ \A x \in Ancestors(links, i) :
              x # None /\ \E k \in 1 .. Count : x = Ancestor(links)[k][i]
<1> DEFINE up == Ancestor(links)
<1>1. Ancestors(links, i) = {up[k][i] : k \in 1 .. Count} \ {None}
  BY DEF Ancestors, Count
<1> HIDE DEF up
<1>2. \A k \in 1 .. Count : up[k][i] \in Instrument \cup {None}
  BY AncestorStep, Instruments DEF up
<1> QED BY <1>1, <1>2, Instruments DEF up

\* The least: whatever has the parent and is closed has all.
LEMMA LeastClosed ==
  ASSUME NEW links \in Links, NEW i \in Instrument, NEW T, Closed(links, T),
         links[i] # None => links[i] \in T
  PROVE  Ancestors(links, i) \subseteq T
<1> DEFINE up == Ancestor(links)
           G == {k \in 0 .. Count : k = 0 \/ up[k][i] \in T \cup {None}}
<1> HIDE DEF up
<1>0. /\ up[0][i] = i
      /\ \A k \in 0 .. Count : k < Count =>
           up[k + 1][i] = IF up[k][i] = None THEN None ELSE links[up[k][i]]
  BY AncestorStep DEF up
<1>1. 0 \in G
  BY Instruments
<1>2. ASSUME NEW k \in 0 .. Count, k \in G, k < Count PROVE k + 1 \in G
  <2>1. k + 1 \in 0 .. Count
    BY <1>2, Instruments
  <2>2. up[k + 1][i] = IF up[k][i] = None THEN None ELSE links[up[k][i]]
    BY <1>0, <1>2
  <2>3. CASE k = 0
    <3>1. i # None
      BY Instruments
    <3>2. up[k][i] = i
      BY <1>0, <2>3
    <3>3. up[k + 1][i] = links[i]
      BY <2>2, <3>1, <3>2
    <3> QED BY <2>1, <3>3
  <2>4. CASE up[k][i] \in T \cup {None}
    BY <2>1, <2>2, <2>4 DEF Closed
  <2> QED BY <1>2, <2>3, <2>4
<1>3. \A k \in 0 .. Count : k \in G
  <2> HIDE DEF G
  <2> QED BY <1>1, <1>2, Interval, Instruments
<1>4. ASSUME NEW x \in Ancestors(links, i) PROVE x \in T
  <2>1. PICK k \in 1 .. Count : x = up[k][i]
    BY AncestorsAre DEF up
  <2>2. x # None
    BY AncestorsAre
  <2>3. k \in G /\ k # 0
    BY <1>3, Instruments
  <2> QED BY <2>1, <2>2, <2>3
<1> QED BY <1>4

\* There are more steps than instruments, so they come round.
LEMMA AncestorsClosed ==
  ASSUME NEW links \in Links, NEW i \in Instrument
  PROVE  /\ Closed(links, Ancestors(links, i))
         /\ links[i] # None => links[i] \in Ancestors(links, i)
<1> DEFINE up == Ancestor(links)
<1> HIDE DEF up
<1>0. /\ up[0][i] = i
      /\ \A k \in 0 .. Count : up[k][i] \in Instrument \cup {None}
      /\ \A k \in 0 .. Count : k < Count =>
           up[k + 1][i] = IF up[k][i] = None THEN None ELSE links[up[k][i]]
  BY AncestorStep DEF up
<1>1. Count \in Nat /\ Count >= 1 /\ i # None
  BY Instruments
<1>2. links[i] # None => links[i] \in Ancestors(links, i)
  <2>1. up[0 + 1][i] = links[i]
    BY <1>0, <1>1
  <2>2. 1 \in 1 .. Count /\ up[1][i] = links[i]
    BY <1>1, <2>1
  <2> QED BY <2>2, AncestorsAre DEF up
<1>3. ASSUME NEW x \in Ancestors(links, i), links[x] # None
      PROVE  links[x] \in Ancestors(links, i)
  <2>1. PICK k \in 1 .. Count : x = up[k][i]
    BY AncestorsAre DEF up
  <2>2. x # None
    BY AncestorsAre
  <2>3. CASE k < Count
    <3>1. k + 1 \in 1 .. Count /\ up[k + 1][i] = links[x]
      BY <1>0, <1>1, <2>1, <2>2, <2>3
    <3> QED BY <1>3, <3>1, AncestorsAre DEF up
  <2>4. CASE k = Count
    <3> DEFINE L == {n \in 0 .. Count : up[Count - n][i] # None}
    <3>1. 0 \in L
      BY <1>1, <2>1, <2>2, <2>4
    <3>2. ASSUME NEW n \in 0 .. Count, n \in L, n < Count PROVE n + 1 \in L
      <4>1. Count - (n + 1) \in 0 .. Count /\ Count - (n + 1) < Count
            /\ (Count - (n + 1)) + 1 = Count - n /\ n + 1 \in 0 .. Count
        BY <1>1, <3>2
      <4>2. up[Count - n][i] # None
        BY <3>2
      <4> QED BY <1>0, <4>1, <4>2
    <3>3. \A n \in 0 .. Count : n \in L
      <4> HIDE DEF L
      <4> QED BY <1>1, <3>1, <3>2, Interval
    <3> DEFINE f == [n \in 0 .. Count |-> up[n][i]]
    <3>4. f \in [0 .. Count -> Instrument]
      <4>1. ASSUME NEW n \in 0 .. Count PROVE up[n][i] \in Instrument
        <5>1. Count - n \in L /\ Count - (Count - n) = n
          BY <1>1, <3>3
        <5> QED BY <1>0, <5>1
      <4> QED BY <4>1
    <3>5. IsFiniteSet(0 .. Count) /\ Cardinality(0 .. Count) = Count + 1
      BY <1>1, FS_Interval
    <3>6. \E p, q \in 0 .. Count : p # q /\ f[p] = f[q]
      <4>1. IsFiniteSet(Instrument) /\ Cardinality(Instrument) < Cardinality(0 .. Count)
        BY <1>1, <3>5, Instruments DEF Count
      <4> HIDE DEF f
      <4> QED BY <3>4, <3>5, <4>1, FS_PigeonHole
    <3>7. PICK p \in 0 .. Count, q \in 0 .. Count : p < q /\ up[p][i] = up[q][i]
      <4>1. PICK p, q \in 0 .. Count : p # q /\ up[p][i] = up[q][i]
        BY <3>6
      <4>2. p < q \/ q < p
        BY <1>1, <4>1
      <4> QED BY <4>1, <4>2
    <3> DEFINE P == {n \in 0 .. Count : q + n <= Count => up[q + n][i] = up[p + n][i]}
    <3>8. 0 \in P
      BY <1>1, <3>7
    <3>9. ASSUME NEW n \in 0 .. Count, n \in P, n < Count PROVE n + 1 \in P
      <4> SUFFICES ASSUME q + (n + 1) <= Count
                   PROVE  up[q + (n + 1)][i] = up[p + (n + 1)][i]
        BY <1>1, <3>9
      <4>1. /\ q + n \in 0 .. Count /\ q + n < Count /\ q + n <= Count
            /\ p + n \in 0 .. Count /\ p + n < Count
            /\ q + (n + 1) = (q + n) + 1 /\ p + (n + 1) = (p + n) + 1
        BY <1>1, <3>7
      <4>2. up[q + n][i] = up[p + n][i]
        BY <3>9, <4>1
      <4> QED BY <1>0, <4>1, <4>2
    <3>10. \A n \in 0 .. Count : n \in P
      <4> HIDE DEF P
      <4> QED BY <1>1, <3>8, <3>9, Interval
    <3> DEFINE r == p + (Count - q)
    <3>11. r \in 0 .. Count /\ r < Count /\ r + 1 \in 1 .. Count
      BY <1>1, <3>7
    <3>12. up[r][i] = x
      <4>1. Count - q \in 0 .. Count /\ q + (Count - q) <= Count /\ q + (Count - q) = Count
        BY <1>1
      <4>2. up[q + (Count - q)][i] = up[p + (Count - q)][i]
        BY <3>10, <4>1
      <4> QED BY <2>1, <2>4, <4>1, <4>2
    <3> HIDE DEF r
    <3>13. up[r + 1][i] = links[x]
      BY <1>0, <2>2, <3>11, <3>12
    <3> QED BY <1>3, <3>11, <3>13, AncestorsAre DEF up
  <2> QED BY <1>1, <2>3, <2>4
<1> QED BY <1>2, <1>3 DEF Closed

-----------------------------------------------------------------------------
(***************************************************************************)
(* Ancestors of ancestors, and cycles.                                     *)
(***************************************************************************)
LEMMA AncestorsAncestors ==
  ASSUME NEW links \in Links, NEW i \in Instrument, NEW x \in Ancestors(links, i)
  PROVE  x \in Instrument /\ Ancestors(links, x) \subseteq Ancestors(links, i)
<1>1. x \in Instrument
  BY AncestorsAre
<1>2. Closed(links, Ancestors(links, i))
  BY AncestorsClosed
<1>3. links[x] # None => links[x] \in Ancestors(links, i)
  BY <1>2 DEF Closed
<1> QED BY <1>1, <1>2, <1>3, LeastClosed

\* The ancestors are the parent and its ancestors.
LEMMA ParentsAncestors ==
  ASSUME NEW links \in Links, NEW i \in Instrument
  PROVE  /\ links[i] = None => Ancestors(links, i) = {}
         /\ links[i] # None => Ancestors(links, i) = {links[i]} \cup Ancestors(links, links[i])
<1>1. CASE links[i] = None
  <2>1. Closed(links, {})
    BY DEF Closed
  <2>2. Ancestors(links, i) \subseteq {}
    BY <1>1, <2>1, LeastClosed
  <2> QED BY <1>1, <2>2
<1>2. CASE links[i] # None
  <2> DEFINE p == links[i]
  <2>1. p \in Instrument /\ p \in Ancestors(links, i)
    BY <1>2, AncestorsClosed DEF Links
  <2>2. Ancestors(links, p) \subseteq Ancestors(links, i)
    BY <2>1, AncestorsAncestors
  <2>3. Closed(links, {p} \cup Ancestors(links, p))
    BY <2>1, AncestorsClosed DEF Closed
  <2>4. Ancestors(links, i) \subseteq {p} \cup Ancestors(links, p)
    BY <2>3, LeastClosed
  <2> QED BY <1>2, <2>1, <2>2, <2>4
<1> QED BY <1>1, <1>2

\* Each ancestor is the parent of the instrument or of another ancestor.
LEMMA AncestorsHaveChildren ==
  ASSUME NEW links \in Links, NEW i \in Instrument, NEW x \in Ancestors(links, i)
  PROVE  \E y \in {i} \cup Ancestors(links, i) : links[y] = x
<1> DEFINE T == {z \in Ancestors(links, i) : \E y \in {i} \cup Ancestors(links, i) : links[y] = z}
<1>1. Closed(links, T)
  BY AncestorsClosed DEF Closed
<1>2. links[i] # None => links[i] \in T
  BY AncestorsClosed
<1>3. Ancestors(links, i) \subseteq T
  <2> HIDE DEF T
  <2> QED BY <1>1, <1>2, LeastClosed
<1> QED BY <1>3

\* Up from a cycle there is nothing but the cycle.
LEMMA CyclesStay ==
  ASSUME NEW links \in Links, NEW c \in Instrument, c \in Ancestors(links, c),
         NEW x \in Ancestors(links, c)
  PROVE  /\ x \in Instrument
         /\ links[x] \in Ancestors(links, c) /\ links[x] # None
         /\ Ancestors(links, x) = Ancestors(links, c)
         /\ x \in Ancestors(links, x)
<1> DEFINE A == Ancestors(links, c)
           T == {y \in A : c \in Ancestors(links, y)}
<1>1. A \subseteq Instrument /\ Closed(links, A)
  BY AncestorsAre, AncestorsClosed
<1>2. \A y \in T : y \in Instrument /\ links[y] # None
  BY <1>1, ParentsAncestors
<1>3. ASSUME NEW y \in T PROVE links[y] \in T
  <2>1. links[y] \in A
    BY <1>1, <1>2 DEF Closed
  <2>2. c \in {links[y]} \cup Ancestors(links, links[y])
    BY <1>2, ParentsAncestors
  <2> QED BY <2>1, <2>2
<1>4. Closed(links, T)
  BY <1>3 DEF Closed
<1>5. links[c] # None => links[c] \in T
  BY <1>3
<1>6. A \subseteq T
  <2> HIDE DEF T
  <2> QED BY <1>4, <1>5, LeastClosed
<1>7. x \in T
  BY <1>6
<1>8. x \in Instrument /\ links[x] # None /\ links[x] \in A
  BY <1>2, <1>3, <1>7
<1>9. Ancestors(links, x) = A
  BY <1>7, <1>8, AncestorsAncestors
<1> QED BY <1>8, <1>9

\* All of a cycle are its ancestors, and none has two children on it.
LEMMA OneChildOnCycle ==
  ASSUME NEW links \in Links, NEW c \in Instrument, c \in Ancestors(links, c)
  PROVE  /\ \A x \in Ancestors(links, c) : \E y \in Ancestors(links, c) : links[y] = x
         /\ \A y, z \in Ancestors(links, c) : links[y] = links[z] => y = z
<1> DEFINE A == Ancestors(links, c)
           f == [x \in A |-> links[x]]
<1>1. \A x \in A : \E y \in A : links[y] = x
  BY AncestorsHaveChildren
<1>2. \A x \in A : links[x] \in A
  BY CyclesStay
<1>3. f \in Surjection(A, A)
  BY <1>1, <1>2 DEF Surjection
<1>4. IsFiniteSet(A)
  BY AncestorsAre, Instruments, FS_Subset
<1>5. f \in Injection(A, A)
  <2> HIDE DEF f
  <2> QED BY <1>3, <1>4, FS_Surjection
<1>6. \A y, z \in A : f[y] = f[z] => y = z
  <2> HIDE DEF f
  <2> QED BY <1>5 DEF Injection, IsInjective
<1>7. \A y, z \in A : links[y] = links[z] => y = z
  BY <1>6
<1> HIDE DEF A, f
<1> QED BY <1>1, <1>7 DEF A

\* A line of ancestors comes to one cycle at most.
LEMMA Line ==
  ASSUME NEW links \in Links, NEW s \in Instrument,
         NEW x \in {s} \cup Ancestors(links, s), NEW y \in {s} \cup Ancestors(links, s)
  PROVE  x = y \/ x \in Ancestors(links, y) \/ y \in Ancestors(links, x)
<1> DEFINE T == {z \in {s} \cup Ancestors(links, s) :
                   z = y \/ z \in Ancestors(links, y) \/ y \in Ancestors(links, z)}
<1>1. s \in Instrument /\ y \in Instrument /\ Ancestors(links, s) \subseteq Instrument
  BY AncestorsAre
<1>2. s \in T
  OBVIOUS
<1>3. ASSUME NEW z \in T, links[z] # None PROVE links[z] \in T
  <2>1. z \in Instrument
    BY <1>1
  <2>2. links[z] \in {s} \cup Ancestors(links, s)
    BY <1>3, AncestorsClosed DEF Closed
  <2>3. z = y \/ z \in Ancestors(links, y) => links[z] \in Ancestors(links, y)
    BY <1>1, <1>3, AncestorsClosed DEF Closed
  <2>4. y \in Ancestors(links, z) => y = links[z] \/ y \in Ancestors(links, links[z])
    BY <1>3, <2>1, ParentsAncestors
  <2> QED BY <2>2, <2>3, <2>4
<1>4. Closed(links, T)
  BY <1>3 DEF Closed
<1>5. Ancestors(links, s) \subseteq T
  <2>1. links[s] # None => links[s] \in T
    BY <1>2, <1>3
  <2> HIDE DEF T
  <2> QED BY <1>4, <2>1, LeastClosed
<1> QED BY <1>2, <1>5

\* Two cycles on one line of ancestors are the same.
LEMMA OneCycle ==
  ASSUME NEW links \in Links, NEW s \in Instrument,
         NEW c \in {s} \cup Ancestors(links, s), c \in Ancestors(links, c),
         NEW d \in {s} \cup Ancestors(links, s), d \in Ancestors(links, d)
  PROVE  d \in Ancestors(links, c)
<1>1. c \in Instrument /\ d \in Instrument
  BY AncestorsAre
<1>2. c = d \/ c \in Ancestors(links, d) \/ d \in Ancestors(links, c)
  BY Line
<1>3. c \in Ancestors(links, d) => Ancestors(links, c) = Ancestors(links, d)
  BY <1>1, CyclesStay
<1> QED BY <1>2, <1>3

\* With pointers left out there are fewer ancestors, and what cycles there
\* still are were there.
Fewer(less, links) == \A i \in Instrument : less[i] = None \/ less[i] = links[i]

LEMMA FewerAncestors ==
  ASSUME NEW links \in Links, NEW less \in Links, Fewer(less, links), NEW i \in Instrument
  PROVE  Ancestors(less, i) \subseteq Ancestors(links, i)
<1>1. Closed(less, Ancestors(links, i))
  BY AncestorsClosed, AncestorsAre DEF Closed, Fewer
<1>2. less[i] # None => less[i] \in Ancestors(links, i)
  BY AncestorsClosed DEF Fewer
<1> QED BY <1>1, <1>2, LeastClosed

\* A cycle of fewer pointers is a cycle of all, with the same pointers.
LEMMA FewerCycles ==
  ASSUME NEW links \in Links, NEW less \in Links, Fewer(less, links), NEW c \in Instrument,
         c \in Ancestors(less, c)
  PROVE  /\ Ancestors(less, c) = Ancestors(links, c)
         /\ \A x \in Ancestors(links, c) : less[x] = links[x] /\ less[x] # None
<1> DEFINE A == Ancestors(less, c)
<1>1. \A x \in A : x \in Instrument /\ less[x] # None /\ less[x] = links[x] /\ less[x] \in A
  BY CyclesStay DEF Fewer
<1>2. Closed(links, A)
  BY <1>1 DEF Closed
<1>3. links[c] \in A
  BY <1>1
<1>4. Ancestors(links, c) \subseteq A
  BY <1>2, <1>3, LeastClosed
<1> QED BY <1>1, <1>4, FewerAncestors

-----------------------------------------------------------------------------
(***************************************************************************)
(* The component of an instrument is the least set that has it and the     *)
(* neighbors of its members.                                               *)
(***************************************************************************)
Wider(links, before) == before \cup Neighbors(links, before)

Ring(links, i, reached, n) == IF n = 0 THEN {i} ELSE Wider(links, reached[n - 1])

IsReachedTo(reached, links, i, n) == reached = [k \in 0 .. n |-> Ring(links, i, reached, k)]

Reaches(reached, links, i) ==
  /\ reached[0] = {i}
  /\ \A k \in 0 .. Count : k < Count => reached[k + 1] = Wider(links, reached[k])
  /\ Component(links, i) = reached[Count]

\* The rounds of the definition: each adds the neighbors of what was reached.
LEMMA ComponentRings ==
  ASSUME NEW links, NEW i
  PROVE  \E reached : Reaches(reached, links, i)
<1> DEFINE G == {n \in 0 .. Count : \E f : IsReachedTo(f, links, i, n)}
<1>1. 0 \in G
  <2> DEFINE f == [k \in 0 .. 0 |-> {i}]
  <2>1. IsReachedTo(f, links, i, 0)
    BY DEF IsReachedTo, Ring
  <2> HIDE DEF f
  <2> QED BY <2>1, Instruments
<1>2. ASSUME NEW n \in 0 .. Count, n \in G, n < Count
      PROVE  n + 1 \in G
  <2>1. PICK f : IsReachedTo(f, links, i, n)
    BY <1>2
  <2> DEFINE g == [k \in 0 .. n + 1 |-> Ring(links, i, f, k)]
  <2>2. ASSUME NEW k \in 0 .. n + 1
        PROVE  Ring(links, i, f, k) = Ring(links, i, g, k)
    <3>1. CASE k = 0
      BY <3>1 DEF Ring
    <3>2. CASE k # 0
      <4>1. k - 1 \in 0 .. n /\ k - 1 \in 0 .. n + 1
        BY <3>2
      <4>2. f[k - 1] = Ring(links, i, f, k - 1)
        BY <2>1, <4>1 DEF IsReachedTo
      <4>3. g[k - 1] = f[k - 1]
        BY <4>1, <4>2
      <4> HIDE DEF g
      <4> QED BY <3>2, <4>3 DEF Ring
    <3> QED BY <3>1, <3>2
  <2>3. IsReachedTo(g, links, i, n + 1)
    <3> DEFINE h == [k \in 0 .. n + 1 |-> Ring(links, i, g, k)]
    <3>1. g = h
      BY <2>2
    <3> HIDE DEF g
    <3> QED BY <3>1 DEF IsReachedTo
  <2> HIDE DEF g
  <2> QED BY <1>2, <2>3, Instruments
<1>3. Count \in G
  <2> HIDE DEF G
  <2> QED BY <1>1, <1>2, Interval, Instruments
<1>4. PICK f : IsReachedTo(f, links, i, Count)
  BY <1>3
<1> DEFINE Step(u) == [k \in 0 .. Count |-> Ring(links, i, u, k)]
<1>5. f = Step(f)
  BY <1>4 DEF IsReachedTo
<1> DEFINE r == CHOOSE u : u = Step(u)
<1>6. Component(links, i) = r[Count]
  BY DEF Component, Ring, Wider, Count
<1> HIDE DEF Step
<1>7. r = Step(r)
  BY <1>5, Zenon
<1> HIDE DEF r
<1>8. r = [k \in 0 .. Count |-> Ring(links, i, r, k)]
  BY <1>7 DEF Step
<1>9. r[0] = {i}
  BY <1>8, Instruments DEF Ring
<1>10. ASSUME NEW k \in 0 .. Count, k < Count
       PROVE  r[k + 1] = Wider(links, r[k])
  <2>1. k + 1 \in 0 .. Count /\ k + 1 # 0 /\ (k + 1) - 1 = k
    BY <1>10, Instruments
  <2>2. r[k + 1] = Ring(links, i, r, k + 1)
    BY <1>8, <2>1
  <2> QED BY <2>1, <2>2 DEF Ring
<1> QED BY <1>6, <1>9, <1>10 DEF Reaches

Connected(links, T) == Neighbors(links, T) \subseteq T

PairsOfInstruments(links) == links \subseteq Instrument \X Instrument

\* Pointers of every kind are pairs of instruments.
LEMMA PointersArePairs ==
  ASSUME amends \in Links, NEW links, PairsOfInstruments(links)
  PROVE  Pointers(links) \subseteq Instrument \X Instrument
BY DEF Links, Pointers, PairsOfInstruments

\* Neighbors are the ends of pointers that have an end in the set.
LEMMA NeighborsAre ==
  ASSUME NEW links, NEW S
  PROVE  /\ \A p \in Pointers(links) : p[1] \in S \/ p[2] \in S =>
              p[1] \in Neighbors(links, S) /\ p[2] \in Neighbors(links, S)
         /\ \A x \in Neighbors(links, S) : \E p \in Pointers(links) :
              (p[1] \in S \/ p[2] \in S) /\ x \in {p[1], p[2]}
<1> DEFINE P == Pointers(links)
<1>1. Neighbors(links, S) = UNION {{p[1], p[2]} : p \in {p \in P : p[1] \in S \/ p[2] \in S}}
  BY DEF Neighbors
<1> HIDE DEF P
<1> QED BY <1>1 DEF P

\* A connected set that has the instrument has its component.
LEMMA ComponentIsLeast ==
  ASSUME NEW links, NEW i, NEW T, i \in T, Connected(links, T)
  PROVE  Component(links, i) \subseteq T
<1>1. PICK r : Reaches(r, links, i)
  BY ComponentRings
<1> DEFINE G == {n \in 0 .. Count : r[n] \subseteq T}
<1>2. 0 \in G
  BY <1>1, Instruments DEF Reaches
<1>3. ASSUME NEW n \in 0 .. Count, n \in G, n < Count PROVE n + 1 \in G
  <2>1. n + 1 \in 0 .. Count /\ r[n + 1] = r[n] \cup Neighbors(links, r[n])
    BY <1>1, <1>3, Instruments DEF Reaches, Wider
  <2>2. Neighbors(links, r[n]) \subseteq Neighbors(links, T)
    <3>1. r[n] \subseteq T
      BY <1>3
    <3> QED BY <3>1, NeighborsAre
  <2> QED BY <1>3, <2>1, <2>2 DEF Connected
<1>4. Count \in G
  <2> HIDE DEF G
  <2> QED BY <1>2, <1>3, Interval, Instruments
<1> QED BY <1>1, <1>4 DEF Reaches

\* There are more rounds than instruments, so a component has all its neighbors.
LEMMA ComponentsAreConnected ==
  ASSUME amends \in Links, NEW links, PairsOfInstruments(links), NEW i \in Instrument
  PROVE  /\ i \in Component(links, i)
         /\ Component(links, i) \subseteq Instrument
         /\ Connected(links, Component(links, i))
<1>1. PICK r : Reaches(r, links, i)
  BY ComponentRings
<1>2. Connected(links, Instrument)
  BY NeighborsAre, PointersArePairs DEF Connected
<1>3. Component(links, i) \subseteq Instrument
  BY <1>2, ComponentIsLeast
<1> DEFINE Big(n) == Cardinality(r[n]) >= n + 1 \/ Connected(links, r[n])
           G == {n \in 0 .. Count : i \in r[n] /\ r[n] \subseteq Instrument /\ Big(n)}
<1>4. 0 \in G
  <2>1. r[0] = {i} /\ Cardinality({i}) = 1
    BY <1>1, FS_Singleton DEF Reaches
  <2> QED BY <2>1, Instruments
<1>5. ASSUME NEW n \in 0 .. Count, n \in G, n < Count PROVE n + 1 \in G
  <2>1. n + 1 \in 0 .. Count /\ r[n + 1] = r[n] \cup Neighbors(links, r[n])
    BY <1>1, <1>5, Instruments DEF Reaches, Wider
  <2>2. r[n] \subseteq Instrument /\ i \in r[n] /\ Big(n)
    BY <1>5
  <2>3. Neighbors(links, r[n]) \subseteq Instrument
    BY <2>2, NeighborsAre, PointersArePairs
  <2>4. r[n + 1] \subseteq Instrument /\ i \in r[n + 1]
    BY <2>1, <2>2, <2>3
  <2>5. CASE Connected(links, r[n])
    <3>1. r[n + 1] = r[n]
      BY <2>1, <2>5 DEF Connected
    <3> QED BY <2>1, <2>4, <2>5, <3>1
  <2>6. CASE ~Connected(links, r[n])
    <3>1. Cardinality(r[n]) >= n + 1
      BY <2>2, <2>6
    <3>2. IsFiniteSet(r[n + 1])
      BY <2>4, Instruments, FS_Subset
    <3>3. r[n] \subseteq r[n + 1] /\ r[n] # r[n + 1]
      BY <2>1, <2>6 DEF Connected
    <3>4. /\ Cardinality(r[n]) \in Nat /\ Cardinality(r[n + 1]) \in Nat
          /\ Cardinality(r[n]) <= Cardinality(r[n + 1])
          /\ Cardinality(r[n]) # Cardinality(r[n + 1])
      BY <3>2, <3>3, FS_Subset, FS_CardinalityType
    <3>5. Cardinality(r[n + 1]) >= (n + 1) + 1
      BY <3>1, <3>4, Instruments
    <3> QED BY <2>1, <2>4, <3>5
  <2> QED BY <2>5, <2>6
<1>6. Count \in G
  <2> HIDE DEF G
  <2> QED BY <1>4, <1>5, Interval, Instruments
<1>7. Cardinality(r[Count]) <= Count /\ Cardinality(r[Count]) \in Nat
  BY <1>6, Instruments, FS_Subset, FS_CardinalityType DEF Count
<1>8. Connected(links, r[Count])
  BY <1>6, <1>7, Instruments
<1> QED BY <1>1, <1>3, <1>6, <1>8 DEF Reaches

\* Who is in a component has the same one.
LEMMA SameComponent ==
  ASSUME amends \in Links, NEW links, PairsOfInstruments(links), NEW i \in Instrument,
         NEW j \in Component(links, i)
  PROVE  j \in Instrument /\ Component(links, j) = Component(links, i)
<1> DEFINE C == Component(links, i)
           D == Component(links, j)
<1>1. j \in Instrument /\ i \in C /\ Connected(links, C)
  BY ComponentsAreConnected
<1>2. j \in D /\ Connected(links, D)
  BY <1>1, ComponentsAreConnected
<1>3. D \subseteq C
  BY <1>1, ComponentIsLeast
<1>4. i \in D
  <2> SUFFICES ASSUME i \notin D PROVE FALSE
    OBVIOUS
  <2> HIDE DEF C, D
  <2>1. Connected(links, C \ D)
    <3> SUFFICES ASSUME NEW x \in Neighbors(links, C \ D) PROVE x \in C /\ x \notin D
      BY DEF Connected
    <3>1. PICK p \in Pointers(links) : (p[1] \in C \ D \/ p[2] \in C \ D) /\ x \in {p[1], p[2]}
      BY NeighborsAre
    <3>2. p[1] \in C /\ p[2] \in C
      BY <1>1, <3>1, NeighborsAre DEF Connected
    <3>3. p[1] \in D \/ p[2] \in D => p[1] \in D /\ p[2] \in D
      BY <1>2, NeighborsAre DEF Connected
    <3> QED BY <3>1, <3>2, <3>3
  <2>2. C \subseteq C \ D
    <3>1. Component(links, i) \subseteq C \ D
      BY <1>1, <2>1, ComponentIsLeast
    <3> QED BY <3>1 DEF C
  <2> QED BY <1>1, <1>2, <1>3, <2>2
<1>5. C \subseteq D
  BY <1>2, <1>4, ComponentIsLeast
<1> QED BY <1>1, <1>3, <1>5

-----------------------------------------------------------------------------
(***************************************************************************)
(* Families that are named after the components of acyclic pointers.       *)
(***************************************************************************)
AreFamilies(fam, links) == fam = [i \in Instrument |-> Least(Component(links, i))]

\* Two instruments have one family when they have one component.
LEMMA FamiliesAreComponents ==
  ASSUME amends \in Links, NEW links, PairsOfInstruments(links), NEW fam, AreFamilies(fam, links),
         NEW i \in Instrument, NEW j \in Instrument
  PROVE  fam[i] = fam[j] <=> Component(links, i) = Component(links, j)
<1>1. \A k \in Instrument : fam[k] = Least(Component(links, k))
  BY DEF AreFamilies
<1>2. ASSUME NEW k \in Instrument PROVE fam[k] \in Component(links, k)
  <2>1. Component(links, k) \in SUBSET Nat /\ Component(links, k) # {}
    BY ComponentsAreConnected, Instruments
  <2> QED BY <1>1, <2>1, LeastIsIn
<1>3. fam[i] = fam[j] => Component(links, i) = Component(links, j)
  <2>1. Component(links, fam[i]) = Component(links, i)
    BY <1>2, SameComponent
  <2>2. Component(links, fam[j]) = Component(links, j)
    BY <1>2, SameComponent
  <2> QED BY <2>1, <2>2
<1> QED BY <1>1, <1>3

\* No pointer leaves a family.
LEMMA FamiliesKeepPointers ==
  ASSUME amends \in Links, NEW links, PairsOfInstruments(links), NEW fam, AreFamilies(fam, links),
         NEW p \in Pointers(links)
  PROVE  p[1] \in Instrument /\ p[2] \in Instrument /\ fam[p[1]] = fam[p[2]]
<1>1. p[1] \in Instrument /\ p[2] \in Instrument
  BY PointersArePairs
<1>2. p[1] \in Component(links, p[1]) /\ Connected(links, Component(links, p[1]))
  BY <1>1, ComponentsAreConnected
<1>3. p[2] \in Component(links, p[1])
  BY <1>2, NeighborsAre DEF Connected
<1>4. Component(links, p[2]) = Component(links, p[1])
  BY <1>1, <1>3, SameComponent
<1> QED BY <1>1, <1>4, FamiliesAreComponents

\* A set that no pointer leaves or enters is a union of families.
LEMMA FamiliesAreNoLarger ==
  ASSUME amends \in Links, NEW links, PairsOfInstruments(links), NEW fam, AreFamilies(fam, links),
         NEW S \in SUBSET Instrument, \A p \in Pointers(links) : p[1] \in S <=> p[2] \in S
  PROVE  {j \in Instrument : \E i \in S : fam[i] = fam[j]} = S
<1>1. Connected(links, S)
  BY NeighborsAre DEF Connected
<1>2. ASSUME NEW i \in S, NEW j \in Instrument, fam[i] = fam[j] PROVE j \in S
  <2>1. Component(links, i) = Component(links, j)
    BY <1>2, FamiliesAreComponents
  <2>2. j \in Component(links, j)
    BY ComponentsAreConnected
  <2>3. Component(links, i) \subseteq S
    BY <1>1, ComponentIsLeast
  <2> QED BY <2>1, <2>2, <2>3
<1> QED BY <1>2

\* The one with the most ancestors is a head.
LEMMA FamiliesHaveAHead ==
  ASSUME amends \in Links, OnCycle(amends) = {},
         NEW links, PairsOfInstruments(links), NEW fam, AreFamilies(fam, links),
         NEW i \in Instrument
  PROVE  \E j \in Instrument : fam[j] = fam[i] /\ IsHead(j)
<1> DEFINE F == {j \in Instrument : fam[j] = fam[i]}
           Rest(j) == Instrument \ Ancestors(amends, j)
           Rests == {Rest(j) : j \in F}
<1>1. Rests \subseteq FiniteSubsetsOf(Instrument) /\ Rests # {}
  <2>1. \A S \in Rests : S \subseteq Instrument /\ IsFiniteSet(S)
    BY Instruments, FS_Subset
  <2>2. Rest(i) \in Rests
    OBVIOUS
  <2> HIDE DEF Rests
  <2> QED BY <2>1, <2>2 DEF FiniteSubsetsOf
<1>2. PICK S \in Rests : \A U \in Rests : ~(<<U, S>> \in StrictSubsetOrdering(Instrument))
  <2> HIDE DEF Rests
  <2> QED BY <1>1, FS_StrictSubsetOrderingWellFounded, WFMin
<1>3. PICK j \in F : S = Rest(j)
  BY <1>2
<1>4. ASSUME NEW k \in Instrument, amends[k] = j PROVE FALSE
  <2>1. j \in Instrument /\ fam[j] = fam[i] /\ j # None
    BY <1>3, Instruments
  <2>2. <<k, j>> \in Pointers(links)
    BY <1>4, <2>1 DEF Pointers
  <2>3. fam[k] = fam[j]
    BY <2>2, FamiliesKeepPointers
  <2>4. Ancestors(amends, k) = {j} \cup Ancestors(amends, j)
    BY <1>4, <2>1, ParentsAncestors
  <2>5. j \notin Ancestors(amends, j)
    BY <2>1 DEF OnCycle
  <2>6. Rest(k) \subseteq Rest(j) /\ Rest(k) # Rest(j)
    BY <2>1, <2>4, <2>5
  <2>7. Rest(k) \in Rests
    BY <2>1, <2>3
  <2>8. Rest(k) \subseteq Instrument /\ Rest(j) \subseteq Instrument
    OBVIOUS
  <2> HIDE DEF Rest, Rests
  <2>9. <<Rest(k), S>> \in StrictSubsetOrdering(Instrument)
    BY <1>3, <2>6, <2>8, Instruments, FS_Subset DEF StrictSubsetOrdering
  <2> QED BY <1>2, <2>7, <2>9
<1>5. IsHead(j)
  BY <1>4 DEF IsHead
<1> QED BY <1>3, <1>5

-----------------------------------------------------------------------------
(***************************************************************************)
(* The invariant.  First the shapes.                                       *)
(***************************************************************************)
NamedLinks == Derived(input.named)

Single == SingledOut(Extracted)

Shapes ==
  /\ input.named \in Named /\ input.seen \in Seen
  /\ phase \in {"breaking", "inferring", "checking", "rolling", "done"}
  /\ amends \in Links
  /\ visited \subseteq Instrument
  /\ phase \notin {"rolling", "done"} => inferred = {}
  /\ phase = "done" => PairsOfInstruments(others) /\ AreFamilies(family, others)

(***************************************************************************)
(* What the walks have been through (seen) holds the parents of all it     *)
(* holds and no cycle any more: of each cycle that was named, the one      *)
(* pointer to what was first seen last is gone.  No other pointer is.      *)
(***************************************************************************)
OneDropped(links, c) ==
  \E d \in Ancestors(NamedLinks, c) :
    /\ \A j \in Ancestors(NamedLinks, c) : links[j] = None <=> j = d
    /\ \A k \in Ancestors(NamedLinks, c) : input.seen[k] <= input.seen[NamedLinks[d]]

BrokenIn(links, seen) ==
  /\ Closed(NamedLinks, seen)
  /\ \A i \in Instrument :
       \/ links[i] = NamedLinks[i]
       \/ links[i] = None /\ i \in seen /\ i \in Ancestors(NamedLinks, i)
  /\ \A c \in seen : c \notin Ancestors(links, c)
  /\ \A c \in seen : c \in Ancestors(NamedLinks, c) => OneDropped(links, c)

Broken == BrokenIn(Extracted, visited) /\ (phase # "breaking" => visited = Instrument)

(***************************************************************************)
(* A cycle that inferred pointers close still has a child to look at; from *)
(* the parent that was singled out for a refused child, pointers that stay *)
(* lead back to the child.                                                 *)
(***************************************************************************)
LeadsTo(links, i, j) == j \in {i} \cup Ancestors(links, i)

Checked(links, kept, open) ==
  /\ kept \subseteq DOMAIN Single /\ open \subseteq kept
  /\ \A i \in kept : links[i] = Single[i]
  /\ \A i \in Instrument \ kept : links[i] = Extracted[i]
  /\ \A c \in Instrument : c \in Ancestors(links, c) => Ancestors(links, c) \cap open # {}
  /\ \A i \in DOMAIN Single \ kept : LeadsTo(links, Single[i], i)

Inferring ==
  /\ phase = "checking" =>
       /\ resolved = [i \in DOMAIN resolved |-> resolved[i]]
       /\ Checked(With(amends, resolved), DOMAIN resolved, unchecked)
  /\ phase \in {"rolling", "done"} => Checked(amends, inferred, {})

IInv == Shapes /\ Broken /\ Inferring

\* What mentions name are pointers to instruments.
LEMMA DerivedAreLinks ==
  ASSUME NEW named \in Named
  PROVE  Derived(named) \in Links
<1>1. named \in [Instrument -> SUBSET Instrument]
  BY LineageAssumption
<1>2. ASSUME NEW i \in Instrument, Cardinality(named[i]) = 1
      PROVE  TheOnly(named[i]) \in Instrument
  <2>1. named[i] \subseteq Instrument /\ IsFiniteSet(named[i])
    BY <1>1, Instruments, FS_Subset
  <2>2. named[i] # {}
    BY <1>2, FS_EmptySet
  <2> QED BY <2>1, <2>2 DEF TheOnly
<1> QED BY <1>2 DEF Derived, Links

\* A parent is singled out only for an instrument without a pointer.
LEMMA SingledOutAre ==
  ASSUME NEW links \in Links
  PROVE  /\ DOMAIN SingledOut(links) \subseteq Instrument
         /\ \A i \in DOMAIN SingledOut(links) :
              SingledOut(links)[i] \in Instrument /\ links[i] = None
<1> DEFINE one == {i \in Instrument : Cardinality(Offered(links, i)) = 1}
<1>1. ASSUME NEW i \in one
      PROVE  TheOnly(Offered(links, i)) \in Instrument /\ links[i] = None
  <2>1. Offered(links, i) \subseteq Instrument
    BY DEF Offered, Predecessors, Lower, Stem
  <2>2. Offered(links, i) # {}
    BY FS_EmptySet
  <2>3. links[i] = None
    BY <2>2 DEF Offered
  <2> QED BY <2>1, <2>2, <2>3 DEF TheOnly
<1> DEFINE offer == [i \in one |-> TheOnly(Offered(links, i))]
           mutual == {i \in one : offer[i] \in one /\ offer[offer[i]] = i}
<1>2. SingledOut(links) = [i \in one \ mutual |-> offer[i]]
  BY DEF SingledOut
<1>3. \A i \in one : offer[i] = TheOnly(Offered(links, i))
  OBVIOUS
<1>4. one \subseteq Instrument
  OBVIOUS
<1> HIDE DEF one, offer, mutual
<1> QED BY <1>1, <1>2, <1>3, <1>4

\* The extracted pointers are pointers to instruments.
LEMMA ExtractedAreLinks ==
  ASSUME amends \in Links
  PROVE  Extracted \in Links
BY DEF Extracted, Links

-----------------------------------------------------------------------------
(***************************************************************************)
(* A walk goes up from its start until it meets what a walk has been       *)
(* through, or itself.                                                     *)
(***************************************************************************)
LEMMA WalkGoesOn ==
  ASSUME amends \in Links, NEW s \in Instrument \ visited
  PROVE  /\ s \in Walk(s) /\ Walk(s) \subseteq {s} \cup Ancestors(amends, s)
         /\ Walk(s) \cap visited = {}
         /\ Closed(amends, visited) => Closed(amends, visited \cup Walk(s))
<1> DEFINE up == Ancestor(amends)
           Fresh(k) == \A n \in 0 .. k : up[n][s] \notin visited
<1> HIDE DEF up
<1>1. Walk(s) = {i \in Instrument : \E k \in 0 .. Count : up[k][s] = i /\ Fresh(k)}
  BY AncestorLevels DEF Walk, up
<1>2. up[0][s] = s /\ \A k \in 0 .. Count : up[k][s] \in Instrument \cup {None}
  BY AncestorStep DEF up
<1>3. s \in Walk(s)
  <2>1. 0 \in 0 .. Count /\ Fresh(0)
    BY <1>2, Instruments
  <2> HIDE DEF Fresh
  <2> QED BY <1>1, <1>2, <2>1
<1>4. ASSUME NEW x \in Walk(s) PROVE x \in {s} \cup Ancestors(amends, s) /\ x \notin visited
  <2>1. PICK k \in 0 .. Count : up[k][s] = x /\ Fresh(k)
    BY <1>1
  <2>2. x \notin visited
    BY <2>1, Instruments
  <2>3. x # None
    BY <1>1, Instruments
  <2>4. k = 0 \/ k \in 1 .. Count
    BY Instruments
  <2>5. k \in 1 .. Count => x \in Ancestors(amends, s)
    BY <2>1, <2>3, AncestorsAre DEF up
  <2> QED BY <1>2, <2>1, <2>2, <2>4, <2>5
<1>5. ASSUME NEW x \in Walk(s), amends[x] # None
      PROVE  amends[x] \in visited \cup Walk(s)
  <2> SUFFICES ASSUME amends[x] \notin visited PROVE amends[x] \in Walk(s)
    OBVIOUS
  <2>1. PICK k \in 0 .. Count : up[k][s] = x /\ Fresh(k)
    BY <1>1
  <2>2. x \in Instrument /\ x # None
    BY <1>1, Instruments
  <2>3. amends[x] \in Instrument
    BY <1>5, <2>2 DEF Links
  <2>4. CASE k < Count
    <3>1. k + 1 \in 0 .. Count /\ up[k + 1][s] = amends[x]
      BY <2>1, <2>2, <2>4, AncestorStep, Instruments DEF up
    <3>2. Fresh(k + 1)
      <4> SUFFICES ASSUME NEW n \in 0 .. k + 1 PROVE up[n][s] \notin visited
        OBVIOUS
      <4>1. n \in 0 .. k \/ n = k + 1
        BY Instruments
      <4> QED BY <2>1, <3>1, <4>1
    <3> HIDE DEF Fresh
    <3> QED BY <1>1, <2>3, <3>1, <3>2
  <2>5. CASE k = Count
    <3>1. Closed(amends, Ancestors(amends, s))
      BY AncestorsClosed
    <3>2. amends[x] \in Ancestors(amends, s)
      BY <1>4, <1>5, <3>1, AncestorsClosed DEF Closed
    <3>3. PICK j \in 1 .. Count : amends[x] = up[j][s]
      BY <3>2, AncestorsAre DEF up
    <3>4. j \in 0 .. Count /\ Fresh(j)
      BY <2>1, <2>5, Instruments
    <3> HIDE DEF Fresh
    <3> QED BY <1>1, <2>3, <3>3, <3>4
  <2> QED BY <2>4, <2>5, Instruments
<1> QED BY <1>3, <1>4, <1>5 DEF Closed

\* The newest of a cycle is one of it, and none of it was first seen later.
LEMMA NewestIsIn ==
  ASSUME Shapes, NEW C \in SUBSET Instrument, C # {}
  PROVE  Newest(C) \in C /\ \A k \in C : input.seen[k] <= input.seen[Newest(C)]
<1> DEFINE at(i) == input.seen[i]
<1>1. \A i \in C : i \in Nat /\ at(i) \in Nat
  <2>1. input.seen \in [Instrument -> Nat] /\ Instrument \subseteq Nat
    BY LineageAssumption DEF Shapes
  <2> QED BY <2>1
<1>2. \A i, j \in C : Later(i, j) <=> at(i) > at(j) \/ (at(i) = at(j) /\ i >= j)
  BY DEF Later
<1> HIDE DEF at
<1>3. \A i, j, k \in C : Later(i, j) /\ Later(j, k) => Later(i, k)
  BY <1>1, <1>2
<1>4. \A i, j \in C : Later(i, i) /\ (Later(i, j) \/ Later(j, i))
  BY <1>1, <1>2
<1>5. \A i, j \in C : Later(i, j) => at(j) <= at(i)
  BY <1>1, <1>2
<1>6. \E i \in C : \A j \in C : Later(i, j)
  <2> DEFINE Ahead(i) == {j \in C : ~Later(i, j)}
             Aheads == {Ahead(i) : i \in C}
  <2>1. Aheads \subseteq FiniteSubsetsOf(Instrument) /\ Aheads # {}
    <3>1. \A S \in Aheads : S \subseteq Instrument /\ IsFiniteSet(S)
      BY Instruments, FS_Subset
    <3>2. Aheads # {}
      OBVIOUS
    <3> HIDE DEF Aheads
    <3> QED BY <3>1, <3>2 DEF FiniteSubsetsOf
  <2>2. PICK S \in Aheads : \A U \in Aheads : ~(<<U, S>> \in StrictSubsetOrdering(Instrument))
    <3> HIDE DEF Aheads
    <3> QED BY <2>1, FS_StrictSubsetOrderingWellFounded, WFMin
  <2>3. PICK i \in C : S = Ahead(i)
    BY <2>2
  <2>4. ASSUME NEW j \in C, ~Later(i, j) PROVE FALSE
    <3>1. Later(j, i)
      BY <1>4, <2>4
    <3>2. Ahead(j) \subseteq Ahead(i)
      BY <1>3, <1>4, <3>1
    <3>3. j \in Ahead(i) /\ j \notin Ahead(j)
      BY <1>4, <2>4
    <3>4. Ahead(j) \in Aheads /\ Ahead(i) \subseteq Instrument /\ Ahead(j) \subseteq Instrument
      OBVIOUS
    <3> HIDE DEF Ahead, Aheads
    <3>5. <<Ahead(j), S>> \in StrictSubsetOrdering(Instrument)
      BY <2>3, <3>2, <3>3, <3>4 DEF StrictSubsetOrdering
    <3> QED BY <2>2, <3>4, <3>5
  <2> QED BY <2>4
<1>7. Newest(C) \in C /\ \A j \in C : Later(Newest(C), j)
  BY <1>6 DEF Newest
<1>8. \A k \in C : at(k) <= at(Newest(C))
  BY <1>5, <1>7
<1> QED BY <1>7, <1>8 DEF at

(***************************************************************************)
(* A walk comes to one cycle at most, and breaks it at one pointer.        *)
(***************************************************************************)
LEMMA WalkBreaks ==
  ASSUME Shapes, BrokenIn(amends, visited), NEW s \in Instrument \ visited,
         NEW less, less = [i \in Instrument |->
           IF i \in CycleOf(Walk(s)) /\ amends[i] = Newest(CycleOf(Walk(s)))
           THEN None ELSE amends[i]]
  PROVE  less \in Links /\ BrokenIn(less, visited \cup Walk(s))
<1> DEFINE N == NamedLinks
           P == Walk(s)
           C == CycleOf(P)
           v == visited \cup P
<1>1. amends \in Links /\ N \in Links /\ visited \subseteq Instrument /\ less \in Links
      /\ Fewer(amends, N) /\ Fewer(less, amends)
  BY DerivedAreLinks DEF Shapes, NamedLinks, BrokenIn, Fewer, Links
<1>2. \A x \in Instrument \ visited : amends[x] = N[x]
  BY DEF BrokenIn
<1>3. /\ s \in P /\ P \subseteq {s} \cup Ancestors(amends, s) /\ P \cap visited = {}
      /\ Closed(amends, v) /\ P \subseteq Instrument
  <2>1. Closed(amends, visited)
    BY <1>1 DEF Closed, BrokenIn, Fewer
  <2>2. Ancestors(amends, s) \subseteq Instrument
    BY <1>1, AncestorsAre
  <2> QED BY <1>1, <2>1, <2>2, WalkGoesOn
<1>4. Closed(N, v)
  BY <1>1, <1>2, <1>3 DEF Closed, BrokenIn
<1>5. C = {i \in P : i \in Ancestors(amends, i)}
  BY DEF CycleOf
<1> HIDE DEF N, P, C, v
<1>6. ASSUME NEW c \in Instrument, c \in Ancestors(N, c), c \in P
      PROVE  c \in C /\ C = Ancestors(N, c) /\ Ancestors(amends, c) = Ancestors(N, c)
  <2>1. Ancestors(N, c) \cap visited = {}
    <3> SUFFICES ASSUME NEW x \in Ancestors(N, c), x \in visited PROVE FALSE
      OBVIOUS
    <3>1. x \in Instrument /\ c \in Ancestors(N, x)
      BY <1>1, <1>6, CyclesStay
    <3>2. Closed(N, visited)
      BY DEF BrokenIn, N
    <3>3. Ancestors(N, x) \subseteq visited
      BY <1>1, <3>1, <3>2, LeastClosed DEF Closed
    <3> QED BY <1>3, <1>6, <3>1, <3>3
  <2>2. Ancestors(N, c) \subseteq Instrument
    BY <1>1, AncestorsAre
  <2>3. \A x \in {c} \cup Ancestors(N, c) : amends[x] = N[x]
    BY <1>2, <1>6, <2>1, <2>2
  <2>4. Ancestors(amends, c) \subseteq Ancestors(N, c)
    BY <1>1, FewerAncestors
  <2>5. Closed(N, Ancestors(amends, c))
    BY <1>1, <2>3, <2>4, AncestorsClosed DEF Closed
  <2>6. Ancestors(N, c) \subseteq Ancestors(amends, c)
    BY <1>1, <2>3, <2>5, AncestorsClosed, LeastClosed
  <2>7. Ancestors(amends, c) = Ancestors(N, c) /\ c \in C
    BY <1>5, <1>6, <2>4, <2>6
  <2>8. C \subseteq Ancestors(amends, c)
    BY <1>1, <1>3, <1>5, <2>7, OneCycle
  <2>9. Ancestors(amends, c) \subseteq P
    <3>1. amends[c] # None => amends[c] \in v
      BY <1>3, <1>6 DEF Closed, v
    <3>2. Ancestors(amends, c) \subseteq v
      BY <1>1, <1>3, <3>1, LeastClosed
    <3> QED BY <2>1, <2>7, <3>2 DEF v
  <2>10. \A x \in Ancestors(amends, c) : x \in Ancestors(amends, x)
    BY <1>1, <1>6, <2>7, CyclesStay
  <2> QED BY <1>5, <2>7, <2>8, <2>9, <2>10
<1>7. ASSUME NEW c \in C
      PROVE  c \in Instrument /\ c \in Ancestors(N, c) /\ C = Ancestors(N, c)
             /\ Ancestors(amends, c) = C
  <2>1. c \in Instrument /\ c \in P /\ c \in Ancestors(amends, c)
    BY <1>3, <1>5
  <2>2. c \in Ancestors(N, c)
    BY <1>1, <2>1, FewerAncestors
  <2> QED BY <1>6, <2>1, <2>2
<1>8. ASSUME NEW c \in C
      PROVE  \E d \in C : /\ N[d] = Newest(C) /\ amends[d] = N[d]
                          /\ \A j \in Instrument : less[j] = IF j = d THEN None ELSE amends[j]
  <2>1. C \subseteq Instrument /\ C # {} /\ C \cap visited = {}
    BY <1>3, <1>5
  <2>2. Newest(C) \in C
    BY <2>1, NewestIsIn
  <2>3. PICK d \in C : amends[d] = Newest(C) /\ \A y \in C : amends[y] = amends[d] => y = d
    BY <1>1, <1>7, <2>2, OneChildOnCycle
  <2>4. \A j \in Instrument : less[j] = IF j \in C /\ amends[j] = Newest(C) THEN None ELSE amends[j]
    BY DEF C, P
  <2> QED BY <1>2, <2>1, <2>3, <2>4
<1>9. C = {} => less = amends
  BY <1>1 DEF C, P, Links
<1>10. ASSUME NEW i \in Instrument
       PROVE  less[i] = N[i] \/ (less[i] = None /\ i \in v /\ i \in Ancestors(N, i))
  <2>1. amends[i] = N[i] \/ (amends[i] = None /\ i \in visited /\ i \in Ancestors(N, i))
    BY DEF BrokenIn, N
  <2>2. CASE C = {}
    BY <1>9, <2>1, <2>2 DEF v
  <2>3. CASE C # {}
    <3>1. PICK d \in C : \A j \in Instrument : less[j] = IF j = d THEN None ELSE amends[j]
      BY <1>8, <2>3
    <3>2. d \in v /\ d \in Ancestors(N, d)
      BY <1>5, <1>7 DEF v
    <3> QED BY <2>1, <3>1, <3>2 DEF v
  <2> QED BY <2>2, <2>3
<1>11. ASSUME NEW c \in v, c \in Ancestors(less, c) PROVE FALSE
  <2>1. c \in Instrument
    BY <1>1, <1>3 DEF v
  <2>2. Ancestors(less, c) = Ancestors(amends, c)
        /\ \A x \in Ancestors(amends, c) : less[x] = amends[x] /\ less[x] # None
    BY <1>1, <1>11, <2>1, FewerCycles
  <2>3. c \notin visited
    BY <1>11, <2>2 DEF BrokenIn
  <2>4. c \in C
    BY <1>5, <1>11, <2>2, <2>3 DEF v
  <2>5. PICK d \in C : \A j \in Instrument : less[j] = IF j = d THEN None ELSE amends[j]
    BY <1>8, <2>4
  <2>6. d \in Ancestors(amends, c) /\ d \in Instrument
    BY <1>7, <2>4
  <2> QED BY <2>2, <2>5, <2>6
<1>12. ASSUME NEW c \in v, c \in Ancestors(N, c) PROVE OneDropped(less, c)
  <2>1. c \in Instrument
    BY <1>1, <1>3 DEF v
  <2>2. CASE c \in visited
    <3>1. OneDropped(amends, c)
      BY <1>12, <2>2 DEF BrokenIn, N
    <3>2. Ancestors(N, c) \subseteq visited
      <4>1. Closed(N, visited)
        BY DEF BrokenIn, N
      <4> QED BY <1>1, <2>1, <2>2, <4>1, LeastClosed DEF Closed
    <3>3. \A j \in visited : less[j] = amends[j]
      <4>1. \A j \in visited : j \notin C /\ j \in Instrument
        BY <1>1, <1>3, <1>5
      <4> QED BY <4>1 DEF C, P
    <3> QED BY <3>1, <3>2, <3>3 DEF OneDropped, N
  <2>3. CASE c \in P
    <3>1. c \in C /\ C = Ancestors(N, c) /\ Ancestors(amends, c) = Ancestors(N, c)
      BY <1>6, <1>12, <2>1, <2>3
    <3>2. PICK d \in C : N[d] = Newest(C)
            /\ \A j \in Instrument : less[j] = IF j = d THEN None ELSE amends[j]
      BY <1>8, <3>1
    <3>3. \A j \in C : j \in Instrument /\ amends[j] # None
      BY <1>1, <2>1, <3>1, CyclesStay
    <3>4. \A k \in C : input.seen[k] <= input.seen[N[d]]
      <4>1. C \in SUBSET Instrument /\ C # {}
        BY <3>1, <3>3
      <4> QED BY <3>2, <4>1, NewestIsIn
    <3> QED BY <3>1, <3>2, <3>3, <3>4 DEF OneDropped, N
  <2> QED BY <2>2, <2>3 DEF v
<1> QED BY <1>1, <1>4, <1>10, <1>11, <1>12 DEF BrokenIn, N, v, P

-----------------------------------------------------------------------------
(***************************************************************************)
(* Checking the children one by one.  First: whose line meets only         *)
(* pointers that are the same keeps all of it.                             *)
(***************************************************************************)
LEMMA SameLine ==
  ASSUME NEW links \in Links, NEW less \in Links, NEW s \in Instrument,
         \A x \in {s} \cup Ancestors(less, s) : less[x] = links[x]
  PROVE  Ancestors(links, s) \subseteq Ancestors(less, s)
<1>1. Closed(links, Ancestors(less, s))
  BY AncestorsClosed DEF Closed
<1>2. links[s] # None => links[s] \in Ancestors(less, s)
  BY AncestorsClosed
<1> QED BY <1>1, <1>2, LeastClosed

\* No singled out child has an extracted pointer.
SinglesAreOpen ==
  /\ Extracted \in Links /\ DOMAIN Single \subseteq Instrument
  /\ \A i \in DOMAIN Single : Single[i] \in Instrument /\ Extracted[i] = None

LEMMA Singles ==
  ASSUME amends \in Links
  PROVE  SinglesAreOpen
BY ExtractedAreLinks, SingledOutAre DEF Single, SinglesAreOpen

\* Before the first child every cycle has one to look at.
LEMMA CheckingStarts ==
  ASSUME SinglesAreOpen, \A c \in Instrument : c \notin Ancestors(Extracted, c),
         NEW links \in Links, links = With(Extracted, Single)
  PROVE  Checked(links, DOMAIN Single, DOMAIN Single)
<1>1. \A i \in Instrument : links[i] = IF i \in DOMAIN Single THEN Single[i] ELSE Extracted[i]
  BY DEF With
<1>2. ASSUME NEW c \in Instrument, c \in Ancestors(links, c),
             Ancestors(links, c) \cap DOMAIN Single = {}
      PROVE  FALSE
  <2>1. \A x \in Ancestors(links, c) : links[x] = Extracted[x]
    BY <1>1, <1>2, AncestorsAre
  <2>2. Ancestors(Extracted, c) \subseteq Ancestors(links, c)
    BY <1>2, <2>1, SameLine DEF SinglesAreOpen
  <2>3. Ancestors(links, c) \subseteq Ancestors(Extracted, c)
    BY <1>2, <2>1, <2>2, SameLine DEF SinglesAreOpen
  <2> QED BY <1>2, <2>3
<1>3. \A i \in DOMAIN Single : links[i] = Single[i]
  BY <1>1 DEF SinglesAreOpen
<1> QED BY <1>1, <1>2, <1>3 DEF Checked

\* A child that is on no cycle is no longer needed to mark one.
LEMMA ChildIsKept ==
  ASSUME NEW links \in Links, NEW kept, NEW open, Checked(links, kept, open),
         NEW i \in open, i \notin Ancestors(links, i)
  PROVE  Checked(links, kept, open \ {i})
<1>1. ASSUME NEW c \in Instrument, c \in Ancestors(links, c)
      PROVE  Ancestors(links, c) \cap (open \ {i}) # {}
  <2>1. PICK x \in Ancestors(links, c) : x \in open
    BY <1>1 DEF Checked
  <2>2. x \in Ancestors(links, x)
    BY <1>1, CyclesStay
  <2> QED BY <2>1, <2>2
<1> QED BY <1>1 DEF Checked

\* A child on a cycle is refused: that cycle is gone, with every pointer that
\* led to it in place.
LEMMA ChildIsRefused ==
  ASSUME SinglesAreOpen, NEW links \in Links, NEW kept, NEW open, Checked(links, kept, open),
         NEW i \in open, i \in Ancestors(links, i),
         NEW less, less = [j \in Instrument |-> IF j = i THEN None ELSE links[j]]
  PROVE  less \in Links /\ Checked(less, kept \ {i}, open \ {i})
<1>1. less \in Links /\ Fewer(less, links) /\ i \in kept /\ i \in Instrument
  BY DEF Links, Fewer, Checked, SinglesAreOpen
<1>2. \A j \in Instrument : less[j] = IF j = i THEN None ELSE links[j]
  OBVIOUS
<1>3. ASSUME NEW c \in Instrument, c \in Ancestors(less, c)
      PROVE  Ancestors(less, c) \cap (open \ {i}) # {}
  <2>1. Ancestors(less, c) = Ancestors(links, c) /\ \A x \in Ancestors(links, c) : less[x] # None
    BY <1>1, <1>3, FewerCycles
  <2>2. i \notin Ancestors(links, c)
    BY <1>1, <1>2, <2>1
  <2>3. Ancestors(links, c) \cap open # {}
    BY <1>3, <2>1 DEF Checked
  <2> QED BY <2>1, <2>2, <2>3
<1>4. ASSUME NEW j \in DOMAIN Single \ (kept \ {i})
      PROVE  LeadsTo(less, Single[j], j)
  <2> DEFINE s == Single[j]
             Q == {s} \cup Ancestors(less, s)
  <2>1. s \in Instrument /\ j \in Instrument /\ Ancestors(less, s) \subseteq Instrument
    BY <1>1, AncestorsAre DEF SinglesAreOpen
  <2>2. j \in {s} \cup Ancestors(links, s)
    <3>1. CASE j = i
      <4>1. links[i] = s /\ s # None
        BY <1>1, <2>1, <3>1, Instruments DEF Checked
      <4>2. Ancestors(links, i) = {s} \cup Ancestors(links, s)
        BY <1>1, <4>1, ParentsAncestors
      <4> QED BY <3>1, <4>2
    <3>2. CASE j # i
      BY <3>2 DEF Checked, LeadsTo
    <3> QED BY <3>1, <3>2
  <2>3. i \in Q => j = i
    <3> SUFFICES ASSUME i \in Q, j # i PROVE FALSE
      OBVIOUS
    <3>1. i \in {s} \cup Ancestors(links, s)
      BY <1>1, <2>1, FewerAncestors
    <3>2. j = i \/ j \in Ancestors(links, i) \/ i \in Ancestors(links, j)
      BY <2>1, <2>2, <3>1, Line
    <3>3. links[j] = None
      BY <2>1 DEF Checked, SinglesAreOpen
    <3>4. j \notin Ancestors(links, i)
      BY <1>1, <3>3, CyclesStay
    <3>5. Ancestors(links, j) = {}
      BY <2>1, <3>3, ParentsAncestors
    <3> QED BY <3>2, <3>4, <3>5
  <2>4. i \notin Q => j \in Q
    <3> SUFFICES ASSUME i \notin Q PROVE j \in Q
      OBVIOUS
    <3>1. \A x \in Q : less[x] = links[x]
      BY <1>2, <2>1
    <3>2. Ancestors(links, s) \subseteq Ancestors(less, s)
      BY <1>1, <2>1, <3>1, SameLine
    <3> QED BY <2>2, <3>2
  <2> QED BY <2>3, <2>4 DEF LeadsTo
<1>5. \A j \in kept \ {i} : less[j] = Single[j]
  BY <1>2 DEF Checked, SinglesAreOpen
<1>6. \A j \in Instrument \ (kept \ {i}) : less[j] = Extracted[j]
  BY <1>1, <1>2 DEF Checked, SinglesAreOpen
<1>7. kept \ {i} \subseteq DOMAIN Single /\ open \ {i} \subseteq kept \ {i}
  BY DEF Checked
<1> QED BY <1>1, <1>3, <1>4, <1>5, <1>6, <1>7 DEF Checked

-----------------------------------------------------------------------------
(***************************************************************************)
(* The invariant is inductive.                                             *)
(***************************************************************************)
LEMMA NothingInferred ==
  ASSUME amends \in Links, inferred = {}
  PROVE  Extracted = amends
BY DEF Extracted, Links

\* Nothing is walked through, and the pointers are the named ones.
LEMMA InitIInv == Init => IInv
<1> SUFFICES ASSUME Init PROVE IInv
  OBVIOUS
<1>1. input.named \in Named /\ input.seen \in Seen
  BY DEF Init
<1>2. NamedLinks \in Links /\ amends = NamedLinks
  BY <1>1, DerivedAreLinks DEF Init, NamedLinks
<1>3. Shapes
  BY <1>1, <1>2 DEF Init, Shapes
<1>4. Extracted = NamedLinks
  BY <1>2, NothingInferred DEF Init
<1>5. Broken
  BY <1>4 DEF Init, Broken, BrokenIn, Closed
<1> QED BY <1>3, <1>5 DEF Init, IInv, Inferring

\* The names stay; what is singled out changes with what is extracted only.
LEMMA InputStays ==
  ASSUME input' = input
  PROVE  /\ NamedLinks' = NamedLinks
         /\ Extracted' = Extracted => Single' = Single
<1>1. NamedLinks' = NamedLinks
  BY DEF NamedLinks, Derived, TheOnly
<1>2. ASSUME Extracted' = Extracted PROVE Single' = Single
  BY <1>2 DEF Single, SingledOut, Offered, Predecessors, Lower, Stem, TheOnly
<1> QED BY <1>1, <1>2

\* What is extracted may change while cycles are broken, and not after.
LEMMA BrokenStays ==
  ASSUME Broken, input' = input, Extracted' = Extracted, visited' = visited,
         phase' # "breaking" => visited = Instrument
  PROVE  Broken'
<1>1. NamedLinks' = NamedLinks
  BY InputStays
<1>2. BrokenIn(Extracted, visited)'
  BY <1>1 DEF Broken, BrokenIn, OneDropped
<1> QED BY <1>2 DEF Broken

\* A walk: it breaks what it comes to, and what others broke stays.
LEMMA WalkStep ==
  ASSUME IInv, WalkOn
  PROVE  IInv'
<1> DEFINE s == Least(Instrument \ visited)
           C == CycleOf(Walk(s))
           less == [i \in Instrument |->
             IF i \in C /\ amends[i] = Newest(C) THEN None ELSE amends[i]]
<1>1. phase = "breaking" /\ amends \in Links /\ inferred = {} /\ visited \subseteq Instrument
  BY DEF WalkOn, IInv, Shapes
<1>2. s \in Instrument \ visited
  <2>1. Instrument \ visited \in SUBSET Nat /\ Instrument \ visited # {}
    BY <1>1, Instruments DEF WalkOn
  <2> QED BY <2>1, LeastIsIn
<1>3. /\ amends' = less /\ visited' = visited \cup Walk(s)
      /\ input' = input /\ phase' = phase /\ inferred' = inferred
  BY DEF WalkOn
<1>4. BrokenIn(amends, visited)
  BY <1>1, NothingInferred DEF IInv, Broken
<1> HIDE DEF s
<1>5. less \in Links /\ BrokenIn(less, visited \cup Walk(s))
  BY <1>2, <1>4, WalkBreaks DEF IInv
<1>6. Walk(s) \subseteq Instrument
  BY DEF Walk
<1> HIDE DEF less
<1>7. Shapes'
  BY <1>1, <1>3, <1>5, <1>6 DEF IInv, Shapes
<1>8. Extracted' = less
  <2>1. less = [i \in Instrument |-> less[i]]
    BY <1>5 DEF Links
  <2> QED BY <1>1, <1>3, <2>1 DEF Extracted
<1>9. BrokenIn(Extracted, visited)'
  BY <1>3, <1>5, <1>8, InputStays DEF BrokenIn, OneDropped
<1> QED BY <1>1, <1>3, <1>7, <1>9 DEF IInv, Broken, Inferring

\* All instruments have been walked through.
LEMMA EndBreakingStep ==
  ASSUME IInv, EndBreaking
  PROVE  IInv'
<1>1. Shapes'
  BY DEF EndBreaking, IInv, Shapes
<1>2. Extracted' = Extracted
  BY DEF EndBreaking, Extracted
<1>3. Broken'
  BY <1>2, BrokenStays DEF EndBreaking, IInv
<1> QED BY <1>1, <1>3 DEF EndBreaking, IInv, Inferring

\* Pointers with some replaced by others are pointers.
LEMMA WithAreLinks ==
  ASSUME NEW links \in Links, NEW more, \A i \in DOMAIN more : more[i] \in Instrument
  PROVE  With(links, more) \in Links
BY DEF With, Links

\* Inferring: the extracted pointers have no cycle, so each cycle has a child.
LEMMA InferStep ==
  ASSUME IInv, Infer
  PROVE  IInv'
<1>1. /\ phase = "inferring" /\ amends \in Links /\ inferred = {} /\ visited = Instrument
      /\ Extracted = amends
  BY NothingInferred DEF Infer, IInv, Shapes, Broken
<1>2. /\ resolved' = Single /\ unchecked' = DOMAIN Single /\ phase' = "checking"
      /\ UNCHANGED <<input, amends, visited, inferred>>
  BY <1>1 DEF Infer, Single
<1>3. Shapes'
  BY <1>1, <1>2 DEF IInv, Shapes
<1>4. Extracted' = Extracted
  BY <1>2 DEF Extracted
<1>5. Single' = Single
  BY <1>2, <1>4, InputStays
<1>6. Broken'
  BY <1>1, <1>2, <1>4, BrokenStays DEF IInv
<1>7. Checked(With(amends, Single), DOMAIN Single, DOMAIN Single)
  <2>1. SinglesAreOpen
    BY <1>1, Singles
  <2>2. With(Extracted, Single) \in Links
    BY <2>1, WithAreLinks DEF SinglesAreOpen
  <2>3. \A c \in Instrument : c \notin Ancestors(Extracted, c)
    BY <1>1 DEF IInv, Broken, BrokenIn
  <2> QED BY <1>1, <2>1, <2>2, <2>3, CheckingStarts
<1>8. Checked(With(amends, resolved), DOMAIN resolved, unchecked)'
  BY <1>2, <1>4, <1>5, <1>7 DEF Checked, With
<1>9. (resolved = [i \in DOMAIN resolved |-> resolved[i]])'
  <2>1. Single = [i \in DOMAIN Single |-> Single[i]]
    BY DEF Single, SingledOut
  <2> QED BY <1>2, <2>1
<1> QED BY <1>2, <1>3, <1>6, <1>8, <1>9 DEF IInv, Inferring

\* Checking a child: kept when it is on no cycle, refused when it is.
LEMMA CheckStep ==
  ASSUME IInv, CheckNext
  PROVE  IInv'
<1> DEFINE i == Least(unchecked)
           links == With(amends, resolved)
<1>1. /\ phase = "checking" /\ amends \in Links /\ inferred = {} /\ Extracted = amends
      /\ resolved = [j \in DOMAIN resolved |-> resolved[j]]
      /\ Checked(links, DOMAIN resolved, unchecked)
  BY NothingInferred DEF CheckNext, IInv, Shapes, Inferring
<1>2. /\ unchecked' = unchecked \ {i}
      /\ resolved' = IF i \in Ancestors(links, i)
                     THEN [j \in DOMAIN resolved \ {i} |-> resolved[j]] ELSE resolved
      /\ UNCHANGED <<input, phase, amends, visited, inferred, others, family>>
  BY DEF CheckNext, ClosesCycle
<1>3. SinglesAreOpen
  BY <1>1, Singles
<1>4. unchecked \subseteq DOMAIN resolved /\ DOMAIN resolved \subseteq DOMAIN Single
      /\ DOMAIN Single \subseteq Instrument
  BY <1>1, <1>3 DEF Checked, SinglesAreOpen
<1>5. i \in unchecked
  <2>1. unchecked \in SUBSET Nat /\ unchecked # {}
    BY <1>4, Instruments DEF CheckNext
  <2> QED BY <2>1, LeastIsIn
<1>6. links \in Links
  <2>1. \A j \in DOMAIN resolved : links[j] = Single[j] /\ links[j] = resolved[j]
    BY <1>1, <1>4 DEF Checked, With
  <2>2. \A j \in DOMAIN resolved : resolved[j] \in Instrument
    BY <1>3, <1>4, <2>1 DEF SinglesAreOpen
  <2> QED BY <1>1, <2>2, WithAreLinks
<1>7. Shapes'
  BY <1>1, <1>2 DEF IInv, Shapes
<1>8. Extracted' = Extracted /\ Single' = Single
  <2>1. Extracted' = Extracted
    BY <1>2 DEF Extracted
  <2> QED BY <1>2, <2>1, InputStays
<1>9. Broken'
  BY <1>1, <1>2, <1>8, BrokenStays DEF IInv, Broken
<1> HIDE DEF i
<1>10. (resolved = [j \in DOMAIN resolved |-> resolved[j]])'
  <2>1. CASE i \in Ancestors(links, i)
    BY <1>2, <2>1
  <2>2. CASE i \notin Ancestors(links, i)
    BY <1>1, <1>2, <2>2
  <2> QED BY <2>1, <2>2
<1>11. Checked(links', DOMAIN resolved', unchecked \ {i})
  <2>1. CASE i \in Ancestors(links, i)
    <3> DEFINE less == [j \in Instrument |-> IF j = i THEN None ELSE links[j]]
    <3> HIDE DEF links
    <3>1. Checked(less, DOMAIN resolved \ {i}, unchecked \ {i})
      BY <1>1, <1>3, <1>5, <1>6, <2>1, ChildIsRefused
    <3>2. DOMAIN resolved' = DOMAIN resolved \ {i}
      BY <1>2, <2>1
    <3>3. links' = less
      <4>1. \A j \in Instrument :
              links'[j] = IF j \in DOMAIN resolved \ {i} THEN resolved[j] ELSE amends[j]
        BY <1>2, <2>1, <3>2 DEF links, With
      <4>2. \A j \in Instrument :
              links[j] = IF j \in DOMAIN resolved THEN resolved[j] ELSE amends[j]
        BY DEF links, With
      <4>3. amends[i] = None
        BY <1>1, <1>3, <1>4, <1>5 DEF SinglesAreOpen
      <4>4. \A j \in Instrument : links'[j] = less[j]
        BY <4>1, <4>2, <4>3
      <4>5. links' = [j \in Instrument |-> links'[j]]
        BY DEF links, With
      <4> QED BY <4>4, <4>5
    <3> QED BY <3>1, <3>2, <3>3
  <2>2. CASE i \notin Ancestors(links, i)
    <3>1. resolved' = resolved
      BY <1>2, <2>2
    <3>2. links' = links
      BY <1>2, <3>1 DEF With
    <3> HIDE DEF links
    <3>3. Checked(links, DOMAIN resolved, unchecked \ {i})
      BY <1>1, <1>5, <1>6, <2>2, ChildIsKept
    <3> QED BY <3>1, <3>2, <3>3
  <2> QED BY <2>1, <2>2
<1>12. Checked(links, DOMAIN resolved, unchecked)'
  <2> HIDE DEF links
  <2> QED BY <1>2, <1>8, <1>11 DEF Checked
<1> QED BY <1>1, <1>2, <1>7, <1>9, <1>10, <1>12 DEF IInv, Inferring

\* Filling: no cycle has a child left to look at, so there is no cycle.
LEMMA FillStep ==
  ASSUME IInv, Fill
  PROVE  IInv'
<1> DEFINE links == With(amends, resolved)
<1>1. /\ phase = "checking" /\ amends \in Links /\ inferred = {} /\ Extracted = amends
      /\ Checked(links, DOMAIN resolved, {})
  BY NothingInferred DEF Fill, IInv, Shapes, Inferring
<1>2. /\ amends' = links /\ inferred' = DOMAIN resolved /\ phase' = "rolling"
      /\ input' = input /\ visited' = visited
  BY DEF Fill
<1>3. SinglesAreOpen
  BY <1>1, Singles
<1>4. \A j \in DOMAIN resolved :
        j \in Instrument /\ resolved[j] \in Instrument /\ amends[j] = None
  <2>1. ASSUME NEW j \in DOMAIN resolved
        PROVE  /\ j \in Instrument /\ amends[j] = None
               /\ Single[j] = resolved[j] /\ Single[j] \in Instrument
    <3>1. j \in DOMAIN Single /\ links[j] = Single[j]
      BY <1>1 DEF Checked
    <3>2. j \in Instrument
      BY <1>3, <3>1 DEF SinglesAreOpen
    <3> QED BY <1>1, <1>3, <3>1, <3>2 DEF SinglesAreOpen, With
  <2> QED BY <2>1
<1>5. links \in Links
  BY <1>1, <1>4, WithAreLinks
<1>6. Shapes'
  <2> HIDE DEF links
  <2> QED BY <1>2, <1>5 DEF IInv, Shapes
<1>7. Extracted' = Extracted
  <2>1. \A j \in Instrument : Extracted'[j] = amends[j]
    BY <1>2, <1>4 DEF Extracted, With
  <2>2. /\ Extracted' = [j \in Instrument |-> Extracted'[j]]
        /\ amends = [j \in Instrument |-> amends[j]]
    BY <1>1 DEF Extracted, Links
  <2> QED BY <1>1, <2>1, <2>2
<1>8. Broken'
  BY <1>1, <1>2, <1>7, BrokenStays DEF IInv, Broken
<1>9. Checked(amends, inferred, {})'
  <2>1. Single' = Single
    BY <1>2, <1>7, InputStays
  <2> HIDE DEF links
  <2> QED BY <1>1, <1>2, <1>7, <2>1 DEF Checked
<1> QED BY <1>2, <1>6, <1>8, <1>9 DEF IInv, Inferring

\* The rollup: families are named after components.
LEMMA RollupStep ==
  ASSUME IInv, NEW links \in OtherLinks, Rollup(links)
  PROVE  IInv'
<1>1. /\ phase = "rolling" /\ phase' = "done" /\ others' = links
      /\ family' = [i \in Instrument |-> Least(Component(links, i))]
      /\ UNCHANGED <<input, amends, visited, resolved, unchecked, inferred>>
  BY DEF Rollup
<1>2. PairsOfInstruments(others')
  BY <1>1, LineageAssumption DEF PairsOfInstruments
<1>3. AreFamilies(family, others)'
  BY <1>1 DEF AreFamilies, Component, Neighbors, Pointers
<1>4. Shapes'
  BY <1>1, <1>2, <1>3 DEF IInv, Shapes, PairsOfInstruments
<1>5. Extracted' = Extracted /\ Single' = Single
  <2>1. Extracted' = Extracted
    BY <1>1 DEF Extracted
  <2> QED BY <1>1, <2>1, InputStays
<1>6. Broken'
  BY <1>1, <1>5, BrokenStays DEF IInv, Broken
<1>7. Checked(amends, inferred, {})'
  BY <1>1, <1>5 DEF IInv, Inferring, Checked
<1> QED BY <1>1, <1>4, <1>6, <1>7 DEF IInv, Inferring

\* Every step keeps the invariant.
LEMMA NextIInv == IInv /\ [Next]_vars => IInv'
<1> SUFFICES ASSUME IInv, [Next]_vars PROVE IInv'
  OBVIOUS
<1>1. CASE WalkOn
  BY <1>1, WalkStep
<1>2. CASE EndBreaking
  BY <1>2, EndBreakingStep
<1>3. CASE Infer
  BY <1>3, InferStep
<1>4. CASE CheckNext
  BY <1>4, CheckStep
<1>5. CASE Fill
  BY <1>5, FillStep
<1>6. CASE \E links \in OtherLinks : Rollup(links)
  BY <1>6, RollupStep
<1>7. CASE UNCHANGED vars
  <2>1. UNCHANGED <<input, phase, amends, visited, resolved, unchecked, inferred, others, family>>
    BY <1>7 DEF vars
  <2>2. Extracted' = Extracted /\ Single' = Single
    <3>1. Extracted' = Extracted
      BY <2>1 DEF Extracted
    <3> QED BY <2>1, <3>1, InputStays
  <2>3. ASSUME AreFamilies(family, others) PROVE AreFamilies(family, others)'
    <3>1. others' = others /\ family' = [i \in Instrument |-> Least(Component(others, i))]
      BY <2>1, <2>3 DEF AreFamilies
    <3> QED BY <2>1, <3>1 DEF AreFamilies, Component, Neighbors, Pointers
  <2>4. Shapes'
    BY <2>1, <2>3 DEF IInv, Shapes, PairsOfInstruments
  <2>5. Broken'
    BY <2>1, <2>2, BrokenStays DEF IInv, Broken
  <2>6. Inferring'
    BY <2>1, <2>2 DEF IInv, Inferring, Checked, With
  <2> QED BY <2>4, <2>5, <2>6 DEF IInv
<1> QED BY <1>1, <1>2, <1>3, <1>4, <1>5, <1>6, <1>7 DEF Next

-----------------------------------------------------------------------------
\* Acyclic pointers and families named after components: the property.
LEMMA IInvHeads == IInv => FamiliesHaveHeads
<1> SUFFICES ASSUME IInv, phase = "done" PROVE FamiliesHaveHeads
  BY DEF FamiliesHaveHeads
<1>1. amends \in Links /\ PairsOfInstruments(others) /\ AreFamilies(family, others)
  BY DEF IInv, Shapes
<1>2. OnCycle(amends) = {}
  BY DEF IInv, Inferring, Checked, OnCycle
<1>3. \A p \in Pointers(others) : family[p[1]] = family[p[2]]
  BY <1>1, FamiliesKeepPointers
<1>4. ASSUME NEW S \in (SUBSET Instrument) \ {{}},
             \A p \in Pointers(others) : p[1] \in S <=> p[2] \in S
      PROVE  {j \in Instrument : \E i \in S : family[i] = family[j]} = S
  BY <1>1, <1>4, FamiliesAreNoLarger
<1>5. \A i \in Instrument : \E j \in Instrument : family[j] = family[i] /\ IsHead(j)
  BY <1>1, <1>2, FamiliesHaveAHead
<1> QED BY <1>2, <1>3, <1>4, <1>5 DEF FamiliesHaveHeads

\* One pointer dropped of each named cycle: what is lost of the extracted ones.
LEMMA BrokenKeeps ==
  ASSUME Shapes, BrokenIn(Extracted, Instrument)
  PROVE  KeptExtracted
<1> DEFINE N == Derived(input.named)
           lost == {i \in Instrument : N[i] # None /\ Extracted[i] = None}
<1>1. N \in Links /\ N = NamedLinks
  BY DerivedAreLinks DEF Shapes, NamedLinks
<1> HIDE DEF N
<1>2. ASSUME NEW i \in Instrument
      PROVE  \/ Extracted[i] = N[i]
             \/ Extracted[i] = None /\ N[i] # None /\ i \in Ancestors(N, i)
  <2>1. i \in Ancestors(N, i) => N[i] # None
    BY <1>1, ParentsAncestors
  <2> QED BY <1>1, <2>1 DEF BrokenIn
<1>3. ASSUME NEW i \in Instrument, i \in Ancestors(N, i)
      PROVE  /\ Cardinality(lost \cap Ancestors(N, i)) = 1
             /\ \A j \in lost \cap Ancestors(N, i), k \in Ancestors(N, i) :
                  input.seen[k] <= input.seen[N[j]]
  <2>1. PICK d \in Ancestors(N, i) :
          /\ \A j \in Ancestors(N, i) : Extracted[j] = None <=> j = d
          /\ \A k \in Ancestors(N, i) : input.seen[k] <= input.seen[N[d]]
    BY <1>1, <1>3 DEF BrokenIn, OneDropped
  <2>2. \A j \in Ancestors(N, i) : j \in Instrument /\ N[j] # None
    BY <1>1, <1>3, CyclesStay
  <2>3. lost \cap Ancestors(N, i) = {d}
    BY <2>1, <2>2
  <2>4. Cardinality({d}) = 1
    BY FS_Singleton
  <2> HIDE DEF lost
  <2> QED BY <2>1, <2>3, <2>4
<1>4. \A i \in Instrument \ lost : Extracted[i] = N[i]
  BY <1>2
<1>5. lost \subseteq OnCycle(N)
  BY <1>2 DEF OnCycle
<1> HIDE DEF lost
<1>6. \A i \in OnCycle(N) : i \in Instrument /\ i \in Ancestors(N, i)
  BY DEF OnCycle
<1> QED BY <1>3, <1>4, <1>5, <1>6 DEF KeptExtracted, lost, N

\* What is refused has no pointer, and a line back to it.
LEMMA IInvLost == IInv => OnlyCyclesLosePointers
<1> SUFFICES ASSUME IInv, phase = "done" PROVE OnlyCyclesLosePointers
  BY DEF OnlyCyclesLosePointers
<1>1. KeptExtracted
  BY BrokenKeeps DEF IInv, Broken
<1>2. SinglesAreOpen
  BY Singles DEF IInv, Shapes
<1>3. Checked(amends, inferred, {})
  BY DEF IInv, Inferring
<1>4. inferred \subseteq DOMAIN Single
  BY <1>3 DEF Checked
<1>5. ASSUME NEW i \in DOMAIN Single, i \in inferred PROVE amends[i] = Single[i]
  BY <1>3, <1>5 DEF Checked
<1>6. ASSUME NEW i \in DOMAIN Single, i \notin inferred
      PROVE  amends[i] = None /\ i \in {Single[i]} \cup Ancestors(amends, Single[i])
  BY <1>2, <1>3, <1>6 DEF Checked, SinglesAreOpen, LeadsTo
<1> QED BY <1>1, <1>4, <1>5, <1>6 DEF OnlyCyclesLosePointers, Single

(* Theorem: after any rebuild, from any names, mentions, splits and           *)
(* retirements, no instrument amends itself over any number of steps, no      *)
(* pointer leaves a family, no family is larger than its pointers make it and *)
(* each has a head (instruments.py:30-37, 197-202).                           *)
THEOREM FamiliesAreHeaded == Spec => []FamiliesHaveHeads
<1>1. Spec => []IInv
  BY InitIInv, NextIInv, PTL DEF Spec
<1> QED BY <1>1, IInvHeads, PTL

(* Theorem: a rebuild loses one extracted pointer of each cycle, the one to   *)
(* what was first seen last, and no other; and refuses an inferred one only   *)
(* if its parent leads back to the child in what is published                 *)
(* (instruments.py:197-202, lineage_inference.py:131-136).                    *)
THEOREM PointersAreLostToCyclesOnly == Spec => []OnlyCyclesLosePointers
<1>1. Spec => []IInv
  BY InitIInv, NextIInv, PTL DEF Spec
<1> QED BY <1>1, IInvLost, PTL
=============================================================================
