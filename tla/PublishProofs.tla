--------------------------- MODULE PublishProofs ----------------------------
(***************************************************************************)
(* Proofs about Publish, for any mentions, CIKs, linkings, changes and     *)
(* late writers, and any number of forces, deaths and refused publishes.   *)
(***************************************************************************)
EXTENDS Publish, TLAPS, FiniteSetTheorems

(***************************************************************************)
(* Lemma: a bounded set of numbers has a greatest element.  (The least of  *)
(* its bounds is in it.)                                                   *)
(***************************************************************************)
LEMMA GreatestExists ==
  ASSUME NEW S \in SUBSET Nat, S # {}, NEW b \in Nat, \A x \in S : x <= b
  PROVE  /\ Greatest(S) \in S
         /\ \A x \in S : Greatest(S) >= x
<1> DEFINE Bounds == {n \in Nat : \A x \in S : x <= n}
<1>1. PICK n \in Bounds : \A y \in Bounds : ~(<<y, n>> \in OpToRel(<, Nat))
  <2>1. b \in Bounds /\ Bounds \subseteq Nat
    OBVIOUS
  <2> HIDE DEF Bounds
  <2> QED BY <2>1, NatLessThanWellFounded, WFMin
<1>2. \A y \in Bounds : ~(y < n)
  BY <1>1 DEF OpToRel
<1>3. n \in S
  <2> SUFFICES ASSUME n \notin S PROVE FALSE
    OBVIOUS
  <2>1. PICK x \in S : TRUE
    OBVIOUS
  <2>2. n > 0 /\ \A y \in S : y <= n - 1
    BY <2>1
  <2>3. n - 1 \in Bounds
    BY <2>2
  <2> QED BY <1>2, <2>3
<1> QED BY <1>3 DEF Greatest

LEMMA FiveTables ==
  /\ Len(Tables) = 5 /\ DOMAIN Tables = 1 .. 5
  /\ Table = {Tables[i] : i \in 1 .. 5}
BY DEF Tables, Table

(***************************************************************************)
(* The shapes EXCEPT relies on; only finitely many generations are kept.   *)
(***************************************************************************)
Shapes ==
  /\ pointer = [gen |-> pointer.gen, digest |-> pointer.digest]
  /\ pub = [pc |-> pub.pc, gen |-> pub.gen, previous |-> pub.previous,
            digest |-> pub.digest, force |-> pub.force, whole |-> pub.whole,
            items |-> pub.items, next |-> pub.next]
  /\ history = [present |-> history.present, outgoing |-> history.outgoing,
                alone |-> history.alone]
  /\ {pointer.gen, pub.gen, pub.previous, history.outgoing} \subseteq Nat
  /\ pub.pc \in {"idle", "tables", "guard", "copies", "digest", "prune"}
  /\ pub.next \in 1 .. 5
  /\ DOMAIN gens \subseteq Nat
  /\ \E b \in Nat : \A g \in DOMAIN gens : g <= b

(***************************************************************************)
(* How far a publish got: the generation it writes is newer than the ones  *)
(* readers may resolve, and whole before the pointer moves to it; the ones *)
(* it will keep are those.                                                 *)
(***************************************************************************)
Progress ==
  /\ history.outgoing <= pointer.gen
  /\ pub.pc \in {"tables", "guard"} =>
       pub.gen > pointer.gen /\ pub.previous = pointer.gen
  /\ pub.pc = "tables" =>
       IF pub.next = 1 THEN pub.gen \notin DOMAIN gens
       ELSE /\ pub.gen \in DOMAIN gens
            /\ DOMAIN gens[pub.gen] = {Tables[i] : i \in 1 .. pub.next - 1}
  /\ pub.pc = "guard" => WholeGeneration(pub.gen)
  /\ pub.pc \in {"copies", "digest", "prune"} =>
       pub.gen = pointer.gen /\ pub.previous = history.outgoing

IInv == Shapes /\ Progress /\ PointedGenerationsExist

LEMMA InitIInv == Init => IInv
BY DEF Init, PublishInit, NoPointer, IdlePublish, IInv, Shapes, Progress,
   PointedGenerationsExist

LEMMA NextGenIsNew ==
  ASSUME Shapes
  PROVE  /\ NextGen \in Nat /\ NextGen > pointer.gen
         /\ NextGen \notin DOMAIN gens
<1> DEFINE S == DOMAIN gens \cup {0, pointer.gen}
<1>1. PICK b \in Nat : \A g \in DOMAIN gens : g <= b
  BY DEF Shapes
<1>2. /\ S \in SUBSET Nat /\ S # {} /\ b + pointer.gen \in Nat
      /\ \A x \in S : x <= b + pointer.gen
  BY <1>1 DEF Shapes
<1>3. Greatest(S) \in S /\ \A x \in S : Greatest(S) >= x
  <2> HIDE DEF S
  <2> QED BY <1>2, GreatestExists
<1> QED BY <1>2, <1>3 DEF NextGen

(***************************************************************************)
(* Lemma: no step takes a generation from a reader.                        *)
(***************************************************************************)
LEMMA NextIInv == IInv /\ [Next]_vars => IInv'
<1> SUFFICES ASSUME IInv, [Next]_vars PROVE IInv'
  OBVIOUS
<1> USE DEF IInv
<1>1. ASSUME UNCHANGED <<pointer, gens, pub>>, history'.outgoing = history.outgoing,
             history' = [present |-> history'.present, outgoing |-> history'.outgoing,
                         alone |-> history'.alone]
      PROVE  IInv'
  BY <1>1 DEF Shapes, Progress, PointedGenerationsExist, WholeGeneration
<1>2. ASSUME NEW force, NEW whole, BeginPublish(force, whole),
             UNCHANGED <<pointer, gens, history>>
      PROVE  IInv'
  <2>1. CASE UNCHANGED pub
    BY <1>1, <1>2, <2>1 DEF Shapes
  <2>2. CASE pub' = [IdlePublish EXCEPT !.pc = "tables", !.gen = NextGen,
                       !.previous = pointer.gen, !.digest = SourceDigest,
                       !.force = force, !.whole = whole, !.items = ReferencedItems]
    <3>1. /\ pub'.pc = "tables" /\ pub'.gen = NextGen /\ pub'.previous = pointer.gen
          /\ pub'.next = 1
      BY <2>2 DEF IdlePublish
    <3>2. pub' = [pc |-> pub'.pc, gen |-> pub'.gen, previous |-> pub'.previous,
                  digest |-> pub'.digest, force |-> pub'.force, whole |-> pub'.whole,
                  items |-> pub'.items, next |-> pub'.next]
      BY <2>2 DEF IdlePublish
    <3>3. Shapes'
      BY <1>2, <3>1, <3>2, NextGenIsNew DEF Shapes
    <3> QED
      BY <1>2, <3>1, <3>3, NextGenIsNew
      DEF Progress, PointedGenerationsExist, WholeGeneration
  <2> QED BY <1>2, <2>1, <2>2 DEF BeginPublish
<1>3. CASE WriteTable
  <2> DEFINE t == Tables[pub.next]
             old == IF pub.gen \in DOMAIN gens THEN gens[pub.gen] ELSE [u \in {} |-> <<>>]
  <2>1. /\ pub.pc = "tables" /\ UNCHANGED <<pointer, history>>
        /\ DOMAIN gens' = DOMAIN gens \cup {pub.gen}
        /\ \A g \in DOMAIN gens \ {pub.gen} : gens'[g] = gens[g]
        /\ DOMAIN gens'[pub.gen] = DOMAIN old \cup {t}
        /\ pub' = IF pub.next = Len(Tables) THEN [pub EXCEPT !.pc = "guard", !.next = 1]
                  ELSE [pub EXCEPT !.next = @ + 1]
    BY <1>3 DEF WriteTable
  <2>2. DOMAIN old = {Tables[i] : i \in 1 .. pub.next - 1}
    <3>1. CASE pub.next = 1
      BY <2>1, <3>1 DEF Progress
    <3>2. CASE pub.next # 1
      BY <2>1, <3>2 DEF Progress
    <3> QED BY <3>1, <3>2
  <2>3. DOMAIN gens'[pub.gen] = {Tables[i] : i \in 1 .. pub.next}
    <3>1. 1 .. pub.next = (1 .. pub.next - 1) \cup {pub.next}
      BY DEF Shapes
    <3>2. {Tables[i] : i \in 1 .. pub.next} = {Tables[i] : i \in 1 .. pub.next - 1} \cup {t}
      BY <3>1, Zenon
    <3> QED BY <2>1, <2>2, <3>2, Zenon
  <2>4. /\ pub'.gen = pub.gen /\ pub'.previous = pub.previous
        /\ IF pub.next = 5 THEN pub'.pc = "guard" /\ pub'.next = 1
           ELSE pub'.pc = "tables" /\ pub'.next = pub.next + 1
    BY <2>1, FiveTables DEF Shapes
  <2>5. Shapes'
    <3>1. \E b \in Nat : \A g \in DOMAIN gens' : g <= b
      <4>1. PICK b \in Nat : \A g \in DOMAIN gens : g <= b
        BY DEF Shapes
      <4>2. b + pub.gen \in Nat /\ \A g \in DOMAIN gens' : g <= b + pub.gen
        BY <2>1, <4>1 DEF Shapes
      <4> QED BY <4>2
    <3>2. pub' = [pc |-> pub'.pc, gen |-> pub'.gen, previous |-> pub'.previous,
                  digest |-> pub'.digest, force |-> pub'.force, whole |-> pub'.whole,
                  items |-> pub'.items, next |-> pub'.next]
      BY <2>1 DEF Shapes
    <3> QED BY <2>1, <2>4, <3>1, <3>2 DEF Shapes
  <2>6. Progress'
    <3>1. CASE pub.next = 5
      BY <2>1, <2>3, <2>4, <3>1, FiveTables DEF Progress, WholeGeneration, Shapes
    <3>2. CASE pub.next # 5
      BY <2>1, <2>3, <2>4, <3>2 DEF Progress, Shapes
    <3> QED BY <3>1, <3>2
  <2>7. PointedGenerationsExist'
    BY <2>1 DEF PointedGenerationsExist, WholeGeneration, Progress, Shapes
  <2> QED BY <2>5, <2>6, <2>7
<1>4. CASE Refuse
  <2>1. /\ pub.pc = "guard" /\ UNCHANGED <<pointer, history>> /\ pub' = IdlePublish
        /\ DOMAIN gens' = DOMAIN gens \ {pub.gen}
        /\ \A g \in DOMAIN gens \ {pub.gen} : gens'[g] = gens[g]
    BY <1>4 DEF Refuse
  <2> QED
    BY <2>1 DEF IdlePublish, Shapes, Progress, PointedGenerationsExist, WholeGeneration
<1>5. CASE MovePointer
  <2>1. /\ pub.pc = "guard" /\ UNCHANGED gens /\ pointer' = [gen |-> pub.gen, digest |-> <<>>]
        /\ pub' = [pub EXCEPT !.pc = "copies"]
        /\ history' = [present |-> mentions, outgoing |-> pointer.gen, alone |-> ~pub.whole]
    BY <1>5 DEF MovePointer
  <2>2. /\ pub'.pc = "copies" /\ pub'.gen = pub.gen /\ pub'.previous = pub.previous
        /\ pub'.next = pub.next
        /\ pub' = [pc |-> pub'.pc, gen |-> pub'.gen, previous |-> pub'.previous,
                   digest |-> pub'.digest, force |-> pub'.force, whole |-> pub'.whole,
                   items |-> pub'.items, next |-> pub'.next]
    BY <2>1 DEF Shapes
  <2>3. Shapes'
    BY <2>1, <2>2 DEF Shapes
  <2> QED BY <2>1, <2>2, <2>3 DEF Progress, PointedGenerationsExist, WholeGeneration, Shapes
<1>6. CASE CopyLatest
  <2>1. /\ pub.pc = "copies" /\ UNCHANGED <<pointer, gens, history>>
        /\ pub' = IF pub.next = Len(Tables) THEN [pub EXCEPT !.pc = "digest", !.next = 1]
                  ELSE [pub EXCEPT !.next = @ + 1]
    BY <1>6 DEF CopyLatest
  <2>2. /\ pub'.pc \in {"copies", "digest"} /\ pub'.gen = pub.gen
        /\ pub'.previous = pub.previous /\ pub'.next \in 1 .. 5
        /\ pub' = [pc |-> pub'.pc, gen |-> pub'.gen, previous |-> pub'.previous,
                   digest |-> pub'.digest, force |-> pub'.force, whole |-> pub'.whole,
                   items |-> pub'.items, next |-> pub'.next]
    <3>1. CASE pub.next = 5
      <4>1. pub' = [pub EXCEPT !.pc = "digest", !.next = 1]
        BY <2>1, <3>1, FiveTables
      <4>2. pub' = [pc |-> "digest", gen |-> pub.gen, previous |-> pub.previous,
                    digest |-> pub.digest, force |-> pub.force, whole |-> pub.whole,
                    items |-> pub.items, next |-> 1]
        BY <4>1 DEF Shapes
      <4> QED BY <4>2
    <3>2. CASE pub.next # 5
      <4>1. pub' = [pub EXCEPT !.next = pub.next + 1] /\ pub.next + 1 \in 1 .. 5
        BY <2>1, <3>2, FiveTables DEF Shapes
      <4>2. pub' = [pc |-> pub.pc, gen |-> pub.gen, previous |-> pub.previous,
                    digest |-> pub.digest, force |-> pub.force, whole |-> pub.whole,
                    items |-> pub.items, next |-> pub.next + 1]
        BY <4>1 DEF Shapes
      <4> QED BY <2>1, <4>1, <4>2
    <3> QED BY <3>1, <3>2
  <2> QED BY <2>1, <2>2 DEF Progress, PointedGenerationsExist, WholeGeneration, Shapes
<1>7. CASE RecordDigest
  <2>1. /\ pub.pc = "digest" /\ UNCHANGED <<gens, history>>
        /\ pointer' = [pointer EXCEPT !.digest = pub.digest]
        /\ pub' = [pub EXCEPT !.pc = "prune"]
    BY <1>7 DEF RecordDigest
  <2>2. /\ pub'.pc = "prune" /\ pub'.gen = pub.gen
        /\ pub'.previous = pub.previous /\ pub'.next = pub.next
        /\ pointer'.gen = pointer.gen
        /\ pointer' = [gen |-> pointer'.gen, digest |-> pointer'.digest]
        /\ pub' = [pc |-> pub'.pc, gen |-> pub'.gen, previous |-> pub'.previous,
                   digest |-> pub'.digest, force |-> pub'.force, whole |-> pub'.whole,
                   items |-> pub'.items, next |-> pub'.next]
    BY <2>1 DEF Shapes
  <2> QED BY <2>1, <2>2 DEF Progress, PointedGenerationsExist, WholeGeneration, Shapes
<1>8. CASE Prune
  <2>1. /\ pub.pc = "prune" /\ UNCHANGED <<pointer, history>> /\ pub' = IdlePublish
        /\ DOMAIN gens' = DOMAIN gens \cap {pub.gen, pub.previous}
        /\ \A g \in DOMAIN gens \cap {pub.gen, pub.previous} : gens'[g] = gens[g]
    BY <1>8 DEF Prune
  <2> QED
    BY <2>1 DEF IdlePublish, Shapes, Progress, PointedGenerationsExist, WholeGeneration
<1>9. ASSUME pub' = IdlePublish, UNCHANGED <<pointer, gens, history>> PROVE IInv'
  BY <1>9 DEF IdlePublish, Shapes, Progress, PointedGenerationsExist, WholeGeneration
<1>10. CASE PublishMatched \/ \E force \in BOOLEAN : PublishAlone(force)
  BY <1>2, <1>10 DEF PublishMatched, PublishAlone
<1>11. ASSUME history' = [history EXCEPT !.present = @ \cap mentions'],
              UNCHANGED <<pointer, gens, latest, pub, late>>
       PROVE  IInv'
  BY <1>1, <1>11 DEF Shapes
<1>12. ASSUME UNCHANGED <<pointer, gens, pub, history>> PROVE IInv'
  BY <1>1, <1>12 DEF Shapes
<1>13. CASE Crash
  BY <1>9, <1>13 DEF Crash
<1>14. CASE StopAtMatch \/ \E m \in Late : WriteLate(m)
  BY <1>12, <1>14 DEF StopAtMatch, WriteLate, publishVars
<1>15. CASE UNCHANGED vars \/ UNCHANGED publishVars
  BY <1>12, <1>15 DEF vars, publishVars
<1> QED
  BY <1>3, <1>4, <1>5, <1>6, <1>7, <1>8, <1>10, <1>11, <1>13, <1>14, <1>15
  DEF Next, PublishStep

(***************************************************************************)
(* Theorem: the generations readers may resolve are whole, whenever and    *)
(* however often publishes die or are refused.                             *)
(***************************************************************************)
THEOREM ReadersFindTheirGeneration == Spec => []PointedGenerationsExist
<1>1. IInv => PointedGenerationsExist
  BY DEF IInv
<1> QED BY InitIInv, NextIInv, <1>1, PTL DEF Spec

-----------------------------------------------------------------------------
(***************************************************************************)
(* What a publish puts into its files, and what its digest stands for.     *)
(* The sources of a publish are read while only late writers are about, so *)
(* a file has what the digest was taken of, the mentions file maybe more.  *)
(***************************************************************************)
LateMentionsStay == \A m \in Late : Answers[ItemOf[m]] = {}

Quiet == LateMentionsStay \/ late = {}

Fits(file, t, digest, more) ==
  /\ t = "items"       => file = <<{ItemOf[m] : m \in digest[1]}>>
  /\ t = "instruments" => file = <<digest[3]>>
  /\ t = "mentions"    => \E ms : /\ file = <<ms>>
                                  /\ digest[1] \subseteq ms /\ ms \subseteq digest[1] \cup more
  /\ t = "edges"       => file = <<digest[2]>>
  /\ t = "redirects"   => file = <<digest[4]>>

Made(files, digest, n, more) ==
  \A i \in 1 .. n : Fits(files[Tables[i]], Tables[i], digest, more)

Copied(files, n, copies) == \A i \in 1 .. n : copies[Tables[i]] = files[Tables[i]]

GateInv ==
  /\ late \subseteq mentions /\ late \subseteq Late
  /\ latest = [t \in Table |-> latest[t]]
  /\ pub.pc # "idle" =>
       /\ run = Idle
       /\ pub.digest = <<pub.digest[1], edges, instruments, redirects, code>>
       /\ pub.items = {ItemOf[m] : m \in pub.digest[1]}
       /\ pub.digest[1] \subseteq mentions /\ mentions \subseteq pub.digest[1] \cup late
  /\ pub.pc = "tables" => Made(gens[pub.gen], pub.digest, pub.next - 1, late)
  /\ pub.pc \in {"guard", "copies", "digest"} => Made(gens[pub.gen], pub.digest, 5, late)
  /\ pub.pc = "guard" => pub.next = 1
  /\ pub.pc = "copies" => Copied(gens[pub.gen], pub.next - 1, latest)
  /\ pub.pc = "digest" => Copied(gens[pub.gen], 5, latest)
  /\ pub.pc \in {"copies", "digest"} => pointer.gen # 0 /\ pointer.digest = <<>>
  /\ pointer.digest # <<>> =>
       /\ pointer.gen # 0
       /\ Made(gens[pointer.gen], pointer.digest, 5, late)
       /\ Copied(gens[pointer.gen], 5, latest)

LEMMA MadeGrows ==
  \A files, digest, n, more, all :
    more \subseteq all /\ Made(files, digest, n, more) => Made(files, digest, n, all)
<1> SUFFICES ASSUME NEW files, NEW digest, NEW n, NEW more, NEW all, more \subseteq all,
                    Made(files, digest, n, more), NEW i \in 1 .. n
             PROVE  Fits(files[Tables[i]], Tables[i], digest, all)
  BY DEF Made
<1>1. Fits(files[Tables[i]], Tables[i], digest, more)
  BY DEF Made
<1> QED BY <1>1 DEF Fits

LEMMA InitGateInv == Init => GateInv
<1> SUFFICES ASSUME Init PROVE GateInv
  OBVIOUS
<1>1. /\ pub.pc = "idle" /\ late = {} /\ pointer.digest = <<>>
      /\ latest = [t \in Table |-> NoFile]
  BY DEF Init, PublishInit, IdlePublish, NoPointer
<1> QED BY <1>1 DEF GateInv

LEMMA TablesAreTables == \A i \in 1 .. 5 : Tables[i] \in Table
BY FiveTables, Zenon

(***************************************************************************)
(* Lemma: steps that leave the files, and the publish, as they are.        *)
(***************************************************************************)
LEMMA GateKept ==
  ASSUME GateInv, UNCHANGED <<pointer, gens, latest>>,
         late \subseteq late', late' \subseteq mentions', late' \subseteq Late,
         \/ pub' = IdlePublish
         \/ UNCHANGED pub /\ pub.pc = "idle"
         \/ /\ UNCHANGED <<pub, run, edges, instruments, redirects, code>>
            /\ mentions \subseteq mentions' /\ mentions' \subseteq mentions \cup late'
  PROVE  GateInv'
<1>1. \A files, digest, n : Made(files, digest, n, late) => Made(files, digest, n, late')
  BY MadeGrows
<1>2. CASE pub' = IdlePublish
  BY <1>1, <1>2 DEF GateInv, IdlePublish
<1>3. CASE UNCHANGED pub /\ pub.pc = "idle"
  BY <1>1, <1>3 DEF GateInv
<1>4. CASE /\ UNCHANGED <<pub, run, edges, instruments, redirects, code>>
           /\ mentions \subseteq mentions' /\ mentions' \subseteq mentions \cup late'
  BY <1>1, <1>4 DEF GateInv
<1> QED BY <1>2, <1>3, <1>4

LEMMA BeginGate ==
  ASSUME IInv, GateInv, pub.pc = "idle", NEW force, NEW whole, BeginPublish(force, whole),
         run' = Idle,
         UNCHANGED <<mentions, code, edges, instruments, redirects, pointer, gens, latest, late>>
  PROVE  GateInv'
<1>1. CASE UNCHANGED pub
  BY <1>1, GateKept DEF GateInv
<1>2. CASE pub' = [IdlePublish EXCEPT !.pc = "tables", !.gen = NextGen,
                     !.previous = pointer.gen, !.digest = SourceDigest,
                     !.force = force, !.whole = whole, !.items = ReferencedItems]
  <2>1. pub'.pc = "tables" /\ pub'.digest = SourceDigest /\ pub'.items = ReferencedItems
        /\ pub'.next = 1
    BY <1>2 DEF IdlePublish
  <2>2. /\ pub'.digest = <<mentions, edges, instruments, redirects, code>>
        /\ pub'.items = {ItemOf[m] : m \in mentions}
    BY <2>1 DEF SourceDigest, ReferencedItems
  <2>3. Made(gens[pub.gen], pub.digest, pub.next - 1, late)'
    BY <2>1 DEF Made
  <2> QED BY <2>1, <2>2, <2>3 DEF GateInv
<1> QED BY <1>1, <1>2 DEF BeginPublish

LEMMA WriteTableGate ==
  ASSUME IInv, GateInv, WriteTable
  PROVE  GateInv'
<1> DEFINE t == Tables[pub.next]
           file == <<Source(t, pub.items)>>
           old == IF pub.gen \in DOMAIN gens THEN gens[pub.gen] ELSE [u \in {} |-> <<>>]
<1>1. /\ pub.pc = "tables" /\ UNCHANGED <<matchVars, pointer, latest, late>>
      /\ gens' = [g \in DOMAIN gens \cup {pub.gen} |->
                   IF g = pub.gen
                   THEN [u \in DOMAIN old \cup {t} |-> IF u = t THEN file ELSE old[u]]
                   ELSE gens[g]]
      /\ pub' = IF pub.next = Len(Tables) THEN [pub EXCEPT !.pc = "guard", !.next = 1]
                ELSE [pub EXCEPT !.next = @ + 1]
  BY DEF WriteTable
<1>2. pub.next \in 1 .. 5 /\ pub.gen > pointer.gen /\ {pub.gen, pointer.gen} \subseteq Nat
  BY <1>1 DEF IInv, Shapes, Progress
<1>3. \A i \in 1 .. pub.next - 1 : /\ Tables[i] # t /\ Tables[i] \in DOMAIN old
                                   /\ old[Tables[i]] = gens[pub.gen][Tables[i]]
  <2>1. \A i \in 1 .. pub.next - 1 : Tables[i] # t
    BY <1>2 DEF Tables
  <2>2. CASE pub.next = 1
    BY <2>2
  <2>3. CASE pub.next # 1
    <3>1. old = gens[pub.gen] /\ DOMAIN old = {Tables[i] : i \in 1 .. pub.next - 1}
      BY <1>1, <2>3 DEF IInv, Progress
    <3> QED BY <2>1, <3>1
  <2> QED BY <2>2, <2>3
<1>4. gens'[pub.gen][t] = file /\ \A i \in 1 .. pub.next - 1 :
        gens'[pub.gen][Tables[i]] = gens[pub.gen][Tables[i]]
  <2> HIDE DEF t, file
  <2>1. gens'[pub.gen] = [u \in DOMAIN old \cup {t} |-> IF u = t THEN file ELSE old[u]]
    BY <1>1
  <2> HIDE DEF old
  <2> QED BY <1>3, <2>1
<1>5. Fits(file, t, pub.digest, late)
  <2>1. /\ pub.digest[2] = edges /\ pub.digest[3] = instruments /\ pub.digest[4] = redirects
        /\ pub.items = {ItemOf[m] : m \in pub.digest[1]}
        /\ pub.digest[1] \subseteq mentions /\ mentions \subseteq pub.digest[1] \cup late
    <3> DEFINE ms == pub.digest[1]
    <3>1. pub.digest = <<ms, edges, instruments, redirects, code>>
      BY <1>1 DEF GateInv
    <3> HIDE DEF ms
    <3>2. pub.digest[2] = edges /\ pub.digest[3] = instruments /\ pub.digest[4] = redirects
      BY <3>1
    <3> QED BY <1>1, <3>2 DEF GateInv
  <2>2. t \in {"items", "instruments", "mentions", "edges", "redirects"}
    BY <1>2 DEF Tables
  <2> HIDE DEF t
  <2> QED BY <2>1, <2>2 DEF Fits, Source
<1>6. /\ pub'.gen = pub.gen /\ pub'.digest = pub.digest /\ pub'.items = pub.items
      /\ IF pub.next = 5 THEN pub'.pc = "guard" /\ pub'.next = 1
         ELSE pub'.pc = "tables" /\ pub'.next = pub.next + 1
  BY <1>1, FiveTables DEF IInv, Shapes
<1>7. \A i \in 1 .. pub.next : Fits(gens'[pub.gen][Tables[i]], Tables[i], pub.digest, late)
  <2> SUFFICES ASSUME NEW i \in 1 .. pub.next
               PROVE  Fits(gens'[pub.gen][Tables[i]], Tables[i], pub.digest, late)
    OBVIOUS
  <2>1. CASE i = pub.next
    BY <1>4, <1>5, <2>1
  <2>2. CASE i # pub.next
    <3>1. i \in 1 .. pub.next - 1
      BY <1>2, <2>2
    <3>2. Fits(gens[pub.gen][Tables[i]], Tables[i], pub.digest, late)
      BY <1>1, <3>1 DEF GateInv, Made
    <3> QED BY <1>4, <3>1, <3>2
  <2> QED BY <2>1, <2>2
<1>8. Made(gens'[pub.gen], pub.digest, pub.next, late)
  BY <1>7 DEF Made
<1>9. /\ pub'.pc = "tables" => Made(gens'[pub'.gen], pub'.digest, pub'.next - 1, late')
      /\ pub'.pc = "guard" => Made(gens'[pub'.gen], pub'.digest, 5, late')
  <2> HIDE DEF t, file, old
  <2>1. CASE pub.next = 5
    BY <1>1, <1>6, <1>8, <2>1
  <2>2. CASE pub.next # 5
    <3>1. pub'.next - 1 = pub.next
      BY <1>2, <1>6, <2>2
    <3> QED BY <1>1, <1>6, <1>8, <2>2, <3>1
  <2> QED BY <2>1, <2>2
<1>10. pointer.digest # <<>> =>
         /\ gens'[pointer.gen] = gens[pointer.gen]
         /\ Made(gens'[pointer.gen], pointer.digest, 5, late)
  <2> SUFFICES ASSUME pointer.digest # <<>>
               PROVE  /\ gens'[pointer.gen] = gens[pointer.gen]
                      /\ Made(gens'[pointer.gen], pointer.digest, 5, late)
    OBVIOUS
  <2>1. pointer.gen # pub.gen /\ pointer.gen \in DOMAIN gens
    BY <1>2 DEF IInv, GateInv, PointedGenerationsExist, WholeGeneration
  <2>2. gens'[pointer.gen] = gens[pointer.gen]
    BY <1>1, <2>1
  <2> QED BY <1>1, <2>2 DEF GateInv
<1>11. pub'.pc \in {"tables", "guard"} /\ (pub'.pc = "guard" => pub'.next = 1)
  BY <1>6
<1> QED
  BY <1>1, <1>6, <1>9, <1>10, <1>11 DEF GateInv, matchVars

LEMMA NextGateInv == Quiet /\ IInv /\ GateInv /\ [Next]_vars => GateInv'
<1> SUFFICES ASSUME Quiet, IInv, GateInv, [Next]_vars PROVE GateInv'
  OBVIOUS
<1>1. CASE PublishMatched \/ \E force \in BOOLEAN : PublishAlone(force)
  BY <1>1, BeginGate DEF PublishMatched, PublishAlone
<1>2. CASE WriteTable
  BY <1>2, WriteTableGate
<1>3. CASE Refuse
  <2>1. /\ pub.pc = "guard" /\ UNCHANGED <<matchVars, pointer, latest, late>>
        /\ pub' = IdlePublish
        /\ gens' = [g \in DOMAIN gens \ {pub.gen} |-> gens[g]]
    BY <1>3 DEF Refuse
  <2>2. pointer.digest # <<>> => gens'[pointer.gen] = gens[pointer.gen]
    BY <2>1 DEF GateInv, IInv, Shapes, Progress, PointedGenerationsExist, WholeGeneration
  <2> QED BY <2>1, <2>2 DEF GateInv, IdlePublish, matchVars
<1>4. CASE MovePointer
  <2>1. /\ pub.pc = "guard" /\ UNCHANGED <<matchVars, gens, latest, late>>
        /\ pointer'.digest = <<>>
        /\ pointer'.gen = pub.gen /\ pub' = [pub EXCEPT !.pc = "copies"]
    BY <1>4 DEF MovePointer
  <2>2. /\ pub'.pc = "copies" /\ pub'.gen = pub.gen /\ pub'.digest = pub.digest
        /\ pub'.next = 1 /\ pub'.items = pub.items
    BY <2>1 DEF GateInv, IInv, Shapes
  <2>3. Made(gens'[pub'.gen], pub'.digest, 5, late')
    <3>1. Made(gens[pub.gen], pub.digest, 5, late)
      BY <2>1 DEF GateInv
    <3>2. /\ gens'[pub'.gen] = gens[pub.gen] /\ pub'.digest = pub.digest /\ late' = late
      BY <2>1, <2>2
    <3> QED BY <3>1, <3>2
  <2>4. Copied(gens'[pub'.gen], pub'.next - 1, latest')
    BY <2>2 DEF Copied
  <2>5. pointer'.gen # 0
    BY <2>1 DEF IInv, Shapes, Progress
  <2> QED BY <2>1, <2>2, <2>3, <2>4, <2>5 DEF GateInv, matchVars
<1>5. CASE CopyLatest
  <2> DEFINE t == Tables[pub.next]
  <2>1. /\ pub.pc = "copies" /\ UNCHANGED <<matchVars, pointer, gens, late>>
        /\ latest' = [latest EXCEPT ![t] = gens[pub.gen][t]]
        /\ pub' = IF pub.next = Len(Tables) THEN [pub EXCEPT !.pc = "digest", !.next = 1]
                  ELSE [pub EXCEPT !.next = @ + 1]
    BY <1>5 DEF CopyLatest
  <2>2. /\ pub'.gen = pub.gen /\ pub'.digest = pub.digest /\ pub'.items = pub.items
        /\ IF pub.next = 5 THEN pub'.pc = "digest" /\ pub'.next = 1
           ELSE pub'.pc = "copies" /\ pub'.next = pub.next + 1
    BY <2>1, FiveTables DEF IInv, Shapes
  <2>3. pub.next \in 1 .. 5 /\ t \in Table /\ latest = [u \in Table |-> latest[u]]
    BY TablesAreTables DEF IInv, Shapes, GateInv
  <2>4. latest' = [u \in Table |-> latest'[u]]
    BY <2>1, <2>3
  <2>5. \A i \in 1 .. pub.next : latest'[Tables[i]] = gens[pub.gen][Tables[i]]
    <3> SUFFICES ASSUME NEW i \in 1 .. pub.next
                 PROVE  latest'[Tables[i]] = gens[pub.gen][Tables[i]]
      OBVIOUS
    <3>1. Tables[i] \in Table
      BY <2>3, TablesAreTables
    <3>2. i # pub.next => latest[Tables[i]] = gens[pub.gen][Tables[i]]
      BY <2>1, <2>3 DEF GateInv, Copied
    <3> HIDE DEF t
    <3>3. CASE Tables[i] = t
      BY <2>1, <2>3, <3>3
    <3>4. CASE Tables[i] # t
      BY <2>1, <2>3, <3>1, <3>2, <3>4 DEF t
    <3> QED BY <3>3, <3>4
  <2>6. /\ pub'.pc = "copies" => Copied(gens'[pub'.gen], pub'.next - 1, latest')
        /\ pub'.pc = "digest" => Copied(gens'[pub'.gen], 5, latest')
    <3>1. Copied(gens[pub.gen], pub.next, latest')
      BY <2>5 DEF Copied
    <3> HIDE DEF t
    <3>2. pub.next # 5 => pub'.next - 1 = pub.next
      BY <2>2, <2>3
    <3>3. CASE pub.next = 5
      BY <2>1, <2>2, <3>1, <3>3
    <3>4. CASE pub.next # 5
      BY <2>1, <2>2, <3>1, <3>2, <3>4
    <3> QED BY <3>3, <3>4
  <2>7. /\ Made(gens'[pub'.gen], pub'.digest, 5, late')
        /\ pointer'.gen # 0 /\ pointer'.digest = <<>>
    <3> HIDE DEF t
    <3> QED BY <2>1, <2>2 DEF GateInv
  <2> HIDE DEF t
  <2> QED BY <2>1, <2>2, <2>4, <2>6, <2>7 DEF GateInv, matchVars
<1>6. CASE RecordDigest
  <2>1. /\ pub.pc = "digest" /\ UNCHANGED <<matchVars, gens, latest, late>>
        /\ pointer'.gen = pointer.gen /\ pointer'.digest = pub.digest
        /\ pub'.pc = "prune" /\ pub'.digest = pub.digest /\ pub'.items = pub.items
    BY <1>6 DEF RecordDigest, IInv, Shapes
  <2>2. pub.gen = pointer.gen /\ pointer.gen # 0
    BY <2>1 DEF IInv, Progress, GateInv
  <2>3. /\ Made(gens'[pointer'.gen], pointer'.digest, 5, late')
        /\ Copied(gens'[pointer'.gen], 5, latest')
    <3>1. Made(gens[pub.gen], pub.digest, 5, late) /\ Copied(gens[pub.gen], 5, latest)
      BY <2>1 DEF GateInv
    <3> QED BY <2>1, <2>2, <3>1
  <2> QED BY <2>1, <2>2, <2>3 DEF GateInv, matchVars
<1>7. CASE Prune
  <2>1. /\ pub.pc = "prune" /\ UNCHANGED <<matchVars, pointer, latest, late>>
        /\ pub' = IdlePublish
        /\ gens' = [g \in DOMAIN gens \cap {pub.gen, pub.previous} |-> gens[g]]
    BY <1>7 DEF Prune
  <2>2. pointer.digest # <<>> => gens'[pointer.gen] = gens[pointer.gen]
    BY <2>1 DEF GateInv, IInv, Shapes, Progress, PointedGenerationsExist, WholeGeneration
  <2> QED BY <2>1, <2>2 DEF GateInv, IdlePublish, matchVars
<1>8. CASE Crash
  BY <1>8, GateKept DEF Crash, GateInv
<1>9. ASSUME NEW m \in Late, WriteLate(m) PROVE GateInv'
  BY <1>9, GateKept DEF WriteLate, GateInv
<1>10. ASSUME NEW i \in Item, NEW found \in Answers[i], Extract(i, found), pub.pc = "idle",
              UNCHANGED <<pointer, gens, latest, pub, late>>
       PROVE  GateInv'
  <2>1. late' \subseteq mentions'
    <3>1. late \subseteq mentions /\ late \subseteq Late /\ late' = late
      BY <1>10 DEF GateInv
    <3>2. \A m \in late : ItemOf[m] # i
      BY <1>10, <3>1 DEF Quiet, LateMentionsStay
    <3>3. mentions' = {m \in mentions : ItemOf[m] # i} \cup found
      BY <1>10 DEF Extract
    <3> QED BY <3>1, <3>2, <3>3
  <2> QED BY <1>10, <2>1, GateKept DEF GateInv
<1>11. CASE StopAtMatch
  BY <1>11, GateKept DEF StopAtMatch, publishVars, GateInv
<1>12. ASSUME pub.pc = "idle", Deploy \/ \E force, remint \in BOOLEAN : StartMatch(force, remint),
              UNCHANGED publishVars
       PROVE  GateInv'
  <2>1. UNCHANGED mentions
    BY <1>12 DEF Deploy, StartMatch
  <2> QED BY <1>12, <2>1, GateKept DEF publishVars, GateInv
<1>13. ASSUME MatchStep, UNCHANGED publishVars PROVE GateInv'
  <2>1. UNCHANGED mentions /\ run.pc # "idle"
    BY <1>13 DEF MatchStep, WriteRedirects, WriteInstruments, WriteEdges, WriteDigests,
      WriteManifest, DeleteMarker
  <2>2. pub.pc = "idle"
    BY <2>1 DEF GateInv, Idle
  <2> QED BY <1>13, <2>1, <2>2, GateKept DEF publishVars, GateInv
<1>14. CASE UNCHANGED vars
  BY <1>14 DEF GateInv, vars, publishVars, matchVars
<1> QED
  BY <1>1, <1>2, <1>3, <1>4, <1>5, <1>6, <1>7, <1>8, <1>9, <1>10, <1>11, <1>12, <1>13, <1>14
  DEF Next, PublishStep

(***************************************************************************)
(* Theorem: a publish that the gate skips would publish what is published  *)
(* already, provided that what late writers wrote stays (no item of theirs *)
(* is extracted again): a digest taken before anything is read never       *)
(* stands for less than the files hold.                                    *)
(***************************************************************************)
THEOREM SkippedPublishesChangeNothing == LateMentionsStay => (Spec => []SkippedPublishIsCurrent)
<1> SUFFICES ASSUME LateMentionsStay PROVE Spec => []SkippedPublishIsCurrent
  OBVIOUS
<1>1. IInv /\ GateInv => SkippedPublishIsCurrent
  <2> SUFFICES ASSUME GateInv, NothingNew, NEW t \in Table
               PROVE  /\ File(pointer.gen, t) = Source(t, ReferencedItems)
                      /\ latest[t] = gens[pointer.gen][t]
    BY DEF SkippedPublishIsCurrent
  <2>1. PICK i \in 1 .. 5 : t = Tables[i]
    BY FiveTables
  <2>2. /\ pointer.digest # <<>>
        /\ pointer.digest = <<mentions, edges, instruments, redirects, code>>
    BY DEF NothingNew, SourceDigest
  <2>3. latest[t] = gens[pointer.gen][t] /\ Fits(gens[pointer.gen][t], t, pointer.digest, late)
    BY <2>1, <2>2 DEF GateInv, Made, Copied
  <2>4. late \subseteq mentions
    BY DEF GateInv
  <2>5. t \in {"items", "instruments", "mentions", "edges", "redirects"}
    BY DEF Table, Tables
  <2>6. /\ pointer.digest[1] = mentions /\ pointer.digest[2] = edges
        /\ pointer.digest[3] = instruments /\ pointer.digest[4] = redirects
    BY <2>2
  <2> DEFINE file == gens[pointer.gen][t]
  <2>7. file = <<Source(t, ReferencedItems)>>
    <3>1. Fits(file, t, pointer.digest, late)
      BY <2>3
    <3> HIDE DEF file
    <3>2. CASE t = "mentions"
      <4>1. PICK ms : /\ file = <<ms>>
                      /\ mentions \subseteq ms /\ ms \subseteq mentions \cup late
        BY <2>6, <3>1, <3>2 DEF Fits
      <4>2. ms = mentions
        BY <2>4, <4>1
      <4> QED BY <3>2, <4>1, <4>2 DEF Source
    <3>3. CASE t = "items"
      BY <2>6, <3>1, <3>3 DEF Fits, Source, ReferencedItems
    <3>4. CASE t \in {"instruments", "edges", "redirects"}
      BY <2>6, <3>1, <3>4 DEF Fits, Source
    <3> QED BY <2>5, <3>2, <3>3, <3>4
  <2> QED BY <2>3, <2>7 DEF File
<1>2. (IInv /\ GateInv) /\ [Next]_vars => (IInv /\ GateInv)'
  BY NextIInv, NextGateInv DEF Quiet
<1>3. Init => IInv /\ GateInv
  BY InitIInv, InitGateInv
<1> QED BY <1>1, <1>2, <1>3, PTL DEF Spec

-----------------------------------------------------------------------------
(***************************************************************************)
(* What match makes of a CIK, in four steps: clusters divide its mentions  *)
(* up; no id is carried to two of them; ids that are minted are new; so    *)
(* the tables agree.                                                       *)
(***************************************************************************)
LEMMA LeastIsIn ==
  ASSUME NEW S \in SUBSET Nat, S # {}
  PROVE  Least(S) \in S /\ \A x \in S : Least(S) <= x
<1>1. PICK n \in S : \A y \in S : ~(<<y, n>> \in OpToRel(<, Nat))
  BY NatLessThanWellFounded, WFMin
<1>2. \A y \in S : ~(y < n)
  BY <1>1 DEF OpToRel
<1>3. \A y \in S : n <= y
  BY <1>2
<1>4. \A x \in S : (\A y \in S : x <= y) => x = n
  BY <1>3
<1> QED BY <1>3, <1>4 DEF Least

(***************************************************************************)
(* Lemma: of some finite sets, one has no other one as a subset.           *)
(***************************************************************************)
FiniteSubsets(Bad, S) == \A T \in Bad : T \subseteq S /\ IsFiniteSet(T)

Smallest(T, Bad) == \A U \in Bad : U \subseteq T => U = T

LEMMA SmallestExists ==
  ASSUME NEW S, NEW Bad, FiniteSubsets(Bad, S), Bad # {}
  PROVE  \E T \in Bad : Smallest(T, Bad)
<1>1. Bad \subseteq FiniteSubsetsOf(S)
  BY DEF FiniteSubsetsOf, FiniteSubsets
<1>2. PICK T \in Bad : \A U \in Bad : ~(<<U, T>> \in StrictSubsetOrdering(S))
  BY <1>1, FS_StrictSubsetOrderingWellFounded, WFMin
<1>3. Smallest(T, Bad)
  BY <1>2 DEF StrictSubsetOrdering, FiniteSubsets, Smallest
<1> QED BY <1>3

LEMMA FiniteIsBounded ==
  ASSUME NEW S \in SUBSET Nat, IsFiniteSet(S)
  PROVE  \E b \in Nat : \A x \in S : x <= b
<1> DEFINE Bounded(T) == \E b \in Nat : \A x \in T : x <= b
           Bad == {T \in SUBSET S : ~Bounded(T)}
<1>1. SUFFICES ASSUME Bad # {} PROVE FALSE
  OBVIOUS
<1>2. FiniteSubsets(Bad, S)
  BY FS_Subset DEF FiniteSubsets
<1>3. PICK T \in Bad : Smallest(T, Bad)
  <2> HIDE DEF Bad
  <2> QED BY <1>1, <1>2, SmallestExists
<1>4. PICK x \in T : TRUE
  BY <1>3
<1>5. Bounded(T \ {x})
  <2>1. T \ {x} \notin Bad
    <3> HIDE DEF Bad
    <3> QED BY <1>3, <1>4 DEF Smallest
  <2> QED BY <1>3, <2>1
<1>6. PICK b \in Nat : \A y \in T \ {x} : y <= b
  BY <1>5
<1>7. b + x \in Nat /\ \A y \in T : y <= b + x
  BY <1>3, <1>6
<1> QED BY <1>3, <1>7

(***************************************************************************)
(* Lemma: the image of a finite set is finite.                             *)
(***************************************************************************)
LEMMA ImageIsFinite ==
  ASSUME NEW S, IsFiniteSet(S), NEW f, DOMAIN f = S
  PROVE  IsFiniteSet({f[x] : x \in S})
<1> DEFINE T == {f[x] : x \in S}
           g == [x \in S |-> f[x]]
<1>1. g \in Surjection(S, T)
  BY DEF Surjection
<1> HIDE DEF T, g
<1>2. IsFiniteSet(T)
  BY <1>1, FS_Surjection
<1> QED BY <1>2 DEF T

-----------------------------------------------------------------------------
(***************************************************************************)
(* Clusters divide the mentions up, whatever links them.                   *)
(***************************************************************************)
Divides(ks, ms) ==
  /\ \A k \in ks : k # {} /\ k \subseteq ms
  /\ \A k, l \in ks : k # l => k \cap l = {}
  /\ UNION ks = ms

LEMMA ClusteringDivides == \A ms, links : Divides(Clustering(ms, links), ms)
<1> SUFFICES ASSUME NEW ms, NEW links PROVE Divides(Clustering(ms, links), ms)
  OBVIOUS
<1> DEFINE seed == SeedOf(ms, links)
<1>1. Clustering(ms, links) = {{m \in ms : seed[m] = s} : s \in {seed[m] : m \in ms}}
  BY DEF Clustering
<1> HIDE DEF seed
<1>2. \A k \in Clustering(ms, links) : k # {} /\ k \subseteq ms
  BY <1>1
<1>3. \A k, l \in Clustering(ms, links) : k # l => k \cap l = {}
  BY <1>1
<1>4. UNION Clustering(ms, links) = ms
  BY <1>1
<1> QED BY <1>2, <1>3, <1>4 DEF Divides

LEMMA ClustersDivide == \A ms : Divides(Clusters(ms), ms)
BY ClusteringDivides DEF Clusters

LEMMA ClustersAreFinite ==
  ASSUME NEW ms \in SUBSET Mention
  PROVE  IsFiniteSet(Clusters(ms))
<1>1. IsFiniteSet(ms) /\ IsFiniteSet(SUBSET ms)
  BY MatchStageAssumption, FS_Subset, FS_SUBSET
<1>2. Clusters(ms) \in SUBSET SUBSET ms
  BY ClustersDivide DEF Divides
<1> QED BY <1>1, <1>2, FS_Subset

LEMMA LeastMention ==
  ASSUME NEW ms \in SUBSET Mention, NEW ks, Divides(ks, ms)
  PROVE  /\ \A k \in ks : Least(k) \in k /\ Least(k) \in ms /\ Least(k) \in Nat
         /\ \A k, l \in ks : Least(k) = Least(l) => k = l
<1>1. ASSUME NEW k \in ks PROVE Least(k) \in k /\ Least(k) \in ms /\ Least(k) \in Nat
  <2>1. k \in SUBSET Nat /\ k # {} /\ k \subseteq ms
    BY MatchStageAssumption DEF Divides
  <2> QED BY <2>1, LeastIsIn
<1> QED BY <1>1 DEF Divides

(***************************************************************************)
(* Lemma: the pairs of clusters and stored ids are finitely many, and      *)
(* their evidence is a number.                                             *)
(***************************************************************************)
IsPair(a, ks) ==
  /\ a = [cluster |-> a.cluster, id |-> a.id, evidence |-> a.evidence]
  /\ a.cluster \in ks /\ a.id \in Nat \X Nat /\ a.evidence \in Nat

ArePairs(S, ks) == IsFiniteSet(S) /\ \A a \in S : IsPair(a, ks)

FiniteIds(prev) == IsFiniteSet(DOMAIN prev) /\ DOMAIN prev \subseteq Nat \X Nat

LEMMA EvidenceIsNat ==
  ASSUME NEW k \in SUBSET Mention, NEW p, NEW prev, NEW said
  PROVE  Evidence(k, p, prev, said) \in Nat
<1>1. IsFiniteSet(k) /\ Cardinality(Mention) \in Nat
  BY MatchStageAssumption, FS_Subset, FS_CardinalityType
<1>2. Cardinality(k \cap prev[p]) \in Nat
  BY <1>1, FS_Intersection, FS_CardinalityType
<1>3. ASSUME NEW content PROVE Agreement(k, content) \in Nat
  <2> DEFINE f == [m \in k |-> Stated[m]]
  <2>1. IsFiniteSet({f[m] : m \in k})
    BY <1>1, ImageIsFinite
  <2>2. \A T \in {f[m] : m \in k} : IsFiniteSet(T)
    BY MatchStageAssumption
  <2>3. States(k) = UNION {f[m] : m \in k}
    BY DEF States
  <2> HIDE DEF f
  <2>4. IsFiniteSet(States(k))
    BY <2>1, <2>2, <2>3, FS_UNION
  <2> QED BY <2>4, FS_Intersection, FS_CardinalityType DEF Agreement
<1>4. Cardinality(Items(k) \cap Items(prev[p])) \in Nat
  <2> DEFINE f == [m \in k |-> ItemOf[m]]
  <2>1. IsFiniteSet({f[m] : m \in k})
    BY <1>1, ImageIsFinite
  <2>2. Items(k) = {f[m] : m \in k}
    BY DEF Items
  <2> HIDE DEF f
  <2> QED BY <2>1, <2>2, FS_Intersection, FS_CardinalityType
<1>5. MaxEvidence \in Nat
  BY <1>1 DEF MaxEvidence
<1>6. \A x, y \in Nat : x * y \in Nat /\ x + y \in Nat
  OBVIOUS
<1> DEFINE shared == Cardinality(k \cap prev[p])
           agreed == IF shared > 0 \/ p \notin DOMAIN said THEN 0 ELSE Agreement(k, said[p])
           items  == Cardinality(Items(k) \cap Items(prev[p]))
<1>7. shared \in Nat /\ agreed \in Nat /\ items \in Nat
  BY <1>2, <1>3, <1>4
<1>8. Evidence(k, p, prev, said) = (shared * MaxEvidence + agreed) * MaxEvidence + items
  BY DEF Evidence
<1> HIDE DEF shared, agreed, items
<1>9. shared * MaxEvidence \in Nat
  BY <1>5, <1>6, <1>7, Zenon
<1>10. shared * MaxEvidence + agreed \in Nat
  BY <1>6, <1>7, <1>9, Zenon
<1>11. (shared * MaxEvidence + agreed) * MaxEvidence \in Nat
  BY <1>5, <1>6, <1>10, Zenon
<1> QED BY <1>6, <1>7, <1>8, <1>11, Zenon

LEMMA PairsArePairs ==
  ASSUME NEW ms \in SUBSET Mention, NEW ks, Divides(ks, ms), IsFiniteSet(ks),
         NEW prev, FiniteIds(prev), NEW said
  PROVE  ArePairs(Pairs(ks, prev, said), ks)
<1> DEFINE X == {x \in ks \X DOMAIN prev : MayCarry(x[1], x[2], prev, said)}
           f == [x \in X |-> [cluster |-> x[1], id |-> x[2],
                              evidence |-> Evidence(x[1], x[2], prev, said)]]
<1>1. Pairs(ks, prev, said) = {f[x] : x \in X}
  BY DEF Pairs
<1>2. IsFiniteSet(X)
  BY FS_Product, FS_Subset DEF FiniteIds
<1>3. IsFiniteSet(Pairs(ks, prev, said))
  <2>1. DOMAIN f = X
    OBVIOUS
  <2> HIDE DEF f, X
  <2> QED BY <1>1, <1>2, <2>1, ImageIsFinite
<1>4. ASSUME NEW x \in X PROVE IsPair(f[x], ks)
  <2>1. x[1] \in ks /\ x[1] \in SUBSET Mention /\ x[2] \in Nat \X Nat
    BY DEF Divides, FiniteIds
  <2>2. Evidence(x[1], x[2], prev, said) \in Nat
    BY <2>1, EvidenceIsNat
  <2> QED BY <2>1, <2>2 DEF IsPair
<1> QED BY <1>1, <1>3, <1>4 DEF ArePairs

-----------------------------------------------------------------------------
(***************************************************************************)
(* Of the pairs of one level, there is a first one in sort order.          *)
(***************************************************************************)
ConflictFree(S) == \A a, b \in S : a # b => ~Conflict(a, b)

LEMMA FirstPair ==
  ASSUME NEW ms \in SUBSET Mention, NEW ks, Divides(ks, ms), NEW e, NEW S, S # {},
         \A a \in S : IsPair(a, ks) /\ a.evidence = e
  PROVE  \E z \in S : \A a \in S : a # z => Before(z, a)
<1>0. \A a \in S : Least(a.cluster) \in Nat /\ a.id[1] \in Nat /\ a.id[2] \in Nat
  BY LeastMention DEF IsPair
<1> DEFINE seeds == {Least(a.cluster) : a \in S}
           First == {a \in S : Least(a.cluster) = Least(seeds)}
           ones == {a.id[1] : a \in First}
           Second == {a \in First : a.id[1] = Least(ones)}
           twos == {a.id[2] : a \in Second}
<1>1. Least(seeds) \in seeds /\ \A x \in seeds : Least(seeds) <= x
  <2>1. seeds \in SUBSET Nat /\ seeds # {}
    BY <1>0
  <2> HIDE DEF seeds
  <2> QED BY <2>1, LeastIsIn
<1>2. Least(ones) \in ones /\ \A x \in ones : Least(ones) <= x
  <2>1. ones \in SUBSET Nat /\ ones # {}
    BY <1>0, <1>1
  <2> HIDE DEF ones
  <2> QED BY <2>1, LeastIsIn
<1>3. Least(twos) \in twos /\ \A x \in twos : Least(twos) <= x
  <2>1. twos \in SUBSET Nat /\ twos # {}
    BY <1>0, <1>2
  <2> HIDE DEF twos
  <2> QED BY <2>1, LeastIsIn
<1>4. PICK z \in Second : z.id[2] = Least(twos)
  BY <1>3
<1>5. ASSUME NEW a \in S, a # z PROVE Before(z, a)
  <2> DEFINE x == Least(a.cluster)
             y == Least(seeds)
  <2>1. z \in S /\ z.evidence = a.evidence /\ Least(z.cluster) = y
    BY <1>4
  <2>2. x \in Nat /\ y \in Nat /\ y <= x
    BY <1>0, <1>1
  <2>3. CASE x # y
    <3>1. y < x
      BY <2>2, <2>3
    <3> QED BY <2>1, <3>1 DEF Before
  <2>4. CASE x = y
    <3>1. a.cluster = z.cluster
      BY <2>1, <2>4, LeastMention DEF IsPair
    <3>2. a \in First /\ z.id[1] = Least(ones) /\ Least(ones) <= a.id[1]
      BY <1>2, <1>4, <2>4
    <3>3. a.id # z.id
      BY <1>5, <2>1, <3>1 DEF IsPair
    <3>4. a.id = <<a.id[1], a.id[2]>> /\ z.id = <<z.id[1], z.id[2]>>
      BY <2>1 DEF IsPair
    <3>5. CASE a.id[1] # z.id[1]
      <4>1. z.id[1] < a.id[1]
        BY <1>0, <2>1, <3>2, <3>5
      <4> QED BY <2>1, <3>1, <4>1 DEF Before, IdBefore
    <3>6. CASE a.id[1] = z.id[1]
      <4>1. a \in Second /\ Least(twos) <= a.id[2]
        BY <1>3, <3>2, <3>6
      <4>2. z.id[2] < a.id[2]
        BY <1>0, <1>4, <2>1, <3>3, <3>4, <3>6, <4>1
      <4> QED BY <2>1, <3>1, <3>6, <4>2 DEF Before, IdBefore
    <3> QED BY <3>5, <3>6
  <2> QED BY <2>3, <2>4
<1> QED BY <1>4, <1>5

(***************************************************************************)
(* Lemma: taken greedily, the pairs of a level do not conflict.  (Of the   *)
(* sets of which no such choice exists, a smallest one has a first pair;   *)
(* that pair and a choice of those it leaves free is one.)                 *)
(***************************************************************************)
IsGreedy(taken, pairs) ==
  /\ \A a, b \in taken : a # b => ~Conflict(a, b)
  /\ \A a \in pairs \ taken : \E b \in taken : Conflict(a, b) /\ Before(b, a)

LEMMA GreedyExists ==
  ASSUME NEW ms \in SUBSET Mention, NEW ks, Divides(ks, ms), NEW e, NEW S, ArePairs(S, ks),
         \A a \in S : a.evidence = e
  PROVE  \E taken \in SUBSET S : IsGreedy(taken, S)
<1> DEFINE Choice(T) == \E taken \in SUBSET T : IsGreedy(taken, T)
           Bad == {T \in SUBSET S : ~Choice(T)}
<1> SUFFICES ASSUME Bad # {} PROVE FALSE
  OBVIOUS
<1>2. FiniteSubsets(Bad, S)
  BY FS_Subset DEF FiniteSubsets, ArePairs
<1>3. PICK T \in Bad : Smallest(T, Bad)
  <2> HIDE DEF Bad
  <2> QED BY <1>2, SmallestExists
<1>4. T # {} /\ T \in SUBSET S /\ ~Choice(T)
  <2>1. IsGreedy({}, {})
    BY DEF IsGreedy
  <2> QED BY <1>3, <2>1
<1>5. PICK z \in T : \A a \in T : a # z => Before(z, a)
  <2>1. \A a \in T : IsPair(a, ks) /\ a.evidence = e
    BY <1>4 DEF ArePairs
  <2> QED BY <1>4, <2>1, FirstPair
<1> DEFINE R == {a \in T : a # z /\ ~Conflict(a, z)}
<1>6. PICK taken \in SUBSET R : IsGreedy(taken, R)
  <2>1. R \subseteq T /\ R # T /\ R \in SUBSET S
    BY <1>4, <1>5
  <2>2. R \notin Bad
    <3> HIDE DEF Bad, R
    <3> QED BY <1>3, <2>1 DEF Smallest
  <2> QED BY <2>1, <2>2
<1>7. IsGreedy(taken \cup {z}, T)
  <2>1. \A a \in taken : ~Conflict(a, z) /\ ~Conflict(z, a)
    BY DEF Conflict
  <2>2. ASSUME NEW a \in T \ (taken \cup {z})
        PROVE  \E b \in taken \cup {z} : Conflict(a, b) /\ Before(b, a)
    BY <1>5, <1>6 DEF IsGreedy
  <2>3. \A a, b \in taken : a # b => ~Conflict(a, b)
    BY <1>6 DEF IsGreedy
  <2> QED BY <2>1, <2>2, <2>3 DEF IsGreedy
<1>8. taken \cup {z} \in SUBSET T
  BY <1>5, <1>6
<1> QED BY <1>4, <1>7, <1>8

LEMMA GreedyIsFree ==
  ASSUME NEW ms \in SUBSET Mention, NEW ks, Divides(ks, ms), NEW e, NEW S, ArePairs(S, ks),
         \A a \in S : a.evidence = e
  PROVE  Greedy(S) \subseteq S /\ ConflictFree(Greedy(S))
<1>1. \E taken \in SUBSET S : IsGreedy(taken, S)
  BY GreedyExists
<1>2. Greedy(S) = CHOOSE taken \in SUBSET S : IsGreedy(taken, S)
  BY DEF Greedy, IsGreedy
<1>3. Greedy(S) \in SUBSET S /\ IsGreedy(Greedy(S), S)
  BY <1>1, <1>2, Zenon
<1> QED BY <1>3 DEF IsGreedy, ConflictFree

(***************************************************************************)
(* Lemma: what is carried down to a level is what that level adds to what  *)
(* is carried above it.                                                    *)
(***************************************************************************)
AboveOf(e, pairs, f) ==
  IF Above(e, pairs) = {} THEN NothingCarried ELSE f[Least(Above(e, pairs))]

Level(e, pairs, f) ==
  CarryLevel(e, Available(pairs, e, AboveOf(e, pairs, f)), AboveOf(e, pairs, f))

From(n, pairs) == {e \in Levels(pairs) : e >= n}

IsCarriedFrom(f, n, pairs) == f = [e \in From(n, pairs) |-> Level(e, pairs, f)]

LEMMA NextLevel ==
  ASSUME NEW pairs, Levels(pairs) \subseteq Nat, NEW e \in Levels(pairs), Above(e, pairs) # {}
  PROVE  Least(Above(e, pairs)) \in Levels(pairs) /\ Least(Above(e, pairs)) > e
<1>1. Above(e, pairs) \in SUBSET Nat
  BY DEF Above
<1>2. Least(Above(e, pairs)) \in Above(e, pairs)
  BY <1>1, LeastIsIn
<1> QED BY <1>2 DEF Above

LEMMA CarriedIsByLevels ==
  ASSUME NEW pairs, Levels(pairs) \subseteq Nat, NEW b \in Nat, \A e \in Levels(pairs) : e <= b
  PROVE  CarriedDownTo(pairs) = [e \in Levels(pairs) |-> Level(e, pairs, CarriedDownTo(pairs))]
<1> DEFINE Good == {n \in Nat : \E f : IsCarriedFrom(f, n, pairs)}
<1>1. b + 1 \in Good
  <2> DEFINE f == [e \in {} |-> NothingCarried]
  <2>1. From(b + 1, pairs) = {}
    BY DEF From
  <2>2. IsCarriedFrom(f, b + 1, pairs)
    BY <2>1 DEF IsCarriedFrom
  <2> HIDE DEF f
  <2> QED BY <2>2
<1> DEFINE n == Least(Good)
<1>2. n \in Good /\ \A x \in Good : n <= x
  <2>1. Good \in SUBSET Nat /\ Good # {}
    BY <1>1
  <2> HIDE DEF Good
  <2> QED BY <2>1, LeastIsIn
<1> HIDE DEF n
<1>3. PICK f : IsCarriedFrom(f, n, pairs)
  BY <1>2
<1>4. ASSUME n # 0 PROVE FALSE
  <2>1. n \in Nat /\ n - 1 \in Nat
    BY <1>2, <1>4
  <2> DEFINE g == [e \in From(n - 1, pairs) |->
                     IF e \in From(n, pairs) THEN f[e] ELSE Level(e, pairs, f)]
  <2>2. ASSUME NEW e \in From(n - 1, pairs)
        PROVE  g[e] = Level(e, pairs, f) /\ AboveOf(e, pairs, f) = AboveOf(e, pairs, g)
    <3>1. e \in Levels(pairs) /\ e >= n - 1 /\ e \in Nat
      BY DEF From
    <3>2. g[e] = Level(e, pairs, f)
      BY <1>3 DEF IsCarriedFrom
    <3>3. CASE Above(e, pairs) = {}
      BY <3>2, <3>3 DEF AboveOf
    <3>4. CASE Above(e, pairs) # {}
      <4> DEFINE l == Least(Above(e, pairs))
      <4>1. l \in Levels(pairs) /\ l > e
        BY <3>1, <3>4, NextLevel
      <4> HIDE DEF l
      <4>2. l \in From(n, pairs) /\ l \in From(n - 1, pairs)
        BY <2>1, <3>1, <4>1 DEF From
      <4>3. g[l] = f[l]
        BY <4>2
      <4> QED BY <3>2, <3>4, <4>3 DEF AboveOf, l
    <3> QED BY <3>3, <3>4
  <2>3. IsCarriedFrom(g, n - 1, pairs)
    <3>1. \A e \in From(n - 1, pairs) : g[e] = Level(e, pairs, g)
      BY <2>2 DEF Level
    <3>2. g = [e \in From(n - 1, pairs) |-> g[e]]
      OBVIOUS
    <3> HIDE DEF g
    <3>3. g = [e \in From(n - 1, pairs) |-> Level(e, pairs, g)]
      BY <3>1, <3>2
    <3> QED BY <3>3 DEF IsCarriedFrom
  <2>4. n - 1 \in Good
    <3> HIDE DEF g
    <3> QED BY <2>1, <2>3
  <2> QED BY <1>2, <2>1, <2>4
<1>5. From(0, pairs) = Levels(pairs)
  BY DEF From
<1> DEFINE Step(h) == [e \in Levels(pairs) |-> Level(e, pairs, h)]
<1>6. f = Step(f)
  BY <1>3, <1>4, <1>5 DEF IsCarriedFrom
<1>7. CarriedDownTo(pairs) = CHOOSE h : h = Step(h)
  BY DEF CarriedDownTo, Level, AboveOf
<1> HIDE DEF Step
<1>8. CarriedDownTo(pairs) = Step(CarriedDownTo(pairs))
  BY <1>6, <1>7, Zenon
<1> QED BY <1>8 DEF Step

(***************************************************************************)
(* Lemma: no cluster is carried two ids, and no id to two clusters.  (The  *)
(* levels where it were so would have a highest one.)                      *)
(***************************************************************************)
LEMMA CarryIsFree ==
  ASSUME NEW ms \in SUBSET Mention, NEW ks, Divides(ks, ms), NEW pairs, ArePairs(pairs, ks)
  PROVE  Carry(pairs).taken \subseteq pairs /\ ConflictFree(Carry(pairs).taken)
<1> DEFINE f == CarriedDownTo(pairs)
           Fine(r) == /\ r = [taken |-> r.taken, tied |-> r.tied]
                      /\ r.taken \subseteq pairs /\ ConflictFree(r.taken)
           Bad == {e \in Levels(pairs) : ~Fine(f[e])}
<1>1. Levels(pairs) \subseteq Nat /\ IsFiniteSet(Levels(pairs))
  <2> DEFINE g == [a \in pairs |-> a.evidence]
  <2>1. IsFiniteSet({g[a] : a \in pairs})
    <3>1. DOMAIN g = pairs /\ IsFiniteSet(pairs)
      BY DEF ArePairs
    <3> HIDE DEF g
    <3> QED BY <3>1, ImageIsFinite
  <2>2. Levels(pairs) = {0} \cup {g[a] : a \in pairs}
    BY DEF Levels
  <2>3. \A a \in pairs : g[a] \in Nat
    BY DEF ArePairs, IsPair
  <2> HIDE DEF g
  <2>4. IsFiniteSet({g[a] : a \in pairs} \cup {0})
    BY <2>1, FS_AddElement
  <2>5. Levels(pairs) = {g[a] : a \in pairs} \cup {0}
    BY <2>2
  <2> QED BY <2>3, <2>4, <2>5
<1>2. PICK b \in Nat : \A e \in Levels(pairs) : e <= b
  BY <1>1, FiniteIsBounded
<1>3. \A e \in Levels(pairs) : f[e] = Level(e, pairs, f)
  BY <1>1, <1>2, CarriedIsByLevels
<1>4. ASSUME NEW e \in Levels(pairs), Fine(AboveOf(e, pairs, f)) PROVE Fine(f[e])
  <2> DEFINE above == AboveOf(e, pairs, f)
             open == Available(pairs, e, above)
  <2>1. /\ open \subseteq pairs /\ \A a \in open : a.evidence = e
        /\ \A a \in open : \A d \in above.taken : ~Conflict(a, d)
    BY DEF Available
  <2>2. f[e] = CarryLevel(e, open, above)
    BY <1>3 DEF Level
  <2>3. ArePairs(open, ks)
    <3>1. open \in SUBSET pairs
      BY <2>1
    <3> HIDE DEF open
    <3> QED BY <3>1, FS_Subset DEF ArePairs
  <2>4. Fine(above)
    BY <1>4
  <2> HIDE DEF open, above
  <2>5. ASSUME NEW X, NEW Y, X \subseteq open, ConflictFree(X),
               f[e] = [taken |-> above.taken \cup X, tied |-> Y]
        PROVE  Fine(f[e])
    <3>1. ConflictFree(above.taken \cup X)
      BY <2>1, <2>4, <2>5 DEF ConflictFree, Conflict
    <3>2. above.taken \cup X \subseteq pairs
      BY <2>1, <2>4, <2>5
    <3> QED BY <2>5, <3>1, <3>2
  <2>6. CASE SharesMention(e)
    <3>1. Greedy(open) \subseteq open /\ ConflictFree(Greedy(open))
      BY <2>1, <2>3, GreedyIsFree
    <3>2. f[e] = [taken |-> above.taken \cup Greedy(open), tied |-> above.tied]
      BY <2>2, <2>4, <2>6 DEF CarryLevel
    <3> QED BY <2>5, <3>1, <3>2
  <2>7. CASE ~SharesMention(e)
    <3>1. Uncontested(open) \subseteq open /\ ConflictFree(Uncontested(open))
      BY DEF Uncontested, ConflictFree
    <3>2. f[e] = [taken |-> above.taken \cup Uncontested(open),
                  tied |-> above.tied \cup (open \ Uncontested(open))]
      BY <2>2, <2>7 DEF CarryLevel
    <3> QED BY <2>5, <3>1, <3>2
  <2> QED BY <2>6, <2>7
<1>5. ASSUME Bad # {} PROVE FALSE
  <2> DEFINE e == Greatest(Bad)
  <2>1. e \in Bad /\ \A l \in Bad : e >= l
    <3>1. Bad \in SUBSET Nat /\ \A l \in Bad : l <= b
      BY <1>1, <1>2
    <3> HIDE DEF Bad
    <3> QED BY <1>5, <3>1, GreatestExists
  <2> HIDE DEF e
  <2>2. CASE Above(e, pairs) = {}
    <3>1. Fine(AboveOf(e, pairs, f))
      BY <2>2 DEF AboveOf, NothingCarried, ConflictFree
    <3> QED BY <1>4, <2>1, <3>1
  <2>3. CASE Above(e, pairs) # {}
    <3> DEFINE l == Least(Above(e, pairs))
    <3>1. l \in Levels(pairs) /\ l > e
      BY <1>1, <2>1, <2>3, NextLevel
    <3>2. AboveOf(e, pairs, f) = f[l]
      BY <2>3 DEF AboveOf
    <3> HIDE DEF l
    <3>3. l \notin Bad
      <4>1. e \in Nat /\ l \in Nat
        BY <1>1, <2>1, <3>1
      <4> HIDE DEF Bad
      <4> QED BY <2>1, <3>1, <4>1
    <3> QED BY <1>4, <2>1, <3>1, <3>2, <3>3
  <2> QED BY <2>2, <2>3
<1>6. 0 \in Levels(pairs)
  BY DEF Levels
<1> QED BY <1>5, <1>6 DEF Carry

(***************************************************************************)
(* Lemma: a minted id is not one that is carried.  (There are more ids to  *)
(* try than clusters, hence than carried ids.)                             *)
(***************************************************************************)
LEMMA MintIsNew ==
  ASSUME NEW ms \in SUBSET Mention, NEW ks, Divides(ks, ms), NEW taken,
         \A a \in taken : IsPair(a, ks), ConflictFree(taken), NEW k \in ks
  PROVE  LET carried == {a.id : a \in taken}
         IN  /\ Mint(k, carried) \notin carried /\ Mint(k, carried)[1] = Least(k)
             /\ Mint(k, carried) \in Nat \X Nat
<1> DEFINE carried == {a.id : a \in taken}
           N == Cardinality(Mention)
           Free == {n \in 0 .. N : <<Least(k), n>> \notin carried}
<1>1. N \in Nat /\ Least(k) \in Nat
  BY MatchStageAssumption, FS_CardinalityType, LeastMention
<1>2. Free # {}
  <2> SUFFICES ASSUME Free = {} PROVE FALSE
    OBVIOUS
  <2> DEFINE pairOf(n) == CHOOSE a \in taken : a.id = <<Least(k), n>>
             f == [n \in 0 .. N |-> Least(pairOf(n).cluster)]
  <2>1. \A n \in 0 .. N : pairOf(n) \in taken /\ pairOf(n).id = <<Least(k), n>>
    <3>1. \A n \in 0 .. N : \E a \in taken : a.id = <<Least(k), n>>
      OBVIOUS
    <3> QED BY <3>1, Zenon
  <2> HIDE DEF pairOf
  <2>2. f \in [0 .. N -> Mention]
    BY <2>1, LeastMention DEF IsPair
  <2>3. \E n, l \in 0 .. N : n # l /\ f[n] = f[l]
    <3>1. N \in Int /\ ~(0 > N) /\ 0 \in Int /\ N - 0 + 1 = N + 1 /\ N < N + 1
      BY <1>1
    <3> HIDE DEF N
    <3>2. IsFiniteSet(0 .. N) /\ Cardinality(0 .. N) = N + 1
      BY <3>1, FS_Interval
    <3>3. IsFiniteSet(Mention) /\ Cardinality(Mention) < Cardinality(0 .. N)
      BY <3>1, <3>2, MatchStageAssumption DEF N
    <3> DEFINE S == 0 .. N
    <3>4. IsFiniteSet(S) /\ Cardinality(Mention) < Cardinality(S) /\ f \in [S -> Mention]
      BY <2>2, <3>2, <3>3
    <3> HIDE DEF f, S
    <3>5. \E n, l \in S : n # l /\ f[n] = f[l]
      BY <3>3, <3>4, FS_PigeonHole
    <3> QED BY <3>5 DEF S
  <2>4. PICK n \in 0 .. N, l \in 0 .. N : n # l /\ f[n] = f[l]
    BY <2>3
  <2>5. pairOf(n).cluster = pairOf(l).cluster
    BY <2>1, <2>4, LeastMention DEF IsPair
  <2>6. pairOf(n) = pairOf(l)
    BY <2>1, <2>5 DEF ConflictFree, Conflict
  <2> QED BY <2>1, <2>4, <2>6
<1>3. Least(Free) \in Free
  <2>1. Free \in SUBSET Nat
    BY <1>1
  <2> HIDE DEF Free
  <2> QED BY <1>2, <2>1, LeastIsIn
<1>4. Mint(k, carried) = <<Least(k), Least(Free)>>
  BY DEF Mint
<1>5. Least(Free) \in Nat /\ <<Least(k), Least(Free)>> \notin carried
  <2> DEFINE y == Least(Free)
  <2>1. y \in Free
    BY <1>3
  <2> HIDE DEF y
  <2>2. y \in Nat /\ <<Least(k), y>> \notin carried
    BY <1>1, <2>1
  <2> QED BY <2>2 DEF y
<1> HIDE DEF Free, carried
<1>6. /\ Mint(k, carried) \notin carried /\ Mint(k, carried)[1] = Least(k)
      /\ Mint(k, carried) \in Nat \X Nat
  BY <1>1, <1>4, <1>5
<1> QED BY <1>6 DEF carried

(***************************************************************************)
(* Lemma: without carried ids, a cluster is given its content id.          *)
(***************************************************************************)
LEMMA MintIsContentId == \A k : Mint(k, {}) = ContentId(k)
<1> DEFINE N == Cardinality(Mention)
<1>1. N \in Nat
  BY MatchStageAssumption, FS_CardinalityType
<1> HIDE DEF N
<1>2. Least(0 .. N) = 0
  <2> DEFINE S == 0 .. N
  <2>1. S \in SUBSET Nat /\ S # {} /\ 0 \in S
    BY <1>1
  <2>2. \A n \in S : n <= 0 => n = 0
    BY <1>1
  <2> HIDE DEF S
  <2>3. Least(S) \in S /\ Least(S) <= 0
    BY <2>1, LeastIsIn
  <2> QED BY <2>2, <2>3 DEF S
<1>3. \A k : {n \in 0 .. N : <<Least(k), n>> \notin {}} = 0 .. N
  OBVIOUS
<1> QED BY <1>2, <1>3 DEF Mint, ContentId, N

(***************************************************************************)
(* Lemma: the clusters of a CIK are given different ids, and content ids   *)
(* by a remint.                                                            *)
(***************************************************************************)
LEMMA IdsAreDistinct ==
  ASSUME NEW ms \in SUBSET Mention, NEW ks, Divides(ks, ms), NEW pairs, ArePairs(pairs, ks),
         NEW remint
  PROVE  LET final == FinalIds(ks, pairs, remint)
         IN  /\ DOMAIN final = ks
             /\ \A k \in ks : final[k] \in Nat \X Nat
             /\ \A k, l \in ks : final[k] = final[l] => k = l
             /\ remint => \A k \in ks : final[k] = ContentId(k)
<1> DEFINE final == FinalIds(ks, pairs, remint)
           taken == IF remint THEN {} ELSE Carry(pairs).taken
           carried == {a.id : a \in taken}
           of(k) == CHOOSE a \in taken : a.cluster = k
<1>1. taken \subseteq pairs /\ ConflictFree(taken)
  BY CarryIsFree DEF ConflictFree
<1>2. final = [k \in ks |-> IF \E a \in taken : a.cluster = k THEN of(k).id
                            ELSE Mint(k, carried)]
  BY DEF FinalIds
<1>3. remint => taken = {}
  OBVIOUS
<1> HIDE DEF taken, final
<1>4. \A a \in taken : IsPair(a, ks)
  BY <1>1 DEF ArePairs
<1>5. \A k \in ks : (\E a \in taken : a.cluster = k) => of(k) \in taken /\ of(k).cluster = k
  BY Zenon
<1> HIDE DEF of
<1>6. \A k \in ks : /\ Mint(k, carried) \notin carried /\ Mint(k, carried)[1] = Least(k)
                    /\ Mint(k, carried) \in Nat \X Nat
  BY <1>1, <1>4, MintIsNew
<1>7. \A a, b \in taken : a.id = b.id => a = b
  BY <1>1 DEF ConflictFree, Conflict
<1>8. ASSUME NEW k \in ks PROVE final[k] \in Nat \X Nat
  BY <1>2, <1>4, <1>5, <1>6 DEF IsPair
<1>9. ASSUME NEW k \in ks, NEW l \in ks, final[k] = final[l] PROVE k = l
  <2> DEFINE HasOne(j) == \E a \in taken : a.cluster = j
  <2>1. CASE HasOne(k) /\ HasOne(l)
    <3>1. of(k) \in taken /\ of(l) \in taken /\ of(k).cluster = k /\ of(l).cluster = l
      BY <1>5, <2>1
    <3>2. final[k] = of(k).id /\ final[l] = of(l).id
      BY <1>2, <2>1
    <3> QED BY <1>7, <1>9, <3>1, <3>2
  <2>2. ASSUME HasOne(k), ~HasOne(l) PROVE FALSE
    BY <1>2, <1>5, <1>6, <1>9, <2>2
  <2>3. ASSUME HasOne(l), ~HasOne(k) PROVE FALSE
    BY <1>2, <1>5, <1>6, <1>9, <2>3
  <2>4. CASE ~HasOne(k) /\ ~HasOne(l)
    <3>1. final[k] = Mint(k, carried) /\ final[l] = Mint(l, carried)
      BY <1>2, <2>4
    <3>2. Least(k) = Least(l)
      BY <1>6, <1>9, <3>1
    <3> QED BY <3>2, LeastMention
  <2> QED BY <2>1, <2>2, <2>3, <2>4
<1>10. ASSUME remint, NEW k \in ks PROVE final[k] = ContentId(k)
  <2>1. final[k] = Mint(k, {})
    BY <1>2, <1>3, <1>10
  <2> QED BY <2>1, MintIsContentId
<1>11. DOMAIN final = ks
  BY <1>2
<1> QED BY <1>8, <1>9, <1>10, <1>11 DEF final

(***************************************************************************)
(* The tables of a CIK agree with each other and with the mentions they    *)
(* were matched from.                                                      *)
(***************************************************************************)
Agree(e, i, r, ks) ==
  /\ {e[p] : p \in DOMAIN e} = ks
  /\ \A p, q \in DOMAIN e : e[p] = e[q] => p = q
  /\ FiniteIds(e)
  /\ DOMAIN i = DOMAIN e
  /\ \A p \in DOMAIN e : i[p] = RowContent(e[p])
  /\ \A q \in DOMAIN r : q \notin DOMAIN e /\ r[q] \in DOMAIN e

ContentIds(e) == \A p \in DOMAIN e : p = ContentId(e[p])

Empty(e, i, r) == DOMAIN e = {} /\ DOMAIN i = {} /\ DOMAIN r = {}

LEMMA NothingAgrees ==
  ASSUME NEW e, NEW i, NEW r
  PROVE  Agree(e, i, r, {}) <=> Empty(e, i, r)
<1>1. ASSUME Agree(e, i, r, {}) PROVE Empty(e, i, r)
  <2>1. \A p \in DOMAIN e : e[p] \in {e[q] : q \in DOMAIN e}
    OBVIOUS
  <2>2. DOMAIN e = {}
    BY <1>1, <2>1 DEF Agree
  <2> QED BY <1>1, <2>2 DEF Agree, Empty
<1>2. ASSUME Empty(e, i, r) PROVE Agree(e, i, r, {})
  <2>1. IsFiniteSet({})
    BY FS_EmptySet
  <2>2. FiniteIds(e)
    BY <1>2, <2>1 DEF Empty, FiniteIds
  <2> QED BY <1>2, <2>2 DEF Empty, Agree
<1> QED BY <1>1, <1>2

LEMMA RedirectsLeadToLive ==
  ASSUME NEW stored, NEW retired, NEW live
  PROVE  LET r == UpdatedRedirects(stored, retired, live)
         IN  \A q \in DOMAIN r : q \notin live /\ r[q] \in live
<1> DEFINE merged == [p \in DOMAIN stored \cup DOMAIN retired |->
                        IF p \in DOMAIN retired THEN retired[p] ELSE stored[p]]
           hops == Cardinality(DOMAIN merged)
           end[n \in 0 .. hops, p \in DOMAIN merged \cup {merged[q] : q \in DOMAIN merged}] ==
             IF p \in live \/ p \notin DOMAIN merged \/ n = 0 THEN p
             ELSE end[n - 1, merged[p]]
           last(p) == end[hops, p]
           kept == {p \in DOMAIN merged \ live : last(p) \in live}
<1>1. UpdatedRedirects(stored, retired, live) = [p \in kept |-> last(p)]
  BY DEF UpdatedRedirects
<1> HIDE DEF last, merged
<1> QED BY <1>1

(***************************************************************************)
(* Lemma: what `match_cik` makes of the mentions of a CIK agrees.          *)
(***************************************************************************)
LEMMA MatchCikAgrees ==
  ASSUME NEW c, NEW remint, mentions \subseteq Mention, FiniteIds(edges[c])
  PROVE  LET out == MatchCik(c, remint)
         IN  /\ Agree(out.edges, out.instruments, out.redirects, Clusters(MentionsOf(c)))
             /\ remint => ContentIds(out.edges)
<1> DEFINE ms    == MentionsOf(c)
           ks    == Clusters(ms)
           pairs == Pairs(ks, edges[c], instruments[c])
           final == FinalIds(ks, pairs, remint)
           of(p) == CHOOSE k \in ks : final[k] = p
           r     == UpdatedRedirects(redirects[c], Retired(pairs, final, remint), Live(final))
           e     == [p \in Live(final) |-> of(p)]
           i     == [p \in Live(final) |-> RowContent(of(p))]
           out   == MatchCik(c, remint)
<1>1. out.edges = e /\ out.instruments = i /\ out.redirects = r
  BY DEF MatchCik
<1>2. \A q \in DOMAIN r : q \notin Live(final) /\ r[q] \in Live(final)
  BY RedirectsLeadToLive
<1> HIDE DEF out, r
<1>3. ms \in SUBSET Mention
  BY DEF MentionsOf
<1> HIDE DEF ms
<1>4. Divides(ks, ms) /\ IsFiniteSet(ks)
  BY <1>3, ClustersDivide, ClustersAreFinite
<1> HIDE DEF ks
<1>5. ArePairs(pairs, ks)
  BY <1>3, <1>4, PairsArePairs
<1> HIDE DEF pairs
<1>6. /\ DOMAIN final = ks
      /\ \A k \in ks : final[k] \in Nat \X Nat
      /\ \A k, l \in ks : final[k] = final[l] => k = l
      /\ remint => \A k \in ks : final[k] = ContentId(k)
  BY <1>3, <1>4, <1>5, IdsAreDistinct
<1> HIDE DEF final
<1>7. Live(final) = {final[k] : k \in ks}
  BY <1>6 DEF Live
<1>8. \A p \in Live(final) : of(p) \in ks /\ final[of(p)] = p
  <2>1. \A p \in Live(final) : \E k \in ks : final[k] = p
    BY <1>7
  <2> QED BY <2>1, Zenon
<1> HIDE DEF of
<1>9. \A k \in ks : final[k] \in Live(final) /\ of(final[k]) = k
  BY <1>6, <1>7, <1>8
<1>10. {e[p] : p \in DOMAIN e} = ks
  BY <1>8, <1>9
<1>11. \A p, q \in DOMAIN e : e[p] = e[q] => p = q
  BY <1>8
<1>12. FiniteIds(e)
  <2>1. IsFiniteSet({final[k] : k \in ks})
    BY <1>4, <1>6, ImageIsFinite
  <2> QED BY <1>6, <1>7, <2>1 DEF FiniteIds
<1>13. /\ DOMAIN i = DOMAIN e /\ \A p \in DOMAIN e : i[p] = RowContent(e[p])
       /\ DOMAIN e = Live(final)
  OBVIOUS
<1>14. remint => \A p \in DOMAIN e : p = ContentId(e[p])
  BY <1>6, <1>8
<1> HIDE DEF e, i
<1>15. Agree(e, i, r, ks)
  BY <1>2, <1>10, <1>11, <1>12, <1>13 DEF Agree
<1> QED BY <1>1, <1>14, <1>15 DEF ContentIds, out, ks, ms

-----------------------------------------------------------------------------
(***************************************************************************)
(* The shapes of what match keeps.  While a shard is being written, what   *)
(* was matched agrees, and the tables written so far hold it.              *)
(***************************************************************************)
Writing == {"redirects", "instruments", "edges", "digests"}
Written == {"instruments", "edges", "digests"}
Ending  == {"manifest", "marker", "matched"}

MatchShapes ==
  /\ mentions \subseteq Mention
  /\ {code, manifest} \subseteq Nat /\ manifest <= code
  /\ edges = [c \in Cik |-> edges[c]]
  /\ instruments = [c \in Cik |-> instruments[c]]
  /\ redirects = [c \in Cik |-> redirects[c]]
  /\ digests = [c \in Cik |-> digests[c]]
  /\ \A c \in Cik : FiniteIds(edges[c])
  /\ run = [pc |-> run.pc, rebuild |-> run.rebuild, remint |-> run.remint,
            affected |-> run.affected, todo |-> run.todo, out |-> run.out]
  /\ run.pc \in {"idle"} \cup Writing \cup Ending
  /\ run.todo \subseteq {ShardOf[c] : c \in Cik}
  /\ run.pc \in Writing => run.todo # {}
  /\ run.pc \in Ending => run.todo = {}
  /\ pub.pc # "idle" => run = Idle

Outputs ==
  run.pc \in Written =>
    /\ DOMAIN run.out = Replaced(Current) /\ Replaced(Current) \subseteq begun
    /\ \A c \in Replaced(Current) :
         /\ Agree(run.out[c].edges, run.out[c].instruments, run.out[c].redirects,
                  Clustering(MentionsOf(c), Linked[code]))
         /\ run.remint => ContentIds(run.out[c].edges)
         /\ redirects[c] = run.out[c].redirects
         /\ run.pc # "instruments" => instruments[c] = run.out[c].instruments
         /\ run.pc = "digests" => edges[c] = run.out[c].edges

(***************************************************************************)
(* A run beside the marker of a remint is one, rebuilds every shard, and   *)
(* leaves content ids in those it has done.                                *)
(***************************************************************************)
Remints ==
  /\ marker = "remint" /\ run.pc \notin {"idle", "matched"} => run.remint
  /\ run.pc # "idle" /\ run.remint =>
       run.rebuild /\ \A c \in Cik : ShardOf[c] \notin run.todo => ContentIds(edges[c])

MatchInv == MatchShapes /\ Outputs /\ Remints

LEMMA InitMatchInv == Init => MatchInv
<1> SUFFICES ASSUME Init PROVE MatchInv
  OBVIOUS
<1>1. FiniteIds(NoTable)
  BY FS_EmptySet DEF FiniteIds, NoTable
<1>2. /\ run = Idle /\ run.pc = "idle" /\ pub.pc = "idle" /\ code = 1 /\ manifest = 0
      /\ mentions = FirstMentions /\ edges = [c \in Cik |-> NoTable]
      /\ instruments = [c \in Cik |-> NoTable] /\ redirects = [c \in Cik |-> NoTable]
      /\ digests = [c \in Cik |-> NoDigest]
  BY DEF Init, MatchInit, PublishInit, Idle, IdlePublish
<1>3. MatchShapes
  BY <1>1, <1>2, MatchStageAssumption DEF MatchShapes, Idle, Writing, Ending
<1> QED BY <1>2, <1>3 DEF MatchInv, Outputs, Remints, Written

(***************************************************************************)
(* Lemma: whoever changes what match reads does it while no match runs.    *)
(***************************************************************************)
LEMMA NoRunUnderWay ==
  ASSUME MatchInv, run' = Idle,
         mentions' \subseteq Mention, code' \in Nat, code <= code',
         UNCHANGED <<edges, instruments, redirects, digests, manifest>>
  PROVE  MatchInv'
<1>1. run'.pc = "idle" /\ run'.todo = {}
  BY DEF Idle
<1>2. MatchShapes'
  BY <1>1 DEF MatchInv, MatchShapes, Idle, Writing, Ending
<1> QED BY <1>1, <1>2 DEF MatchInv, Outputs, Remints, Written

LEMMA MatchInvKept ==
  ASSUME MatchInv, UNCHANGED matchVars, pub'.pc # "idle" => run = Idle
  PROVE  MatchInv'
<1>1. UNCHANGED <<mentions, code, edges, instruments, redirects, digests, marker, manifest,
                  run, begun>>
  BY DEF matchVars
<1>2. MatchShapes'
  BY <1>1 DEF MatchInv, MatchShapes
<1>3. Outputs' /\ Remints'
  BY <1>1 DEF MatchInv, Outputs, Remints, Replaced, Current, MentionsOf
<1> QED BY <1>2, <1>3 DEF MatchInv

LEMMA CurrentIsNext ==
  ASSUME MatchShapes, run.pc \in Writing
  PROVE  Current \in run.todo
<1>1. run.todo \in SUBSET Nat /\ run.todo # {}
  BY MatchStageAssumption DEF MatchShapes
<1> QED BY <1>1, LeastIsIn DEF Current

LEMMA StartMatchInv ==
  ASSUME MatchInv, NEW force \in BOOLEAN, NEW remint \in BOOLEAN, StartMatch(force, remint),
         pub.pc = "idle", UNCHANGED pub
  PROVE  MatchInv'
<1> DEFINE again == remint \/ marker = "remint"
           rebuild == force \/ again \/ marker # "none" \/ StaleSchema
           affected == {c \in Cik : \/ digests[c] # MentionsOf(c)
                                    \/ rebuild /\ MentionsOf(c) # {}}
           shards == ShardsToWrite(affected, rebuild)
<1>1. /\ marker' = IF ~rebuild THEN marker ELSE IF again THEN "remint" ELSE "rebuild"
      /\ run' = [Idle EXCEPT !.rebuild = rebuild, !.remint = again,
                   !.affected = affected, !.todo = shards,
                   !.pc = IF shards = {} THEN "manifest" ELSE "redirects"]
      /\ UNCHANGED <<mentions, code, edges, instruments, redirects, digests,
                     manifest, ties, begun>>
  BY DEF StartMatch
<1>2. shards \subseteq {ShardOf[c] : c \in Cik}
  BY DEF ShardsToWrite
<1>3. rebuild => \A c \in Cik : ShardOf[c] \notin shards => edges[c] = NoTable
  BY DEF ShardsToWrite
<1>4. /\ again => rebuild
      /\ marker' = "remint" => again
  BY <1>1
<1> HIDE DEF rebuild, affected, shards, again
<1>5. run' = [pc |-> IF shards = {} THEN "manifest" ELSE "redirects", rebuild |-> rebuild,
              remint |-> again, affected |-> affected, todo |-> shards, out |-> <<>>]
  BY <1>1 DEF Idle
<1>6. MatchShapes'
  BY <1>1, <1>2, <1>5 DEF MatchInv, MatchShapes, Writing, Ending
<1>7. ContentIds(NoTable)
  BY DEF ContentIds, NoTable
<1>8. Remints'
  BY <1>1, <1>3, <1>4, <1>5, <1>7 DEF Remints
<1>9. Outputs'
  BY <1>5 DEF Outputs, Written
<1> QED BY <1>6, <1>8, <1>9 DEF MatchInv

LEMMA ShardAgrees ==
  ASSUME MatchShapes, NEW s
  PROVE  LET out == [c \in Replaced(s) |->
                       IF MentionsOf(c) = {} THEN NoRows ELSE MatchCik(c, run.remint)]
         IN  \A c \in Replaced(s) :
               /\ Agree(out[c].edges, out[c].instruments, out[c].redirects,
                        Clustering(MentionsOf(c), Linked[code]))
               /\ run.remint => ContentIds(out[c].edges)
<1> SUFFICES ASSUME NEW c \in Replaced(s)
             PROVE  LET o == IF MentionsOf(c) = {} THEN NoRows ELSE MatchCik(c, run.remint)
                    IN  /\ Agree(o.edges, o.instruments, o.redirects, Clusters(MentionsOf(c)))
                        /\ run.remint => ContentIds(o.edges)
  BY DEF Clusters
<1>1. CASE MentionsOf(c) = {}
  <2>1. Clusters({}) = {}
    BY ClustersDivide DEF Divides
  <2>2. Agree(NoTable, NoTable, NoTable, {}) /\ ContentIds(NoTable)
    BY NothingAgrees DEF Empty, NoTable, ContentIds
  <2> QED BY <1>1, <2>1, <2>2 DEF NoRows
<1>2. CASE MentionsOf(c) # {}
  <2>1. mentions \subseteq Mention /\ FiniteIds(edges[c])
    BY DEF MatchShapes, Replaced
  <2> QED BY <1>2, <2>1, MatchCikAgrees
<1> QED BY <1>1, <1>2

(***************************************************************************)
(* Lemma: no durable write of a match disturbs what it has written.        *)
(***************************************************************************)
LEMMA MatchStepInv ==
  ASSUME MatchInv, MatchStep, UNCHANGED pub
  PROVE  MatchInv'
<1> USE DEF MatchInv
<1>1. run.pc # "idle" /\ run # Idle /\ pub.pc = "idle"
  BY DEF MatchStep, WriteRedirects, WriteInstruments, WriteEdges, WriteDigests,
    WriteManifest, DeleteMarker, Idle, MatchShapes
<1>2. CASE WriteRedirects
  <2> DEFINE out == [c \in Replaced(Current) |->
                       IF MentionsOf(c) = {} THEN NoRows ELSE MatchCik(c, run.remint)]
  <2>1. /\ run.pc = "redirects" /\ begun' = begun \cup Replaced(Current)
        /\ redirects' = [c \in Cik |-> IF c \in Replaced(Current) THEN out[c].redirects
                                       ELSE redirects[c]]
        /\ run' = [run EXCEPT !.pc = "instruments", !.out = out]
        /\ UNCHANGED <<mentions, code, edges, instruments, digests, marker, manifest, left>>
    BY <1>2 DEF WriteRedirects, Overwritten
  <2>2. \A c \in Replaced(Current) :
          /\ Agree(out[c].edges, out[c].instruments, out[c].redirects,
                   Clustering(MentionsOf(c), Linked[code]))
          /\ run.remint => ContentIds(out[c].edges)
    BY ShardAgrees
  <2>3. DOMAIN out = Replaced(Current) /\ Replaced(Current) \subseteq Cik
    BY DEF Replaced
  <2> HIDE DEF out
  <2>4. run' = [pc |-> "instruments", rebuild |-> run.rebuild, remint |-> run.remint,
                affected |-> run.affected, todo |-> run.todo, out |-> out]
    BY <2>1 DEF MatchShapes
  <2>5. MatchShapes'
    BY <1>1, <2>1, <2>4 DEF MatchShapes, Writing, Ending
  <2>6. Replaced(Current)' = Replaced(Current)
    BY <2>1, <2>4 DEF Replaced, Current
  <2>7. \A c \in Cik : MentionsOf(c)' = MentionsOf(c)
    BY <2>1 DEF MentionsOf
  <2>8. \A c \in Replaced(Current) : redirects'[c] = out[c].redirects
    BY <2>1, <2>3
  <2>9. Outputs'
    BY <2>1, <2>2, <2>3, <2>4, <2>6, <2>7, <2>8 DEF Outputs
  <2>10. Remints'
    BY <1>1, <2>1, <2>4 DEF Remints
  <2> QED BY <2>5, <2>9, <2>10
<1>3. CASE WriteInstruments
  <2>1. /\ run.pc = "instruments"
        /\ instruments' = [c \in Cik |-> IF c \in DOMAIN run.out THEN run.out[c].instruments
                                         ELSE instruments[c]]
        /\ run' = [run EXCEPT !.pc = "edges"]
        /\ UNCHANGED <<mentions, code, edges, redirects, digests, marker, manifest, begun>>
    BY <1>3 DEF WriteInstruments, Overwritten
  <2>2. run' = [pc |-> "edges", rebuild |-> run.rebuild, remint |-> run.remint,
                affected |-> run.affected, todo |-> run.todo, out |-> run.out]
    BY <2>1 DEF MatchShapes
  <2>3. MatchShapes'
    BY <1>1, <2>1, <2>2 DEF MatchShapes, Writing, Ending
  <2>4. Replaced(Current)' = Replaced(Current) /\ Replaced(Current) \subseteq Cik
    BY <2>1, <2>2 DEF Replaced, Current
  <2>5. \A c \in Cik : MentionsOf(c)' = MentionsOf(c)
    BY <2>1 DEF MentionsOf
  <2>6. Outputs'
    BY <2>1, <2>2, <2>4, <2>5 DEF Outputs, Written
  <2>7. Remints'
    BY <1>1, <2>1, <2>2 DEF Remints
  <2> QED BY <2>3, <2>6, <2>7
<1>4. CASE WriteEdges
  <2>1. /\ run.pc = "edges"
        /\ edges' = [c \in Cik |-> IF c \in DOMAIN run.out THEN run.out[c].edges ELSE edges[c]]
        /\ run' = [run EXCEPT !.pc = "digests"]
        /\ UNCHANGED <<mentions, code, instruments, redirects, digests, marker, manifest, begun>>
    BY <1>4 DEF WriteEdges, Overwritten
  <2>2. run' = [pc |-> "digests", rebuild |-> run.rebuild, remint |-> run.remint,
                affected |-> run.affected, todo |-> run.todo, out |-> run.out]
    BY <2>1 DEF MatchShapes
  <2>3. DOMAIN run.out = Replaced(Current) /\ Replaced(Current) \subseteq Cik
    BY <2>1 DEF Outputs, Written, Replaced
  <2>4. \A c \in Replaced(Current) : FiniteIds(run.out[c].edges)
    BY <2>1 DEF Outputs, Written, Agree
  <2>5. \A c \in Cik : FiniteIds(edges'[c])
    BY <2>1, <2>3, <2>4 DEF MatchShapes
  <2>6. MatchShapes'
    BY <1>1, <2>1, <2>2, <2>5 DEF MatchShapes, Writing, Ending
  <2>7. Replaced(Current)' = Replaced(Current)
    BY <2>1, <2>2 DEF Replaced, Current
  <2>8. \A c \in Cik : MentionsOf(c)' = MentionsOf(c)
    BY <2>1 DEF MentionsOf
  <2>9. Outputs'
    BY <2>1, <2>2, <2>3, <2>7, <2>8 DEF Outputs, Written
  <2>10. \A c \in Cik : ShardOf[c] \notin run.todo => edges'[c] = edges[c]
    BY <2>1, <2>3, CurrentIsNext DEF Replaced, Writing
  <2>11. Remints'
    BY <1>1, <2>1, <2>2, <2>10 DEF Remints
  <2> QED BY <2>6, <2>9, <2>11
<1>5. CASE WriteDigests
  <2>1. /\ run.pc = "digests"
        /\ digests' = [c \in Cik |-> IF c \in DOMAIN run.out THEN MentionsOf(c) ELSE digests[c]]
        /\ run' = [run EXCEPT !.todo = @ \ {Current}, !.out = <<>>,
                     !.pc = IF run.todo = {Current} THEN "manifest" ELSE "redirects"]
        /\ UNCHANGED <<mentions, code, edges, instruments, redirects, marker, manifest>>
    BY <1>5 DEF WriteDigests
  <2>2. run' = [pc |-> IF run.todo = {Current} THEN "manifest" ELSE "redirects",
                rebuild |-> run.rebuild, remint |-> run.remint, affected |-> run.affected,
                todo |-> run.todo \ {Current}, out |-> <<>>]
    BY <2>1 DEF MatchShapes
  <2>3. Current \in run.todo
    BY <2>1, CurrentIsNext DEF Writing
  <2>4. MatchShapes'
    BY <1>1, <2>1, <2>2, <2>3 DEF MatchShapes, Writing, Ending
  <2>5. Outputs'
    BY <2>2 DEF Outputs, Written
  <2>6. Remints'
    <3>1. ASSUME run.remint, NEW c \in Cik, ShardOf[c] = Current
          PROVE  ContentIds(edges[c])
      <4>1. c \in Replaced(Current)
        BY <1>1, <3>1 DEF Replaced, Remints
      <4> QED BY <2>1, <3>1, <4>1 DEF Outputs, Written
    <3> QED BY <1>1, <2>1, <2>2, <3>1 DEF Remints
  <2> QED BY <2>4, <2>5, <2>6
<1>6. CASE WriteManifest
  <2>1. /\ run.pc = "manifest" /\ manifest' = code
        /\ run' = [run EXCEPT !.pc = IF run.rebuild THEN "marker" ELSE "matched"]
        /\ UNCHANGED <<mentions, code, edges, instruments, redirects, digests, marker>>
    BY <1>6 DEF WriteManifest
  <2>2. run' = [pc |-> IF run.rebuild THEN "marker" ELSE "matched", rebuild |-> run.rebuild,
                remint |-> run.remint, affected |-> run.affected, todo |-> run.todo,
                out |-> run.out]
    BY <2>1 DEF MatchShapes
  <2>3. MatchShapes'
    BY <1>1, <2>1, <2>2 DEF MatchShapes, Writing, Ending
  <2> QED BY <1>1, <2>1, <2>2, <2>3 DEF Outputs, Remints, Written
<1>7. CASE DeleteMarker
  <2>1. /\ run.pc = "marker" /\ marker' = "none" /\ run' = [run EXCEPT !.pc = "matched"]
        /\ UNCHANGED <<mentions, code, edges, instruments, redirects, digests, manifest>>
    BY <1>7 DEF DeleteMarker
  <2>2. run' = [pc |-> "matched", rebuild |-> run.rebuild, remint |-> run.remint,
                affected |-> run.affected, todo |-> run.todo, out |-> run.out]
    BY <2>1 DEF MatchShapes
  <2>3. MatchShapes'
    BY <1>1, <2>1, <2>2 DEF MatchShapes, Writing, Ending
  <2> QED BY <1>1, <2>1, <2>2, <2>3 DEF Outputs, Remints, Written
<1> QED BY <1>2, <1>3, <1>4, <1>5, <1>6, <1>7 DEF MatchStep

LEMMA NextMatchInv == MatchInv /\ [Next]_vars => MatchInv'
<1> SUFFICES ASSUME MatchInv, [Next]_vars PROVE MatchInv'
  OBVIOUS
<1>1. ASSUME NEW i \in Item, NEW found \in Answers[i], Extract(i, found) PROVE MatchInv'
  <2>1. found \subseteq Mention
    BY <1>1, MatchStageAssumption
  <2> QED BY <1>1, <2>1, NoRunUnderWay DEF Extract, MatchInv, MatchShapes
<1>2. CASE Deploy
  BY <1>2, NoRunUnderWay DEF Deploy, MatchInv, MatchShapes
<1>3. ASSUME NEW force \in BOOLEAN, NEW remint \in BOOLEAN, StartMatch(force, remint),
             pub.pc = "idle", UNCHANGED publishVars
      PROVE  MatchInv'
  BY <1>3, StartMatchInv DEF publishVars
<1>4. ASSUME MatchStep, UNCHANGED publishVars PROVE MatchInv'
  BY <1>4, MatchStepInv DEF publishVars
<1>5. CASE PublishMatched \/ Crash \/ StopAtMatch
  <2>1. /\ run' = Idle
        /\ UNCHANGED <<mentions, code, edges, instruments, redirects, digests, manifest>>
    BY <1>5 DEF PublishMatched, Crash, StopAtMatch
  <2>2. mentions \subseteq Mention /\ code \in Nat /\ code <= code
    BY DEF MatchInv, MatchShapes
  <2> QED BY <2>1, <2>2, NoRunUnderWay
<1>6. CASE \E force \in BOOLEAN : PublishAlone(force)
  BY <1>6, NoRunUnderWay DEF PublishAlone, MatchInv, MatchShapes
<1>7. CASE WriteTable \/ Refuse \/ MovePointer \/ CopyLatest \/ RecordDigest \/ Prune
  <2>1. UNCHANGED matchVars /\ pub.pc # "idle"
    BY <1>7 DEF WriteTable, Refuse, MovePointer, CopyLatest, RecordDigest, Prune
  <2> QED BY <2>1, MatchInvKept DEF MatchInv, MatchShapes
<1>8. ASSUME NEW m \in Late, WriteLate(m) PROVE MatchInv'
  <2>1. run = Idle /\ run' = Idle
    BY <1>8 DEF WriteLate, MatchInv, MatchShapes
  <2>2. mentions' \subseteq Mention
    BY <1>8, PublishAssumption DEF WriteLate, MatchInv, MatchShapes
  <2> QED BY <1>8, <2>1, <2>2, NoRunUnderWay DEF WriteLate, MatchInv, MatchShapes
<1>9. CASE UNCHANGED vars
  BY <1>9, MatchInvKept DEF vars, publishVars, MatchInv, MatchShapes
<1> QED
  BY <1>1, <1>2, <1>3, <1>4, <1>5, <1>6, <1>7, <1>8, <1>9 DEF Next, PublishStep

(***************************************************************************)
(* Theorem: a remint that stopped is finished as a remint, after any       *)
(* number of deaths and forced runs.                                       *)
(***************************************************************************)
THEOREM EveryRemintIsFinished == Spec => RemintsFinish
<1>1. ASSUME MatchInv, [Next]_vars
      PROVE  [marker = "remint" /\ marker' = "none" =>
                \A c \in Cik : \A p \in DOMAIN edges[c] : p = ContentId(edges[c][p])]_marker
  <2> SUFFICES ASSUME marker = "remint", marker' = "none"
               PROVE  \A c \in Cik : ContentIds(edges[c])
    BY DEF ContentIds
  <2>1. DeleteMarker
    BY <1>1 DEF Next, PublishStep, MatchStep, Extract, Deploy, StartMatch, WriteRedirects,
      WriteInstruments, WriteEdges, WriteDigests, WriteManifest, DeleteMarker, PublishMatched,
      PublishAlone, WriteTable, Refuse, MovePointer, CopyLatest, RecordDigest, Prune,
      WriteLate, Crash, StopAtMatch, vars, matchVars
  <2> QED BY <1>1, <2>1 DEF DeleteMarker, MatchInv, MatchShapes, Remints, Ending
<1> QED BY <1>1, InitMatchInv, NextMatchInv, PTL DEF Spec, RemintsFinish

-----------------------------------------------------------------------------
(***************************************************************************)
(* The tables of a CIK agree with the mentions its digest stands for, or   *)
(* it is half done and its digest tells.                                   *)
(***************************************************************************)
Fresh(c) == Agree(edges[c], instruments[c], redirects[c], Clustering(digests[c], Linked[code]))

HalfDone(c) == c \in begun /\ digests[c] # MentionsOf(c)

TablesFresh == marker = "none" /\ ~StaleSchema => \A c \in Cik : Fresh(c) \/ HalfDone(c)

\* A CIK without a digest has no rows, or mentions.
NoDigestNoRows ==
  \A c \in Cik : digests[c] = {} =>
    Empty(edges[c], instruments[c], redirects[c]) \/ (c \in begun /\ MentionsOf(c) # {})

DigestsKnowLate == LateMentionsStay => \A c \in Cik : digests[c] \cap Late \subseteq mentions

Settled(c) == digests[c] = MentionsOf(c) /\ Fresh(c)

\* What a run has done is settled; what it leaves alone was settled before.
RunSettles ==
  /\ run.pc \notin {"idle", "matched"} =>
       IF run.rebuild THEN marker # "none" ELSE marker = "none" /\ ~StaleSchema
  /\ run.pc # "idle" => \A c \in Cik :
       /\ ShardOf[c] \notin run.todo => Settled(c)
       /\ c \notin run.affected => digests[c] = MentionsOf(c)
       /\ ~run.rebuild /\ c \in run.affected /\ ShardOf[c] \in run.todo =>
            digests[c] # MentionsOf(c)

FreshInv == TablesFresh /\ NoDigestNoRows /\ DigestsKnowLate /\ RunSettles

LEMMA NoClusters == \A links : Clustering({}, links) = {}
BY DEF Clustering

LEMMA InitFreshInv == Init => FreshInv
<1> SUFFICES ASSUME Init PROVE FreshInv
  OBVIOUS
<1>1. /\ run.pc = "idle" /\ \A c \in Cik : edges[c] = <<>> /\ instruments[c] = <<>>
      /\ \A c \in Cik : redirects[c] = <<>> /\ digests[c] = {}
  BY DEF Init, MatchInit, Idle, NoTable, NoDigest
<1>2. \A c \in Cik : Empty(edges[c], instruments[c], redirects[c])
  BY <1>1 DEF Empty
<1>3. \A c \in Cik : Fresh(c)
  BY <1>1, <1>2, NothingAgrees, NoClusters DEF Fresh
<1> QED
  BY <1>1, <1>2, <1>3 DEF FreshInv, TablesFresh, NoDigestNoRows, DigestsKnowLate, RunSettles

(***************************************************************************)
(* Lemma: a run that starts leaves alone only what is settled.             *)
(***************************************************************************)
LEMMA StartMatchFresh ==
  ASSUME FreshInv, MatchInv, NEW force \in BOOLEAN, NEW remint \in BOOLEAN,
         StartMatch(force, remint)
  PROVE  FreshInv'
<1> DEFINE again == remint \/ marker = "remint"
           rebuild == force \/ again \/ marker # "none" \/ StaleSchema
           affected == {c \in Cik : \/ digests[c] # MentionsOf(c)
                                    \/ rebuild /\ MentionsOf(c) # {}}
           shards == ShardsToWrite(affected, rebuild)
<1>1. /\ marker' = IF ~rebuild THEN marker ELSE IF again THEN "remint" ELSE "rebuild"
      /\ run' = [Idle EXCEPT !.rebuild = rebuild, !.remint = again,
                   !.affected = affected, !.todo = shards,
                   !.pc = IF shards = {} THEN "manifest" ELSE "redirects"]
      /\ UNCHANGED <<mentions, code, edges, instruments, redirects, digests,
                     manifest, ties, begun>>
  BY DEF StartMatch
<1>2. /\ \A c \in affected : ShardOf[c] \in shards
      /\ ~rebuild => marker = "none" /\ ~StaleSchema
      /\ rebuild => marker' # "none"
  BY <1>1 DEF ShardsToWrite
<1>3. \A c \in Cik : /\ c \notin affected => digests[c] = MentionsOf(c)
                     /\ c \notin affected /\ rebuild => MentionsOf(c) = {}
                     /\ c \in affected /\ ~rebuild => digests[c] # MentionsOf(c)
  OBVIOUS
<1> HIDE DEF rebuild, affected, shards, again
<1>4. run' = [pc |-> IF shards = {} THEN "manifest" ELSE "redirects", rebuild |-> rebuild,
              remint |-> again, affected |-> affected, todo |-> shards, out |-> <<>>]
  BY <1>1 DEF Idle
<1>5. \A c \in Cik : /\ MentionsOf(c)' = MentionsOf(c) /\ Fresh(c)' = Fresh(c)
                     /\ HalfDone(c)' = HalfDone(c) /\ StaleSchema' = StaleSchema
                     /\ Settled(c)' = Settled(c)
  BY <1>1 DEF MentionsOf, Fresh, HalfDone, StaleSchema, Settled
<1>6. ASSUME NEW c \in Cik, ShardOf[c] \notin shards PROVE Settled(c)
  <2>1. c \notin affected /\ digests[c] = MentionsOf(c)
    BY <1>2, <1>3, <1>6
  <2>2. CASE rebuild
    <3>1. digests[c] = {} /\ MentionsOf(c) = {}
      BY <1>3, <2>1, <2>2
    <3>2. Empty(edges[c], instruments[c], redirects[c])
      BY <3>1 DEF FreshInv, NoDigestNoRows
    <3> QED BY <3>1, <3>2, NothingAgrees, NoClusters DEF Settled, Fresh
  <2>3. CASE ~rebuild
    BY <1>2, <2>1, <2>3 DEF FreshInv, TablesFresh, HalfDone, Settled
  <2> QED BY <2>2, <2>3
<1>7. RunSettles'
  BY <1>1, <1>2, <1>3, <1>4, <1>5, <1>6 DEF RunSettles, StaleSchema
<1>8. TablesFresh'
  BY <1>1, <1>2, <1>5 DEF FreshInv, TablesFresh, StaleSchema
<1>9. NoDigestNoRows' /\ DigestsKnowLate'
  BY <1>1, <1>5 DEF FreshInv, NoDigestNoRows, DigestsKnowLate
<1> QED BY <1>7, <1>8, <1>9 DEF FreshInv

(***************************************************************************)
(* Lemma: a table of a shard is written under CIKs that are half done, or  *)
(* beside the marker of a rebuild.                                         *)
(***************************************************************************)
LEMMA TableWriteFresh ==
  ASSUME FreshInv, MatchInv, run.pc \in Writing, run'.pc \in Written,
         run'.rebuild = run.rebuild, run'.affected = run.affected, run'.todo = run.todo,
         UNCHANGED <<mentions, code, digests, marker, manifest>>,
         begun' = begun \cup Replaced(Current),
         \A c \in Cik \ Replaced(Current) :
           /\ edges'[c] = edges[c] /\ instruments'[c] = instruments[c]
           /\ redirects'[c] = redirects[c],
         \A c \in Replaced(Current) :
           MentionsOf(c) = {} /\ Empty(edges[c], instruments[c], redirects[c]) =>
             Empty(edges'[c], instruments'[c], redirects'[c])
  PROVE  FreshInv'
<1> USE DEF FreshInv
<1>1. Current \in run.todo
  BY CurrentIsNext DEF MatchInv
<1>2. Replaced(Current) = {c \in Cik : ShardOf[c] = Current
                                         /\ (run.rebuild \/ c \in run.affected)}
  BY DEF Replaced
<1> DEFINE now == Replaced(Current)
<1> HIDE DEF now
<1>3. \A c \in Cik : MentionsOf(c)' = MentionsOf(c)
  BY DEF MentionsOf
<1>4. StaleSchema' = StaleSchema
  BY DEF StaleSchema
<1>5. \A c \in Cik \ now : Fresh(c)' = Fresh(c) /\ (HalfDone(c) => HalfDone(c)')
                           /\ Settled(c)' = Settled(c)
  BY <1>3 DEF Fresh, HalfDone, Settled, now
<1>6. run.pc # "idle" /\ run.pc # "matched" /\ run'.pc # "idle" /\ run'.pc # "matched"
  BY DEF Writing, Written
<1>7. TablesFresh'
  <2> SUFFICES ASSUME marker = "none", ~StaleSchema, NEW c \in Cik
               PROVE  Fresh(c)' \/ HalfDone(c)'
    BY <1>4 DEF TablesFresh
  <2>1. CASE c \in now
    <3>1. ~run.rebuild /\ c \in run.affected /\ ShardOf[c] \in run.todo
      BY <1>1, <1>2, <1>6, <2>1 DEF RunSettles, now
    <3>2. digests[c] # MentionsOf(c) /\ c \in begun'
      BY <1>6, <2>1, <3>1 DEF RunSettles, now
    <3> QED BY <1>3, <3>2 DEF HalfDone
  <2>2. CASE c \notin now
    BY <1>5, <2>2 DEF TablesFresh
  <2> QED BY <2>1, <2>2
<1>8. NoDigestNoRows'
  <2> SUFFICES ASSUME NEW c \in Cik, digests[c] = {}
               PROVE  \/ Empty(edges'[c], instruments'[c], redirects'[c])
                      \/ c \in begun' /\ MentionsOf(c) # {}
    BY <1>3 DEF NoDigestNoRows
  <2>1. \/ Empty(edges[c], instruments[c], redirects[c])
        \/ c \in begun /\ MentionsOf(c) # {}
    BY DEF NoDigestNoRows
  <2>2. CASE c \in now
    BY <2>1, <2>2 DEF now
  <2>3. CASE c \notin now
    BY <2>1, <2>3 DEF now
  <2> QED BY <2>2, <2>3
<1>9. DigestsKnowLate'
  BY DEF DigestsKnowLate
<1>10. RunSettles'
  <2>1. \A c \in Cik : ShardOf[c] \notin run.todo => c \notin now
    BY <1>1, <1>2 DEF now
  <2> QED BY <1>3, <1>4, <1>5, <1>6, <2>1 DEF RunSettles
<1> QED BY <1>7, <1>8, <1>9, <1>10

LEMMA WriteDigestsFresh ==
  ASSUME FreshInv, MatchInv, WriteDigests
  PROVE  FreshInv'
<1> USE DEF FreshInv, MatchInv
<1> DEFINE now == Replaced(Current)
<1>1. /\ run.pc = "digests" /\ DOMAIN run.out = now
      /\ digests' = [c \in Cik |-> IF c \in now THEN MentionsOf(c) ELSE digests[c]]
      /\ begun' = begun \ now
      /\ run' = [run EXCEPT !.todo = @ \ {Current}, !.out = <<>>,
                   !.pc = IF run.todo = {Current} THEN "manifest" ELSE "redirects"]
      /\ UNCHANGED <<mentions, code, edges, instruments, redirects, marker, manifest>>
  BY DEF WriteDigests, Outputs, Written
<1>2. run' = [pc |-> IF run.todo = {Current} THEN "manifest" ELSE "redirects",
              rebuild |-> run.rebuild, remint |-> run.remint, affected |-> run.affected,
              todo |-> run.todo \ {Current}, out |-> <<>>]
  BY <1>1 DEF MatchShapes
<1>3. Current \in run.todo
  BY <1>1, CurrentIsNext DEF Writing
<1>4. now = {c \in Cik : ShardOf[c] = Current /\ (run.rebuild \/ c \in run.affected)}
  BY DEF Replaced
<1>5. \A c \in now : Agree(edges[c], instruments[c], redirects[c],
                           Clustering(MentionsOf(c), Linked[code]))
  BY <1>1 DEF Outputs, Written
<1> HIDE DEF now
<1>6. \A c \in Cik : MentionsOf(c)' = MentionsOf(c)
  BY <1>1 DEF MentionsOf
<1>7. StaleSchema' = StaleSchema
  BY <1>1 DEF StaleSchema
<1>8. \A c \in now : digests'[c] = MentionsOf(c) /\ Fresh(c)'
  <2> SUFFICES ASSUME NEW c \in now PROVE digests'[c] = MentionsOf(c) /\ Fresh(c)'
    OBVIOUS
  <2>1. digests'[c] = MentionsOf(c)
    BY <1>1, <1>4
  <2> QED BY <1>1, <1>5, <2>1 DEF Fresh
<1>9. \A c \in Cik \ now : /\ digests'[c] = digests[c] /\ Fresh(c)' = Fresh(c)
                           /\ HalfDone(c)' = HalfDone(c) /\ Settled(c)' = Settled(c)
  BY <1>1, <1>6 DEF Fresh, HalfDone, Settled
<1>10. TablesFresh'
  BY <1>1, <1>7, <1>8, <1>9 DEF TablesFresh
<1>11. NoDigestNoRows'
  <2> SUFFICES ASSUME NEW c \in Cik, digests'[c] = {}
               PROVE  \/ Empty(edges[c], instruments[c], redirects[c])
                      \/ c \in begun' /\ MentionsOf(c) # {}
    BY <1>1, <1>6 DEF NoDigestNoRows
  <2>1. CASE c \in now
    <3>1. MentionsOf(c) = {}
      BY <1>8, <2>1
    <3>2. Agree(edges[c], instruments[c], redirects[c], {})
      BY <1>5, <2>1, <3>1, NoClusters
    <3> QED BY <3>2, NothingAgrees
  <2>2. CASE c \notin now
    BY <1>1, <1>9, <2>2 DEF NoDigestNoRows
  <2> QED BY <2>1, <2>2
<1>12. DigestsKnowLate'
  BY <1>1, <1>8, <1>9 DEF DigestsKnowLate, MentionsOf
<1>13. RunSettles'
  <2>1. ASSUME NEW c \in Cik, ShardOf[c] = Current, c \notin now PROVE Settled(c)
    <3>1. ~run.rebuild /\ c \notin run.affected
      BY <1>4, <2>1
    <3>2. marker = "none" /\ ~StaleSchema /\ digests[c] = MentionsOf(c)
      BY <1>1, <3>1 DEF RunSettles
    <3> QED BY <3>2 DEF TablesFresh, HalfDone, Settled
  <2>2. \A c \in Cik : c \in now => ShardOf[c] = Current /\ Settled(c)'
    BY <1>4, <1>6, <1>8 DEF Settled
  <2>3. \A c \in Cik : ShardOf[c] \notin run.todo \ {Current} => Settled(c)'
    BY <1>1, <1>9, <2>1, <2>2 DEF RunSettles
  <2>4. \A c \in Cik : c \notin run.affected => digests'[c] = MentionsOf(c)
    BY <1>1, <1>8, <1>9 DEF RunSettles
  <2>5. \A c \in Cik : ~run.rebuild /\ c \in run.affected /\ ShardOf[c] \in run.todo \ {Current}
                         => digests'[c] # MentionsOf(c)
    BY <1>1, <1>9, <2>2 DEF RunSettles
  <2> QED BY <1>1, <1>2, <1>6, <1>7, <2>3, <2>4, <2>5 DEF RunSettles
<1> QED BY <1>10, <1>11, <1>12, <1>13

LEMMA MatchStepFresh ==
  ASSUME FreshInv, MatchInv, MatchInv', MatchStep
  PROVE  FreshInv'
<1>1. CASE WriteRedirects
  <2>1. /\ run.pc = "redirects" /\ redirects' = Overwritten(redirects, "redirects", run'.out)
        /\ DOMAIN run'.out = Replaced(Current) /\ begun' = begun \cup Replaced(Current)
        /\ UNCHANGED <<mentions, code, edges, instruments, digests, marker, manifest>>
        /\ run' = [run EXCEPT !.pc = "instruments", !.out = run'.out]
    BY <1>1 DEF WriteRedirects, MatchInv, MatchShapes
  <2>2. /\ run'.pc = "instruments" /\ run'.rebuild = run.rebuild
        /\ run'.affected = run.affected /\ run'.todo = run.todo
    BY <2>1 DEF MatchInv, MatchShapes
  <2>3. Replaced(Current)' = Replaced(Current)
    BY <2>1, <2>2 DEF Replaced, Current
  <2>4. \A c \in Cik \ Replaced(Current) : redirects'[c] = redirects[c]
    BY <2>1 DEF Overwritten
  <2>5. ASSUME NEW c \in Replaced(Current), MentionsOf(c) = {}
        PROVE  DOMAIN redirects'[c] = {}
    <3>1. MentionsOf(c)' = {}
      BY <2>1, <2>5 DEF MentionsOf
    <3>2. Agree(run'.out[c].edges, run'.out[c].instruments, run'.out[c].redirects,
                Clustering(MentionsOf(c)', Linked[code']))
          /\ redirects'[c] = run'.out[c].redirects
      BY <2>2, <2>3 DEF MatchInv, Outputs, Written
    <3> QED BY <3>1, <3>2, NoClusters, NothingAgrees DEF Empty
  <2> QED BY <2>1, <2>2, <2>4, <2>5, TableWriteFresh DEF Writing, Written, Empty
<1>2. CASE WriteInstruments
  <2>1. /\ run.pc = "instruments"
        /\ instruments' = Overwritten(instruments, "instruments", run.out)
        /\ UNCHANGED <<mentions, code, edges, redirects, digests, marker, manifest, begun>>
        /\ run' = [run EXCEPT !.pc = "edges"]
    BY <1>2 DEF WriteInstruments
  <2>2. /\ run'.pc = "edges" /\ run'.rebuild = run.rebuild
        /\ run'.affected = run.affected /\ run'.todo = run.todo
    BY <2>1 DEF MatchInv, MatchShapes
  <2>3. DOMAIN run.out = Replaced(Current) /\ Replaced(Current) \subseteq begun
    BY <2>1 DEF MatchInv, Outputs, Written
  <2>4. \A c \in Cik \ Replaced(Current) : instruments'[c] = instruments[c]
    BY <2>1, <2>3 DEF Overwritten
  <2>5. ASSUME NEW c \in Replaced(Current), MentionsOf(c) = {}
        PROVE  DOMAIN instruments'[c] = {}
    <3>1. instruments'[c] = run.out[c].instruments
      BY <2>1, <2>3 DEF Overwritten, Replaced
    <3>2. Agree(run.out[c].edges, run.out[c].instruments, run.out[c].redirects,
                Clustering(MentionsOf(c), Linked[code]))
      BY <2>1 DEF MatchInv, Outputs, Written
    <3>3. Empty(run.out[c].edges, run.out[c].instruments, run.out[c].redirects)
      BY <2>5, <3>2, NoClusters, NothingAgrees
    <3> QED BY <3>1, <3>3 DEF Empty
  <2> QED BY <2>1, <2>2, <2>3, <2>4, <2>5, TableWriteFresh DEF Writing, Written, Empty
<1>3. CASE WriteEdges
  <2>1. /\ run.pc = "edges" /\ edges' = Overwritten(edges, "edges", run.out)
        /\ UNCHANGED <<mentions, code, instruments, redirects, digests, marker, manifest, begun>>
        /\ run' = [run EXCEPT !.pc = "digests"]
    BY <1>3 DEF WriteEdges
  <2>2. /\ run'.pc = "digests" /\ run'.rebuild = run.rebuild
        /\ run'.affected = run.affected /\ run'.todo = run.todo
    BY <2>1 DEF MatchInv, MatchShapes
  <2>3. DOMAIN run.out = Replaced(Current) /\ Replaced(Current) \subseteq begun
    BY <2>1 DEF MatchInv, Outputs, Written
  <2>4. \A c \in Cik \ Replaced(Current) : edges'[c] = edges[c]
    BY <2>1, <2>3 DEF Overwritten
  <2>5. ASSUME NEW c \in Replaced(Current), MentionsOf(c) = {}
        PROVE  DOMAIN edges'[c] = {}
    <3>1. edges'[c] = run.out[c].edges
      BY <2>1, <2>3 DEF Overwritten, Replaced
    <3>2. Agree(run.out[c].edges, run.out[c].instruments, run.out[c].redirects,
                Clustering(MentionsOf(c), Linked[code]))
      BY <2>1 DEF MatchInv, Outputs, Written
    <3>3. Empty(run.out[c].edges, run.out[c].instruments, run.out[c].redirects)
      BY <2>5, <3>2, NoClusters, NothingAgrees
    <3> QED BY <3>1, <3>3 DEF Empty
  <2> QED BY <2>1, <2>2, <2>3, <2>4, <2>5, TableWriteFresh DEF Writing, Written, Empty
<1>4. CASE WriteDigests
  BY <1>4, WriteDigestsFresh
<1>5. CASE WriteManifest \/ DeleteMarker
  <2>1. /\ run.pc \in {"manifest", "marker"} /\ run'.rebuild = run.rebuild
        /\ run'.affected = run.affected /\ run'.todo = run.todo /\ run.todo = {}
        /\ run'.pc \in {"marker", "matched"} /\ (run'.pc = "marker" => run.rebuild /\ marker' = marker)
        /\ UNCHANGED <<mentions, code, edges, instruments, redirects, digests, begun>>
    BY <1>5 DEF WriteManifest, DeleteMarker, MatchInv, MatchShapes, Ending
  <2>2. \A c \in Cik : Settled(c)
    BY <2>1 DEF FreshInv, RunSettles
  <2>3. \A c \in Cik : /\ Settled(c)' = Settled(c) /\ Fresh(c)' = Fresh(c)
                       /\ MentionsOf(c)' = MentionsOf(c)
    BY <2>1 DEF Settled, Fresh, MentionsOf
  <2>4. TablesFresh'
    BY <2>2, <2>3 DEF TablesFresh, Settled
  <2>5. NoDigestNoRows' /\ DigestsKnowLate'
    BY <2>1, <2>3 DEF FreshInv, NoDigestNoRows, DigestsKnowLate
  <2>6. RunSettles'
    BY <2>1, <2>2, <2>3 DEF FreshInv, RunSettles, Settled
  <2> QED BY <2>4, <2>5, <2>6 DEF FreshInv
<1> QED BY <1>1, <1>2, <1>3, <1>4, <1>5 DEF MatchStep

LEMMA NoRunFresh ==
  ASSUME FreshInv, run' = Idle \/ UNCHANGED run,
         UNCHANGED <<mentions, code, edges, instruments, redirects, digests, marker,
                     manifest, begun>>
  PROVE  FreshInv'
<1>1. \A c \in Cik : /\ MentionsOf(c)' = MentionsOf(c) /\ Fresh(c)' = Fresh(c)
                     /\ HalfDone(c)' = HalfDone(c) /\ Settled(c)' = Settled(c)
  BY DEF MentionsOf, Fresh, HalfDone, Settled
<1>2. TablesFresh' /\ NoDigestNoRows' /\ DigestsKnowLate'
  BY <1>1 DEF FreshInv, TablesFresh, NoDigestNoRows, DigestsKnowLate, StaleSchema
<1>3. RunSettles'
  BY <1>1 DEF FreshInv, RunSettles, StaleSchema, Idle
<1> QED BY <1>2, <1>3 DEF FreshInv

(***************************************************************************)
(* Mentions that change while no match runs: those of a CIK that is half   *)
(* done do not become what its digest stands for.                          *)
(***************************************************************************)
LEMMA OtherMentionsFresh ==
  ASSUME FreshInv, run = Idle, DigestsKnowLate',
         UNCHANGED <<code, edges, instruments, redirects, digests, marker, manifest, run, begun>>,
         \A c \in begun \cap Cik : digests[c] # MentionsOf(c) => digests[c] # MentionsOf(c)'
  PROVE  FreshInv'
<1>1. \A c \in Cik : Fresh(c)' = Fresh(c) /\ (HalfDone(c) => HalfDone(c)')
  BY DEF Fresh, HalfDone
<1>2. TablesFresh'
  BY <1>1 DEF FreshInv, TablesFresh, StaleSchema
<1>3. NoDigestNoRows'
  BY DEF FreshInv, NoDigestNoRows
<1>4. RunSettles'
  BY DEF FreshInv, RunSettles, Idle
<1> QED BY <1>2, <1>3, <1>4 DEF FreshInv

LEMMA NextFreshInv ==
  ASSUME ~ChangeHalfMatched, Quiet', FreshInv, MatchInv, MatchInv', [Next]_vars
  PROVE  FreshInv'
<1>1. ASSUME NEW i \in Item, NEW found \in Answers[i], Extract(i, found) PROVE FreshInv'
  <2>1. DigestsKnowLate'
    <3> SUFFICES ASSUME LateMentionsStay, NEW c \in Cik, NEW m \in digests[c] \cap Late
                 PROVE  m \in mentions'
      BY <1>1 DEF DigestsKnowLate, Extract
    <3>1. m \in mentions
      BY DEF FreshInv, DigestsKnowLate
    <3>2. ItemOf[m] # i
      BY <1>1 DEF LateMentionsStay
    <3> QED BY <1>1, <3>1, <3>2 DEF Extract
  <2>2. \A c \in begun \cap Cik : digests[c] # MentionsOf(c) => digests[c] # MentionsOf(c)'
    BY <1>1 DEF Extract
  <2> QED BY <1>1, <2>1, <2>2, OtherMentionsFresh DEF Extract
<1>2. CASE Deploy
  <2>1. /\ run = Idle /\ code' = code + 1
        /\ manifest # 0 \/ \A c \in Cik : digests[c] = {}
        /\ UNCHANGED <<mentions, edges, instruments, redirects, digests, marker, manifest, run, begun>>
    BY <1>2 DEF Deploy, NoDigest
  <2>2. \A c \in Cik : MentionsOf(c)' = MentionsOf(c)
    BY <2>1 DEF MentionsOf
  <2>3. TablesFresh'
    <3>1. CASE manifest # 0
      BY <2>1, <3>1 DEF TablesFresh, StaleSchema, MatchInv, MatchShapes
    <3>2. CASE manifest = 0
      <4> SUFFICES ASSUME NEW c \in Cik PROVE Fresh(c)' \/ HalfDone(c)'
        BY DEF TablesFresh
      <4>1. digests[c] = {}
        BY <2>1, <3>2
      <4>2. CASE Empty(edges[c], instruments[c], redirects[c])
        <5>1. Agree(edges[c], instruments[c], redirects[c], {})
          BY <4>2, NothingAgrees
        <5> QED BY <2>1, <4>1, <5>1, NoClusters DEF Fresh
      <4>3. CASE c \in begun /\ MentionsOf(c) # {}
        BY <2>1, <2>2, <4>1, <4>3 DEF HalfDone
      <4> QED BY <4>1, <4>2, <4>3 DEF FreshInv, NoDigestNoRows
    <3> QED BY <3>1, <3>2
  <2>4. NoDigestNoRows' /\ DigestsKnowLate'
    BY <2>1, <2>2 DEF FreshInv, NoDigestNoRows, DigestsKnowLate
  <2>5. RunSettles'
    BY <2>1 DEF RunSettles, Idle
  <2> QED BY <2>3, <2>4, <2>5 DEF FreshInv
<1>3. ASSUME NEW force \in BOOLEAN, NEW remint \in BOOLEAN, StartMatch(force, remint)
      PROVE  FreshInv'
  BY <1>3, StartMatchFresh
<1>4. CASE MatchStep
  BY <1>4, MatchStepFresh
<1>5. CASE PublishMatched
  BY <1>5, NoRunFresh DEF PublishMatched
<1>6. CASE Crash
  BY <1>6, NoRunFresh DEF Crash
<1>7. CASE StopAtMatch
  BY <1>7, NoRunFresh DEF StopAtMatch
<1>8. CASE \E force \in BOOLEAN : PublishAlone(force)
  BY <1>8, NoRunFresh DEF PublishAlone
<1>9. CASE WriteTable \/ Refuse \/ MovePointer \/ CopyLatest \/ RecordDigest \/ Prune
  <2>1. UNCHANGED matchVars
    BY <1>9 DEF WriteTable, Refuse, MovePointer, CopyLatest, RecordDigest, Prune
  <2> QED BY <2>1, NoRunFresh DEF matchVars
<1>10. ASSUME NEW m \in Late, WriteLate(m) PROVE FreshInv'
  <2>1. /\ m \notin mentions /\ mentions' = mentions \cup {m} /\ m \in late'
        /\ UNCHANGED <<code, edges, instruments, redirects, digests, marker, manifest, run, begun>>
    BY <1>10 DEF WriteLate
  <2>2. run = Idle
    BY <1>10 DEF WriteLate, MatchInv, MatchShapes
  <2>3. LateMentionsStay
    BY <2>1 DEF Quiet
  <2>4. \A c \in Cik : digests[c] \cap Late \subseteq mentions
    BY <2>3 DEF FreshInv, DigestsKnowLate
  <2>5. DigestsKnowLate'
    BY <2>1, <2>4 DEF DigestsKnowLate
  <2>6. ASSUME NEW c \in begun \cap Cik, digests[c] # MentionsOf(c)
        PROVE  digests[c] # MentionsOf(c)'
    <3>1. m \notin digests[c]
      BY <2>1, <2>4
    <3> QED BY <2>1, <2>6, <3>1 DEF MentionsOf
  <2> QED BY <2>1, <2>2, <2>5, <2>6, OtherMentionsFresh
<1>11. CASE UNCHANGED vars
  BY <1>11, NoRunFresh DEF vars, matchVars
<1> QED
  BY <1>1, <1>2, <1>3, <1>4, <1>5, <1>6, <1>7, <1>8, <1>9, <1>10, <1>11 DEF Next, PublishStep

LEMMA QuietWas == Quiet' /\ [Next]_vars => Quiet
<1> SUFFICES ASSUME [Next]_vars PROVE late \subseteq late'
  BY DEF Quiet, LateMentionsStay
<1> QED
  BY DEF Next, MatchStep, PublishStep, PublishMatched, PublishAlone, WriteTable, Refuse,
    MovePointer, CopyLatest, RecordDigest, Prune, WriteLate, Crash, StopAtMatch, vars, publishVars

(***************************************************************************)
(* Theorem: a CIK that the next plain run leaves alone has the clusters    *)
(* the present code makes of its present mentions, in tables that agree.   *)
(***************************************************************************)
THEOREM SkippedCiksNeedNoMatch ==
  ~ChangeHalfMatched /\ LateMentionsStay => (Spec => []SkippedCiksAreCurrent)
<1> SUFFICES ASSUME ~ChangeHalfMatched, LateMentionsStay
             PROVE  Spec => []SkippedCiksAreCurrent
  OBVIOUS
<1>1. FreshInv => SkippedCiksAreCurrent
  <2> SUFFICES ASSUME FreshInv, NEW c \in Cik, marker = "none", ~StaleSchema,
                      digests[c] = MentionsOf(c)
               PROVE  Agree(edges[c], instruments[c], redirects[c], Clusters(MentionsOf(c)))
    BY DEF SkippedCiksAreCurrent, Agree
  <2> QED BY DEF FreshInv, TablesFresh, HalfDone, Fresh, Clusters
<1>2. (MatchInv /\ FreshInv) /\ [Next]_vars => (MatchInv /\ FreshInv)'
  BY NextMatchInv, NextFreshInv DEF Quiet, LateMentionsStay
<1>3. Init => MatchInv /\ FreshInv
  BY InitMatchInv, InitFreshInv
<1> QED BY <1>1, <1>2, <1>3, PTL DEF Spec

-----------------------------------------------------------------------------
(***************************************************************************)
(* What a whole run publishes agrees: it comes from settled tables, and    *)
(* the files of a generation hold what they were made of.                  *)
(***************************************************************************)
TablesAgree(e, i, r, ms) ==
  /\ DOMAIN i = DOMAIN e
  /\ UNION {e[p] : p \in DOMAIN e} = ms
  /\ \A p, q \in DOMAIN e : p # q => e[p] \cap e[q] = {}
  /\ \A q \in DOMAIN r : q \notin DOMAIN e /\ r[q] \in DOMAIN e

DigestAgrees(d) ==
  \A c \in Cik : TablesAgree(d[2][c], d[3][c], d[4][c], {m \in d[1] : CikOf[m] = c})

FilesAgree(files) ==
  \A c \in Cik :
    /\ TablesAgree(files["edges"][1][c], files["instruments"][1][c],
                   files["redirects"][1][c],
                   {m \in files["mentions"][1] : CikOf[m] = c})
    /\ \A m \in files["mentions"][1] : ItemOf[m] \in files["items"][1]

AgreeInv ==
  /\ pub.pc # "idle" /\ pub.whole => DigestAgrees(pub.digest)
  /\ pointer.gen # 0 /\ ~history.alone /\ late = {} => FilesAgree(gens[pointer.gen])

LEMMA ClustersAgree ==
  ASSUME NEW e, NEW i, NEW r, NEW ms, NEW links, Agree(e, i, r, Clustering(ms, links))
  PROVE  TablesAgree(e, i, r, ms)
<1> DEFINE ks == Clustering(ms, links)
<1>1. Divides(ks, ms)
  BY ClusteringDivides
<1>2. {e[p] : p \in DOMAIN e} = ks /\ \A p \in DOMAIN e : e[p] \in ks
  BY DEF Agree
<1> HIDE DEF ks
<1>3. UNION {e[p] : p \in DOMAIN e} = ms
  BY <1>1, <1>2 DEF Divides
<1>4. \A p, q \in DOMAIN e : p # q => e[p] \cap e[q] = {}
  BY <1>1, <1>2 DEF Divides, Agree
<1> QED BY <1>3, <1>4 DEF TablesAgree, Agree

LEMMA FilesHoldTheDigest ==
  ASSUME NEW files, NEW d, Made(files, d, 5, {}), DigestAgrees(d)
  PROVE  FilesAgree(files)
<1>1. \A i \in 1 .. 5 : Fits(files[Tables[i]], Tables[i], d, {})
  BY DEF Made
<1>2. /\ Tables[1] = "items" /\ Tables[2] = "instruments" /\ Tables[3] = "mentions"
      /\ Tables[4] = "edges" /\ Tables[5] = "redirects"
  BY DEF Tables
<1>3. /\ Fits(files["items"], "items", d, {}) /\ Fits(files["instruments"], "instruments", d, {})
      /\ Fits(files["mentions"], "mentions", d, {}) /\ Fits(files["edges"], "edges", d, {})
      /\ Fits(files["redirects"], "redirects", d, {})
  <2>1. 1 \in 1 .. 5 /\ 2 \in 1 .. 5 /\ 3 \in 1 .. 5 /\ 4 \in 1 .. 5 /\ 5 \in 1 .. 5
    OBVIOUS
  <2> QED BY <1>1, <1>2, <2>1
<1>4. PICK ms : files["mentions"] = <<ms>> /\ d[1] \subseteq ms /\ ms \subseteq d[1]
  BY <1>3 DEF Fits
<1>5. ms = d[1]
  BY <1>4
<1>6. /\ files["items"][1] = {ItemOf[m] : m \in d[1]} /\ files["instruments"][1] = d[3]
      /\ files["mentions"][1] = d[1] /\ files["edges"][1] = d[2]
      /\ files["redirects"][1] = d[4]
  BY <1>3, <1>4, <1>5 DEF Fits
<1> QED BY <1>6 DEF FilesAgree, DigestAgrees

LEMMA InitAgreeInv == Init => AgreeInv
BY DEF Init, PublishInit, AgreeInv, IdlePublish, NoPointer

LEMMA AgreeKept ==
  ASSUME AgreeInv, pub'.pc = "idle" \/ (pub.pc # "idle" /\ pub'.whole = pub.whole
                                         /\ pub'.digest = pub.digest),
         pointer'.gen = pointer.gen, history'.alone = history.alone, late \subseteq late',
         pointer.gen # 0 => gens'[pointer.gen] = gens[pointer.gen]
  PROVE  AgreeInv'
<1>1. late' = {} => late = {}
  OBVIOUS
<1> QED BY <1>1 DEF AgreeInv

LEMMA NextAgreeInv ==
  ASSUME IInv, MatchInv, GateInv, FreshInv, AgreeInv, [Next]_vars
  PROVE  AgreeInv'
<1>1. CASE PublishMatched
  <2>1. BeginPublish(FALSE, TRUE) /\ UNCHANGED <<pointer, gens, history, late>>
        /\ run.pc = "matched" /\ pub.pc = "idle"
    BY <1>1 DEF PublishMatched
  <2>2. CASE UNCHANGED pub
    BY <2>1, <2>2, AgreeKept
  <2>3. CASE pub' = [IdlePublish EXCEPT !.pc = "tables", !.gen = NextGen,
                       !.previous = pointer.gen, !.digest = SourceDigest,
                       !.force = FALSE, !.whole = TRUE, !.items = ReferencedItems]
    <3>1. pub'.digest = <<mentions, edges, instruments, redirects, code>>
      BY <2>3 DEF IdlePublish, SourceDigest
    <3>2. \A c \in Cik : TablesAgree(edges[c], instruments[c], redirects[c], MentionsOf(c))
      <4>1. \A c \in Cik : Settled(c)
        BY <2>1 DEF FreshInv, RunSettles, MatchInv, MatchShapes, Ending
      <4> QED BY <4>1, ClustersAgree DEF Settled, Fresh
    <3>3. DigestAgrees(pub'.digest)
      BY <3>1, <3>2 DEF DigestAgrees, MentionsOf
    <3> QED BY <2>1, <3>3 DEF AgreeInv
  <2> QED BY <2>1, <2>2, <2>3 DEF BeginPublish
<1>2. ASSUME NEW force \in BOOLEAN, PublishAlone(force) PROVE AgreeInv'
  <2>1. BeginPublish(force, FALSE) /\ UNCHANGED <<pointer, gens, history, late>> /\ pub.pc = "idle"
    BY <1>2 DEF PublishAlone
  <2>2. pub'.pc = "idle" \/ pub'.whole = FALSE
    BY <2>1 DEF BeginPublish, IdlePublish
  <2> QED BY <2>1, <2>2 DEF AgreeInv
<1>3. CASE WriteTable
  <2>1. /\ pub.pc = "tables" /\ UNCHANGED <<pointer, history, late>>
        /\ \A g \in DOMAIN gens \ {pub.gen} : gens'[g] = gens[g]
        /\ pub' = IF pub.next = Len(Tables) THEN [pub EXCEPT !.pc = "guard", !.next = 1]
                  ELSE [pub EXCEPT !.next = @ + 1]
    BY <1>3 DEF WriteTable, matchVars
  <2>2. pub'.whole = pub.whole /\ pub'.digest = pub.digest
    BY <2>1 DEF IInv, Shapes
  <2>3. pointer.gen # 0 => gens'[pointer.gen] = gens[pointer.gen]
    BY <2>1 DEF IInv, Shapes, Progress, PointedGenerationsExist, WholeGeneration
  <2> QED BY <2>1, <2>2, <2>3, AgreeKept
<1>4. CASE Refuse
  <2>1. /\ pub.pc = "guard" /\ UNCHANGED <<pointer, history, late>> /\ pub'.pc = "idle"
        /\ \A g \in DOMAIN gens \ {pub.gen} : gens'[g] = gens[g]
    BY <1>4 DEF Refuse, IdlePublish
  <2>2. pointer.gen # 0 => gens'[pointer.gen] = gens[pointer.gen]
    BY <2>1 DEF IInv, Shapes, Progress, PointedGenerationsExist, WholeGeneration
  <2> QED BY <2>1, <2>2, AgreeKept
<1>5. CASE MovePointer
  <2>1. /\ pub.pc = "guard" /\ UNCHANGED <<gens, late>>
        /\ pointer'.gen = pub.gen /\ history'.alone = ~pub.whole
        /\ pub'.whole = pub.whole /\ pub'.digest = pub.digest
    BY <1>5 DEF MovePointer, IInv, Shapes
  <2>2. pub.whole => DigestAgrees(pub.digest)
    BY <2>1 DEF AgreeInv
  <2>3. ASSUME pub.whole, late = {} PROVE FilesAgree(gens[pub.gen])
    BY <2>1, <2>2, <2>3, FilesHoldTheDigest DEF GateInv
  <2> QED BY <2>1, <2>2, <2>3 DEF AgreeInv
<1>6. CASE CopyLatest \/ RecordDigest
  <2>1. /\ pub.pc # "idle" /\ UNCHANGED <<gens, history, late>> /\ pointer'.gen = pointer.gen
        /\ pub'.whole = pub.whole /\ pub'.digest = pub.digest
    BY <1>6 DEF CopyLatest, RecordDigest, IInv, Shapes
  <2> QED BY <2>1, AgreeKept
<1>7. CASE Prune
  <2>1. /\ pub.pc = "prune" /\ UNCHANGED <<pointer, history, late>> /\ pub'.pc = "idle"
        /\ gens' = [g \in DOMAIN gens \cap {pub.gen, pub.previous} |-> gens[g]]
    BY <1>7 DEF Prune, IdlePublish
  <2>2. pointer.gen # 0 => gens'[pointer.gen] = gens[pointer.gen]
    BY <2>1 DEF IInv, Shapes, Progress, PointedGenerationsExist, WholeGeneration
  <2> QED BY <2>1, <2>2, AgreeKept
<1>8. ASSUME UNCHANGED <<pointer, gens, pub, late>>, history'.alone = history.alone
      PROVE  AgreeInv'
  BY <1>8, AgreeKept
<1>9. CASE Crash
  BY <1>9, AgreeKept DEF Crash, IdlePublish
<1>10. ASSUME NEW m \in Late, WriteLate(m) PROVE AgreeInv'
  BY <1>10, AgreeKept DEF WriteLate
<1>11. CASE StopAtMatch \/ UNCHANGED publishVars \/ UNCHANGED vars
  BY <1>8, <1>11 DEF StopAtMatch, publishVars, vars
<1>12. ASSUME history' = [history EXCEPT !.present = @ \cap mentions'],
              UNCHANGED <<pointer, gens, latest, pub, late>>
       PROVE  AgreeInv'
  BY <1>8, <1>12 DEF IInv, Shapes
<1> QED
  BY <1>1, <1>2, <1>3, <1>4, <1>5, <1>6, <1>7, <1>9, <1>10, <1>11, <1>12 DEF Next, PublishStep

(***************************************************************************)
(* Theorem: the tables of the generation readers resolve belong together,  *)
(* whenever a whole run published it and nobody wrote beside it.           *)
(***************************************************************************)
THEOREM PublishedTablesBelongTogether ==
  ~ChangeHalfMatched => (Spec => []PublishedTablesAgree)
<1> SUFFICES ASSUME ~ChangeHalfMatched PROVE Spec => []PublishedTablesAgree
  OBVIOUS
<1> DEFINE Inv == IInv /\ MatchInv /\ (Quiet => GateInv /\ FreshInv /\ AgreeInv)
<1>1. Inv => PublishedTablesAgree
  <2> SUFFICES ASSUME AgreeInv, pointer.gen # 0, ~history.alone, late = {}, NEW c \in Cik
               PROVE  /\ TablesAgree(File(pointer.gen, "edges")[c],
                                     File(pointer.gen, "instruments")[c],
                                     File(pointer.gen, "redirects")[c],
                                     {m \in File(pointer.gen, "mentions") : CikOf[m] = c})
                      /\ \A m \in File(pointer.gen, "mentions") :
                           ItemOf[m] \in File(pointer.gen, "items")
    BY DEF PublishedTablesAgree, TablesAgree, Quiet
  <2> QED BY DEF AgreeInv, FilesAgree, File
<1>2. Inv /\ [Next]_vars => Inv'
  BY NextIInv, NextMatchInv, QuietWas, NextGateInv, NextFreshInv, NextAgreeInv
<1>3. Init => Inv
  BY InitIInv, InitMatchInv, InitGateInv, InitFreshInv, InitAgreeInv
<1> QED BY <1>1, <1>2, <1>3, PTL DEF Spec
=============================================================================
