---------------------------- MODULE LeaseProofs ----------------------------
(***************************************************************************)
(* Proofs about the pipeline-writer lease, for any set of runs, any TTL    *)
(* and any deadlines.                                                      *)
(***************************************************************************)
EXTENDS Lease, TLAPS

(* Type correctness of the lease protocol (lease.py).                      *)
THEOREM TypeCorrect == Spec => []TypeOK
<1>1. Init => TypeOK
  BY DEF Init, TypeOK, Bodies, Absent, EXPIRED, PCs
<1>2. TypeOK /\ [Next]_vars => TypeOK'
  <2> SUFFICES ASSUME TypeOK, [Next]_vars PROVE TypeOK'
    OBVIOUS
  <2> USE LeaseAssumption DEF TypeOK, PCs, Acquiring, Holding, Leaving, Over
  <2>1. CASE UNCHANGED vars
    BY <2>1 DEF vars
  <2>2. CASE Tick
    BY <2>2 DEF Tick
  <2>3. ASSUME NEW p \in Run, Acquire(p) PROVE TypeOK'
    <3>0. Payload(p) \in Bodies
      BY DEF Payload, LeaseOf, Bodies, Holder, Holders
    <3>1. CASE Start(p)
      BY <3>1 DEF Start, BeginAttempt, GoTo
    <3>2. CASE Create(p)
      BY <3>0, <3>2 DEF Create, Acquired, GoTo
    <3>3. CASE CreateAnswerLost(p)
      BY <3>0, <3>3 DEF CreateAnswerLost, GoTo
    <3>4. CASE CreateTorn(p)
      BY <3>4 DEF CreateTorn, GoTo, Corrupt, EXPIRED, Bodies
    <3>5. CASE ReadCurrent(p)
      BY <3>5 DEF ReadCurrent, GoTo
    <3>6. CASE TakeOver(p)
      BY <3>0, <3>6 DEF TakeOver, Acquired, GoTo
    <3>7. CASE TakeOverAnswerLost(p)
      BY <3>0, <3>7 DEF TakeOverAnswerLost, GoTo
    <3>8. CASE Sleep(p)
      BY <3>8 DEF Sleep, GoTo
    <3>9. CASE Wake(p)
      BY <3>9 DEF Wake, BeginAttempt, GoTo
    <3>10. CASE GiveUp(p)
      BY <3>10 DEF GiveUp, GoTo
    <3> QED
      BY <2>3, <3>1, <3>2, <3>3, <3>4, <3>5, <3>6, <3>7, <3>8, <3>9, <3>10
         DEF Acquire
  <2>4. ASSUME NEW p \in Run, Renew(p) PROVE TypeOK'
    <3>0. Renewed(p) \in Bodies
      <4>1. seen[p] \in Bodies /\ stamp[p] + TTL \in Nat
        OBVIOUS
      <4> QED
        BY <4>1 DEF Renewed, Bodies
    <3>1. CASE RenewRead(p)
      BY <3>1 DEF RenewRead, GoTo
    <3>2. CASE RenewSwap(p)
      BY <3>0, <3>2 DEF RenewSwap, GoTo
    <3>3. CASE RenewAnswerLost(p)
      BY <3>0, <3>3 DEF RenewAnswerLost, GoTo
    <3> QED
      BY <2>4, <3>1, <3>2, <3>3 DEF Renew
  <2>5. ASSUME NEW p \in Run, Release(p) PROVE TypeOK'
    <3>1. CASE Leave(p)
      BY <3>1 DEF Leave, GoTo
    <3>2. CASE ReleaseRead(p)
      BY <3>2 DEF ReleaseRead, GoTo
    <3>3. CASE ReleaseSwap(p)
      BY <3>3 DEF ReleaseSwap, GoTo, Bodies, EXPIRED
    <3> QED
      BY <2>5, <3>1, <3>2, <3>3 DEF Release
  <2>6. ASSUME NEW p \in Run, Crash(p) \/ Reap(p) PROVE TypeOK'
    BY <2>6 DEF Crash, Reap, GoTo
  <2> QED
    BY <2>1, <2>2, <2>3, <2>4, <2>5, <2>6 DEF Next
<1> QED
  BY <1>1, <1>2, PTL DEF Spec

(* A run that wins the lock object, once its expiry has passed, keeps         *)
(* LeaseInv: nobody else's copy of the expiry can be in the future            *)
(* (lease.py:115-126).                                                        *)
LEMMA AcquiredStep ==
  ASSUME TypeOK, LeaseInv, NEW p \in Run, Acquired(p), object.expires <= now,
         UNCHANGED <<now, attempt, startedAt, stamp, seen, renewedAt>>
  PROVE  LeaseInv'
<1> USE LeaseAssumption DEF TypeOK, LeaseInv, ExpiryIsBounded, StampsAreOld,
        TakersSawItExpired, WritersSawTheirOwn, BeliefIsSupported,
        Holding, IsMine, Holder, EXPIRED, GoTo
<1> DEFINE until == stamp[p] + TTL
<1>1. /\ object' = LeaseOf(Holder(p), until)
      /\ expires' = [expires EXCEPT ![p] = until]
      /\ pc' = [pc EXCEPT ![p] = "work"]
  BY DEF Acquired, Payload
<1>2. ExpiryIsBounded'
  BY <1>1 DEF LeaseOf
<1>3. StampsAreOld' /\ TakersSawItExpired' /\ WritersSawTheirOwn'
  BY <1>1
<1>4. BeliefIsSupported'
  <2> SUFFICES ASSUME NEW q \in Run, pc'[q] \in Holding
               PROVE  /\ expires'[q] >= startedAt[q] + TTL
                      /\ renewedAt[q] > 0 => expires'[q] >= renewedAt[q] + TTL
                      /\ expires'[q] > now => /\ IsMine(q, object)'
                                             /\ object'.expires >= expires'[q]
    OBVIOUS
  <2>1. CASE q = p
    BY <1>1, <2>1 DEF LeaseOf
  <2>2. CASE q # p
    <3>1. pc[q] \in Holding /\ expires'[q] = expires[q]
      BY <1>1, <2>2
    <3>2. ~(expires[q] > now)
      BY <3>1 DEF Bodies
    <3> QED
      BY <3>1, <3>2
  <2> QED
    BY <2>1, <2>2
<1> QED
  BY <1>2, <1>3, <1>4

(* LeaseInv is inductive: no step of a run, and no tick of the clock, breaks  *)
(* it (lease.py:104-145, 200-213).                                            *)
LEMMA LeaseInvStep == TypeOK /\ LeaseInv /\ [Next]_vars => LeaseInv'
<1> SUFFICES ASSUME TypeOK, LeaseInv, [Next]_vars PROVE LeaseInv'
  OBVIOUS
<1> USE LeaseAssumption DEF TypeOK, LeaseInv, ExpiryIsBounded, StampsAreOld,
        TakersSawItExpired, WritersSawTheirOwn, BeliefIsSupported,
        Holding, IsMine, Holder, EXPIRED, GoTo, At
<1>1. CASE UNCHANGED vars
  BY <1>1 DEF vars
<1>2. CASE Tick
  BY <1>2 DEF Tick, Bodies
<1>3. ASSUME NEW p \in Run, Start(p) PROVE LeaseInv'
  BY <1>3 DEF Start, BeginAttempt
<1>4. ASSUME NEW p \in Run, Create(p) PROVE LeaseInv'
  <2>1. CASE object = Absent
    BY <1>4, <2>1, AcquiredStep DEF Create, Absent
  <2>2. CASE object # Absent
    BY <1>4, <2>2 DEF Create
  <2> QED
    BY <2>1, <2>2
<1>5. ASSUME NEW p \in Run, CreateAnswerLost(p) PROVE LeaseInv'
  BY <1>5 DEF CreateAnswerLost, Payload, LeaseOf, Absent
<1>6. ASSUME NEW p \in Run, CreateTorn(p) PROVE LeaseInv'
  BY <1>6 DEF CreateTorn, Corrupt, Absent
<1>7. ASSUME NEW p \in Run, ReadCurrent(p) PROVE LeaseInv'
  BY <1>7 DEF ReadCurrent, HeldAt, Bodies
<1>8. ASSUME NEW p \in Run, TakeOver(p) PROVE LeaseInv'
  <2>1. CASE object = seen[p]
    <3>1. object.expires <= now
      BY <1>8, <2>1 DEF TakeOver, Bodies
    <3> QED
      BY <1>8, <2>1, <3>1, AcquiredStep DEF TakeOver
  <2>2. CASE object # seen[p]
    BY <1>8, <2>2 DEF TakeOver
  <2> QED
    BY <2>1, <2>2
<1>9. ASSUME NEW p \in Run, TakeOverAnswerLost(p) PROVE LeaseInv'
  BY <1>9 DEF TakeOverAnswerLost, Payload, LeaseOf, Bodies
<1>10. ASSUME NEW p \in Run, Sleep(p) PROVE LeaseInv'
  BY <1>10 DEF Sleep
<1>11. ASSUME NEW p \in Run, Wake(p) PROVE LeaseInv'
  BY <1>11 DEF Wake, BeginAttempt
<1>12. ASSUME NEW p \in Run, GiveUp(p) PROVE LeaseInv'
  BY <1>12 DEF GiveUp
<1>13. ASSUME NEW p \in Run, RenewRead(p) PROVE LeaseInv'
  BY <1>13 DEF RenewRead
<1>14. ASSUME NEW p \in Run, RenewSwap(p) PROVE LeaseInv'
  <2>1. CASE object # seen[p]
    BY <1>14, <2>1 DEF RenewSwap
  <2>2. CASE object = seen[p]
    <3> DEFINE until == stamp[p] + TTL
    <3>1. /\ UNCHANGED <<now, attempt, startedAt, stamp, seen>>
          /\ IsMine(p, object) /\ object.expires <= until
          /\ object'.kind = "lease" /\ object'.holder = object.holder
          /\ object'.expires = until
          /\ expires' = [expires EXCEPT ![p] = until]
          /\ renewedAt' = [renewedAt EXCEPT ![p] = stamp[p]]
          /\ pc' = [pc EXCEPT ![p] = "work"] /\ pc[p] = "renew"
      BY <1>14, <2>2 DEF RenewSwap, Renewed, Bodies
    <3>2. ExpiryIsBounded' /\ StampsAreOld' /\ TakersSawItExpired'
          /\ WritersSawTheirOwn'
      BY <3>1
    <3>3. BeliefIsSupported'
      <4> SUFFICES ASSUME NEW q \in Run, pc'[q] \in Holding
                   PROVE  /\ expires'[q] >= startedAt[q] + TTL
                          /\ renewedAt'[q] > 0 =>
                               expires'[q] >= renewedAt'[q] + TTL
                          /\ expires'[q] > now => /\ IsMine(q, object)'
                                                 /\ object'.expires >= expires'[q]
        BY <3>1
      <4>1. CASE q = p
        BY <3>1, <4>1
      <4>2. CASE q # p
        <5>1. /\ pc[q] \in Holding /\ expires'[q] = expires[q]
              /\ renewedAt'[q] = renewedAt[q]
          BY <3>1, <4>2
        <5>2. ~(expires[q] > now)
          BY <3>1, <4>2, <5>1
        <5> QED
          BY <5>1, <5>2
      <4> QED
        BY <4>1, <4>2
    <3> QED
      BY <3>2, <3>3
  <2> QED
    BY <2>1, <2>2
<1>15. ASSUME NEW p \in Run, RenewAnswerLost(p) PROVE LeaseInv'
  BY <1>15 DEF RenewAnswerLost, Renewed, Bodies
<1>16. ASSUME NEW p \in Run, Leave(p) PROVE LeaseInv'
  BY <1>16 DEF Leave
<1>17. ASSUME NEW p \in Run, ReleaseRead(p) PROVE LeaseInv'
  BY <1>17 DEF ReleaseRead
<1>18. ASSUME NEW p \in Run, ReleaseSwap(p) PROVE LeaseInv'
  BY <1>18 DEF ReleaseSwap, Bodies
<1>19. ASSUME NEW p \in Run, Crash(p) PROVE LeaseInv'
  BY <1>19 DEF Crash
<1>20. ASSUME NEW p \in Run, Reap(p) PROVE LeaseInv'
  BY <1>20 DEF Reap
<1> QED
  BY <1>1, <1>2, <1>3, <1>4, <1>5, <1>6, <1>7, <1>8, <1>9, <1>10, <1>11,
     <1>12, <1>13, <1>14, <1>15, <1>16, <1>17, <1>18, <1>19, <1>20
     DEF Next, Acquire, Renew, Release

LEMMA LeaseInvInit == Init => LeaseInv
BY LeaseAssumption
   DEF Init, LeaseInv, ExpiryIsBounded, StampsAreOld, TakersSawItExpired,
       WritersSawTheirOwn, BeliefIsSupported, Holding, Absent, EXPIRED

(* LeaseInv holds of every behaviour of the lease protocol (lease.py).        *)
THEOREM LeaseInvariant == Spec => []LeaseInv
<1>1. Init => LeaseInv
  BY LeaseInvInit
<1>2. TypeOK /\ LeaseInv /\ [Next]_vars => LeaseInv'
  BY LeaseInvStep
<1> QED
  BY <1>1, <1>2, TypeCorrect, PTL DEF Spec

(* Mutual exclusion: two runs never both hold a lease that they believe       *)
(* unexpired (lease.py:1-7).                                                  *)
THEOREM MutualExclusion == Spec => []UnexpiredHoldersAgree
<1>1. TypeOK /\ LeaseInv => UnexpiredHoldersAgree
  BY DEF TypeOK, LeaseInv, BeliefIsSupported, UnexpiredHoldersAgree, HasLease,
         IsMine, Holder
<1> QED
  BY <1>1, TypeCorrect, LeaseInvariant, PTL

(* A run whose deadline fits in the TTL owns the lock object until it is      *)
(* killed (run.py:55-57, 78-80).                                              *)
THEOREM ShortRunsAreExclusive == Spec => []ShortRunsOwnTheirLease
<1>1. TypeOK /\ LeaseInv => ShortRunsOwnTheirLease
  BY LeaseAssumption
     DEF TypeOK, Bodies, LeaseInv, BeliefIsSupported, ShortRunsOwnTheirLease,
         HasLease, Alive, Owns
<1> QED
  BY <1>1, TypeCorrect, LeaseInvariant, PTL

(* A renewal that a throttled hook skips is of a lease the run still owns     *)
(* (lease.py:174-197).                                                        *)
THEOREM ThrottlingIsSafe == Spec => []SkippedRenewalsAreSafe
<1>1. TypeOK /\ LeaseInv => SkippedRenewalsAreSafe
  BY LeaseAssumption
     DEF TypeOK, Bodies, LeaseInv, BeliefIsSupported, SkippedRenewalsAreSafe,
         HasLease, Owns
<1> QED
  BY <1>1, TypeCorrect, LeaseInvariant, PTL

(* Of two writers at once, one has outlived its lease and the object no       *)
(* longer names it, so that its next renewal fails (lease.py:135-137).        *)
THEOREM OverlapIsDetectable == Spec => []OverlappingWriterIsStale
<1>1. TypeOK /\ LeaseInv => OverlappingWriterIsStale
  BY LeaseAssumption
     DEF TypeOK, Bodies, LeaseInv, BeliefIsSupported, OverlappingWriterIsStale,
         HasLease, Alive, IsMine, Holder
<1> QED
  BY <1>1, TypeCorrect, LeaseInvariant, PTL

(* Every step on the lock object is a step of the exclusive lease, or leaves  *)
(* it alone (lease.py:104-145, 200-213).                                      *)
LEMMA RefinementStep ==
  TypeOK /\ TypeOK' /\ LeaseInv /\ [Next]_vars => [Promise!Next]_Promise!vars
<1> SUFFICES ASSUME TypeOK, TypeOK', LeaseInv, [Next]_vars
             PROVE  [Promise!Next]_Promise!vars
  OBVIOUS
<1> DEFINE owner == object.holder
           until == object.expires
<1> USE LeaseAssumption DEF TypeOK
<1>1. ASSUME UNCHANGED <<now, object>> PROVE [Promise!Next]_Promise!vars
  BY <1>1 DEF Promise!vars
<1>2. CASE Tick
  BY <1>2 DEF Tick, Promise!Next, Promise!Tick
<1>3. ASSUME NEW p \in Run, object' = Payload(p), until <= now, UNCHANGED now
      PROVE  Promise!Take
  <2>1. owner' = Holder(p) /\ until' = stamp[p] + TTL /\ stamp[p] <= now
    BY <1>3 DEF Payload, LeaseOf, LeaseInv, StampsAreOld
  <2>2. Holder(p) \in Holders
    BY DEF Holder, Holders
  <2>3. until' \in 1 .. now + TTL
    BY <2>1
  <2> QED
    BY <1>3, <2>1, <2>2, <2>3 DEF Promise!Take
<1>4. ASSUME NEW p \in Run, IsMine(p, object), object' = Renewed(p),
             object = seen[p], pc[p] = "renew", UNCHANGED now
      PROVE  Promise!Extend
  <2>1. owner' = owner /\ until' = stamp[p] + TTL
    BY <1>4 DEF Renewed, Bodies
  <2>2. owner \in Holders
    BY <1>4 DEF IsMine, Holder, Holders
  <2>3. until' \in until .. now + TTL
    BY <1>4, <2>1 DEF LeaseInv, WritersSawTheirOwn, StampsAreOld, Bodies
  <2> QED
    BY <1>4, <2>1, <2>2, <2>3 DEF Promise!Extend
<1>5. ASSUME NEW p \in Run, Create(p) \/ CreateAnswerLost(p)
      PROVE  [Promise!Next]_Promise!vars
  <2>1. CASE object = Absent
    BY <1>3, <1>5, <2>1
       DEF Create, CreateAnswerLost, Acquired, Absent, EXPIRED, Promise!Next
  <2>2. CASE object # Absent
    BY <1>1, <1>5, <2>2 DEF Create, CreateAnswerLost
  <2> QED
    BY <2>1, <2>2
<1>6. ASSUME NEW p \in Run, TakeOver(p) \/ TakeOverAnswerLost(p)
      PROVE  [Promise!Next]_Promise!vars
  <2>1. CASE object = seen[p]
    <3>1. until <= now
      BY <1>6, <2>1
         DEF TakeOver, TakeOverAnswerLost, At, LeaseInv, TakersSawItExpired,
             StampsAreOld, Bodies
    <3> QED
      BY <1>3, <1>6, <2>1, <3>1
         DEF TakeOver, TakeOverAnswerLost, Acquired, Promise!Next
  <2>2. CASE object # seen[p]
    BY <1>1, <1>6, <2>2 DEF TakeOver, TakeOverAnswerLost
  <2> QED
    BY <2>1, <2>2
<1>7. ASSUME NEW p \in Run, RenewSwap(p) \/ RenewAnswerLost(p)
      PROVE  [Promise!Next]_Promise!vars
  <2>1. CASE object = seen[p]
    <3>1. pc[p] = "renew" /\ IsMine(p, object)
      BY <1>7, <2>1
         DEF RenewSwap, RenewAnswerLost, At, LeaseInv, WritersSawTheirOwn
    <3> QED
      BY <1>4, <1>7, <2>1, <3>1 DEF RenewSwap, RenewAnswerLost, Promise!Next
  <2>2. CASE object # seen[p]
    BY <1>1, <1>7, <2>2 DEF RenewSwap, RenewAnswerLost
  <2> QED
    BY <2>1, <2>2
<1>8. ASSUME NEW p \in Run, ReleaseSwap(p)
      PROVE  [Promise!Next]_Promise!vars
  <2>1. CASE object = seen[p]
    <3>1. owner \in Holders
      <4>1. IsMine(p, object)
        BY <1>8, <2>1 DEF ReleaseSwap, At, LeaseInv, WritersSawTheirOwn
      <4> QED
        BY <4>1 DEF IsMine, Holder, Holders
    <3>2. owner' = owner /\ until' = 0 /\ UNCHANGED now
      BY <1>8, <2>1 DEF ReleaseSwap, EXPIRED, Bodies
    <3> QED
      BY <3>1, <3>2 DEF Promise!Next, Promise!Release
  <2>2. CASE object # seen[p]
    BY <1>1, <1>8, <2>2 DEF ReleaseSwap
  <2> QED
    BY <2>1, <2>2
<1>9. ASSUME NEW p \in Run, CreateTorn(p)
      PROVE  [Promise!Next]_Promise!vars
  BY <1>9 DEF CreateTorn, Absent, Corrupt, Promise!vars
<1>10. ASSUME NEW p \in Run,
              \/ Start(p) \/ ReadCurrent(p) \/ Sleep(p) \/ Wake(p) \/ GiveUp(p)
              \/ RenewRead(p) \/ Leave(p) \/ ReleaseRead(p) \/ Crash(p) \/ Reap(p)
       PROVE  [Promise!Next]_Promise!vars
  BY <1>1, <1>10
     DEF Start, ReadCurrent, Sleep, Wake, GiveUp, RenewRead, Leave, ReleaseRead,
         Crash, Reap
<1>11. CASE UNCHANGED vars
  BY <1>1, <1>11 DEF vars
<1> QED
  BY <1>2, <1>5, <1>6, <1>7, <1>8, <1>9, <1>10, <1>11
     DEF Next, Acquire, Renew, Release

(* The lock object of lease.py implements the exclusive lease: it changes     *)
(* hands only once it expired, and only its holder extends it.                *)
THEOREM LeaseImplementsExclusiveLease == Spec => ExclusiveLeaseSpec
<1>1. Init => Promise!Init
  BY DEF Init, Absent, EXPIRED, Promise!Init
<1>2. TypeOK /\ TypeOK' /\ LeaseInv /\ [Next]_vars => [Promise!Next]_Promise!vars
  BY RefinementStep
<1> QED
  BY <1>1, <1>2, TypeCorrect, LeaseInvariant, PTL
     DEF Spec, ExclusiveLeaseSpec, Promise!Spec

(* Only a release makes a lease expire earlier, and only the run it names     *)
(* releases it: it swaps what it read to be its own (lease.py:200-213), while *)
(* a take-over or a renewal only ever moves the expiry on.                    *)
LEMMA ReleaseStep ==
  ASSUME TypeOK, LeaseInv, Next, object'.expires < object.expires,
         object'.kind = "lease"
  PROVE  \E p \in Run : IsMine(p, object) /\ pc[p] = "unlock" /\ pc'[p] = "done"
<1> USE LeaseAssumption DEF TypeOK
<1>0. object.expires \in Nat
  BY DEF Bodies
<1>1. object' # object
  BY <1>0
<1>2. ASSUME NEW p \in Run, object' = Payload(p), object.expires <= stamp[p] PROVE FALSE
  BY <1>0, <1>2 DEF Payload, LeaseOf
<1>3. ASSUME NEW p \in Run, Create(p) \/ CreateAnswerLost(p) PROVE FALSE
  <2>1. object = Absent /\ object' = Payload(p)
    BY <1>1, <1>3 DEF Create, CreateAnswerLost, Acquired
  <2> QED
    BY <1>2, <2>1 DEF Absent, EXPIRED
<1>4. ASSUME NEW p \in Run, TakeOver(p) \/ TakeOverAnswerLost(p) PROVE FALSE
  <2>1. object = seen[p] /\ object' = Payload(p) /\ pc[p] = "swap"
    BY <1>1, <1>4 DEF TakeOver, TakeOverAnswerLost, Acquired, At
  <2> QED
    BY <1>2, <2>1 DEF LeaseInv, TakersSawItExpired
<1>5. ASSUME NEW p \in Run, RenewSwap(p) \/ RenewAnswerLost(p) PROVE FALSE
  <2>1. object = seen[p] /\ object' = Renewed(p) /\ pc[p] = "renew"
    BY <1>1, <1>5 DEF RenewSwap, RenewAnswerLost, At
  <2>2. object.expires <= object'.expires
    BY <2>1 DEF LeaseInv, WritersSawTheirOwn, Renewed, Bodies
  <2> QED
    BY <1>0, <2>1, <2>2 DEF Renewed, Bodies
<1>6. ASSUME NEW p \in Run, CreateTorn(p) PROVE FALSE
  BY <1>6 DEF CreateTorn, Corrupt
<1>7. ASSUME NEW p \in Run, ReleaseSwap(p)
      PROVE  IsMine(p, object) /\ pc[p] = "unlock" /\ pc'[p] = "done"
  BY <1>1, <1>7 DEF ReleaseSwap, At, GoTo, LeaseInv, WritersSawTheirOwn
<1> QED
  BY <1>1, <1>3, <1>4, <1>5, <1>6, <1>7
     DEF Next, Tick, Acquire, Renew, Release, Start, ReadCurrent, Sleep, Wake, GiveUp,
         RenewRead, Leave, ReleaseRead, Crash, Reap

(* Theorem: no release by a run that was overtaken expires its successor      *)
(* (lease.py:200-213).                                                        *)
THEOREM ReleasesAreByTheHolder == Spec => OnlyTheHolderReleases
<1>1. TypeOK /\ LeaseInv /\ [Next]_vars =>
        [object'.expires < object.expires /\ object'.kind = "lease"
           => \E p \in Run : IsMine(p, object) /\ pc[p] = "unlock" /\ pc'[p] = "done"]_vars
  BY ReleaseStep
<1> QED
  BY <1>1, TypeCorrect, LeaseInvariant, PTL DEF Spec, OnlyTheHolderReleases
=============================================================================
