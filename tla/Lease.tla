------------------------------- MODULE Lease -------------------------------
(***************************************************************************)
(* The pipeline-writer lease: one object in artifact storage that every    *)
(* command which writes outputs must hold (lease.py), taken by conditional *)
(* writes (storage/objects.py) and guarded by the runtime watchdog         *)
(* (run.py).                                                               *)
(*                                                                         *)
(* A Run is one process: one `cdt run poll`, `daily` or `historical`, or   *)
(* one stage command.  A process that is started again is another element  *)
(* of Run.  Every acquisition attempt draws a fresh uuid; Holder(p) is the *)
(* uuid of run p's current attempt.                                        *)
(*                                                                         *)
(* Each read and each conditional write of the object is a step of its     *)
(* own, and time may pass between any two of them.  The version token of a *)
(* conditional replace is a hash of the body (S3 ETag), so "still has this *)
(* version" is "still has this content".                                   *)
(***************************************************************************)
EXTENDS Integers

CONSTANTS
  Run,        \* the processes
  NoHolder,   \* the holder of an absent or unreadable lock object
  Patient,    \* those that wait for a held lease (daily, historical)
  TTL,        \* DEFAULT_LEASE_TTL_SECONDS
  Deadline,   \* Deadline[p]: MODE_DEADLINE_HOURS of run p's mode
  LeaseWait,  \* LEASE_WAIT_SECONDS
  LeasePoll,  \* LEASE_POLL_SECONDS
  Interval,   \* RENEW_INTERVAL_SECONDS
  LastStart,  \* bound: no run starts later than this
  MaxTime     \* bound: the clock stops here

ASSUME LeaseAssumption ==
  /\ NoHolder \notin Run \X Nat
  /\ Patient \subseteq Run
  /\ TTL \in Nat \ {0}
  /\ Deadline \in [Run -> Nat \ {0}]
  /\ LeaseWait \in Nat
  /\ LeasePoll \in Nat \ {0}
  /\ Interval \in Nat /\ Interval <= TTL
  /\ LastStart \in Nat
  /\ MaxTime \in Nat

VARIABLES
  now,        \* wall clock, the same for every host
  object,     \* locks/pipeline-writer.json
  pc,         \* where each run is
  attempt,    \* acquisitions each run has tried: its current holder uuid
  startedAt,  \* when each run armed its watchdog
  stamp,      \* `now` as acquire_lease or renew_lease read it
  seen,       \* what the last versioned read returned
  expires,    \* Lease.expires_at as the run believes it
  renewedAt   \* last_renewed of a throttled hook, 0 before its first renewal

vars == <<now, object, pc, attempt, startedAt, stamp, seen, expires, renewedAt>>

Holder(p) == <<p, attempt[p]>>

(***************************************************************************)
(* The lock object.  A release stamps 1970 over the expiry and keeps the   *)
(* holder; a body that does not parse reads as expired.                    *)
(***************************************************************************)
EXPIRED  == 0
Absent   == [kind |-> "absent",  holder |-> NoHolder, expires |-> EXPIRED]
Corrupt  == [kind |-> "corrupt", holder |-> NoHolder, expires |-> EXPIRED]
LeaseOf(h, until) == [kind |-> "lease", holder |-> h, expires |-> until]

\* Faulty: a TTL shorter than the deadline of a poll.
PayloadShortTTL(p) == LeaseOf(Holder(p), stamp[p] + TTL - 1)

Payload(p) == LeaseOf(Holder(p), stamp[p] + TTL)

IsMine(p, body) == body.kind = "lease" /\ body.holder = Holder(p)

(***************************************************************************)
(* Program counters.  A run holds a lease, as far as it knows, from the    *)
(* end of its acquisition to the end of its release.                       *)
(***************************************************************************)
Acquiring == {"create", "read", "swap", "held", "asleep"}
Holding   == {"work", "renew"}
Leaving   == {"lost", "release", "unlock"}
Over      == {"done", "dead"}
PCs       == {"off"} \cup Acquiring \cup Holding \cup Leaving \cup Over

\* Faulty: a process without a watchdog.
AliveUnwatched(p) == TRUE

\* The watchdog timer was armed before the lease was asked for and ends the
\* process, without its `finally` blocks, when the deadline is reached.
Alive(p) == now < startedAt[p] + Deadline[p]

HasLease(p) == pc[p] \in Holding /\ Alive(p)

Init ==
  /\ now = 1
  /\ object = Absent
  /\ pc = [p \in Run |-> "off"]
  /\ attempt = [p \in Run |-> 0]
  /\ startedAt = [p \in Run |-> 0]
  /\ stamp = [p \in Run |-> 0]
  /\ seen = [p \in Run |-> Absent]
  /\ expires = [p \in Run |-> 0]
  /\ renewedAt = [p \in Run |-> 0]

At(p, place) == pc[p] = place /\ Alive(p)

GoTo(p, place) == pc' = [pc EXCEPT ![p] = place]

BeginAttempt(p) ==
  /\ attempt' = [attempt EXCEPT ![p] = @ + 1]
  /\ stamp' = [stamp EXCEPT ![p] = now]
  /\ GoTo(p, "create")

\* The CLI arms the watchdog, then the mode asks for the lease.
Start(p) ==
  /\ pc[p] = "off"
  /\ now <= LastStart
  /\ startedAt' = [startedAt EXCEPT ![p] = now]
  /\ BeginAttempt(p)
  /\ UNCHANGED <<now, object, seen, expires, renewedAt>>

Acquired(p) ==
  /\ object' = Payload(p)
  /\ expires' = [expires EXCEPT ![p] = stamp[p] + TTL]
  /\ GoTo(p, "work")

\* Faulty: a plain put where the code creates conditionally.
CreateBlind(p) ==
  /\ At(p, "create")
  /\ Acquired(p)
  /\ UNCHANGED <<now, attempt, startedAt, stamp, seen, renewedAt>>

Create(p) ==
  /\ At(p, "create")
  /\ IF object = Absent
     THEN Acquired(p)
     ELSE GoTo(p, "read") /\ UNCHANGED <<object, expires>>
  /\ UNCHANGED <<now, attempt, startedAt, stamp, seen, renewedAt>>

\* The PUT landed but its answer did not; the client's retry of the same PUT is
\* then refused, so the run takes itself for a loser.
CreateAnswerLost(p) ==
  /\ At(p, "create")
  /\ object = Absent
  /\ object' = Payload(p)
  /\ GoTo(p, "read")
  /\ UNCHANGED <<now, attempt, startedAt, stamp, seen, expires, renewedAt>>

\* A local exclusive create that dies before its body is written.
CreateTorn(p) ==
  /\ At(p, "create")
  /\ object = Absent
  /\ object' = Corrupt
  /\ GoTo(p, "dead")
  /\ UNCHANGED <<now, attempt, startedAt, stamp, seen, expires, renewedAt>>

\* `_current_expiry`: a corrupt body has no expiry and counts as expired.
HeldAt(body, time) == body.kind = "lease" /\ body.expires > time

\* Faulty: the expiry of the current holder is not looked at.
ReadCurrentUnchecked(p) ==
  /\ At(p, "read")
  /\ seen' = [seen EXCEPT ![p] = object]
  /\ GoTo(p, "swap")
  /\ UNCHANGED <<now, object, attempt, startedAt, stamp, expires, renewedAt>>

ReadCurrent(p) ==
  /\ At(p, "read")
  /\ seen' = [seen EXCEPT ![p] = object]
  /\ GoTo(p, IF HeldAt(object, stamp[p]) THEN "held" ELSE "swap")
  /\ UNCHANGED <<now, object, attempt, startedAt, stamp, expires, renewedAt>>

\* Faulty: a takeover that does not compare the version.
TakeOverBlind(p) ==
  /\ At(p, "swap")
  /\ Acquired(p)
  /\ UNCHANGED <<now, attempt, startedAt, stamp, seen, renewedAt>>

TakeOver(p) ==
  /\ At(p, "swap")
  /\ IF object = seen[p]
     THEN Acquired(p)
     ELSE GoTo(p, "held") /\ UNCHANGED <<object, expires>>
  /\ UNCHANGED <<now, attempt, startedAt, stamp, seen, renewedAt>>

TakeOverAnswerLost(p) ==
  /\ At(p, "swap")
  /\ object = seen[p]
  /\ object' = Payload(p)
  /\ GoTo(p, "held")
  /\ UNCHANGED <<now, attempt, startedAt, stamp, seen, expires, renewedAt>>

\* acquire_lease returned None: daily and historical sleep and try again until
\* LEASE_WAIT_SECONDS have passed; a poll or a stage command gives up at once.
Sleep(p) ==
  /\ At(p, "held")
  /\ p \in Patient
  /\ now < startedAt[p] + LeaseWait
  /\ stamp' = [stamp EXCEPT ![p] = now]
  /\ GoTo(p, "asleep")
  /\ UNCHANGED <<now, object, attempt, startedAt, seen, expires, renewedAt>>

Wake(p) ==
  /\ At(p, "asleep")
  /\ now >= stamp[p] + LeasePoll
  /\ BeginAttempt(p)
  /\ UNCHANGED <<now, object, startedAt, seen, expires, renewedAt>>

GiveUp(p) ==
  /\ At(p, "held")
  /\ p \in Patient => now >= startedAt[p] + LeaseWait
  /\ GoTo(p, "done")
  /\ UNCHANGED <<now, object, attempt, startedAt, stamp, seen, expires, renewedAt>>

(***************************************************************************)
(* A holder may renew at any phase boundary.  Its work in between changes  *)
(* nothing here: what matters is that it may be writing whenever it is at  *)
(* "work".                                                                 *)
(***************************************************************************)
RenewRead(p) ==
  /\ At(p, "work")
  /\ seen' = [seen EXCEPT ![p] = object]
  /\ stamp' = [stamp EXCEPT ![p] = now]
  /\ GoTo(p, IF IsMine(p, object) THEN "renew" ELSE "lost")
  /\ UNCHANGED <<now, object, attempt, startedAt, expires, renewedAt>>

Renewed(p) == [seen[p] EXCEPT !.expires = stamp[p] + TTL]

RenewSwap(p) ==
  /\ At(p, "renew")
  /\ IF object = seen[p]
     THEN /\ object' = Renewed(p)
          /\ expires' = [expires EXCEPT ![p] = stamp[p] + TTL]
          /\ renewedAt' = [renewedAt EXCEPT ![p] = stamp[p]]
          /\ GoTo(p, "work")
     ELSE GoTo(p, "lost") /\ UNCHANGED <<object, expires, renewedAt>>
  /\ UNCHANGED <<now, attempt, startedAt, stamp, seen>>

RenewAnswerLost(p) ==
  /\ At(p, "renew")
  /\ object = seen[p]
  /\ object' = Renewed(p)
  /\ GoTo(p, "lost")
  /\ UNCHANGED <<now, attempt, startedAt, stamp, seen, expires, renewedAt>>

\* LeaseLostError, or the end of the work, reaches the `finally`.
Leave(p) ==
  /\ At(p, "work") \/ At(p, "lost")
  /\ GoTo(p, "release")
  /\ UNCHANGED <<now, object, attempt, startedAt, stamp, seen, expires, renewedAt>>

ReleaseRead(p) ==
  /\ At(p, "release")
  /\ seen' = [seen EXCEPT ![p] = object]
  /\ GoTo(p, IF IsMine(p, object) THEN "unlock" ELSE "done")
  /\ UNCHANGED <<now, object, attempt, startedAt, stamp, expires, renewedAt>>

\* Faulty: a release that overwrites whatever is there.
ReleaseSwapBlind(p) ==
  /\ At(p, "unlock")
  /\ object' = [seen[p] EXCEPT !.expires = EXPIRED]
  /\ GoTo(p, "done")
  /\ UNCHANGED <<now, attempt, startedAt, stamp, seen, expires, renewedAt>>

ReleaseSwap(p) ==
  /\ At(p, "unlock")
  /\ object' = IF object = seen[p]
               THEN [seen[p] EXCEPT !.expires = EXPIRED]
               ELSE object
  /\ GoTo(p, "done")
  /\ UNCHANGED <<now, attempt, startedAt, stamp, seen, expires, renewedAt>>

\* Killed at any point: out of memory, a task stop, an exception before the try.
Crash(p) ==
  /\ pc[p] \in Acquiring \cup Holding \cup Leaving
  /\ Alive(p)
  /\ GoTo(p, "dead")
  /\ UNCHANGED <<now, object, attempt, startedAt, stamp, seen, expires, renewedAt>>

\* The watchdog: os._exit at the deadline.
Reap(p) ==
  /\ pc[p] \in Acquiring \cup Holding \cup Leaving
  /\ ~Alive(p)
  /\ GoTo(p, "dead")
  /\ UNCHANGED <<now, object, attempt, startedAt, stamp, seen, expires, renewedAt>>

Tick ==
  /\ now < MaxTime
  /\ now' = now + 1
  /\ UNCHANGED <<object, pc, attempt, startedAt, stamp, seen, expires, renewedAt>>

Acquire(p) ==
  \/ Start(p) \/ Create(p) \/ CreateAnswerLost(p) \/ CreateTorn(p)
  \/ ReadCurrent(p) \/ TakeOver(p) \/ TakeOverAnswerLost(p)
  \/ Sleep(p) \/ Wake(p) \/ GiveUp(p)

Renew(p) == RenewRead(p) \/ RenewSwap(p) \/ RenewAnswerLost(p)

Release(p) == Leave(p) \/ ReleaseRead(p) \/ ReleaseSwap(p)

Next ==
  \/ \E p \in Run : Acquire(p) \/ Renew(p) \/ Release(p) \/ Crash(p) \/ Reap(p)
  \/ Tick

Spec == Init /\ [][Next]_vars

\* No fairness on what a run does: it may wedge anywhere.  The clock moves and
\* an expired watchdog fires.
FairSpec == Spec /\ WF_vars(Tick) /\ \A p \in Run : WF_vars(Reap(p))

-----------------------------------------------------------------------------

\* Holder uuids, and the bodies the object can have.
Holders == Run \X Nat
Bodies  == [kind : {"absent", "corrupt", "lease"},
            holder : Holders \cup {NoHolder},
            expires : Nat]

(* Type invariant: every variable of the lease protocol (lease.py) has the   *)
(* shape the code gives it.                                                   *)
TypeOK ==
  /\ now \in Nat
  /\ object \in Bodies
  /\ pc \in [Run -> PCs]
  /\ attempt \in [Run -> Nat]
  /\ startedAt \in [Run -> Nat]
  /\ stamp \in [Run -> Nat]
  /\ seen \in [Run -> Bodies]
  /\ expires \in [Run -> Nat]
  /\ renewedAt \in [Run -> Nat]

Owns(p) == IsMine(p, object) /\ object.expires > now

(* What the four properties below rest on, together inductive.  A run's stamp *)
(* is never ahead of the clock; a taker swaps only what it saw expired and a  *)
(* renewer or releaser only what it saw to be its own (lease.py:113-136,      *)
(* 208-213); and a holder whose own copy of the expiry has not passed is the  *)
(* one the object names, for at least as long.                                *)
ExpiryIsBounded ==
  /\ object.expires <= now + TTL
  /\ object.kind # "lease" => object.expires = EXPIRED

StampsAreOld ==
  \A p \in Run :
    startedAt[p] <= stamp[p] /\ renewedAt[p] <= stamp[p] /\ stamp[p] <= now

TakersSawItExpired ==
  \A p \in Run : pc[p] = "swap" => seen[p].expires <= stamp[p]

WritersSawTheirOwn ==
  \A p \in Run :
    /\ pc[p] \in {"renew", "unlock"} => IsMine(p, seen[p])
    /\ pc[p] = "renew" => seen[p].expires <= stamp[p] + TTL

BeliefIsSupported ==
  \A p \in Run : pc[p] \in Holding =>
    /\ expires[p] >= startedAt[p] + TTL
    /\ renewedAt[p] > 0 => expires[p] >= renewedAt[p] + TTL
    /\ expires[p] > now => IsMine(p, object) /\ object.expires >= expires[p]

LeaseInv ==
  /\ ExpiryIsBounded
  /\ StampsAreOld
  /\ TakersSawItExpired
  /\ WritersSawTheirOwn
  /\ BeliefIsSupported

(* Two runs never both have a lease they believe unexpired: racing            *)
(* acquirers never both win, and a takeover happens only once the previous    *)
(* holder's own copy of its expiry has passed (lease.py:1-14).                *)
UnexpiredHoldersAgree ==
  \A p, q \in Run :
    /\ HasLease(p) /\ expires[p] > now
    /\ HasLease(q) /\ expires[q] > now
    => p = q

(* A run whose watchdog deadline fits in the TTL (poll) owns the object for   *)
(* as long as it can write, whether or not it ever renews: it is killed       *)
(* before anybody may take the lease over (run.py:55-57, 78-80).              *)
ShortRunsOwnTheirLease ==
  \A p \in Run : HasLease(p) /\ Deadline[p] <= TTL => Owns(p)

(* A throttled hook that returns without touching storage skips only          *)
(* renewals of a lease that cannot have been stolen (lease.py:174-197).       *)
SkippedRenewalsAreSafe ==
  \A p \in Run :
    (HasLease(p) /\ renewedAt[p] > 0 /\ now - renewedAt[p] < Interval) => Owns(p)

(* When two runs are writing at once, at least one of them has outlived its   *)
(* lease without renewing, and its next renewal finds that out: the object no *)
(* longer names it (lease.py:148-153).                                        *)
OverlappingWriterIsStale ==
  \A p, q \in Run :
    p # q /\ HasLease(p) /\ HasLease(q)
    => \E r \in {p, q} : ~IsMine(r, object) /\ Deadline[r] > TTL

(* The lock object implements an exclusive lease: it changes hands only once  *)
(* it expired, was released or is unreadable, and only its holder extends it  *)
(* (lease.py:110, 118-124, 136).                                              *)
Promise == INSTANCE ExclusiveLease WITH
  Client <- Holders, Nobody <- NoHolder,
  owner <- object.holder, until <- object.expires

ExclusiveLeaseSpec == Promise!Spec

(* A lease is cut short only by its own holder, on its way out: no release    *)
(* by a run that was overtaken expires its successor (lease.py:200-213).      *)
OnlyTheHolderReleases ==
  [][object'.expires < object.expires /\ object'.kind = "lease"
       => \E p \in Run : IsMine(p, object) /\ pc[p] = "unlock" /\ pc'[p] = "done"]_vars

(* However runs crash or wedge, the lease comes free: the watchdog ends the   *)
(* run and the TTL its lease (run.py:70-80, lease.py:13).                     *)
LeaseComesFree == <>[](~HeldAt(object, now))

=============================================================================
