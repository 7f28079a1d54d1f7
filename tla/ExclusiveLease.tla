--------------------------- MODULE ExclusiveLease ---------------------------
(***************************************************************************)
(* What lease.py promises of the lock object: a register with an owner and *)
(* an expiry that changes hands only when the expiry has passed, is        *)
(* extended only for its owner, and is never dated more than a TTL ahead.  *)
(***************************************************************************)
EXTENDS Integers

CONSTANTS
  Client,   \* whoever may own the lease
  Nobody,   \* the owner of a lease that was never taken
  TTL       \* how far ahead of the clock an expiry may be

VARIABLES now, owner, until

vars == <<now, owner, until>>

Init ==
  /\ now \in Nat
  /\ owner = Nobody
  /\ until = 0

Take ==
  /\ until <= now
  /\ owner' \in Client
  /\ until' \in 1 .. now + TTL
  /\ UNCHANGED now

Extend ==
  /\ owner \in Client
  /\ until' \in until .. now + TTL
  /\ UNCHANGED <<now, owner>>

Release ==
  /\ owner \in Client
  /\ until' = 0
  /\ UNCHANGED <<now, owner>>

Tick ==
  /\ now' = now + 1
  /\ UNCHANGED <<owner, until>>

Next == Take \/ Extend \/ Release \/ Tick

Spec == Init /\ [][Next]_vars
=============================================================================
