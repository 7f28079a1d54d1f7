------------------------------ MODULE MCLease ------------------------------
(***************************************************************************)
(* Lease on a small instance: a poll, whose deadline is the TTL, and a     *)
(* longer run that waits for the lease.                                    *)
(***************************************************************************)
EXTENDS Lease, TLC

CONSTANTS poll, daily

MCRun      == {poll, daily}
MCPatient  == {daily}
MCDeadline == [p \in Run |-> IF p = daily THEN 4 ELSE 2]
=============================================================================
