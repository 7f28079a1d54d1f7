--------------------------- MODULE MCRowLifecycle ---------------------------
(***************************************************************************)
(* RowLifecycle with the budgets two ticks may be given.                   *)
(***************************************************************************)
EXTENDS RowLifecycle

MCBudgets == {1, 3}
=============================================================================
