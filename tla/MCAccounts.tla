----------------------------- MODULE MCAccounts -----------------------------
(* Instances of Accounts for TLC: the configurations give the constants     *)
(* their values, two requests at once of which one or both may change the   *)
(* credentials.                                                             *)
EXTENDS Accounts, TLC

=============================================================================
