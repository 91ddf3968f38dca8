---- MODULE MCServiceAccounts ----
(* ServiceAccounts with the constants given in the configurations. *)
EXTENDS ServiceAccounts
====
