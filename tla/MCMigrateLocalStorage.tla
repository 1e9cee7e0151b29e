------------------------ MODULE MCMigrateLocalStorage ------------------------
(* Instances of MigrateLocalStorage for TLC. *)
EXTENDS MigrateLocalStorage, TLC
=============================================================================
