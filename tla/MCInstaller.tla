----------------------------- MODULE MCInstaller -----------------------------
(***************************************************************************)
(* Scripts in a row; a guard of three looks under a settling and a live    *)
(* test that may take four, in the order that the source's numbers have.   *)
(***************************************************************************)
EXTENDS Installer
=============================================================================
