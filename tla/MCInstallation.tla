--------------------------- MODULE MCInstallation ---------------------------
(***************************************************************************)
(* A program and a decoder plugin it loads late.  Both installations use   *)
(* auto_rescan; the first scope takes every module.                        *)
(***************************************************************************)
EXTENDS Installation

CONSTANTS i1, i2, t1, t2

AllModules == Modules
MCAutoRescan == [i \in Installs |-> TRUE]
=============================================================================
