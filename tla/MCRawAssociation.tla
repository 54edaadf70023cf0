-------------------------- MODULE MCRawAssociation --------------------------
(***************************************************************************)
(* Every response and every setup of up to three elements of three values, *)
(* sorted or not: runs of equal elements on both sides, at both ends.      *)
(***************************************************************************)
EXTENDS RawAssociation

MCValue      == 1 .. 3
MCSizes      == 0 .. 3
MCSetupSizes == 0 .. 3
=============================================================================
