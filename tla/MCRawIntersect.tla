--------------------------- MODULE MCRawIntersect ---------------------------
(***************************************************************************)
(* Every response and every setup of up to four elements of three values,  *)
(* sorted or not.                                                          *)
(***************************************************************************)
EXTENDS RawIntersect

MCValue      == 1 .. 3
MCSizes      == 0 .. 4
MCSetupSizes == 0 .. 3
=============================================================================
