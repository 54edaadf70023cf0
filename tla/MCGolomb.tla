------------------------------ MODULE MCGolomb ------------------------------
(***************************************************************************)
(* Bytes of three bits: a word may lie in a byte, end with it, span two or *)
(* three of them or be followed by another in the same one; its remainder  *)
(* may have no bits, fewer than a byte, as many, or more.                  *)
(***************************************************************************)
EXTENDS Golomb

MCHash        == {0, 1, 2, 5, 9, 12}
MCDiv         == 0 .. 4
MCServerSizes == 0 .. 3
MCClientSizes == 0 .. 2
=============================================================================
