------------------------------- MODULE Bytes -------------------------------
(***************************************************************************)
(* What the two compressed containers share: bits are kept in bytes, and a *)
(* number of bits is rounded up to whole ones.                             *)
(***************************************************************************)
EXTENDS Integers, FiniteSets, Sequences

FE == INSTANCE FiniteSetsExt

CONSTANT CharSize  \* bits of a byte: 8 in the code

ASSUME CharSizeAssumption == CharSize \in Nat \ {0}

Bit == 0 .. CharSize - 1

DivCeil(a, b) == (a + b - 1) \div b
=============================================================================
