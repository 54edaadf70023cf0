--------------------------- MODULE MCBloomFilter ---------------------------
(***************************************************************************)
(* Two elements, with digests that agree in neither, one or both halves    *)
(* for some number of bits; bytes of two bits, so that two bits may share  *)
(* a byte or not; rates with one and two hash functions, of which the two  *)
(* may be one bit.                                                         *)
(***************************************************************************)
EXTENDS BloomFilter

MCElement      == {"a", "b"}
MCDigests      == [MCElement -> {<<0, 1>>, <<3, 2>>, <<5, 0>>, <<6, 7>>}]
MCRates        == {0, 15, 150}
MCMaxElements  == {-1, 0, 1, 2}
MCClientCounts == {-1, 0, 2}
MCInputs       == {<< >>, <<"a">>, <<"b">>, <<"b", "a">>, <<"a", "b", "a">>}
=============================================================================
