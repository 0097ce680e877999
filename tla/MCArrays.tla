------------------------------ MODULE MCArrays ------------------------------
(***************************************************************************)
(* An instance of the growing arrays for TLC: vectors with the initial     *)
(* capacities that have different doublings, characters of one to four     *)
(* bytes at the edges of their lengths, and room for a buffer that is      *)
(* doubled twice in one call.                                              *)
(***************************************************************************)
EXTENDS GrowingArrays

MCStrings    == {<<>>, <<97>>, <<97, 98, 99, 100, 101, 102>>}
MCCodepoints == {127, 128, 2047, 2048, 65535, 65536}
=============================================================================
