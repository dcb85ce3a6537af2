------------------------------ MODULE MCBitMask ------------------------------
(* Words of six bits: every value under every mask. *)
EXTENDS BitMask

MCWidth == 6
=============================================================================
