--------------------------- MODULE MCExpiryCache ---------------------------
(***************************************************************************)
(* A cache of two entries used with three keys.                            *)
(***************************************************************************)
EXTENDS ExpiryCache, TLC

Symmetric == Permutations(Keys)
=============================================================================
