---------------------------- MODULE MCRangeRetry ----------------------------
(* RangeRetry for a short resource; the cfg gives its length. *)
EXTENDS RangeRetry
=============================================================================
