------------------------------- MODULE MCSending -------------------------------
(* Two tiers, narrow enough for a few calls to spend either. *)
EXTENDS Sending

SmallTiers == {[sends |-> 1, span |-> 1], [sends |-> 2, span |-> 3]}
=============================================================================
