----------------------------- MODULE MCBftNode -----------------------------
(* Instances of BftNode for TLC. *)
EXTENDS BftNode, TLC

CONSTANTS v0, v1, v2, v3, o1, o2

OneValidator   == 0 :> v0
FourValidators == 0 :> v0 @@ 1 :> v1 @@ 2 :> v2 @@ 3 :> v3

(* The exploration stops at the third block: two rival blocks for one height, or
   one for each of two heights.                                              *)
TwoBlocks == Cardinality({p.block : p \in proposals}) <= 2
=============================================================================
