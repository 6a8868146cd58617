---------------------------- MODULE MCBftVoting ----------------------------
(* Instances of BftVoting for TLC. *)
EXTENDS BftVoting, TLC

CONSTANTS v0, v1, v2, v3, v4, o1

FiveValidators == 0 :> v0 @@ 1 :> v1 @@ 2 :> v2 @@ 3 :> v3 @@ 4 :> v4

(* The exploration stops where a node enters the first round past the bound. *)
WithinRounds == \A n \in Nodes : round[n] < MaxRound

(* It follows a restarted node until it contradicts itself for the second time. *)
OneContradiction ==
    Cardinality({v \in votes : /\ v.voter \in Restarting /\ v.block = Nil
                               /\ \E b \in VotedBlocks : [v EXCEPT !.block = b] \in votes}) < 2

(* Within rounds 0 and 1 of height 0, and on entering height 1, the proposers
   are v0 and v1: the other nodes do the same things and are interchangeable. *)
FollowerSymmetry == Permutations({v2, v3, v4, o1})
=============================================================================
