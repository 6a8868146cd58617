------------------------------- MODULE Economy -------------------------------
(***************************************************************************)
(* The economics crates side by side, as a validator process holds them:   *)
(* staking pool, fee market and developer rewards.  Each is one value       *)
(* behind one lock, and each method is a step.                             *)
(***************************************************************************)
EXTENDS Staking, Fees, Rewards

vars == <<stakingVars, feeVars, rewardVars>>

Init == StakingInit /\ FeeInit /\ RewardsInit

Next ==
    \/ StakingNext /\ UNCHANGED <<feeVars, rewardVars>>
    \/ FeeNext /\ UNCHANGED <<stakingVars, rewardVars>>
    \/ RewardsNext /\ UNCHANGED <<stakingVars, feeVars>>

Spec == Init /\ [][Next]_vars
=============================================================================
