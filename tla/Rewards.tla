------------------------------- MODULE Rewards -------------------------------
(***************************************************************************)
(* DeveloperRewards of economics/rewards: the fees contracts earned, what  *)
(* of them is pending, and what was handed out to their deployers.         *)
(***************************************************************************)
EXTENDS Integers, FiniteSetsExt, Functions

CONSTANTS
    Contracts,     \* contract addresses
    Deployer,      \* Deployer[c]: who registers c
    FeeAmounts,    \* the fees recorded
    RewardMax      \* u64::MAX, for the rewards

ASSUME RewardsAssumption ==
    /\ IsFiniteSet(Contracts) /\ DOMAIN Deployer = Contracts
    /\ FeeAmounts \subseteq Nat /\ RewardMax \in Nat

VARIABLES
    earned,        \* registry: total_fees_earned of the registered contracts
    pending,       \* pending: undistributed, of the contracts that have any
    distributed,   \* total_distributed
    paid           \* history: what distribute_rewards handed to each developer

rewardVars == <<earned, pending, distributed, paid>>

Developers == {Deployer[c] : c \in Contracts}

DeployedBy(d) == {c \in DOMAIN earned : Deployer[c] = d}

PendingOf(c) == IF c \in DOMAIN pending THEN pending[c] ELSE 0
PendingFees  == [c \in DOMAIN earned |-> PendingOf(c)]

(* What distribute_rewards has events for, of d's contracts.  The query
   get_accumulated_rewards adds the same amounts in a u64, which may overflow.  *)
Undistributed(d) == SumFunctionOnSet(PendingFees, DeployedBy(d))

-----------------------------------------------------------------------------
RewardsInit ==
    /\ earned = [c \in {} |-> 0]
    /\ pending = [c \in {} |-> 0]
    /\ distributed = 0
    /\ paid = [d \in Developers |-> 0]

RegisterContract(c) ==
    /\ c \notin DOMAIN earned
    /\ earned' = [x \in DOMAIN earned \cup {c} |-> IF x = c THEN 0 ELSE earned[x]]
    /\ UNCHANGED <<pending, distributed, paid>>

(* Mutant of RecordFee: the pending fee replaces the one before it. *)
RecordFeeReplacing(c, fee) ==
    /\ fee > 0 /\ c \in DOMAIN earned
    /\ earned[c] + fee <= RewardMax
    /\ earned' = [earned EXCEPT ![c] = @ + fee]
    /\ pending' = [x \in DOMAIN pending \cup {c} |-> IF x = c THEN fee ELSE pending[x]]
    /\ UNCHANGED <<distributed, paid>>

(* record_fee: total_fees_earned is added up before pending, and stays when
   adding to pending overflows.                                              *)
RecordFee(c, fee) ==
    /\ fee > 0 /\ c \in DOMAIN earned
    /\ earned[c] + fee <= RewardMax
    /\ earned' = [earned EXCEPT ![c] = @ + fee]
    /\ pending' = IF PendingOf(c) + fee <= RewardMax
                  THEN [x \in DOMAIN pending \cup {c} |->
                           IF x = c THEN PendingOf(c) + fee ELSE pending[x]]
                  ELSE pending
    /\ UNCHANGED <<distributed, paid>>

(* distribute_rewards: pending is drained, with one event for each registered
   contract that had some.                                                   *)
DistributeRewards ==
    /\ pending # [c \in {} |-> 0]
    /\ paid' = [d \in Developers |-> paid[d] + Undistributed(d)]
    /\ distributed' = Min({distributed + SumFunction(PendingFees), RewardMax})
    /\ pending' = [c \in {} |-> 0]
    /\ UNCHANGED earned

RewardsNext ==
    \/ \E c \in Contracts : RegisterContract(c) \/ \E fee \in FeeAmounts : RecordFee(c, fee)
    \/ DistributeRewards

RewardsSpec == RewardsInit /\ [][RewardsNext]_rewardVars

-----------------------------------------------------------------------------
(* No developer reward is lost or paid twice: what a contract earned is pending
   or was paid to its deployer, over any order of fees and distributions and up
   to the overflow of the counters; total_distributed says how much until it
   saturates.                                                                *)
RewardsConserved ==
    /\ \A d \in Developers :
          SumFunctionOnSet(earned, DeployedBy(d)) = Undistributed(d) + paid[d]
    /\ distributed = Min({SumFunction(paid), RewardMax})
=============================================================================
