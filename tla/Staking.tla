-------------------------------- MODULE Staking --------------------------------
(***************************************************************************)
(* StakingPool of economics/staking: locked positions, direct ones keyed by *)
(* the staker and delegated ones by (delegator, validator).  stake and      *)
(* delegate, unstake and undelegate are the same code on the two maps.      *)
(***************************************************************************)
EXTENDS Lists, SequencesExt, FiniteSetsExt

CONSTANTS
    Stakers,      \* public keys that stake for themselves
    Delegations,  \* (delegator, validator) pairs
    Amounts,      \* the amounts asked for
    Tiers,        \* the lock tiers used
    Epochs,       \* the values set_epoch is called with
    MaxEntries,   \* bound: entries under one key
    MaxU64        \* u64::MAX

VARIABLES
    positions,    \* entries and delegations: key |-> sequence of [amount, tier, unlock]
    totalStaked,  \* total_staked
    epoch         \* current_epoch

stakingVars == <<positions, totalStaked, epoch>>

(* A direct stake is keyed <<staker>>, a delegation <<delegator, validator>>. *)
DirectKey(k)  == <<k>>
PositionKeys  == {DirectKey(k) : k \in Stakers} \cup Delegations
Never         == -1      \* None: a Permanent lock

(* LockTier::lock_duration_epochs *)
LockDuration ==
    [NoLock |-> 0, ThirtyDay |-> 30, NinetyDay |-> 90, OneEightyDay |-> 180,
     ThreeSixtyDay |-> 360, Delegator |-> 0, Permanent |-> Never]

(* LockTier::vote_weight_bps *)
VoteWeight ==
    [NoLock |-> 0, ThirtyDay |-> 100, NinetyDay |-> 200, OneEightyDay |-> 300,
     ThreeSixtyDay |-> 500, Delegator |-> 1000, Permanent |-> 1500]

(* LockTier::rate_pct: percentage of the base rate. *)
RatePct ==
    [NoLock |-> 5, ThirtyDay |-> 10, NinetyDay |-> 20, OneEightyDay |-> 30,
     ThreeSixtyDay |-> 50, Delegator |-> 100, Permanent |-> 120]

ASSUME StakingAssumption ==
    /\ IsFiniteSet(Stakers) /\ IsFiniteSet(Delegations)
    /\ Amounts \subseteq Nat /\ Epochs \subseteq Nat /\ MaxU64 \in Nat
    /\ Tiers \subseteq DOMAIN LockDuration

BaseApyBps    == 500
RewardDivisor == 100 * 10000 * 365

IsUnlocked(e, now) == e.unlock # Never /\ now >= e.unlock

AmountIn(entries) == SumFunction([i \in DOMAIN entries |-> entries[i].amount])
UnlockedIn(entries, now) ==
    SumFunction([i \in DOMAIN entries |->
                    IF IsUnlocked(entries[i], now) THEN entries[i].amount ELSE 0])

(* Mutant of Withdraw: locked entries are not skipped. *)
WithdrawLocked(entries, now, amount) ==
    FoldLeft(LAMBDA acc, e :
                 LET taken == Min({e.amount, acc.want})
                     left  == [e EXCEPT !.amount = @ - taken]
                 IN  [want |-> acc.want - taken,
                      kept |-> IF taken = e.amount THEN acc.kept ELSE Append(acc.kept, left)],
             [want |-> amount, kept |-> <<>>],
             entries).kept

(* Mutant of Withdraw: the newest unlocked entries are used up first. *)
WithdrawNewestFirst(entries, now, amount) ==
    FoldRight(LAMBDA e, acc :
                  LET taken == IF IsUnlocked(e, now) THEN Min({e.amount, acc.want}) ELSE 0
                      left  == [e EXCEPT !.amount = @ - taken]
                  IN  [want |-> acc.want - taken,
                       kept |-> IF taken = e.amount THEN acc.kept ELSE <<left>> \o acc.kept],
              entries,
              [want |-> amount, kept |-> <<>>]).kept

(* The loop of unstake: unlocked entries are used up first to last, the last one
   touched keeps what is left of it, locked ones are skipped.                *)
Withdraw(entries, now, amount) ==
    LET after[i \in 0 .. Len(entries)] ==
            IF i = 0 THEN [want |-> amount, kept |-> <<>>]
            ELSE LET acc   == after[i - 1]
                     e     == entries[i]
                     taken == IF IsUnlocked(e, now) THEN Min({e.amount, acc.want}) ELSE 0
                     left  == [e EXCEPT !.amount = @ - taken]
                 IN  [want |-> acc.want - taken,
                      kept |-> IF taken = e.amount THEN acc.kept ELSE Append(acc.kept, left)]
    IN  after[Len(entries)].kept

(* Mutant of CalculateReward: rounded up. *)
CalculateRewardUp(amount, tier, epochs) ==
    (amount * BaseApyBps * RatePct[tier] * epochs + RewardDivisor - 1) \div RewardDivisor

(* calculate_reward, rounded down for each entry by itself. *)
CalculateReward(amount, tier, epochs) ==
    (amount * BaseApyBps * RatePct[tier] * epochs) \div RewardDivisor

(* distribute_epoch_rewards: what each key's entries earn in one epoch; a
   delegation earns for the delegator.  The pool itself does not change.     *)
EpochRewards(pos) ==
    [key \in PositionKeys |->
        SumFunction([i \in DOMAIN pos[key] |->
                        CalculateReward(pos[key][i].amount, pos[key][i].tier, 1)])]

(* get_voting_power: own stakes and delegations to k, each rounded down and cut to
   a u64; their sum saturates.                                               *)
VotingPowerIn(pos, k) ==
    LET backing  == {key \in PositionKeys : key = DirectKey(k) \/ (Len(key) = 2 /\ key[2] = k)}
        power(e) == ((e.amount * VoteWeight[e.tier]) \div 1000) % (MaxU64 + 1)
        sum      == SumFunction([key \in backing |->
                        SumFunction([i \in DOMAIN pos[key] |-> power(pos[key][i])])])
    IN  Min({sum, MaxU64})

-----------------------------------------------------------------------------
StakingInit ==
    /\ positions = [key \in PositionKeys |-> <<>>]
    /\ totalStaked = 0
    /\ epoch = 0

SetEpoch(e) ==
    /\ epoch' = e
    /\ UNCHANGED <<positions, totalStaked>>

(* stake and delegate.  The entry is pushed before the total is added up, and
   stays when that overflows.                                                *)
Stake(key, amount, tier) ==
    /\ amount > 0
    /\ Len(positions[key]) < MaxEntries
    /\ positions' = [positions EXCEPT ![key] = Append(@,
          [amount |-> amount, tier |-> tier,
           unlock |-> IF LockDuration[tier] = Never THEN Never
                      ELSE epoch + LockDuration[tier]])]
    /\ totalStaked' = IF totalStaked + amount <= MaxU64 THEN totalStaked + amount
                      ELSE totalStaked
    /\ UNCHANGED epoch

(* Mutant of Unstake: total_staked is left alone. *)
UnstakeUncounted(key, amount) ==
    /\ amount > 0
    /\ UnlockedIn(positions[key], epoch) >= amount
    /\ positions' = [positions EXCEPT ![key] = Withdraw(@, epoch, amount)]
    /\ UNCHANGED <<totalStaked, epoch>>

(* unstake and undelegate *)
Unstake(key, amount) ==
    /\ amount > 0
    /\ UnlockedIn(positions[key], epoch) >= amount
    /\ positions' = [positions EXCEPT ![key] = Withdraw(@, epoch, amount)]
    /\ totalStaked' = totalStaked - amount
    /\ UNCHANGED epoch

StakingNext ==
    \/ \E e \in Epochs : SetEpoch(e)
    \/ \E key \in PositionKeys, amount \in Amounts :
          \/ \E tier \in Tiers : Stake(key, amount, tier)
          \/ Unstake(key, amount)

StakingSpec == StakingInit /\ [][StakingNext]_stakingVars

-----------------------------------------------------------------------------
TotalAmount(pos) == SumFunction([key \in PositionKeys |-> AmountIn(pos[key])])

(* types.rs, StakingState: total_staked is the "Total amount staked across all
   entries", through partial withdrawals that split and remove entries.      *)
TotalMatches == totalStaked = TotalAmount(positions)

LockedIn(entries, now) == AmountIn(entries) - UnlockedIn(entries, now)

(* A lock holds: no withdrawal takes from an entry that is still locked, however
   locked and unlocked entries are mixed under one key.                      *)
LocksHold ==
    [][\A key \in PositionKeys :
          epoch' = epoch =>
            LockedIn(positions'[key], epoch) >= LockedIn(positions[key], epoch)]_stakingVars

(* The unlocked entries in front of entry n are gone, n lost the rest of the
   amount, and perhaps nothing of it is left; those behind it are untouched.  *)
TakenUpTo(before, after, now, n) ==
    LET front == SubSeq(before, 1, n - 1)
        taken == AmountIn(before) - AmountIn(after) - UnlockedIn(front, now)
        rest  == [before[n] EXCEPT !.amount = @ - taken]
    IN  /\ IsUnlocked(before[n], now)
        /\ taken \in 1 .. before[n].amount
        /\ after = Retain(front, {e \in ToSet(front) : ~ IsUnlocked(e, now)})
                     \o (IF rest.amount > 0 THEN <<rest>> ELSE <<>>)
                     \o SubSeq(before, n + 1, Len(before))

(* First in, first out: a withdrawal empties the unlocked entries in front of some
   entry, may leave a part of that one, and has not touched those behind it.   *)
WithdrawsOldestFirst ==
    [][\A key \in PositionKeys :
          AmountIn(positions'[key]) < AmountIn(positions[key]) =>
             \E n \in DOMAIN positions[key] :
                TakenUpTo(positions[key], positions'[key], epoch, n)]_stakingVars

(* Rewards stay within the rate.  Rounding entry by entry, an epoch never pays out
   more than the top tier's rate on total_staked, however stakes were split up by
   deposits and partial withdrawals, and no key loses a whole unit per entry
   against the lowest rate on what it holds.                                 *)
RewardsWithinRate ==
    LET rewards == EpochRewards(positions) IN
    /\ SumFunction(rewards) <= CalculateReward(totalStaked, "Permanent", 1)
    /\ \A key \in PositionKeys :
          rewards[key] + Len(positions[key])
             >= CalculateReward(AmountIn(positions[key]), "NoLock", 1)

=============================================================================
