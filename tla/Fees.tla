--------------------------------- MODULE Fees ---------------------------------
(***************************************************************************)
(* economics/fees: the fee market, whose base fee every commit updates     *)
(* (eip1559.rs), and the four-way split of a fee, whose ratios move from    *)
(* launch to maturity over a number of epochs (split.rs, types.rs).        *)
(***************************************************************************)
EXTENDS Integers, FiniteSetsExt

CONSTANTS
    TargetGas,   \* target_gas_per_block
    Elasticity,  \* elasticity_multiplier
    FeeFloor,    \* base_fee_floor
    FeeMax,      \* u64::MAX, for the fee
    Bps,         \* the whole, in basis points (10_000)
    BlockGas,    \* the gas a block may use
    InitialFees, \* the initial_base_fee a fee market is made with
    SplitConfigs,\* the fee split configurations in use
    MaxCommits   \* bound: blocks committed

SplitRatios == [burn : Nat, validator : Nat, treasury : Nat, developer : Nat]

ASSUME FeesAssumption ==
    /\ {TargetGas, Elasticity, Bps} \subseteq Nat \ {0}
    /\ FeeMax \in Nat \ {0} /\ FeeFloor \in 0 .. FeeMax
    /\ BlockGas \subseteq Nat /\ InitialFees \subseteq 0 .. FeeMax
    /\ SplitConfigs \subseteq [launch : SplitRatios, maturity : SplitRatios, transition : Nat]

VARIABLES
    baseFee,     \* FeeMarket::base_fee
    height       \* blocks committed; the split's epoch here

feeVars == <<baseFee, height>>

SatAdd(a, b) == Min({a + b, FeeMax})
SatSub(a, b) == Max({a - b, 0})
SatMul(a, b) == Min({a * b, FeeMax})

AsU64(a)     == a % (FeeMax + 1)

(* FeeMarket::new *)
InitialBaseFee(initial) == Max({initial, FeeFloor})

(* Mutant of UpdateBaseFee: a small excess leaves the fee alone. *)
UpdateBaseFeeRounded(fee, gas) ==
    LET delta == (fee * (IF gas > TargetGas THEN gas - TargetGas ELSE TargetGas - gas))
                    \div (TargetGas * Elasticity)
    IN  Max({FeeFloor, IF gas > TargetGas THEN SatAdd(fee, delta) ELSE SatSub(fee, delta)})

(* update_base_fee: up by at least one unit, down by the rounded share only. *)
UpdateBaseFee(fee, gas) ==
    LET share(excess) == (fee * excess) \div (TargetGas * Elasticity) IN
    IF gas = TargetGas THEN fee
    ELSE Max({FeeFloor,
              IF gas > TargetGas THEN SatAdd(fee, AsU64(Max({share(gas - TargetGas), 1})))
                                 ELSE SatSub(fee, AsU64(share(TargetGas - gas)))})

(* calculate_fee *)
CalculateFee(fee, gas, priority) == SatAdd(SatMul(fee, gas), SatMul(priority, gas))

-----------------------------------------------------------------------------
(* SplitRatios: burn, validator, treasury and developer, in basis points. *)
RatioSum(r) == r.burn + r.validator + r.treasury + r.developer

(* SplitConfig::validate *)
ValidSplit(cfg) == RatioSum(cfg.launch) = Bps /\ RatioSum(cfg.maturity) = Bps

(* Integer division of the code: towards zero. *)
Quot(a, b) == IF a >= 0 THEN a \div b ELSE -((-a) \div b)

Interp(l, m, epoch, transition) == l + Quot((m - l) * epoch, transition)

(* Mutant of SplitAtEpoch: the burn share is interpolated like the others. *)
SplitAtEpochAllInterp(cfg, epoch) ==
    IF epoch >= cfg.transition THEN cfg.maturity
    ELSE [f \in {"burn", "validator", "treasury", "developer"} |->
             Interp(cfg.launch[f], cfg.maturity[f], epoch, cfg.transition)]

(* split_at_epoch: three shares are interpolated, the burn share is the rest. *)
SplitAtEpoch(cfg, epoch) ==
    LET at(f) == Interp(cfg.launch[f], cfg.maturity[f], epoch, cfg.transition) IN
    IF epoch >= cfg.transition THEN cfg.maturity
    ELSE [burn |-> Bps - at("validator") - at("treasury") - at("developer"),
          validator |-> at("validator"), treasury |-> at("treasury"),
          developer |-> at("developer")]

(* split_fee: three parts are rounded down, the rest is burnt. *)
SplitFee(cfg, total, epoch) ==
    LET ratios  == SplitAtEpoch(cfg, epoch)
        part(f) == (total * ratios[f]) \div Bps
    IN  [burn |-> total - part("validator") - part("treasury") - part("developer"),
         validator |-> part("validator"), treasury |-> part("treasury"),
         developer |-> part("developer")]

-----------------------------------------------------------------------------
FeeInit ==
    /\ baseFee \in {InitialBaseFee(f) : f \in InitialFees}
    /\ height = 0

(* apply_commit: the fee market follows the gas of the block's transactions. *)
Commit(gas) ==
    /\ height < MaxCommits
    /\ height' = height + 1
    /\ baseFee' = UpdateBaseFee(baseFee, gas)

FeeNext == \E gas \in BlockGas : Commit(gas)

FeeSpec == FeeInit /\ [][FeeNext]_feeVars

-----------------------------------------------------------------------------
(* The base fee follows demand at every fee it can reach: a block over target
   raises it by at least one unit (short of the maximum) and, within twice the
   target, by no more than one part in elasticity_multiplier or one unit; a
   block under target never raises it, lowers it by no more than that part and
   not below the floor; and a fuller block never leaves a lower fee.         *)
FeeFollowsDemand ==
    \A gas \in BlockGas :
        LET next == UpdateBaseFee(baseFee, gas) IN
        /\ gas > TargetGas => next > baseFee \/ next = FeeMax
        /\ gas < TargetGas => next <= baseFee
        /\ gas <= 2 * TargetGas => next - baseFee <= Max({1, baseFee \div Elasticity})
        /\ baseFee - next <= baseFee \div Elasticity
        /\ next >= FeeFloor
        /\ \A more \in BlockGas : more > gas => UpdateBaseFee(baseFee, more) >= next

(* "Burn absorbs rounding remainder" (types.rs): with a burn share of at least
   two basis points at launch and at maturity, whichever way the others move,
   the burn share stays a share, and a fee is split without loss.            *)
BurnAbsorbsRounding ==
    \A cfg \in {c \in SplitConfigs : ValidSplit(c) /\ c.launch.burn >= 2 /\ c.maturity.burn >= 2},
       gas \in BlockGas :
        LET total  == CalculateFee(baseFee, gas, 1)
            ratios == SplitAtEpoch(cfg, height)
            parts  == SplitFee(cfg, total, height)
        IN  /\ \A f \in DOMAIN ratios : ratios[f] >= 0 /\ parts[f] >= 0
            /\ RatioSum(ratios) = Bps
            /\ RatioSum(parts) = total
=============================================================================
