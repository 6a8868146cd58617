------------------------------- MODULE Genesis -------------------------------
(***************************************************************************)
(* How a validator process starts (validator/src/main.rs): the genesis file *)
(* is loaded and validated (genesis/src/config.rs), its validators are      *)
(* staked and registered one by one, and the same list becomes the BFT      *)
(* validator list.  After that the validator set lives on by itself.        *)
(***************************************************************************)
EXTENDS ValidatorSet, Lists, SequencesExt

CONSTANTS
    GenesisFiles,     \* what --genesis may hold: <<configuration>>, or Unreadable
    CurvePoints       \* the keys VerifyingKey::from_bytes accepts

Unreadable == <<>>   \* no such file, or not the JSON of a configuration
Unknown    == "unknown"
MaxBps     == 10000

ChainParams      == [epochLength : Nat, blockTime : Nat, maxValidators : Nat,
                     launchTotal : Nat, maturityTotal : Nat]
GenesisValidator == [key : Keys, stake : Nat, commission : Nat]
GenesisConfig    == [validators : Seq(GenesisValidator), params : ChainParams]

(* ValidatorSetConfig takes its cap from the file's max_validators: ActiveCap stands
   for it, so a file has that value or 0, which is refused.                  *)
ASSUME GenesisAssumption ==
    \A file \in GenesisFiles :
        IF file = Unreadable THEN 1 .. 4 \subseteq Keys
        ELSE /\ file = <<file[1]>> /\ file[1] \in GenesisConfig
             /\ file[1].params.maxValidators \in {0, ActiveCap}

VARIABLES
    boot,             \* the next step of main, "running" or "exited"
    genesis,          \* the configuration in use
    registered,       \* genesis validators registered so far
    poolStake,        \* the staking pool: key |-> stake, in the Delegator tier
    bftValidators,    \* BftStateMachine's validators
    validatorCount    \* RpcState::validator_count

bootVars == <<boot, genesis, registered, poolStake, bftValidators, validatorCount>>
nodeVars == <<setVars, bootVars>>

(* ChainParams::default, with active_set_cap scaled down to ActiveCap.  Of the fee
   splits only the sums play a part here.                                    *)
DefaultParams ==
    [epochLength |-> 100, blockTime |-> 2000, maxValidators |-> ActiveCap,
     launchTotal |-> 1000 + 0 + 4500 + 4500, maturityTotal |-> 2500 + 2500 + 2500 + 2500]

(* GenesisConfig::default_testnet *)
DefaultTestnet ==
    [validators |-> [i \in 1 .. 4 |-> [key |-> i, stake |-> 10000000, commission |-> 500]],
     params |-> DefaultParams]

KeysIn(g) == [i \in DOMAIN g.validators |-> g.validators[i].key]

(* Mutant of Validate: the set of keys seen is not kept. *)
ValidateRepeated(g) ==
    /\ g.validators # <<>>
    /\ \A v \in ToSet(g.validators) : v.stake # 0 /\ v.commission <= MaxBps
    /\ 0 \notin {g.params.epochLength, g.params.blockTime, g.params.maxValidators}
    /\ g.params.launchTotal = MaxBps /\ g.params.maturityTotal = MaxBps

(* GenesisConfig::validate *)
Validate(g) ==
    /\ g.validators # <<>>
    /\ \A i, j \in DOMAIN g.validators :
          i # j => g.validators[i].key # g.validators[j].key
    /\ \A v \in ToSet(g.validators) : v.stake # 0 /\ v.commission <= MaxBps
    /\ 0 \notin {g.params.epochLength, g.params.blockTime, g.params.maxValidators}
    /\ g.params.launchTotal = MaxBps /\ g.params.maturityTotal = MaxBps

-----------------------------------------------------------------------------
BootInit ==
    /\ SetInit
    /\ boot = "load"
    /\ genesis = Unknown
    /\ registered = 0
    /\ poolStake = [k \in Keys |-> 0]
    /\ bftValidators = <<>>
    /\ validatorCount = 0

(* The steps of main follow each other; a step that fails ends the process. *)
GoOn(here, next) == boot = here /\ boot' = next
OrExit(here)     == boot = here /\ boot' = "exited"

(* A file that cannot be loaded gives the default testnet, an invalid
   configuration ends the process.                                           *)
LoadGenesis(file) ==
    LET g == IF file = Unreadable THEN DefaultTestnet ELSE file[1] IN
    /\ genesis' = g
    /\ \/ Validate(g) /\ GoOn("load", "storage")
       \/ ~ Validate(g) /\ OrExit("load")
    /\ UNCHANGED <<setVars, registered, poolStake, bftValidators, validatorCount>>

(* The directories and the tiered storage in them; the fee market. *)
InitStorage ==
    /\ GoOn("storage", "register") \/ OrExit("storage")
    /\ UNCHANGED <<setVars, genesis, registered, poolStake, bftValidators, validatorCount>>

(* One turn of the registration loop: the stake is taken in any case, and a
   refused registration is only logged.                                      *)
RegisterGenesisValidator ==
    LET v == genesis.validators[registered + 1] IN
    /\ boot = "register"
    /\ registered < Len(genesis.validators)
    /\ poolStake' = [poolStake EXCEPT ![v.key] = @ + v.stake]
    /\ \/ RegisterValidator(v.key, v.stake)
       \/ ~ (v.key \notin DOMAIN validators /\ v.stake >= MinStake) /\ UNCHANGED setVars
    /\ registered' = registered + 1
    /\ UNCHANGED <<boot, genesis, bftValidators, validatorCount>>

(* RpcState::new: every genesis validator is counted and listed as active. *)
CreateRpcState ==
    /\ GoOn("register", "key")
    /\ registered = Len(genesis.validators)
    /\ validatorCount' = Len(genesis.validators)
    /\ UNCHANGED <<setVars, genesis, registered, poolStake, bftValidators>>

LoadSigningKey ==
    /\ GoOn("key", "consensus") \/ OrExit("key")
    /\ UNCHANGED <<setVars, genesis, registered, poolStake, bftValidators, validatorCount>>

(* The BFT list: every genesis key that is a curve point, in file order, whatever
   became of its registration.                                               *)
StartConsensus ==
    /\ GoOn("consensus", "network")
    /\ bftValidators' = Retain(KeysIn(genesis), CurvePoints)
    /\ UNCHANGED <<setVars, genesis, registered, poolStake, validatorCount>>

(* Listening must succeed; a peer that cannot be dialled is only logged. *)
CreateNetwork ==
    /\ GoOn("network", "rpc") \/ OrExit("network")
    /\ UNCHANGED <<setVars, genesis, registered, poolStake, bftValidators, validatorCount>>

(* The initial RPC state, before the server and the event loop start. *)
StartRpc ==
    /\ GoOn("rpc", "running")
    /\ validatorCount' = Len(bftValidators)
    /\ UNCHANGED <<setVars, genesis, registered, poolStake, bftValidators>>

BootNext ==
    \/ \E file \in GenesisFiles : LoadGenesis(file)
    \/ InitStorage
    \/ RegisterGenesisValidator
    \/ CreateRpcState
    \/ LoadSigningKey
    \/ StartConsensus
    \/ CreateNetwork
    \/ StartRpc
    \/ boot = "running" /\ SetNext /\ UNCHANGED bootVars

(* rotate runs to its end: nothing but its own loop can hold it up. *)
RotateStep == boot = "running" /\ (RotateSwap \/ RotateFill) /\ UNCHANGED bootVars

BootSpec == BootInit /\ [][BootNext]_nodeVars /\ WF_nodeVars(RotateStep)

-----------------------------------------------------------------------------
(* Every genesis validator is staked enough, and there is room for all of them. *)
AllFit ==
    /\ Len(genesis.validators) <= ActiveCap
    /\ \A v \in ToSet(genesis.validators) : v.stake >= MinStake

(* Consensus starts from a sound list: nobody is in it twice, everybody in it has a
   stake in the pool, and no active validator is missing from it.  If all genesis
   validators fit, it is exactly the active set, and the count RPC clients are told
   is that of the active validators unless a key is no curve point; if they do not
   fit, list and count are larger than the active set.                       *)
BootAgrees ==
    [][boot = "rpc" =>
         LET voting == ToSet(bftValidators) IN
         /\ Cardinality(voting) = Len(bftValidators)
         /\ \A k \in voting : poolStake[k] > 0
         /\ Active \cap CurvePoints \subseteq voting
         /\ AllFit => voting = Active \cap CurvePoints
         /\ AllFit /\ Active \subseteq CurvePoints => validatorCount' = Cardinality(Active)
         /\ ~ AllFit /\ ToSet(KeysIn(genesis)) \subseteq CurvePoints =>
               validatorCount' > Cardinality(Active)]_nodeVars

=============================================================================
