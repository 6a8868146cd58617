----------------------------- MODULE ValidatorSet -----------------------------
(***************************************************************************)
(* ValidatorSetManager of runtime/validator-set: who is Active, Standby or *)
(* Jailed, and the epoch rotation by voting power.                         *)
(*                                                                         *)
(* rotate is an unbounded loop over the map; each iteration is a step here, *)
(* so that its termination is a property.  The caller holds the manager's   *)
(* write lock and the staking pool's read lock throughout: no other         *)
(* operation runs during a rotation and the voting powers stand still.      *)
(***************************************************************************)
EXTENDS Integers, FiniteSetsExt, Functions

CONSTANTS
    Keys,        \* public keys, ordered by <
    Stakes,      \* the stakes validators register with
    ActiveCap,   \* ValidatorSetConfig::active_set_cap
    MinStake,    \* ValidatorSetConfig::min_stake
    MaxPower     \* bound: voting powers are 0 .. MaxPower

(* A key is the number its 32 bytes spell. *)
ASSUME KeysAssumption ==
    Keys \subseteq Nat /\ \E last \in Keys \cup {0} : \A k \in Keys : k <= last

ASSUME ConfigAssumption ==
    /\ Stakes \subseteq Nat
    /\ ActiveCap \in Nat \ {0}
    /\ MinStake \in Nat
    /\ MaxPower \in Nat

VARIABLES
    validators,  \* registered key |-> [stake, status]
    rotation     \* <<>>, or <<power>> while rotate runs on these voting powers

setVars == <<validators, rotation>>

Statuses == {"Active", "Standby", "Jailed"}
ValidatorInfo == [stake : Nat, status : Statuses]

Powers == [Keys -> 0 .. MaxPower]

WithStatus(s) == {k \in DOMAIN validators : validators[k].status = s}
Active  == WithStatus("Active")
Standby == WithStatus("Standby")

(* sort_by_stake: higher power first, ties by key. *)
Stronger(pow, a, b) ==
    \/ pow[a] > pow[b]
    \/ pow[a] = pow[b] /\ a < b

WeakestActive(pow) ==
    CHOOSE w \in Active : \A a \in Active \ {w} : Stronger(pow, a, w)

StrongestStandby(pow) ==
    CHOOSE s \in Standby : \A t \in Standby \ {s} : Stronger(pow, s, t)

(* The end of k's range when the active keys, in order, share out the powers. *)
CumulativePower(pow, k) == SumFunctionOnSet(pow, {a \in Active : a <= k})
TotalPower(pow)         == SumFunctionOnSet(pow, Active)

NoProposer == "None"

(* Mutant of GetProposer: the slot's comparison is off by one. *)
GetProposerLate(pow, h) ==
    IF TotalPower(pow) = 0 THEN NoProposer
    ELSE LET beyond == {k \in Active : h % TotalPower(pow) <= CumulativePower(pow, k)}
         IN  CHOOSE k \in beyond : \A j \in beyond : k <= j

(* get_proposer: the first active key whose range ends beyond the height's slot. *)
GetProposer(pow, h) ==
    IF TotalPower(pow) = 0 THEN NoProposer
    ELSE LET beyond == {k \in Active : h % TotalPower(pow) < CumulativePower(pow, k)}
         IN  CHOOSE k \in beyond : \A j \in beyond : k <= j

-----------------------------------------------------------------------------
SetInit ==
    /\ validators = [k \in {} |-> {}]
    /\ rotation = <<>>

(* Mutant of RegisterValidator: the cap is off by one. *)
RegisterOverCap(k, stake) ==
    /\ rotation = <<>>
    /\ k \notin DOMAIN validators
    /\ stake >= MinStake
    /\ validators' =
         [j \in DOMAIN validators \cup {k} |->
             IF j \in DOMAIN validators THEN validators[j]
             ELSE [stake |-> stake,
                   status |-> IF Cardinality(Active) <= ActiveCap THEN "Active" ELSE "Standby"]]
    /\ UNCHANGED rotation

(* register_validator: Active while there is room, then Standby. *)
RegisterValidator(k, stake) ==
    /\ rotation = <<>>
    /\ k \notin DOMAIN validators
    /\ stake >= MinStake
    /\ validators' =
         [j \in DOMAIN validators \cup {k} |->
             IF j \in DOMAIN validators THEN validators[j]
             ELSE [stake |-> stake,
                   status |-> IF Cardinality(Active) < ActiveCap THEN "Active" ELSE "Standby"]]
    /\ UNCHANGED rotation

(* deregister_validator, with nothing kept of the key. *)
DeregisterValidator(k) ==
    /\ rotation = <<>>
    /\ k \in DOMAIN validators
    /\ validators' = [j \in DOMAIN validators \ {k} |-> validators[j]]
    /\ UNCHANGED rotation

(* update_stake *)
UpdateStake(k, stake) ==
    /\ rotation = <<>>
    /\ k \in DOMAIN validators
    /\ validators' = [validators EXCEPT ![k].stake = stake]
    /\ UNCHANGED rotation

(* jail, whatever the status was. *)
Jail(k) ==
    /\ rotation = <<>>
    /\ k \in DOMAIN validators
    /\ validators' = [validators EXCEPT ![k].status = "Jailed"]
    /\ UNCHANGED rotation

Unjail(k) ==
    /\ rotation = <<>>
    /\ k \in WithStatus("Jailed")
    /\ validators' = [validators EXCEPT ![k].status = "Standby"]
    /\ UNCHANGED rotation

(* epoch_rotation begins, on the powers the staking pool gives. *)
EpochRotation(pow) ==
    /\ rotation = <<>>
    /\ rotation' = <<pow>>
    /\ UNCHANGED validators

(* Mutant of CanSwap: equal power is enough. *)
CanSwapEqual(pow) ==
    /\ Active # {} /\ Standby # {}
    /\ pow[StrongestStandby(pow)] >= pow[WeakestActive(pow)]

(* The loop goes on while the strongest standby beats the weakest active. *)
CanSwap(pow) ==
    /\ Active # {} /\ Standby # {}
    /\ pow[StrongestStandby(pow)] > pow[WeakestActive(pow)]

RotateSwap ==
    /\ rotation # <<>>
    /\ CanSwap(rotation[1])
    /\ validators' = [validators EXCEPT ![WeakestActive(rotation[1])].status = "Standby",
                                        ![StrongestStandby(rotation[1])].status = "Active"]
    /\ UNCHANGED rotation

(* Mutant of IsTopStandby: the ranking is read from the wrong end. *)
IsBottomStandby(pow, n, top) ==
    /\ Cardinality(top) = IF Cardinality(Standby) < n THEN Cardinality(Standby) ELSE n
    /\ \A s \in top, t \in Standby \ top : Stronger(pow, t, s)

(* top is the first n of the standby ranking, or all of it. *)
IsTopStandby(pow, n, top) ==
    /\ Cardinality(top) = IF Cardinality(Standby) < n THEN Cardinality(Standby) ELSE n
    /\ \A s \in top, t \in Standby \ top : Stronger(pow, s, t)

(* After the loop, free places go to the best of the standby validators. *)
RotateFill ==
    /\ rotation # <<>>
    /\ ~ CanSwap(rotation[1])
    /\ IF Cardinality(Active) < ActiveCap
       THEN \E top \in SUBSET Standby :
              /\ IsTopStandby(rotation[1], ActiveCap - Cardinality(Active), top)
              /\ validators' = [k \in DOMAIN validators |->
                    IF k \in top THEN [validators[k] EXCEPT !.status = "Active"]
                                 ELSE validators[k]]
       ELSE UNCHANGED validators
    /\ rotation' = <<>>

SetNext ==
    \/ \E k \in Keys, stake \in Stakes : RegisterValidator(k, stake) \/ UpdateStake(k, stake)
    \/ \E k \in Keys : DeregisterValidator(k) \/ Jail(k) \/ Unjail(k)
    \/ \E pow \in Powers : EpochRotation(pow)
    \/ RotateSwap
    \/ RotateFill

SetSpec == SetInit /\ [][SetNext]_setVars

-----------------------------------------------------------------------------
(* Keys and records keep their types; stakes do not go below zero. *)
SetTypeOK ==
    /\ DOMAIN validators \subseteq Keys
    /\ \A k \in DOMAIN validators :
          validators[k] \in ValidatorInfo
    /\ rotation = <<>> \/ \E pow \in Powers : rotation = <<pow>>

(* The active set never exceeds its cap, through registrations, jailing,
   unjailing and the swaps and fillings of a rotation.                       *)
ActiveWithinCap == Cardinality(Active) <= ActiveCap

(* What a rotation leaves behind: no standby validator is stronger than an
   active one, and none waits while there is room.                           *)
RotationSettles ==
    [][rotation # <<>> /\ rotation' = <<>> =>
          /\ \A s \in Standby', a \in Active' : rotation[1][s] <= rotation[1][a]
          /\ Standby' # {} => Cardinality(Active') >= ActiveCap]_setVars

(* A rotation decides by power alone: it never touches a jailed validator, and
   an active validator is only displaced by a strictly stronger one.         *)
RotationIsJust ==
    [][rotation # <<>> =>
          /\ WithStatus("Jailed")' = WithStatus("Jailed")
          /\ \A a \in Active \ Active' :
                \E s \in Active' \ Active : rotation[1][s] > rotation[1][a]]_setVars

(* "Weighted round-robin": whatever jailing and rotations made of the active set,
   over as many consecutive heights as there is power, every active validator
   proposes as often as it has power.                                        *)
ProposersByPower ==
    \A pow \in {rotation[i] : i \in DOMAIN rotation} :
    \A first \in 0 .. TotalPower(pow) - 1 :
        LET window == first .. first + TotalPower(pow) - 1
        IN  \A k \in Active : Cardinality({h \in window : GetProposer(pow, h) = k}) = pow[k]

(* The loop in rotate terminates. *)
RotationEnds == rotation # <<>> ~> rotation = <<>>

=============================================================================
