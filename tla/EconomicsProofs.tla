---------------------------- MODULE EconomicsProofs ----------------------------
(***************************************************************************)
(* The components that hold or judge stakes and fees: validator set and    *)
(* boot, staking pool, slashing engine, fee market and developer rewards,  *)
(* each for any keys, amounts and configuration.                           *)
(***************************************************************************)
EXTENDS Slashing, Genesis, Fees, Rewards, DataTheorems, SequenceTheorems

(***************************************************************************)
(* The validator set.  The ranking of rotate is a total order, so a        *)
(* non-empty set of validators has a strongest and a weakest member;       *)
(* counting does the rest.                                                 *)
(***************************************************************************)
(* What a measure into the naturals makes least. *)
LEMMA LeastMember ==
    ASSUME NEW S, S # {}, NEW f \in [S -> Nat]
    PROVE  \E x \in S : \A y \in S : f[x] <= f[y]
<1>1. {f[x] : x \in S} \in SUBSET Nat /\ {f[x] : x \in S} # {}
  OBVIOUS
<1>2. PICK m \in {f[x] : x \in S} : \A n \in {f[x] : x \in S} : m <= n
  BY <1>1, NatMin
<1> QED BY <1>2

(* Every non-empty set of keys has a weakest and a strongest member. *)
LEMMA HasWeakest ==
    ASSUME NEW S \in SUBSET Keys, S # {}, NEW pow \in Powers
    PROVE  \E w \in S : \A a \in S \ {w} : Stronger(pow, a, w)
<1>1. \A k \in S : k \in Nat /\ pow[k] \in Nat
  BY KeysAssumption, ConfigAssumption DEF Powers
<1>2. PICK last \in Nat : \A k \in S : k <= last
  BY KeysAssumption
<1>3. PICK x \in S : \A y \in S : pow[x] <= pow[y]
  <2>1. [k \in S |-> pow[k]] \in [S -> Nat]
    BY <1>1
  <2>2. PICK x \in S : \A y \in S : [k \in S |-> pow[k]][x] <= [k \in S |-> pow[k]][y]
    BY <2>1, LeastMember
  <2> QED BY <2>2
<1> DEFINE T == {k \in S : pow[k] = pow[x]}
<1>4. PICK w \in T : \A y \in T : last - w <= last - y
  <2>1. [k \in T |-> last - k] \in [T -> Nat]
    BY <1>1, <1>2
  <2>2. PICK w \in T : \A y \in T : [k \in T |-> last - k][w] <= [k \in T |-> last - k][y]
    BY <2>1, LeastMember
  <2> QED BY <2>2
<1>5. ASSUME NEW a \in S \ {w}
      PROVE  Stronger(pow, a, w)
  <2>1. CASE a \in T
    BY <1>1, <1>2, <1>4, <2>1 DEF Stronger
  <2>2. CASE a \notin T
    BY <1>1, <1>3, <1>4, <2>2 DEF Stronger
  <2> QED BY <2>1, <2>2
<1> QED BY <1>5

LEMMA HasStrongest ==
    ASSUME NEW S \in SUBSET Keys, S # {}, NEW pow \in Powers
    PROVE  \E s \in S : \A t \in S \ {s} : Stronger(pow, s, t)
<1>1. \A k \in S : k \in Nat /\ pow[k] \in Nat /\ pow[k] <= MaxPower
  BY KeysAssumption, ConfigAssumption DEF Powers
<1>2. PICK x \in S : \A y \in S : pow[y] <= pow[x]
  <2>1. [k \in S |-> MaxPower - pow[k]] \in [S -> Nat]
    BY <1>1, ConfigAssumption
  <2>2. PICK x \in S : \A y \in S :
          [k \in S |-> MaxPower - pow[k]][x] <= [k \in S |-> MaxPower - pow[k]][y]
    BY <2>1, LeastMember
  <2>3. \A y \in S : MaxPower - pow[x] <= MaxPower - pow[y]
    BY <2>2
  <2> QED BY <1>1, <2>3, ConfigAssumption
<1> DEFINE T == {k \in S : pow[k] = pow[x]}
<1>3. PICK s \in T : \A y \in T : s <= y
  BY <1>1, NatMin
<1>4. ASSUME NEW t \in S \ {s}
      PROVE  Stronger(pow, s, t)
  <2>1. CASE t \in T
    BY <1>1, <1>3, <2>1 DEF Stronger
  <2>2. CASE t \notin T
    BY <1>1, <1>2, <1>3, <2>2 DEF Stronger
  <2> QED BY <2>1, <2>2
<1> QED BY <1>4
-----------------------------------------------------------------------------
SetInv == SetTypeOK /\ ActiveWithinCap

LEMMA SetFinite ==
    ASSUME SetTypeOK
    PROVE  /\ Active \in SUBSET Keys /\ Standby \in SUBSET Keys
           /\ IsFiniteSet(Active) /\ IsFiniteSet(Standby)
           /\ Cardinality(Active) \in Nat /\ Cardinality(Standby) \in Nat
           /\ Active \cap Standby = {}
<1>1. Active \in SUBSET Keys /\ Standby \in SUBSET Keys /\ Active \cap Standby = {}
  BY DEF SetTypeOK, Active, Standby, WithStatus
<1>2. IsFiniteSet(Keys)
  <2>1. PICK last \in Nat : \A k \in Keys : k <= last
    BY KeysAssumption
  <2> QED BY <2>1, KeysAssumption, FS_BoundedSetOfNaturals
<1> QED BY <1>1, <1>2, FS_Subset, FS_CardinalityType

(* The members that an iteration of the loop compares. *)
LEMMA Ranking ==
    ASSUME SetTypeOK, NEW pow \in Powers, Active # {}, Standby # {}
    PROVE  /\ WeakestActive(pow) \in Active
           /\ \A a \in Active : pow[WeakestActive(pow)] <= pow[a]
           /\ StrongestStandby(pow) \in Standby
           /\ \A s \in Standby : pow[s] <= pow[StrongestStandby(pow)]
<1>1. /\ WeakestActive(pow) \in Active
      /\ \A a \in Active \ {WeakestActive(pow)} : Stronger(pow, a, WeakestActive(pow))
  <2>1. \E w \in Active : \A a \in Active \ {w} : Stronger(pow, a, w)
    BY SetFinite, HasWeakest
  <2> QED BY <2>1 DEF WeakestActive
<1>2. /\ StrongestStandby(pow) \in Standby
      /\ \A t \in Standby \ {StrongestStandby(pow)} : Stronger(pow, StrongestStandby(pow), t)
  <2>1. \E s \in Standby : \A t \in Standby \ {s} : Stronger(pow, s, t)
    BY SetFinite, HasStrongest
  <2> QED BY <2>1 DEF StrongestStandby
<1>3. \A k \in Active \cup Standby : pow[k] \in Nat
  BY SetFinite, ConfigAssumption DEF Powers
<1> QED BY <1>1, <1>2, <1>3 DEF Stronger

(* What the steps of a rotation do to the statuses. *)
LEMMA SwapEffect ==
    ASSUME SetTypeOK, RotateSwap
    PROVE  LET w == WeakestActive(rotation[1])
               s == StrongestStandby(rotation[1])
           IN  /\ rotation[1] \in Powers /\ UNCHANGED rotation
               /\ w \in Active /\ s \in Standby /\ rotation[1][s] > rotation[1][w]
               /\ DOMAIN validators' = DOMAIN validators
               /\ \A k \in DOMAIN validators : validators'[k] \in ValidatorInfo
               /\ Active' = (Active \ {w}) \cup {s}
               /\ WithStatus("Jailed")' = WithStatus("Jailed")
<1> DEFINE w == WeakestActive(rotation[1])
           s == StrongestStandby(rotation[1])
<1>1. rotation[1] \in Powers /\ CanSwap(rotation[1])
  BY DEF SetTypeOK, RotateSwap
<1>2. w \in Active /\ s \in Standby /\ rotation[1][s] > rotation[1][w]
  BY <1>1, Ranking DEF CanSwap
<1> HIDE DEF w, s
<1>3. w \in DOMAIN validators /\ s \in DOMAIN validators /\ w # s
  BY <1>2 DEF Active, Standby, WithStatus
<1>4. validators' = [validators EXCEPT ![w].status = "Standby", ![s].status = "Active"]
  BY DEF RotateSwap, w, s
<1>5. /\ DOMAIN validators' = DOMAIN validators
      /\ \A k \in DOMAIN validators :
            validators'[k] = [validators[k] EXCEPT !.status = IF k = w THEN "Standby"
                                                              ELSE IF k = s THEN "Active" ELSE @]
  BY <1>3, <1>4 DEF SetTypeOK, ValidatorInfo
<1>6. \A k \in DOMAIN validators :
         /\ validators'[k] \in ValidatorInfo
         /\ validators'[k].status = IF k = w THEN "Standby" ELSE IF k = s THEN "Active"
                                    ELSE validators[k].status
  BY <1>5 DEF SetTypeOK, ValidatorInfo, Statuses
<1>7. Active' = (Active \ {w}) \cup {s} /\ WithStatus("Jailed")' = WithStatus("Jailed")
  BY <1>2, <1>3, <1>5, <1>6 DEF Active, Standby, WithStatus
<1> QED BY <1>1, <1>2, <1>5, <1>6, <1>7 DEF RotateSwap, w, s

(* The free places are filled from the top of the standby ranking. *)
Fills(top) ==
    /\ top \in SUBSET Standby
    /\ IsTopStandby(rotation[1], ActiveCap - Cardinality(Active), top)
    /\ validators' = [k \in DOMAIN validators |->
          IF k \in top THEN [validators[k] EXCEPT !.status = "Active"] ELSE validators[k]]

LEMMA FillEffect ==
    ASSUME SetTypeOK, NEW top, Fills(top), Cardinality(Active) < ActiveCap
    PROVE  /\ DOMAIN validators' = DOMAIN validators
           /\ \A k \in DOMAIN validators : validators'[k] \in ValidatorInfo
           /\ Active' = Active \cup top /\ Standby' = Standby \ top
           /\ WithStatus("Jailed")' = WithStatus("Jailed")
           /\ Cardinality(Active \cup top) <= ActiveCap
           /\ Standby \ top # {} => Cardinality(Active \cup top) = ActiveCap
<1>1. /\ DOMAIN validators' = DOMAIN validators
      /\ \A k \in DOMAIN validators :
            /\ validators'[k] \in ValidatorInfo
            /\ validators'[k].status = IF k \in top THEN "Active" ELSE validators[k].status
  BY DEF Fills, SetTypeOK, ValidatorInfo, Statuses
<1>2. /\ Active' = Active \cup top /\ Standby' = Standby \ top
      /\ WithStatus("Jailed")' = WithStatus("Jailed")
  BY <1>1 DEF Fills, Active, Standby, WithStatus
<1>3. Cardinality(Active \cup top) = Cardinality(Active) + Cardinality(top)
  <2>1. IsFiniteSet(top) /\ Active \cap top = {} /\ Cardinality(top) \in Nat
    BY SetFinite, FS_Subset, FS_CardinalityType DEF Fills
  <2> QED BY <2>1, SetFinite, FS_Union, FS_EmptySet
<1>4. /\ Cardinality(Active) + Cardinality(top) <= ActiveCap
      /\ Standby \ top # {} => Cardinality(Active) + Cardinality(top) = ActiveCap
  <2>1. Cardinality(top) = Cardinality(Standby) => Standby = top
    BY SetFinite, FS_Subset DEF Fills
  <2> QED BY <2>1, SetFinite, ConfigAssumption DEF Fills, IsTopStandby
<1> QED BY <1>1, <1>2, <1>3, <1>4

LEMMA RotateFillCases ==
    ASSUME SetTypeOK, RotateFill
    PROVE  /\ rotation' = <<>> /\ rotation[1] \in Powers /\ ~ CanSwap(rotation[1])
           /\ \/ Cardinality(Active) < ActiveCap /\ \E top : Fills(top)
              \/ ~ (Cardinality(Active) < ActiveCap) /\ UNCHANGED validators
BY DEF SetTypeOK, RotateFill, Fills
-----------------------------------------------------------------------------
LEMMA SetInvInit == SetInit => SetInv
<1> SUFFICES ASSUME SetInit PROVE SetInv
  OBVIOUS
<1>1. DOMAIN validators = {} /\ Active = {} /\ rotation = <<>>
  BY DEF SetInit, Active, WithStatus
<1> QED BY <1>1, FS_EmptySet, ConfigAssumption DEF SetInv, SetTypeOK, ActiveWithinCap

LEMMA RegisterStep ==
    ASSUME SetInv, NEW k \in Keys, NEW stake \in Nat, RegisterValidator(k, stake)
    PROVE  SetInv'
<1> DEFINE room == Cardinality(Active) < ActiveCap
<1>1. /\ DOMAIN validators' = DOMAIN validators \cup {k} /\ k \notin DOMAIN validators
      /\ \A j \in DOMAIN validators : validators'[j] = validators[j]
      /\ validators'[k] = [stake |-> stake, status |-> IF room THEN "Active" ELSE "Standby"]
      /\ UNCHANGED rotation
  BY DEF RegisterValidator
<1>2. SetTypeOK'
  BY <1>1, ConfigAssumption DEF SetInv, SetTypeOK, ValidatorInfo, Statuses
<1> HIDE DEF room
<1>3. Active' = (IF room THEN Active \cup {k} ELSE Active) /\ k \notin Active
  BY <1>1 DEF Active, WithStatus
<1>4. CASE room
  <2>1. Cardinality(Active \cup {k}) = Cardinality(Active) + 1
    BY <1>3, SetFinite, FS_AddElement DEF SetInv
  <2> QED BY <1>2, <1>3, <1>4, <2>1, SetFinite, ConfigAssumption DEF SetInv, ActiveWithinCap, room
<1>5. CASE ~ room
  BY <1>2, <1>3, <1>5 DEF SetInv, ActiveWithinCap
<1> QED BY <1>4, <1>5

(* These add nobody to the active set. *)
LEMMA ShrinkingStep ==
    ASSUME SetInv, NEW k \in Keys,
           \/ \E stake \in Stakes : UpdateStake(k, stake)
           \/ DeregisterValidator(k) \/ Jail(k) \/ Unjail(k)
    PROVE  SetInv'
<1>1. /\ DOMAIN validators' \subseteq DOMAIN validators /\ UNCHANGED rotation
      /\ \A j \in DOMAIN validators' :
            /\ validators'[j] \in ValidatorInfo
            /\ validators'[j].status = "Active" => validators[j].status = "Active"
  <2> USE DEF SetInv, SetTypeOK, ValidatorInfo, Statuses
  <2>1. CASE \E stake \in Stakes : UpdateStake(k, stake)
    BY <2>1, ConfigAssumption DEF UpdateStake
  <2>2. CASE DeregisterValidator(k)
    BY <2>2 DEF DeregisterValidator
  <2>3. CASE Jail(k)
    BY <2>3 DEF Jail
  <2>4. CASE Unjail(k)
    BY <2>4 DEF Unjail, WithStatus
  <2> QED BY <2>1, <2>2, <2>3, <2>4
<1>2. SetTypeOK'
  BY <1>1 DEF SetInv, SetTypeOK
<1>3. Active' \in SUBSET Active
  BY <1>1 DEF Active, WithStatus
<1>4. Cardinality(Active') <= Cardinality(Active) /\ Cardinality(Active') \in Nat
  BY <1>3, SetFinite, FS_Subset, FS_CardinalityType DEF SetInv
<1> QED BY <1>2, <1>4, SetFinite, ConfigAssumption DEF SetInv, ActiveWithinCap

LEMMA RotationStep ==
    ASSUME SetInv, RotateSwap \/ RotateFill \/ \E pow \in Powers : EpochRotation(pow)
    PROVE  SetInv'
<1>1. CASE \E pow \in Powers : EpochRotation(pow)
  BY <1>1 DEF SetInv, SetTypeOK, ActiveWithinCap, Active, WithStatus, EpochRotation
<1>2. CASE RotateSwap
  <2>1. SetTypeOK'
    BY <1>2, SwapEffect DEF SetInv, SetTypeOK
  <2>2. PICK w \in Active, s \in Standby : Active' = (Active \ {w}) \cup {s}
    BY <1>2, SwapEffect DEF SetInv
  <2>3. s \notin Active
    BY SetFinite DEF SetInv
  <2>4. Cardinality(Active') = Cardinality(Active)
    <3>1. IsFiniteSet(Active \ {w}) /\ Cardinality(Active \ {w}) = Cardinality(Active) - 1
      BY SetFinite, FS_RemoveElement DEF SetInv
    <3>2. Cardinality((Active \ {w}) \cup {s}) = Cardinality(Active \ {w}) + 1
      BY <2>3, <3>1, FS_AddElement
    <3> QED BY <2>2, <3>1, <3>2, SetFinite DEF SetInv
  <2> QED BY <2>1, <2>4 DEF SetInv, ActiveWithinCap
<1>3. CASE RotateFill
  <2>1. CASE Cardinality(Active) < ActiveCap
    <3>1. PICK top : Fills(top)
      BY <1>3, <2>1, RotateFillCases DEF SetInv
    <3>2. SetTypeOK'
      BY <1>3, <2>1, <3>1, FillEffect, RotateFillCases DEF SetInv, SetTypeOK
    <3>3. Cardinality(Active') <= ActiveCap
      BY <2>1, <3>1, FillEffect DEF SetInv
    <3> QED BY <3>2, <3>3 DEF SetInv, ActiveWithinCap
  <2>2. CASE ~ (Cardinality(Active) < ActiveCap)
    BY <1>3, <2>2, RotateFillCases DEF SetInv, SetTypeOK, ActiveWithinCap, Active, WithStatus
  <2> QED BY <2>1, <2>2
<1> QED BY <1>1, <1>2, <1>3

LEMMA SetInvNext == SetInv /\ [SetNext]_setVars => SetInv'
<1>1. ASSUME SetInv, UNCHANGED setVars PROVE SetInv'
  BY <1>1 DEF setVars, SetInv, SetTypeOK, ActiveWithinCap, Active, WithStatus
<1> QED BY <1>1, RegisterStep, ShrinkingStep, RotationStep, ConfigAssumption DEF SetNext

-----------------------------------------------------------------------------
(* For any keys and stakes: records keep their types, whatever is called. *)
THEOREM SetTypeCorrect == SetSpec => []SetTypeOK
<1>1. SetInv => SetTypeOK
  BY DEF SetInv
<1> QED BY <1>1, SetInvInit, SetInvNext, PTL DEF SetSpec

(* For any cap: no sequence of registrations, jailings and rotations gets the
   active set over it.                                                       *)
THEOREM CapIsKept == SetSpec => []ActiveWithinCap
<1>1. SetInv => ActiveWithinCap
  BY DEF SetInv
<1> QED BY <1>1, SetInvInit, SetInvNext, PTL DEF SetSpec

(* A rotation displaces an active validator only by a stronger one, and lets
   nobody out of jail.                                                       *)
THEOREM RotationsAreJust == SetSpec => RotationIsJust
<1> DEFINE Just == rotation # <<>> =>
              /\ WithStatus("Jailed")' = WithStatus("Jailed")
              /\ \A a \in Active \ Active' :
                    \E s \in Active' \ Active : rotation[1][s] > rotation[1][a]
<1>1. SetInv /\ [SetNext]_setVars => [Just]_setVars
  <2> SUFFICES ASSUME SetInv, SetNext, rotation # <<>> PROVE Just
    OBVIOUS
  <2>1. RotateSwap \/ RotateFill
    BY DEF SetNext, RegisterValidator, UpdateStake, DeregisterValidator, Jail, Unjail, EpochRotation
  <2>2. CASE RotateSwap
    <3>1. PICK w \in Active, s \in Standby :
             /\ Active' = (Active \ {w}) \cup {s} /\ rotation[1][s] > rotation[1][w]
             /\ WithStatus("Jailed")' = WithStatus("Jailed")
      BY <2>2, SwapEffect DEF SetInv
    <3> QED BY <3>1, SetFinite DEF SetInv
  <2>3. CASE RotateFill
    <3>1. Active \subseteq Active' /\ WithStatus("Jailed")' = WithStatus("Jailed")
      <4>1. CASE Cardinality(Active) < ActiveCap
        BY <2>3, <4>1, RotateFillCases, FillEffect DEF SetInv
      <4>2. CASE ~ (Cardinality(Active) < ActiveCap)
        BY <2>3, <4>2, RotateFillCases DEF SetInv, Active, WithStatus
      <4> QED BY <4>1, <4>2
    <3> QED BY <3>1
  <2> QED BY <2>1, <2>2, <2>3
<1> QED BY <1>1, SetInvInit, SetInvNext, PTL DEF SetSpec, RotationIsJust

(* When a rotation ends, no standby validator is stronger than an active one and
   none waits while there is room.                                           *)
THEOREM RotationsSettle == SetSpec => RotationSettles
<1> DEFINE Settles == rotation # <<>> /\ rotation' = <<>> =>
              /\ \A s \in Standby', a \in Active' : rotation[1][s] <= rotation[1][a]
              /\ Standby' # {} => Cardinality(Active') >= ActiveCap
<1>1. SetInv /\ [SetNext]_setVars => [Settles]_setVars
  <2> SUFFICES ASSUME SetInv, SetNext, rotation # <<>>, rotation' = <<>> PROVE Settles
    OBVIOUS
  <2>1. RotateFill
    BY DEF SetNext, RegisterValidator, UpdateStake, DeregisterValidator, Jail, Unjail, EpochRotation,
           RotateSwap
  <2> DEFINE pow == rotation[1]
  <2>2. pow \in Powers /\ ~ CanSwap(pow)
    BY <2>1, RotateFillCases DEF SetInv
  <2>3. \A k \in Active \cup Standby : pow[k] \in Nat
    BY <2>2, SetFinite, ConfigAssumption DEF SetInv, Powers
  <2>4. \A s \in Standby, a \in Active : pow[s] <= pow[a]
    <3> SUFFICES ASSUME NEW s \in Standby, NEW a \in Active PROVE pow[s] <= pow[a]
      OBVIOUS
    <3>1. /\ pow[WeakestActive(pow)] <= pow[a] /\ pow[s] <= pow[StrongestStandby(pow)]
          /\ WeakestActive(pow) \in Active /\ StrongestStandby(pow) \in Standby
      BY <2>2, Ranking DEF SetInv
    <3>2. ~ (pow[StrongestStandby(pow)] > pow[WeakestActive(pow)])
      BY <2>2 DEF CanSwap
    <3> QED BY <2>3, <3>1, <3>2
  <2>5. CASE Cardinality(Active) < ActiveCap
    <3>1. PICK top : Fills(top)
      BY <2>1, <2>5, RotateFillCases DEF SetInv
    <3>2. /\ Active' = Active \cup top /\ Standby' = Standby \ top
          /\ Standby \ top # {} => Cardinality(Active \cup top) = ActiveCap
      BY <2>5, <3>1, FillEffect DEF SetInv
    <3>3. \A s \in Standby \ top, a \in top : pow[s] <= pow[a]
      BY <2>3, <3>1 DEF Fills, IsTopStandby, Stronger
    <3>4. \A s \in Standby', a \in Active' : pow[s] <= pow[a]
      BY <2>4, <3>2, <3>3
    <3> QED BY <3>2, <3>4, ConfigAssumption
  <2>6. CASE ~ (Cardinality(Active) < ActiveCap)
    <3>1. Active' = Active /\ Standby' = Standby
      BY <2>1, <2>6, RotateFillCases DEF SetInv, Active, Standby, WithStatus
    <3> QED BY <2>4, <2>6, <3>1, SetFinite, ConfigAssumption DEF SetInv
  <2> QED BY <2>5, <2>6
<1> QED BY <1>1, SetInvInit, SetInvNext, PTL DEF SetSpec, RotationSettles

(* Every swap of rotate raises the power of the active set, which the power of all
   keys bounds: the loop cannot run for ever, nor take a swap back.          *)
THEOREM SwapsClimb ==
    SetSpec => [][RotateSwap =>
                     /\ TotalPower(rotation[1])' > TotalPower(rotation[1])
                     /\ TotalPower(rotation[1])' <= SumFunctionOnSet(rotation[1], Keys)]_setVars
<1> DEFINE Climbs == RotateSwap =>
              /\ TotalPower(rotation[1])' > TotalPower(rotation[1])
              /\ TotalPower(rotation[1])' <= SumFunctionOnSet(rotation[1], Keys)
<1>1. SetInv /\ [SetNext]_setVars => [Climbs]_setVars
  <2> SUFFICES ASSUME SetInv, RotateSwap
               PROVE  /\ TotalPower(rotation[1])' > TotalPower(rotation[1])
                      /\ TotalPower(rotation[1])' <= SumFunctionOnSet(rotation[1], Keys)
    OBVIOUS
  <2> DEFINE pow == rotation[1]
             w == WeakestActive(pow)
             s == StrongestStandby(pow)
             R == Active \ {w}
             P(S) == SumFunctionOnSet(pow, S)
  <2>1. /\ pow \in Powers /\ rotation' = rotation
        /\ w \in Active /\ s \in Standby /\ pow[s] > pow[w] /\ Active' = R \cup {s}
    BY SwapEffect DEF SetInv
  <2>2. /\ Active \in SUBSET Keys /\ Standby \in SUBSET Keys /\ Active \cap Standby = {}
        /\ IsFiniteSet(Active)
    BY SetFinite DEF SetInv
  <2>3. TotalPower(rotation[1])' = P(R \cup {s}) /\ TotalPower(rotation[1]) = P(Active)
    BY <2>1 DEF TotalPower
  <2>4. IsFiniteSet(Keys)
    <3>1. PICK last \in Nat : \A k \in Keys : k <= last
      BY KeysAssumption
    <3> QED BY <3>1, KeysAssumption, FS_BoundedSetOfNaturals
  <2>5. \A k \in Keys : pow[k] \in Nat
    BY <2>1, ConfigAssumption DEF Powers
  <2> HIDE DEF pow, w, s
  <2>6. s \notin R /\ R \cup {s} \in SUBSET Keys /\ R \in SUBSET Keys
    BY <2>1, <2>2
  <2>7. IsFiniteSet(R)
    BY <2>2, FS_Subset
  <2> HIDE DEF R
  <2>8. P(R) \in Nat /\ pow[w] \in Nat /\ pow[s] \in Nat
    <3>1. pow[w] \in Nat /\ pow[s] \in Nat
      BY <2>1, <2>2, <2>5
    <3> QED BY <2>5, <2>6, <2>7, <3>1, SumNat
  <2>9. P(Active) = pow[w] + P(R)
    <3>1. \A k \in Active : pow[k] \in Int
      BY <2>2, <2>5
    <3> QED BY <2>1, <2>2, <3>1, SumSplit DEF R
  <2>10. P(R \cup {s}) = pow[s] + P(R)
    <3>1. \A k \in R \cup {s} : pow[k] \in Int
      BY <2>5, <2>6
    <3> QED BY <2>6, <2>7, <3>1, SumAdd
  <2>11. P(R \cup {s}) <= P(Keys)
    <3> DEFINE U == R \cup {s}
    <3> HIDE DEF U
    <3>1. U \in SUBSET Keys
      BY <2>6 DEF U
    <3>2. P(U) <= P(Keys)
      BY <2>4, <2>5, <3>1, SumSubset
    <3> QED BY <3>2 DEF U
  <2> HIDE DEF P
  <2>12. P(R \cup {s}) > P(Active)
    BY <2>1, <2>8, <2>9, <2>10
  <2> QED BY <2>3, <2>11, <2>12 DEF P, pow
<1> QED BY <1>1, SetInvInit, SetInvNext, PTL DEF SetSpec

-----------------------------------------------------------------------------
(* get_proposer.  Each active key has a range of slots as long as its power: the
   ranges end within the total, ...                                          *)
LEMMA RangeTypes ==
    ASSUME SetTypeOK, NEW pow \in Powers
    PROVE  /\ TotalPower(pow) \in Nat
           /\ \A k \in Active : /\ k \in Nat /\ pow[k] \in Nat /\ CumulativePower(pow, k) \in Nat
                                /\ pow[k] <= CumulativePower(pow, k)
                                /\ CumulativePower(pow, k) <= TotalPower(pow)
<1>1. IsFiniteSet(Active) /\ \A k \in Active : k \in Nat /\ pow[k] \in Nat
  <2>1. IsFiniteSet(Active) /\ Active \in SUBSET Keys
    BY SetFinite
  <2>2. \A k \in Keys : k \in Nat /\ pow[k] \in Nat
    BY KeysAssumption, ConfigAssumption DEF Powers
  <2> QED BY <2>1, <2>2
<1>2. TotalPower(pow) \in Nat
  BY <1>1, SumNat DEF TotalPower
<1>3. ASSUME NEW k \in Active
      PROVE  /\ CumulativePower(pow, k) \in Nat
             /\ pow[k] <= CumulativePower(pow, k)
             /\ CumulativePower(pow, k) <= TotalPower(pow)
  <2> DEFINE U == {a \in Active : a <= k}
  <2>1. U \in SUBSET Active /\ k \in U
    BY <1>1
  <2> HIDE DEF U
  <2>2. IsFiniteSet(U) /\ \A a \in U : pow[a] \in Nat
    BY <1>1, <2>1, FS_Subset
  <2>3. SumFunctionOnSet(pow, U) \in Nat
    BY <2>2, SumNat
  <2>4. pow[k] <= SumFunctionOnSet(pow, U)
    BY <2>1, <2>2, SumBoundsTerm
  <2>5. SumFunctionOnSet(pow, U) <= SumFunctionOnSet(pow, Active)
    BY <1>1, <2>1, SumSubset
  <2> QED BY <2>3, <2>4, <2>5 DEF CumulativePower, TotalPower, U
<1> QED BY <1>1, <1>2, <1>3

(* ... each begins where the one before it ends, ... *)
LEMMA RangeStarts ==
    ASSUME SetTypeOK, NEW pow \in Powers, NEW k \in Active
    PROVE  /\ \A j \in Active : j < k => CumulativePower(pow, j) <= CumulativePower(pow, k) - pow[k]
           /\ \/ CumulativePower(pow, k) - pow[k] = 0
              \/ \E p \in Active : p < k /\ CumulativePower(pow, p) = CumulativePower(pow, k) - pow[k]
<1>1. /\ IsFiniteSet(Active)
      /\ \A a \in Active : a \in Nat /\ pow[a] \in Nat
  <2>1. \A a \in Active : a \in Nat /\ pow[a] \in Nat
    BY RangeTypes
  <2> QED BY <2>1, SetFinite
<1> DEFINE U == {a \in Active : a <= k}
           D == {a \in Active : a < k}
<1>2. U \ {k} = D /\ k \in U /\ D \in SUBSET Active /\ U \in SUBSET Active
  BY <1>1
<1>3. IsFiniteSet(U) /\ IsFiniteSet(D)
  BY <1>1, <1>2, FS_Subset
<1>4. SumFunctionOnSet(pow, U) = pow[k] + SumFunctionOnSet(pow, D)
  <2> HIDE DEF U, D
  <2>1. \A a \in U : pow[a] \in Int
    BY <1>1, <1>2
  <2> QED BY <1>2, <1>3, <2>1, SumSplit
<1>5. SumFunctionOnSet(pow, D) \in Nat
  <2> HIDE DEF D
  <2>1. \A a \in D : pow[a] \in Nat
    BY <1>1, <1>2
  <2> QED BY <1>3, <2>1, SumNat
<1>6. CumulativePower(pow, k) - pow[k] = SumFunctionOnSet(pow, D)
  <2>1. CumulativePower(pow, k) = pow[k] + SumFunctionOnSet(pow, D)
    BY <1>4 DEF CumulativePower
  <2> DEFINE c == CumulativePower(pow, k)
             d == SumFunctionOnSet(pow, D)
  <2>2. c = pow[k] + d /\ pow[k] \in Nat /\ d \in Nat
    BY <1>1, <1>5, <2>1
  <2> HIDE DEF c, d
  <2>3. c - pow[k] = d
    BY <2>2
  <2> QED BY <2>3 DEF c, d
<1>7. ASSUME NEW j \in Active, j < k
      PROVE  CumulativePower(pow, j) <= SumFunctionOnSet(pow, D)
  <2> DEFINE V == {a \in Active : a <= j}
  <2>1. V \in SUBSET D
    BY <1>1, <1>7
  <2> HIDE DEF D, V
  <2>2. SumFunctionOnSet(pow, V) <= SumFunctionOnSet(pow, D)
    BY <1>1, <1>2, <1>3, <2>1, SumSubset
  <2> QED BY <2>2 DEF CumulativePower, V
<1>8. CASE D = {}
  <2>1. SumFunctionOnSet(pow, D) = 0
    BY <1>8, SumEmpty
  <2> QED BY <1>6, <1>7, <2>1
<1>9. CASE D # {}
  <2>1. [a \in D |-> k - a] \in [D -> Nat]
    BY <1>1
  <2>2. PICK p \in D : \A a \in D : [b \in D |-> k - b][p] <= [b \in D |-> k - b][a]
    BY <1>9, <2>1, LeastMember
  <2>3. \A a \in D : a <= p
    BY <1>1, <2>2
  <2>4. {a \in Active : a <= p} = D /\ p \in Active /\ p < k
    BY <1>1, <2>3
  <2>5. CumulativePower(pow, p) = SumFunctionOnSet(pow, D)
    BY <2>4 DEF CumulativePower
  <2> HIDE DEF D
  <2> QED BY <1>6, <1>7, <2>4, <2>5
<1> QED BY <1>8, <1>9

(* ... and the last one ends at the total. *)
LEMMA RangesFill ==
    ASSUME SetTypeOK, NEW pow \in Powers, Active # {}
    PROVE  \E z \in Active : CumulativePower(pow, z) = TotalPower(pow)
<1>1. PICK last \in Nat : \A k \in Keys : k <= last
  BY KeysAssumption
<1>2. Active \in SUBSET Nat /\ \A a \in Active : a <= last
  BY <1>1, SetFinite, KeysAssumption
<1>3. [a \in Active |-> last - a] \in [Active -> Nat]
  BY <1>1, <1>2
<1>4. PICK z \in Active : \A a \in Active : [b \in Active |-> last - b][z] <= [b \in Active |-> last - b][a]
  BY <1>3, LeastMember
<1>5. \A a \in Active : a <= z
  BY <1>2, <1>4
<1>6. {a \in Active : a <= z} = Active
  BY <1>5
<1> QED BY <1>6 DEF CumulativePower, TotalPower

(* A height's proposer is the key whose range holds its slot. *)
LEMMA ProposerHoldsSlot ==
    ASSUME SetTypeOK, NEW pow \in Powers, NEW h \in Nat, NEW k \in Active, TotalPower(pow) # 0
    PROVE  GetProposer(pow, h) = k
              <=> /\ CumulativePower(pow, k) - pow[k] <= h % TotalPower(pow)
                  /\ h % TotalPower(pow) < CumulativePower(pow, k)
<1> DEFINE t == TotalPower(pow)
           slot == h % t
           Cum(j) == CumulativePower(pow, j)
           beyond == {j \in Active : slot < Cum(j)}
           prop == CHOOSE j \in beyond : \A i \in beyond : j <= i
<1>1. t \in Nat \ {0} /\ slot \in Nat /\ slot < t
  <2>1. t \in Nat \ {0}
    BY RangeTypes
  <2> HIDE DEF t
  <2> QED BY <2>1
<1>2. GetProposer(pow, h) = prop
  BY DEF GetProposer
<1>3. \A j \in Active : j \in Nat /\ pow[j] \in Nat /\ Cum(j) \in Nat
  BY RangeTypes
<1>4. \A i, j \in Active : j < i => Cum(j) <= Cum(i) - pow[i]
  BY RangeStarts
<1>5. \A i \in Active : Cum(i) - pow[i] = 0 \/ \E p \in Active : p < i /\ Cum(p) = Cum(i) - pow[i]
  BY RangeStarts
<1>6. \E z \in Active : Cum(z) = t
  BY RangesFill
<1> HIDE DEF slot, Cum, t
<1>7. beyond # {} /\ beyond \in SUBSET Nat
  BY <1>1, <1>3, <1>6
<1>8. \E j \in beyond : \A i \in beyond : j <= i
  <2> HIDE DEF beyond
  <2> QED BY <1>7, NatMin
<1>9. prop \in beyond /\ \A i \in beyond : prop <= i
  <2> HIDE DEF beyond
  <2> QED BY <1>8
<1> HIDE DEF prop
<1>10. ASSUME prop = k
       PROVE  Cum(k) - pow[k] <= slot /\ slot < Cum(k)
  <2>1. slot < Cum(k) /\ \A i \in beyond : k <= i
    BY <1>9, <1>10
  <2>2. CASE Cum(k) - pow[k] = 0
    BY <1>1, <2>1, <2>2
  <2>3. CASE \E p \in Active : p < k /\ Cum(p) = Cum(k) - pow[k]
    <3>1. PICK p \in Active : p < k /\ Cum(p) = Cum(k) - pow[k]
      BY <2>3
    <3>2. p \notin beyond
      BY <1>3, <2>1, <3>1
    <3> QED BY <1>1, <1>3, <2>1, <3>1, <3>2
  <2> QED BY <1>5, <2>2, <2>3
<1>11. ASSUME Cum(k) - pow[k] <= slot, slot < Cum(k)
       PROVE  prop = k
  <2>1. k \in beyond /\ prop \in Active /\ slot < Cum(prop)
    BY <1>9, <1>11
  <2>2. prop <= k
    BY <1>9, <2>1
  <2>3. ~ (prop < k)
    BY <1>1, <1>3, <1>4, <1>11, <2>1
  <2> QED BY <1>3, <2>1, <2>2, <2>3
<1>12. prop = k <=> Cum(k) - pow[k] <= slot /\ slot < Cum(k)
  BY <1>10, <1>11
<1> QED BY <1>2, <1>12 DEF slot, Cum, t

(* The slots of a window of t heights are 0 .. t - 1, each once. *)
LEMMA WindowSlots ==
    ASSUME NEW t \in Nat \ {0}, NEW first \in 0 .. t - 1, NEW lo \in Nat, NEW hi \in Nat,
           lo <= hi, hi <= t
    PROVE  Cardinality({h \in first .. first + t - 1 : lo <= h % t /\ h % t < hi}) = hi - lo
<1> DEFINE slots == lo .. hi - 1
           heights == {h \in first .. first + t - 1 : lo <= h % t /\ h % t < hi}
           g == [s \in slots |-> IF s >= first THEN s ELSE s + t]
<1>1. \A h \in first .. first + t - 1 : h % t = IF h < t THEN h ELSE h - t
  OBVIOUS
<1>2. ASSUME NEW s \in slots PROVE g[s] \in heights /\ g[s] % t = s
  <2>1. s \in Nat /\ lo <= s /\ s < hi /\ s < t
    OBVIOUS
  <2>2. g[s] = IF s >= first THEN s ELSE s + t
    OBVIOUS
  <2>3. g[s] \in first .. first + t - 1
    BY <2>1, <2>2
  <2>4. g[s] % t = IF g[s] < t THEN g[s] ELSE g[s] - t
    BY <1>1, <2>3
  <2>5. g[s] % t = s
    <3> HIDE DEF g
    <3> QED BY <2>1, <2>2, <2>4
  <2> HIDE DEF g
  <2> QED BY <2>1, <2>3, <2>5
<1>3. ASSUME NEW h \in heights PROVE \E s \in slots : g[s] = h
  <2>1. /\ h \in first .. first + t - 1 /\ h \in Nat
        /\ lo <= h % t /\ h % t < hi /\ h % t = IF h < t THEN h ELSE h - t
    BY <1>1
  <2> DEFINE s == IF h < t THEN h ELSE h - t
  <2>2. lo <= s /\ s < hi /\ s \in Nat
    BY <2>1
  <2>3. s \in slots
    <3> HIDE DEF s
    <3> QED BY <2>2
  <2>4. g[s] = IF s >= first THEN s ELSE s + t
    BY <2>3
  <2>5. (IF s >= first THEN s ELSE s + t) = h
    BY <2>1
  <2> HIDE DEF s, g
  <2> QED BY <2>3, <2>4, <2>5
<1> HIDE DEF g
<1>4. g \in Bijection(slots, heights)
  <2>1. DOMAIN g = slots /\ g = [s \in slots |-> g[s]]
    BY DEF g
  <2>2. g \in [slots -> heights]
    <3> HIDE DEF slots, heights
    <3> QED BY <1>2, <2>1
  <2>3. \A a, b \in slots : g[a] = g[b] => a = b
    <3> HIDE DEF slots, heights
    <3> QED BY <1>2
  <2> HIDE DEF slots, heights
  <2> QED BY <1>3, <2>2, <2>3 DEF Bijection, Injection, Surjection, IsInjective
<1>5. IsFiniteSet(slots) /\ Cardinality(slots) = hi - lo
  <2>1. lo \in Int /\ hi - 1 \in Int
    OBVIOUS
  <2>2. /\ IsFiniteSet(lo .. hi - 1)
        /\ Cardinality(lo .. hi - 1) = IF lo > hi - 1 THEN 0 ELSE (hi - 1) - lo + 1
    BY <2>1, FS_Interval
  <2> QED BY <2>2
<1>6. Cardinality(heights) = Cardinality(slots)
  <2> HIDE DEF slots, heights
  <2> QED BY <1>4, <1>5, FS_Bijection DEF ExistsBijection
<1> QED BY <1>5, <1>6

(* So each key is met as often as it has power. *)
LEMMA SharesByPower == SetTypeOK => ProposersByPower
<1> SUFFICES ASSUME SetTypeOK,
                    NEW i \in DOMAIN rotation, NEW first \in 0 .. TotalPower(rotation[i]) - 1,
                    NEW k \in Active
             PROVE  Cardinality({h \in first .. first + TotalPower(rotation[i]) - 1 :
                                    GetProposer(rotation[i], h) = k}) = rotation[i][k]
  BY DEF ProposersByPower
<1> DEFINE pow == rotation[i]
           t == TotalPower(pow)
           hi == CumulativePower(pow, k)
           lo == hi - pow[k]
<1>1. pow \in Powers
  BY DEF SetTypeOK
<1> HIDE DEF pow
<1>2. /\ t \in Nat /\ pow[k] \in Nat /\ hi \in Nat /\ pow[k] <= hi /\ hi <= t
  BY <1>1, RangeTypes
<1>3. first \in 0 .. t - 1
  BY DEF pow
<1>4. \A h \in Nat : t # 0 => (GetProposer(pow, h) = k <=> lo <= h % t /\ h % t < hi)
  BY <1>1, ProposerHoldsSlot
<1> HIDE DEF t, hi
<1>5. t \in Nat \ {0} /\ first \in Nat /\ lo \in Nat /\ lo <= hi /\ hi - lo = pow[k]
  BY <1>2, <1>3
<1>6. \A h \in first .. first + t - 1 : h \in Nat
  BY <1>5
<1> HIDE DEF lo
<1>7. {h \in first .. first + t - 1 : GetProposer(pow, h) = k}
        = {h \in first .. first + t - 1 : lo <= h % t /\ h % t < hi}
  BY <1>4, <1>5, <1>6
<1>8. Cardinality({h \in first .. first + t - 1 : lo <= h % t /\ h % t < hi}) = hi - lo
  BY <1>2, <1>3, <1>5, WindowSlots
<1>9. Cardinality({h \in first .. first + t - 1 : GetProposer(pow, h) = k}) = pow[k]
  BY <1>5, <1>7, <1>8
<1> QED BY <1>9 DEF pow, t

(* For any keys, powers and history of the set: over as many consecutive heights as
   there is power, get_proposer names each active validator as often as it has power. *)
THEOREM ProposingFollowsPower == SetSpec => []ProposersByPower
<1>1. SetInv => ProposersByPower
  BY SharesByPower DEF SetInv
<1> QED BY <1>1, SetInvInit, SetInvNext, PTL DEF SetSpec

-----------------------------------------------------------------------------
(***************************************************************************)
(* The boot.  While it lasts, only genesis validators registered so far are *)
(* in the set, and none without the minimum stake; each of them has a stake *)
(* in the pool, and if all of them fit, each became active.                 *)
(***************************************************************************)
BootSteps == {"storage", "register", "key", "consensus", "network", "rpc"}

KeyOf(i)   == genesis.validators[i].key
FirstKeys  == {KeyOf(i) : i \in 1 .. registered}

Registered ==
    /\ \A i \in 1 .. registered : poolStake[KeyOf(i)] > 0
    /\ DOMAIN validators \subseteq FirstKeys
    /\ \A i \in 1 .. registered :
          KeyOf(i) \in DOMAIN validators => genesis.validators[i].stake >= MinStake
    /\ AllFit => FirstKeys \subseteq Active

BootInv ==
    /\ SetInv
    /\ poolStake \in [Keys -> Nat]
    /\ boot \in {"load", "storage"} => registered = 0 /\ DOMAIN validators = {}
    /\ boot \in BootSteps => /\ genesis \in GenesisConfig /\ Validate(genesis)
                             /\ registered \in 0 .. Len(genesis.validators)
                             /\ Registered
    /\ boot \in BootSteps \ {"storage", "register"} => registered = Len(genesis.validators)
    /\ boot \in {"network", "rpc"} => bftValidators = Retain(KeysIn(genesis), CurvePoints)

LEMMA DefaultIsTyped == Unreadable \in GenesisFiles => DefaultTestnet \in GenesisConfig
<1> SUFFICES ASSUME Unreadable \in GenesisFiles PROVE DefaultTestnet \in GenesisConfig
  OBVIOUS
<1>1. 1 .. 4 \subseteq Keys
  BY GenesisAssumption
<1>2. [i \in 1 .. 4 |-> [key |-> i, stake |-> 10000000, commission |-> 500]] \in Seq(GenesisValidator)
  BY <1>1 DEF GenesisValidator
<1>3. DefaultParams \in ChainParams
  BY ConfigAssumption DEF DefaultParams, ChainParams
<1> QED BY <1>2, <1>3 DEF DefaultTestnet, GenesisConfig

LEMMA GenesisParts ==
    ASSUME genesis \in GenesisConfig, Validate(genesis)
    PROVE  /\ Len(genesis.validators) \in Nat
           /\ DOMAIN genesis.validators = 1 .. Len(genesis.validators)
           /\ \A i \in 1 .. Len(genesis.validators) :
                 /\ genesis.validators[i] \in ToSet(genesis.validators)
                 /\ genesis.validators[i].stake \in Nat /\ genesis.validators[i].stake > 0
                 /\ KeyOf(i) \in Keys
           /\ \A i, j \in 1 .. Len(genesis.validators) : i # j => KeyOf(i) # KeyOf(j)
           /\ KeysIn(genesis) \in Seq(Keys) /\ IsInjective(KeysIn(genesis))
           /\ Len(KeysIn(genesis)) = Len(genesis.validators)
           /\ Range(KeysIn(genesis)) = {KeyOf(i) : i \in 1 .. Len(genesis.validators)}
<1> DEFINE g == genesis.validators
           n == Len(g)
<1>1. g \in Seq(GenesisValidator)
  BY DEF GenesisConfig
<1>2. n \in Nat /\ DOMAIN g = 1 .. n /\ \A i \in 1 .. n : g[i] \in GenesisValidator /\ g[i] \in ToSet(g)
  BY <1>1 DEF ToSet
<1>3. /\ \A i, j \in 1 .. n : i # j => g[i].key # g[j].key
      /\ \A i \in 1 .. n : g[i].stake # 0
  BY <1>2 DEF Validate
<1>4. \A i \in 1 .. n : g[i].stake \in Nat /\ g[i].stake > 0 /\ g[i].key \in Keys
  BY <1>2, <1>3 DEF GenesisValidator
<1>5. /\ KeysIn(genesis) = [i \in 1 .. n |-> g[i].key]
  BY <1>2 DEF KeysIn
<1> HIDE DEF g, n
<1>6. KeysIn(genesis) \in Seq(Keys) /\ Len(KeysIn(genesis)) = n
  BY <1>2, <1>4, <1>5
<1>7. IsInjective(KeysIn(genesis)) /\ Range(KeysIn(genesis)) = {g[i].key : i \in 1 .. n}
  BY <1>3, <1>5 DEF IsInjective, Range
<1> QED BY <1>2, <1>3, <1>4, <1>6, <1>7 DEF g, n, KeyOf

LEMMA BootStart == BootInit => BootInv
<1> SUFFICES ASSUME BootInit PROVE BootInv
  OBVIOUS
<1>1. SetInv
  BY SetInvInit DEF BootInit
<1> QED BY <1>1 DEF BootInit, SetInit, BootInv, BootSteps

LEMMA LoadStep ==
    ASSUME BootInv, NEW file \in GenesisFiles, LoadGenesis(file)
    PROVE  BootInv'
<1>1. /\ boot = "load" /\ registered = 0 /\ DOMAIN validators = {}
      /\ UNCHANGED <<validators, rotation, registered, poolStake, bftValidators>>
  BY DEF LoadGenesis, GoOn, OrExit, setVars, BootInv
<1>2. SetInv' /\ (poolStake \in [Keys -> Nat])'
  BY <1>1 DEF BootInv, SetInv, SetTypeOK, ActiveWithinCap, Active, WithStatus
<1>3. CASE boot' = "exited"
  BY <1>1, <1>2, <1>3 DEF BootInv, BootSteps
<1>4. CASE boot' = "storage"
  <2>1. genesis' = (IF file = Unreadable THEN DefaultTestnet ELSE file[1]) /\ Validate(genesis')
    BY <1>4 DEF LoadGenesis, GoOn, OrExit
  <2>2. genesis' \in GenesisConfig
    BY <2>1, DefaultIsTyped, GenesisAssumption
  <2>3. Len(genesis'.validators) \in Nat
    BY <2>2 DEF GenesisConfig
  <2>4. Registered'
    BY <1>1 DEF Registered, FirstKeys
  <2> QED BY <1>1, <1>2, <1>4, <2>1, <2>2, <2>3, <2>4 DEF BootInv, BootSteps
<1> QED BY <1>3, <1>4 DEF LoadGenesis, GoOn, OrExit

LEMMA RegisterGenesisStep ==
    ASSUME BootInv, RegisterGenesisValidator
    PROVE  BootInv'
<1> DEFINE v == genesis.validators[registered + 1]
           k == v.key
           n == Len(genesis.validators)
<1>1. /\ boot = "register" /\ registered < n
      /\ poolStake' = [poolStake EXCEPT ![k] = @ + v.stake]
      /\ registered' = registered + 1 /\ boot' = boot /\ genesis' = genesis
  BY DEF RegisterGenesisValidator
<1>2. /\ genesis \in GenesisConfig /\ Validate(genesis) /\ registered \in 0 .. n /\ Registered
      /\ poolStake \in [Keys -> Nat] /\ SetInv
  BY <1>1 DEF BootInv, BootSteps
<1>3. n \in Nat /\ registered + 1 \in 1 .. n
  BY <1>1, <1>2, GenesisParts
<1>4. /\ k \in Keys /\ v.stake \in Nat /\ v.stake > 0 /\ v \in ToSet(genesis.validators)
      /\ k = KeyOf(registered + 1) /\ k \notin FirstKeys
  BY <1>2, <1>3, GenesisParts DEF KeyOf, FirstKeys
<1>5. RegisterValidator(k, v.stake) \/ (v.stake < MinStake /\ UNCHANGED setVars)
  <2>1. k \notin DOMAIN validators
    BY <1>2, <1>4 DEF Registered
  <2> QED BY <1>4, <2>1, ConfigAssumption DEF RegisterGenesisValidator
<1> HIDE DEF n
<1>6. FirstKeys' = FirstKeys \cup {k}
  <2>1. 1 .. registered' = (1 .. registered) \cup {registered + 1}
    BY <1>1, <1>2, <1>3
  <2>2. \A i : KeyOf(i)' = KeyOf(i)
    BY <1>1 DEF KeyOf
  <2> QED BY <1>4, <2>1, <2>2 DEF FirstKeys
<1>7. SetInv'
  <2>1. CASE UNCHANGED setVars
    BY <1>2, <2>1, SetInvNext
  <2>2. CASE RegisterValidator(k, v.stake)
    BY <1>2, <1>4, <2>2, RegisterStep
  <2> QED BY <1>5, <2>1, <2>2
<1>8. /\ poolStake' \in [Keys -> Nat] /\ \A x \in Keys : poolStake'[x] >= poolStake[x]
      /\ poolStake'[k] > 0
  BY <1>1, <1>2, <1>4
<1>9. \A i \in 1 .. registered' : poolStake'[KeyOf(i)'] > 0
  <2> SUFFICES ASSUME NEW i \in 1 .. registered' PROVE poolStake'[KeyOf(i)'] > 0
    OBVIOUS
  <2>1. KeyOf(i)' = KeyOf(i)
    BY <1>1 DEF KeyOf
  <2>2. CASE i = registered + 1
    BY <1>4, <1>8, <2>1, <2>2
  <2>3. CASE i # registered + 1
    <3>1. i \in 1 .. registered /\ i \in 1 .. n
      BY <1>1, <1>2, <1>3, <2>3
    <3>2. KeyOf(i) \in Keys /\ poolStake[KeyOf(i)] > 0
      BY <1>2, <3>1, GenesisParts DEF Registered, n
    <3>3. poolStake[KeyOf(i)] \in Nat /\ poolStake'[KeyOf(i)] \in Nat
      BY <1>2, <1>8, <3>2
    <3> QED BY <1>8, <2>1, <3>2, <3>3
  <2> QED BY <2>2, <2>3
<1>10. DOMAIN validators' \subseteq FirstKeys'
  BY <1>2, <1>5, <1>6 DEF Registered, RegisterValidator, setVars
<1>11. ASSUME AllFit' PROVE FirstKeys' \subseteq Active'
  <2>1. AllFit /\ n <= ActiveCap /\ v.stake >= MinStake
    BY <1>1, <1>4, <1>11 DEF AllFit, n
  <2>2. RegisterValidator(k, v.stake)
    BY <1>4, <1>5, <2>1, ConfigAssumption
  <2>3. Cardinality(Active) < ActiveCap
    <3> DEFINE I == 1 .. registered
    <3>1. IsFiniteSet(I) /\ Cardinality(I) = registered
      BY <1>2, <1>3, FS_Interval
    <3>2. [i \in I |-> KeyOf(i)] \in Surjection(I, FirstKeys)
      BY DEF Surjection, FirstKeys
    <3>3. IsFiniteSet(FirstKeys) /\ Cardinality(FirstKeys) <= registered
      BY <3>1, <3>2, FS_Surjection
    <3>4. Active \subseteq FirstKeys
      BY <1>2 DEF Registered, Active, WithStatus
    <3>5. Cardinality(Active) <= Cardinality(FirstKeys) /\ Cardinality(Active) \in Nat
          /\ Cardinality(FirstKeys) \in Nat
      BY <3>3, <3>4, FS_Subset, FS_CardinalityType
    <3> HIDE DEF I
    <3> QED BY <1>1, <1>2, <1>3, <2>1, <3>3, <3>5, ConfigAssumption
  <2>4. Active' = Active \cup {k}
    BY <2>2, <2>3 DEF RegisterValidator, Active, WithStatus
  <2> QED BY <1>2, <1>6, <2>1, <2>4 DEF Registered
<1>12. \A i \in 1 .. registered' :
          KeyOf(i)' \in DOMAIN validators' => genesis'.validators[i].stake >= MinStake
  <2> SUFFICES ASSUME NEW i \in 1 .. registered', KeyOf(i)' \in DOMAIN validators'
               PROVE  genesis.validators[i].stake >= MinStake
    BY <1>1
  <2>1. KeyOf(i)' = KeyOf(i)
    BY <1>1 DEF KeyOf
  <2>2. CASE i = registered + 1
    <3>1. k \notin DOMAIN validators
      BY <1>2, <1>4 DEF Registered
    <3>2. RegisterValidator(k, v.stake)
      BY <1>4, <1>5, <2>1, <2>2, <3>1 DEF setVars
    <3> QED BY <2>2, <3>2 DEF RegisterValidator
  <2>3. CASE i # registered + 1
    <3>1. i \in 1 .. registered /\ i \in 1 .. n
      BY <1>1, <1>2, <1>3, <2>3
    <3>2. KeyOf(i) # k
      BY <1>4, <3>1 DEF FirstKeys
    <3>3. KeyOf(i) \in DOMAIN validators
      BY <1>5, <2>1, <3>2 DEF RegisterValidator, setVars
    <3> QED BY <1>2, <3>1, <3>3 DEF Registered
  <2> QED BY <2>2, <2>3
<1>13. Registered'
  BY <1>9, <1>10, <1>11, <1>12 DEF Registered
<1> QED BY <1>1, <1>2, <1>3, <1>7, <1>8, <1>13 DEF BootInv, BootSteps, n

(* The other steps leave set and pool alone. *)
LEMMA PlainBootStep ==
    ASSUME BootInv,
           InitStorage \/ CreateRpcState \/ LoadSigningKey \/ StartConsensus \/ CreateNetwork \/ StartRpc
    PROVE  BootInv'
<1>1. UNCHANGED <<validators, rotation, genesis, registered, poolStake>>
  BY DEF InitStorage, CreateRpcState, LoadSigningKey, StartConsensus, CreateNetwork, StartRpc, setVars
<1>2. SetInv' /\ (poolStake \in [Keys -> Nat])'
  BY <1>1 DEF BootInv, SetInv, SetTypeOK, ActiveWithinCap, Active, WithStatus
<1>3. Registered' = Registered
  BY <1>1 DEF Registered, FirstKeys, KeyOf, AllFit, Active, WithStatus
<1>4. CASE boot' = "exited"
  BY <1>2, <1>4 DEF BootInv, BootSteps
<1> USE DEF BootSteps, GoOn, OrExit
<1>5. CASE InitStorage
  BY <1>1, <1>2, <1>3, <1>4, <1>5 DEF BootInv, InitStorage
<1>6. CASE CreateRpcState
  BY <1>1, <1>2, <1>3, <1>6 DEF BootInv, CreateRpcState
<1>7. CASE LoadSigningKey
  BY <1>1, <1>2, <1>3, <1>4, <1>7 DEF BootInv, LoadSigningKey
<1>8. CASE StartConsensus
  BY <1>1, <1>2, <1>3, <1>8 DEF BootInv, StartConsensus
<1>9. CASE CreateNetwork
  BY <1>1, <1>2, <1>3, <1>4, <1>9 DEF BootInv, CreateNetwork
<1>10. CASE StartRpc
  BY <1>1, <1>2, <1>3, <1>10 DEF BootInv, StartRpc
<1> QED BY <1>5, <1>6, <1>7, <1>8, <1>9, <1>10

LEMMA BootInvNext == BootInv /\ [BootNext]_nodeVars => BootInv'
<1> SUFFICES ASSUME BootInv, [BootNext]_nodeVars PROVE BootInv'
  OBVIOUS
<1>1. CASE \E file \in GenesisFiles : LoadGenesis(file)
  BY <1>1, LoadStep
<1>2. CASE RegisterGenesisValidator
  BY <1>2, RegisterGenesisStep
<1>3. CASE InitStorage \/ CreateRpcState \/ LoadSigningKey \/ StartConsensus \/ CreateNetwork \/ StartRpc
  BY <1>3, PlainBootStep
<1>4. CASE boot = "running" /\ SetNext /\ UNCHANGED bootVars
  <2>1. SetInv' /\ boot' = "running" /\ (poolStake \in [Keys -> Nat])'
    BY <1>4, SetInvNext DEF BootInv, bootVars
  <2> QED BY <2>1 DEF BootInv, BootSteps
<1>5. CASE UNCHANGED nodeVars
  BY <1>5 DEF nodeVars, bootVars, setVars, BootInv, SetInv, SetTypeOK, ActiveWithinCap, Active,
              WithStatus, Registered, FirstKeys, KeyOf, AllFit
<1> QED BY <1>1, <1>2, <1>3, <1>4, <1>5 DEF BootNext

LEMMA BootInvHolds == BootSpec => []BootInv
BY BootStart, BootInvNext, PTL DEF BootSpec

(* A validator that does not fit is on the list and not in the active set. *)
LEMMA ActiveIsSmaller ==
    ASSUME SetInv, genesis \in GenesisConfig, Validate(genesis), Registered,
           registered = Len(genesis.validators), ~ AllFit
    PROVE  Cardinality(Active) < Len(genesis.validators)
<1> DEFINE n == Len(genesis.validators)
<1>1. n \in Nat /\ IsFiniteSet(FirstKeys) /\ Cardinality(FirstKeys) = n
  BY GenesisParts, InjectiveLen DEF FirstKeys
<1>2. /\ Active \subseteq FirstKeys /\ IsFiniteSet(Active) /\ Cardinality(Active) \in Nat
      /\ Cardinality(Active) <= ActiveCap /\ ActiveCap \in Nat
  BY <1>1, FS_Subset, FS_CardinalityType, ConfigAssumption
     DEF Registered, Active, WithStatus, SetInv, ActiveWithinCap
<1>3. CASE ~ n <= ActiveCap
  BY <1>1, <1>2, <1>3
<1>4. CASE n <= ActiveCap
  <2>1. PICK v \in ToSet(genesis.validators) : ~ v.stake >= MinStake
    BY <1>4 DEF AllFit
  <2>2. PICK i \in 1 .. n : v = genesis.validators[i]
    BY <2>1, GenesisParts DEF ToSet
  <2>3. KeyOf(i) \in FirstKeys /\ KeyOf(i) \notin Active
    BY <2>1, <2>2 DEF Registered, FirstKeys, Active, WithStatus
  <2>4. Cardinality(Active) <= Cardinality(FirstKeys)
    BY <1>1, <1>2, FS_Subset
  <2>5. Cardinality(Active) # Cardinality(FirstKeys)
    BY <1>1, <1>2, <2>3, FS_Subset
  <2> QED BY <1>1, <1>2, <2>4, <2>5
<1> QED BY <1>3, <1>4

(* For any genesis file, whatever it lists: consensus starts from a list without
   repetitions whose members have stakes and that misses no active validator.  If
   all validators fit, it is the active set and RPC clients are told its size; if
   not, and all are curve points, they are told of more validators than are active. *)
THEOREM ConsensusStartsSound == BootSpec => BootAgrees
<1> DEFINE inList == ToSet(bftValidators)
           Sound  == boot = "rpc" =>
              /\ Cardinality(inList) = Len(bftValidators)
              /\ \A k \in inList : poolStake[k] > 0
              /\ Active \cap CurvePoints \subseteq inList
              /\ AllFit => inList = Active \cap CurvePoints
              /\ AllFit /\ Active \subseteq CurvePoints => validatorCount' = Cardinality(Active)
              /\ ~ AllFit /\ ToSet(KeysIn(genesis)) \subseteq CurvePoints =>
                    validatorCount' > Cardinality(Active)
<1>1. BootInv /\ [BootNext]_nodeVars => [Sound]_nodeVars
  <2> SUFFICES ASSUME BootInv, BootNext, boot = "rpc" PROVE Sound
    OBVIOUS
  <2>1. /\ genesis \in GenesisConfig /\ Validate(genesis) /\ Registered /\ SetInv
        /\ registered = Len(genesis.validators)
        /\ bftValidators = Retain(KeysIn(genesis), CurvePoints)
    BY DEF BootInv, BootSteps
  <2>2. /\ KeysIn(genesis) \in Seq(Keys) /\ IsInjective(KeysIn(genesis))
        /\ Range(KeysIn(genesis)) = FirstKeys /\ Len(KeysIn(genesis)) = Len(genesis.validators)
    BY <2>1, GenesisParts DEF FirstKeys
  <2>3. /\ bftValidators \in Seq(Keys) /\ IsInjective(bftValidators)
        /\ Range(bftValidators) = FirstKeys \cap CurvePoints
    BY <2>1, <2>2, RetainFacts
  <2>4. inList = Range(bftValidators) /\ ToSet(KeysIn(genesis)) = FirstKeys
    BY <2>2 DEF ToSet, Range
  <2>5. Cardinality(inList) = Len(bftValidators)
    BY <2>3, <2>4, InjectiveLen
  <2>6. validatorCount' = Len(bftValidators)
    BY DEF BootNext, LoadGenesis, InitStorage, RegisterGenesisValidator, CreateRpcState,
           LoadSigningKey, StartConsensus, CreateNetwork, StartRpc, GoOn, OrExit
  <2>7. \A k \in inList : poolStake[k] > 0
    BY <2>1, <2>3, <2>4 DEF Registered, FirstKeys
  <2>8. Active \subseteq FirstKeys
    BY <2>1 DEF Registered, Active, WithStatus
  <2>9. AllFit => inList = Active \cap CurvePoints
    BY <2>1, <2>3, <2>4, <2>8 DEF Registered
  <2>10. ASSUME AllFit, Active \subseteq CurvePoints PROVE validatorCount' = Cardinality(Active)
    BY <2>5, <2>6, <2>9, <2>10
  <2>11. ASSUME ~ AllFit, FirstKeys \subseteq CurvePoints PROVE validatorCount' > Cardinality(Active)
    <3>1. Cardinality(inList) = Cardinality(FirstKeys)
      BY <2>3, <2>4, <2>11
    <3>2. Cardinality(FirstKeys) = Len(genesis.validators)
      BY <2>2, InjectiveLen
    <3>3. Cardinality(Active) < Len(genesis.validators)
      BY <2>1, <2>11, ActiveIsSmaller
    <3>4. Len(genesis.validators) \in Nat /\ Cardinality(Active) \in Nat
      <4>1. IsFiniteSet(FirstKeys)
        BY <2>2, InjectiveLen
      <4> QED BY <2>1, <2>8, <4>1, GenesisParts, FS_Subset, FS_CardinalityType
    <3> QED BY <2>5, <2>6, <3>1, <3>2, <3>3, <3>4
  <2> QED BY <2>3, <2>4, <2>5, <2>7, <2>8, <2>9, <2>10, <2>11
<1>2. [Sound]_nodeVars => [boot = "rpc" =>
         LET voting == ToSet(bftValidators) IN
         /\ Cardinality(voting) = Len(bftValidators)
         /\ \A k \in voting : poolStake[k] > 0
         /\ Active \cap CurvePoints \subseteq voting
         /\ AllFit => voting = Active \cap CurvePoints
         /\ AllFit /\ Active \subseteq CurvePoints => validatorCount' = Cardinality(Active)
         /\ ~ AllFit /\ ToSet(KeysIn(genesis)) \subseteq CurvePoints =>
               validatorCount' > Cardinality(Active)]_nodeVars
  OBVIOUS
<1> HIDE DEF Sound
<1>3. BootInv /\ [BootNext]_nodeVars => [Sound]_nodeVars
  BY <1>1
<1> QED BY <1>2, <1>3, BootInvHolds, PTL DEF BootSpec, BootAgrees

(* The cap is kept from the first registration of the boot on. *)
THEOREM BootKeepsCap == BootSpec => []ActiveWithinCap
<1>1. BootInv => ActiveWithinCap
  BY DEF BootInv, SetInv
<1> QED BY <1>1, BootInvHolds, PTL

(* In a booted node too, proposing follows the powers. *)
THEOREM BootKeepsShares == BootSpec => []ProposersByPower
<1>1. BootInv => ProposersByPower
  BY SharesByPower DEF BootInv, SetInv
<1> QED BY <1>1, BootInvHolds, PTL

-----------------------------------------------------------------------------
(***************************************************************************)
(* The staking pool.  Entries are added up by AmountIn and UnlockedIn; a    *)
(* deposit appends one; the loop of unstake is followed entry by entry.     *)
(***************************************************************************)
Entry == [amount : Nat, tier : Tiers, unlock : Int]

AmountsOf(entries) == [i \in DOMAIN entries |-> entries[i].amount]
FreeOf(entries, now) ==
    [i \in DOMAIN entries |-> IF IsUnlocked(entries[i], now) THEN entries[i].amount ELSE 0]

LEMMA EntryTypes ==
    ASSUME NEW q \in Seq(Entry), NEW now
    PROVE  /\ Len(q) \in Nat /\ DOMAIN q = 1 .. Len(q)
           /\ DOMAIN AmountsOf(q) = 1 .. Len(q) /\ DOMAIN FreeOf(q, now) = 1 .. Len(q)
           /\ \A i \in 1 .. Len(q) :
                 /\ q[i] \in Entry
                 /\ AmountsOf(q)[i] = q[i].amount /\ AmountsOf(q)[i] \in Nat
                 /\ FreeOf(q, now)[i] = (IF IsUnlocked(q[i], now) THEN q[i].amount ELSE 0)
                 /\ FreeOf(q, now)[i] \in Nat
<1>1. Len(q) \in Nat /\ DOMAIN q = 1 .. Len(q) /\ \A i \in 1 .. Len(q) : q[i] \in Entry
  OBVIOUS
<1>2. \A e \in Entry : e.amount \in Nat
  BY DEF Entry
<1> QED BY <1>1, <1>2 DEF AmountsOf, FreeOf

LEMMA EntrySums ==
    ASSUME NEW q \in Seq(Entry), NEW now
    PROVE  /\ AmountIn(q) = SumFunctionOnSet(AmountsOf(q), 1 .. Len(q))
           /\ UnlockedIn(q, now) = SumFunctionOnSet(FreeOf(q, now), 1 .. Len(q))
           /\ AmountIn(q) \in Nat /\ UnlockedIn(q, now) \in Nat
<1>1. AmountIn(q) = SumFunctionOnSet(AmountsOf(q), DOMAIN AmountsOf(q))
  BY DEF AmountIn, SumFunction, AmountsOf
<1>2. UnlockedIn(q, now) = SumFunctionOnSet(FreeOf(q, now), DOMAIN FreeOf(q, now))
  BY DEF UnlockedIn, SumFunction, FreeOf
<1>3. IsFiniteSet(1 .. Len(q))
  BY EntryTypes, FS_Interval
<1>4. SumFunctionOnSet(AmountsOf(q), 1 .. Len(q)) \in Nat
  BY <1>3, EntryTypes, SumNat
<1>5. SumFunctionOnSet(FreeOf(q, now), 1 .. Len(q)) \in Nat
  BY <1>3, EntryTypes, SumNat
<1> QED BY <1>1, <1>2, <1>4, <1>5, EntryTypes

(* A deposit adds its amount, to the free ones if it is not locked. *)
LEMMA AppendSums ==
    ASSUME NEW q \in Seq(Entry), NEW e \in Entry, NEW now
    PROVE  /\ Append(q, e) \in Seq(Entry)
           /\ AmountIn(Append(q, e)) = AmountIn(q) + e.amount
           /\ UnlockedIn(Append(q, e), now)
                = UnlockedIn(q, now) + (IF IsUnlocked(e, now) THEN e.amount ELSE 0)
<1> DEFINE r == Append(q, e)
           n == Len(q)
           free == IF IsUnlocked(e, now) THEN e.amount ELSE 0
<1>1. /\ r \in Seq(Entry) /\ Len(r) = n + 1 /\ n \in Nat /\ r[n + 1] = e
      /\ \A i \in 1 .. n : r[i] = q[i]
  BY AppendFacts
<1>3. e.amount \in Nat /\ free \in Nat
  BY DEF Entry
<1> HIDE DEF r, n, free
<1>2. 1 .. n + 1 = (1 .. n) \cup {n + 1} /\ n + 1 \notin 1 .. n /\ IsFiniteSet(1 .. n)
  <2>1. IsFiniteSet(1 .. n)
    BY <1>1, FS_Interval
  <2> QED BY <1>1, <2>1
<1>4. /\ AmountsOf(r)[n + 1] = e.amount /\ \A i \in (1 .. n) \cup {n + 1} : AmountsOf(r)[i] \in Int
      /\ \A i \in 1 .. n : AmountsOf(r)[i] = AmountsOf(q)[i]
  <2>1. \A i \in 1 .. n + 1 : AmountsOf(r)[i] = r[i].amount /\ AmountsOf(r)[i] \in Nat
    BY <1>1, EntryTypes
  <2>2. \A i \in 1 .. n : AmountsOf(q)[i] = q[i].amount
    BY EntryTypes DEF n
  <2> QED BY <1>1, <1>2, <2>1, <2>2
<1>5. /\ FreeOf(r, now)[n + 1] = free /\ \A i \in (1 .. n) \cup {n + 1} : FreeOf(r, now)[i] \in Int
      /\ \A i \in 1 .. n : FreeOf(r, now)[i] = FreeOf(q, now)[i]
  <2>1. \A i \in 1 .. n + 1 : /\ FreeOf(r, now)[i] = IF IsUnlocked(r[i], now) THEN r[i].amount ELSE 0
                              /\ FreeOf(r, now)[i] \in Nat
    BY <1>1, EntryTypes
  <2>2. \A i \in 1 .. n : FreeOf(q, now)[i] = IF IsUnlocked(q[i], now) THEN q[i].amount ELSE 0
    BY EntryTypes DEF n
  <2> QED BY <1>1, <1>2, <2>1, <2>2 DEF free
<1>6. AmountIn(r) = e.amount + AmountIn(q)
  <2>1. SumFunctionOnSet(AmountsOf(r), (1 .. n) \cup {n + 1})
          = AmountsOf(r)[n + 1] + SumFunctionOnSet(AmountsOf(r), 1 .. n)
    BY <1>2, <1>4, SumAdd
  <2>2. SumFunctionOnSet(AmountsOf(r), 1 .. n) = SumFunctionOnSet(AmountsOf(q), 1 .. n)
    BY <1>2, <1>4, SumSame
  <2>3. AmountIn(r) = SumFunctionOnSet(AmountsOf(r), 1 .. n + 1)
    BY <1>1, EntrySums
  <2>4. AmountIn(q) = SumFunctionOnSet(AmountsOf(q), 1 .. n)
    BY EntrySums DEF n
  <2> QED BY <1>2, <1>4, <2>1, <2>2, <2>3, <2>4
<1>7. UnlockedIn(r, now) = free + UnlockedIn(q, now)
  <2>1. SumFunctionOnSet(FreeOf(r, now), (1 .. n) \cup {n + 1})
          = FreeOf(r, now)[n + 1] + SumFunctionOnSet(FreeOf(r, now), 1 .. n)
    BY <1>2, <1>5, SumAdd
  <2>2. SumFunctionOnSet(FreeOf(r, now), 1 .. n) = SumFunctionOnSet(FreeOf(q, now), 1 .. n)
    BY <1>2, <1>5, SumSame
  <2>3. UnlockedIn(r, now) = SumFunctionOnSet(FreeOf(r, now), 1 .. n + 1)
    BY <1>1, EntrySums
  <2>4. UnlockedIn(q, now) = SumFunctionOnSet(FreeOf(q, now), 1 .. n)
    BY EntrySums DEF n
  <2> QED BY <1>2, <1>5, <2>1, <2>2, <2>3, <2>4
<1>8. AmountIn(q) \in Nat /\ UnlockedIn(q, now) \in Nat
  BY EntrySums
<1> QED BY <1>1, <1>3, <1>6, <1>7, <1>8 DEF r, free

LEMMA NoSums ==
    ASSUME NEW now
    PROVE  <<>> \in Seq(Entry) /\ AmountIn(<<>>) = 0 /\ UnlockedIn(<<>>, now) = 0
<1>1. <<>> \in Seq(Entry) /\ Len(<<>>) = 0 /\ 1 .. 0 = {}
  OBVIOUS
<1>2. /\ AmountIn(<<>>) = SumFunctionOnSet(AmountsOf(<<>>), 1 .. Len(<<>>))
      /\ UnlockedIn(<<>>, now) = SumFunctionOnSet(FreeOf(<<>>, now), 1 .. Len(<<>>))
  BY <1>1, EntrySums
<1> QED BY <1>1, <1>2, SumEmpty

-----------------------------------------------------------------------------
LEMMA MinTwo ==
    ASSUME NEW a \in Nat, NEW b \in Nat
    PROVE  Min({a, b}) = IF a <= b THEN a ELSE b
<1>1. \E x \in {a, b} : \A y \in {a, b} : x =< y
  OBVIOUS
<1>2. Min({a, b}) \in {a, b} /\ \A y \in {a, b} : Min({a, b}) =< y
  BY <1>1 DEF Min
<1> QED BY <1>2

(* One turn of the loop of unstake. *)
Taken(e, now, want) == IF IsUnlocked(e, now) THEN Min({e.amount, want}) ELSE 0
Turn(acc, e, now) ==
    LET taken == Taken(e, now, acc.want)
        left  == [e EXCEPT !.amount = @ - taken]
    IN  [want |-> acc.want - taken,
         kept |-> IF taken = e.amount THEN acc.kept ELSE Append(acc.kept, left)]

Turns(entries, now, first, n, k) ==
    k = [i \in 0 .. n |-> IF i = 0 THEN first ELSE Turn(k[i - 1], entries[i], now)]

LEMMA TurnsExist ==
    ASSUME NEW entries, NEW now, NEW first, NEW n \in Nat
    PROVE  \E k : Turns(entries, now, first, n, k)
<1> DEFINE N == {m \in Nat : \E k : Turns(entries, now, first, m, k)}
<1>2. 0 \in N
  <2> DEFINE k == [i \in 0 .. 0 |-> first]
  <2>1. Turns(entries, now, first, 0, k)
    BY DEF Turns
  <2> HIDE DEF k
  <2> QED BY <2>1
<1>3. ASSUME NEW m \in N PROVE m + 1 \in N
  <2> m \in Nat
    OBVIOUS
  <2>1. PICK k : Turns(entries, now, first, m, k)
    OBVIOUS
  <2> DEFINE h == [i \in 0 .. m + 1 |-> IF i = 0 THEN first ELSE Turn(k[i - 1], entries[i], now)]
  <2>2. ASSUME NEW i \in 0 .. m PROVE h[i] = k[i]
    <3>1. i \in 0 .. m + 1
      OBVIOUS
    <3>2. k[i] = IF i = 0 THEN first ELSE Turn(k[i - 1], entries[i], now)
      BY <2>1 DEF Turns
    <3> QED BY <3>1, <3>2
  <2>3. ASSUME NEW i \in 0 .. m + 1, i # 0 PROVE h[i - 1] = k[i - 1]
    <3>1. i - 1 \in 0 .. m
      BY <2>3
    <3> HIDE DEF h
    <3> QED BY <2>2, <3>1
  <2>4. Turns(entries, now, first, m + 1, h)
    BY <2>3 DEF Turns
  <2> HIDE DEF h
  <2> QED BY <2>4
<1>4. N = Nat
  <2> HIDE DEF N
  <2>1. N \in SUBSET Nat
    BY DEF N
  <2> QED BY <1>2, <1>3, <2>1, NatInductive
<1> QED BY <1>4

(* k[i] is what the loop of unstake has after i turns. *)
WithdrawRun(entries, now, amount, k) ==
    /\ k[0] = [want |-> amount, kept |-> <<>>]
    /\ \A i \in 1 .. Len(entries) : k[i] = Turn(k[i - 1], entries[i], now)
    /\ Withdraw(entries, now, amount) = k[Len(entries)].kept

LEMMA WithdrawSteps ==
    ASSUME NEW entries \in Seq(Entry), NEW now, NEW amount
    PROVE  \E k : WithdrawRun(entries, now, amount, k)
<1> DEFINE first == [want |-> amount, kept |-> <<>>]
           k == CHOOSE kk : Turns(entries, now, first, Len(entries), kk)
<1>1. Withdraw(entries, now, amount) = k[Len(entries)].kept
  BY DEF Withdraw, Turns, Turn, Taken
<1> HIDE DEF first
<1>2. Turns(entries, now, first, Len(entries), k)
  <2>1. Len(entries) \in Nat
    OBVIOUS
  <2> QED BY <2>1, TurnsExist
<1> HIDE DEF k
<1>3. k[0] = first
  BY <1>2 DEF Turns
<1>4. ASSUME NEW i \in 1 .. Len(entries)
      PROVE  k[i] = Turn(k[i - 1], entries[i], now)
  <2>1. i \in 0 .. Len(entries) /\ i # 0
    OBVIOUS
  <2> QED BY <1>2, <2>1 DEF Turns
<1>5. WithdrawRun(entries, now, amount, k)
  BY <1>1, <1>3, <1>4 DEF first, WithdrawRun
<1> QED BY <1>5

(* A turn takes as much from the entries, and from the free ones, as it meets of
   what is still wanted.                                                     *)
TurnTakes(kept, want, e, now, next) ==
    LET free == IF IsUnlocked(e, now) THEN e.amount ELSE 0 IN
    /\ next = [want |-> next.want, kept |-> next.kept]
    /\ next.want = IF want <= free THEN 0 ELSE want - free
    /\ next.kept \in Seq(Entry)
    /\ AmountIn(next.kept) = AmountIn(kept) + e.amount - (want - next.want)
    /\ UnlockedIn(next.kept, now) = UnlockedIn(kept, now) + free - (want - next.want)

LEMMA TurnFacts ==
    ASSUME NEW kept \in Seq(Entry), NEW want \in Nat, NEW e \in Entry, NEW now
    PROVE  TurnTakes(kept, want, e, now, Turn([want |-> want, kept |-> kept], e, now))
<1> DEFINE acc   == [want |-> want, kept |-> kept]
           free  == IF IsUnlocked(e, now) THEN e.amount ELSE 0
           t     == Taken(e, now, want)
           left  == [e EXCEPT !.amount = @ - t]
<1>1. e.amount \in Nat /\ free \in Nat
  BY DEF Entry
<1>2. t \in Nat /\ t = (IF want <= free THEN want ELSE free) /\ t <= e.amount
  BY <1>1, MinTwo DEF Taken
<1> HIDE DEF t
<1>3. Turn(acc, e, now) = [want |-> want - t,
                           kept |-> IF t = e.amount THEN kept ELSE Append(kept, left)]
  BY DEF Turn, t
<1>4. left \in Entry /\ left.amount = e.amount - t /\ left.unlock = e.unlock
  <2> DEFINE rest == e.amount - t
  <2>1. rest \in Nat
    BY <1>1, <1>2
  <2> HIDE DEF rest
  <2>2. [e EXCEPT !.amount = rest] = [amount |-> rest, tier |-> e.tier, unlock |-> e.unlock]
    BY DEF Entry
  <2>3. e.tier \in Tiers /\ e.unlock \in Int
    BY DEF Entry
  <2>4. left = [amount |-> rest, tier |-> e.tier, unlock |-> e.unlock]
    BY <2>2 DEF rest
  <2> HIDE DEF left
  <2>5. left \in Entry /\ left.amount = rest /\ left.unlock = e.unlock
    BY <2>1, <2>3, <2>4 DEF Entry
  <2> QED BY <2>5 DEF rest
<1>5. IsUnlocked(left, now) <=> IsUnlocked(e, now)
  BY <1>4 DEF IsUnlocked
<1> DEFINE next == IF t = e.amount THEN kept ELSE Append(kept, left)
<1>6. /\ next \in Seq(Entry)
      /\ AmountIn(next) = AmountIn(kept) + e.amount - t
      /\ UnlockedIn(next, now) = UnlockedIn(kept, now) + free - t
  <2>1. AmountIn(kept) \in Nat /\ UnlockedIn(kept, now) \in Nat
    BY EntrySums
  <2>2. CASE t = e.amount
    <3>1. free = e.amount
      BY <1>1, <1>2, <2>2
    <3> QED BY <1>1, <1>2, <2>1, <2>2, <3>1
  <2>3. CASE t # e.amount
    <3>1. /\ Append(kept, left) \in Seq(Entry)
          /\ AmountIn(Append(kept, left)) = AmountIn(kept) + left.amount
          /\ UnlockedIn(Append(kept, left), now)
               = UnlockedIn(kept, now) + (IF IsUnlocked(left, now) THEN left.amount ELSE 0)
      BY <1>4, AppendSums
    <3> HIDE DEF left
    <3>2. ~ IsUnlocked(e, now) => t = 0 /\ free = 0
      BY <1>1, <1>2
    <3> QED BY <1>1, <1>2, <1>4, <1>5, <2>1, <2>3, <3>1, <3>2
  <2> QED BY <2>2, <2>3
<1> HIDE DEF next
<1>7. Turn(acc, e, now) = [want |-> want - t, kept |-> next]
  BY <1>3 DEF next
<1>8. want - (want - t) = t
  BY <1>2
<1>9. want - t = IF want <= free THEN 0 ELSE want - free
  BY <1>1, <1>2
<1> HIDE DEF free, acc
<1>10. TurnTakes(kept, want, e, now, [want |-> want - t, kept |-> next])
  BY <1>6, <1>8, <1>9 DEF TurnTakes, free
<1> QED BY <1>7, <1>10 DEF acc

(* The sums over the first entries. *)
LEMMA PrefixSums ==
    ASSUME NEW q \in Seq(Entry), NEW now, NEW i \in Nat, i < Len(q)
    PROVE  /\ SumFunctionOnSet(AmountsOf(q), 1 .. i) \in Nat
           /\ SumFunctionOnSet(AmountsOf(q), 1 .. i + 1)
                = SumFunctionOnSet(AmountsOf(q), 1 .. i) + q[i + 1].amount
           /\ SumFunctionOnSet(FreeOf(q, now), 1 .. i) \in Nat
           /\ SumFunctionOnSet(FreeOf(q, now), 1 .. i + 1)
                = SumFunctionOnSet(FreeOf(q, now), 1 .. i)
                    + (IF IsUnlocked(q[i + 1], now) THEN q[i + 1].amount ELSE 0)
<1>1. /\ 1 .. i + 1 = (1 .. i) \cup {i + 1} /\ i + 1 \notin 1 .. i
      /\ 1 .. i \subseteq 1 .. Len(q) /\ i + 1 \in 1 .. Len(q)
  BY EntryTypes
<1>2. IsFiniteSet(1 .. i)
  BY FS_Interval
<1>3. /\ \A j \in 1 .. i : AmountsOf(q)[j] \in Nat
      /\ \A j \in (1 .. i) \cup {i + 1} : AmountsOf(q)[j] \in Int
      /\ AmountsOf(q)[i + 1] = q[i + 1].amount /\ AmountsOf(q)[i + 1] \in Nat
  BY <1>1, EntryTypes
<1>4. /\ \A j \in 1 .. i : FreeOf(q, now)[j] \in Nat
      /\ \A j \in (1 .. i) \cup {i + 1} : FreeOf(q, now)[j] \in Int
      /\ FreeOf(q, now)[i + 1] = (IF IsUnlocked(q[i + 1], now) THEN q[i + 1].amount ELSE 0)
      /\ FreeOf(q, now)[i + 1] \in Nat
  BY <1>1, EntryTypes
<1>5. /\ SumFunctionOnSet(AmountsOf(q), 1 .. i) \in Nat
      /\ SumFunctionOnSet(AmountsOf(q), (1 .. i) \cup {i + 1})
           = AmountsOf(q)[i + 1] + SumFunctionOnSet(AmountsOf(q), 1 .. i)
  BY <1>1, <1>2, <1>3, SumNat, SumAdd
<1>6. /\ SumFunctionOnSet(FreeOf(q, now), 1 .. i) \in Nat
      /\ SumFunctionOnSet(FreeOf(q, now), (1 .. i) \cup {i + 1})
           = FreeOf(q, now)[i + 1] + SumFunctionOnSet(FreeOf(q, now), 1 .. i)
  BY <1>1, <1>2, <1>4, SumNat, SumAdd
<1>7. SumFunctionOnSet(AmountsOf(q), 1 .. i + 1)
        = SumFunctionOnSet(AmountsOf(q), 1 .. i) + q[i + 1].amount
  <2> DEFINE s == SumFunctionOnSet(AmountsOf(q), 1 .. i)
  <2>1. SumFunctionOnSet(AmountsOf(q), 1 .. i + 1) = AmountsOf(q)[i + 1] + s
    BY <1>1, <1>5, Zenon
  <2>2. s \in Nat
    BY <1>5
  <2> HIDE DEF s
  <2>3. AmountsOf(q)[i + 1] + s = s + q[i + 1].amount
    BY <1>3, <2>2
  <2> QED BY <2>1, <2>3, Zenon DEF s
<1>8. SumFunctionOnSet(FreeOf(q, now), 1 .. i + 1)
        = SumFunctionOnSet(FreeOf(q, now), 1 .. i) + FreeOf(q, now)[i + 1]
  <2> DEFINE s == SumFunctionOnSet(FreeOf(q, now), 1 .. i)
  <2>1. SumFunctionOnSet(FreeOf(q, now), 1 .. i + 1) = FreeOf(q, now)[i + 1] + s
    BY <1>1, <1>6, Zenon
  <2>2. s \in Nat
    BY <1>6
  <2> HIDE DEF s
  <2>3. FreeOf(q, now)[i + 1] + s = s + FreeOf(q, now)[i + 1]
    BY <1>4, <2>2
  <2> QED BY <2>1, <2>3, Zenon DEF s
<1> QED BY <1>4, <1>5, <1>6, <1>7, <1>8

(* What the loop of unstake has taken after i entries: the smaller of what was
   asked for and what these hold unlocked.                                   *)
AmountUpTo(q, i)    == SumFunctionOnSet(AmountsOf(q), 1 .. i)
FreeUpTo(q, now, i) == SumFunctionOnSet(FreeOf(q, now), 1 .. i)
AfterTurns(q, now, amount, i, acc) ==
    /\ acc = [want |-> acc.want, kept |-> acc.kept]
    /\ acc.want \in Nat /\ acc.kept \in Seq(Entry)
    /\ acc.want = IF amount <= FreeUpTo(q, now, i) THEN 0 ELSE amount - FreeUpTo(q, now, i)
    /\ AmountIn(acc.kept) = AmountUpTo(q, i) - (amount - acc.want)
    /\ UnlockedIn(acc.kept, now) = FreeUpTo(q, now, i) - (amount - acc.want)

LEMMA WithdrawLoop ==
    ASSUME NEW q \in Seq(Entry), NEW now, NEW amount \in Nat
    PROVE  \E k : /\ WithdrawRun(q, now, amount, k)
                  /\ \A i \in 0 .. Len(q) : AfterTurns(q, now, amount, i, k[i])
<1>0. PICK k : WithdrawRun(q, now, amount, k)
  BY WithdrawSteps
<1>1. /\ k[0] = [want |-> amount, kept |-> <<>>]
      /\ \A i \in 1 .. Len(q) : k[i] = Turn(k[i - 1], q[i], now)
  BY <1>0 DEF WithdrawRun
<1> DEFINE All(i)  == SumFunctionOnSet(AmountsOf(q), 1 .. i)
           Free(i) == SumFunctionOnSet(FreeOf(q, now), 1 .. i)
           Good(acc, i) ==
               /\ acc = [want |-> acc.want, kept |-> acc.kept]
               /\ acc.want \in Nat /\ acc.kept \in Seq(Entry)
               /\ acc.want = IF amount <= Free(i) THEN 0 ELSE amount - Free(i)
               /\ AmountIn(acc.kept) = All(i) - (amount - acc.want)
               /\ UnlockedIn(acc.kept, now) = Free(i) - (amount - acc.want)
           N == {i \in Nat : i <= Len(q) => Good(k[i], i)}
<1>2. Len(q) \in Nat
  OBVIOUS
<1>3. 0 \in N
  <2>1. All(0) = 0 /\ Free(0) = 0
    <3>1. 1 .. 0 = {}
      OBVIOUS
    <3> QED BY <3>1, SumEmpty
  <2> HIDE DEF All, Free
  <2>2. Good(k[0], 0)
    BY <1>1, <2>1, NoSums
  <2> QED BY <2>2
<1>4. ASSUME NEW i \in N PROVE i + 1 \in N
  <2> SUFFICES ASSUME i + 1 <= Len(q) PROVE Good(k[i + 1], i + 1)
    OBVIOUS
  <2> DEFINE want == k[i].want
             kept == k[i].kept
             e == q[i + 1]
             free == IF IsUnlocked(e, now) THEN e.amount ELSE 0
             next == k[i + 1]
  <2>1. i \in Nat /\ i < Len(q) /\ i <= Len(q) /\ i + 1 \in 1 .. Len(q) /\ (i + 1) - 1 = i
    BY <1>2
  <2>2. Good(k[i], i)
    BY <2>1
  <2>3. /\ All(i) \in Nat /\ Free(i) \in Nat
        /\ All(i + 1) = All(i) + e.amount /\ Free(i + 1) = Free(i) + free
    BY <2>1, PrefixSums
  <2>4. e \in Entry /\ e.amount \in Nat /\ free \in Nat
    BY <2>1, EntryTypes
  <2> HIDE DEF All, Free, free, e
  <2>5. next = Turn([want |-> want, kept |-> kept], e, now)
    <3>1. k[i] = [want |-> want, kept |-> kept]
      BY <2>2
    <3>2. next = Turn(k[i], e, now)
      BY <1>1, <2>1 DEF e
    <3> QED BY <3>1, <3>2
  <2>6. want \in Nat /\ kept \in Seq(Entry)
    BY <2>2
  <2>8. /\ want = (IF amount <= Free(i) THEN 0 ELSE amount - Free(i))
        /\ AmountIn(kept) = All(i) - (amount - want)
        /\ UnlockedIn(kept, now) = Free(i) - (amount - want)
    BY <2>2
  <2> HIDE DEF want, kept, next, Good, N
  <2>7. /\ next = [want |-> next.want, kept |-> next.kept]
        /\ next.want = IF want <= free THEN 0 ELSE want - free
        /\ next.kept \in Seq(Entry)
        /\ AmountIn(next.kept) = AmountIn(kept) + e.amount - (want - next.want)
        /\ UnlockedIn(next.kept, now) = UnlockedIn(kept, now) + free - (want - next.want)
    <3>1. TurnTakes(kept, want, e, now, next)
      BY <2>4, <2>5, <2>6, TurnFacts
    <3> QED BY <3>1 DEF TurnTakes, free
  <2> DEFINE w == next.want
             a == e.amount
             f == Free(i)
             g == All(i)
  <2>9. /\ w \in Nat
        /\ w = IF amount <= Free(i + 1) THEN 0 ELSE amount - Free(i + 1)
    <3>1. w = (IF want <= free THEN 0 ELSE want - free) /\ Free(i + 1) = f + free /\ f \in Nat
      BY <2>3, <2>7
    <3>2. want = (IF amount <= f THEN 0 ELSE amount - f)
      BY <2>8
    <3> HIDE DEF w, f
    <3> QED BY <2>4, <2>6, <3>1, <3>2
  <2>10. /\ AmountIn(next.kept) = All(i + 1) - (amount - next.want)
         /\ UnlockedIn(next.kept, now) = Free(i + 1) - (amount - next.want)
    <3>1. /\ AmountIn(next.kept) = g - (amount - want) + a - (want - w)
          /\ UnlockedIn(next.kept, now) = f - (amount - want) + free - (want - w)
          /\ Free(i + 1) = f + free /\ f \in Nat /\ All(i + 1) = g + a /\ g \in Nat /\ a \in Nat
      BY <2>3, <2>4, <2>7, <2>8
    <3>2. w \in Nat
      BY <2>9
    <3> HIDE DEF w, f, a, g
    <3>3. /\ AmountIn(next.kept) = All(i + 1) - (amount - w)
          /\ UnlockedIn(next.kept, now) = Free(i + 1) - (amount - w)
      BY <2>4, <2>6, <3>1, <3>2
    <3> QED BY <3>3 DEF w
  <2>11. Good(next, i + 1)
    BY <2>7, <2>9, <2>10 DEF Good
  <2> QED BY <2>11 DEF next
<1>5. N = Nat
  <2> HIDE DEF N
  <2>1. N \in SUBSET Nat
    BY DEF N
  <2> QED BY <1>3, <1>4, <2>1, NatInductive
<1>6. ASSUME NEW i \in 0 .. Len(q) PROVE AfterTurns(q, now, amount, i, k[i])
  <2>1. i \in Nat /\ i <= Len(q)
    BY <1>2
  <2>2. Good(k[i], i)
    BY <1>5, <2>1
  <2> QED BY <2>2 DEF AfterTurns, AmountUpTo, FreeUpTo
<1> QED BY <1>0, <1>6

(* unstake takes what was asked for, all of it from free entries. *)
LEMMA WithdrawFacts ==
    ASSUME NEW q \in Seq(Entry), NEW now, NEW amount \in Nat, UnlockedIn(q, now) >= amount
    PROVE  /\ Withdraw(q, now, amount) \in Seq(Entry)
           /\ AmountIn(Withdraw(q, now, amount)) = AmountIn(q) - amount
           /\ UnlockedIn(Withdraw(q, now, amount), now) = UnlockedIn(q, now) - amount
<1>1. PICK k : /\ WithdrawRun(q, now, amount, k)
               /\ \A i \in 0 .. Len(q) : AfterTurns(q, now, amount, i, k[i])
  BY WithdrawLoop
<1> DEFINE acc == k[Len(q)]
<1>2. AfterTurns(q, now, amount, Len(q), acc) /\ Withdraw(q, now, amount) = acc.kept
  <2>1. Len(q) \in 0 .. Len(q)
    BY EntryTypes
  <2> QED BY <1>1, <2>1 DEF WithdrawRun
<1>3. /\ AmountIn(q) = AmountUpTo(q, Len(q)) /\ AmountIn(q) \in Nat
      /\ UnlockedIn(q, now) = FreeUpTo(q, now, Len(q)) /\ UnlockedIn(q, now) \in Nat
  BY EntrySums DEF AmountUpTo, FreeUpTo
<1> HIDE DEF acc
<1>4. acc.want = 0
  BY <1>2, <1>3 DEF AfterTurns
<1> QED BY <1>2, <1>3, <1>4 DEF AfterTurns

-----------------------------------------------------------------------------
Pools == [PositionKeys -> Seq(Entry)]

PoolType == positions \in Pools /\ totalStaked \in Int /\ epoch \in Nat

LEMMA FiniteKeys == IsFiniteSet(PositionKeys)
<1> DEFINE direct == {DirectKey(k) : k \in Stakers}
<1>1. IsFiniteSet(direct)
  <2>1. [k \in Stakers |-> DirectKey(k)] \in Surjection(Stakers, direct)
    BY DEF Surjection
  <2> HIDE DEF direct
  <2> QED BY <2>1, FS_Surjection, StakingAssumption DEF ExistsSurjection
<1> HIDE DEF direct
<1>2. PositionKeys = direct \cup Delegations
  BY DEF PositionKeys, direct
<1> QED BY <1>1, <1>2, FS_Union, StakingAssumption

SumsIn(pos) == [key \in PositionKeys |-> AmountIn(pos[key])]

LEMMA TotalIsSum ==
    ASSUME NEW pos \in Pools
    PROVE  /\ TotalAmount(pos) = SumFunctionOnSet(SumsIn(pos), PositionKeys)
           /\ TotalAmount(pos) \in Nat
<1>1. TotalAmount(pos) = SumFunctionOnSet(SumsIn(pos), DOMAIN SumsIn(pos))
  BY DEF TotalAmount, SumFunction, SumsIn
<1>2. \A key \in PositionKeys : SumsIn(pos)[key] \in Nat
  BY EntrySums DEF Pools, SumsIn
<1>3. SumFunctionOnSet(SumsIn(pos), PositionKeys) \in Nat
  BY <1>2, FiniteKeys, SumNat
<1> QED BY <1>1, <1>3 DEF SumsIn

(* The entries of one key change: so does the total, by as much. *)
LEMMA TotalChange ==
    ASSUME NEW pos \in Pools, NEW key \in PositionKeys, NEW q \in Seq(Entry)
    PROVE  /\ [pos EXCEPT ![key] = q] \in Pools
           /\ TotalAmount([pos EXCEPT ![key] = q]) = TotalAmount(pos) - AmountIn(pos[key]) + AmountIn(q)
<1> DEFINE new == [pos EXCEPT ![key] = q]
           f == SumsIn(pos)
           g == SumsIn(new)
<1>1. new \in Pools
  BY DEF Pools
<1>2. new[key] = q /\ \A y \in PositionKeys \ {key} : new[y] = pos[y]
  BY DEF Pools
<1> HIDE DEF new
<1>3. \A y \in PositionKeys : AmountIn(pos[y]) \in Int /\ AmountIn(new[y]) \in Int
  <2>1. \A y \in PositionKeys : pos[y] \in Seq(Entry) /\ new[y] \in Seq(Entry)
    BY <1>1 DEF Pools
  <2>2. \A s \in Seq(Entry) : AmountIn(s) \in Int
    BY EntrySums
  <2> QED BY <2>1, <2>2
<1>4. /\ \A y \in PositionKeys : f[y] = AmountIn(pos[y]) /\ g[y] = AmountIn(new[y])
      /\ f[key] = AmountIn(pos[key]) /\ g[key] = AmountIn(q)
  BY <1>2 DEF SumsIn
<1> HIDE DEF f, g
<1>5. SumFunctionOnSet(g, PositionKeys) = SumFunctionOnSet(f, PositionKeys) - f[key] + g[key]
  <2>1. \A y \in PositionKeys : f[y] \in Int /\ g[y] \in Int
    BY <1>3, <1>4
  <2>2. \A y \in PositionKeys \ {key} : g[y] = f[y]
    BY <1>2, <1>4
  <2> QED BY <2>1, <2>2, FiniteKeys, SumChange
<1>6. TotalAmount(new) = TotalAmount(pos) - AmountIn(pos[key]) + AmountIn(q)
  BY <1>1, <1>4, <1>5, TotalIsSum DEF f, g
<1> QED BY <1>1, <1>6 DEF new

(* The entry that stake and delegate push. *)
Pushed(amount, tier) ==
    [amount |-> amount, tier |-> tier,
     unlock |-> IF LockDuration[tier] = Never THEN Never ELSE epoch + LockDuration[tier]]

LEMMA PushedEntry ==
    ASSUME PoolType, NEW amount \in Amounts, NEW tier \in Tiers
    PROVE  Pushed(amount, tier) \in Entry /\ Pushed(amount, tier).amount = amount /\ amount \in Nat
<1>1. LockDuration[tier] \in Int
  <2>1. tier \in {"NoLock", "ThirtyDay", "NinetyDay", "OneEightyDay", "ThreeSixtyDay", "Delegator",
                  "Permanent"}
    BY StakingAssumption DEF LockDuration
  <2> QED BY <2>1 DEF LockDuration, Never
<1>2. epoch \in Int /\ Never \in Int /\ amount \in Nat
  BY StakingAssumption DEF PoolType, Never
<1>3. Pushed(amount, tier).unlock \in Int
  BY <1>1, <1>2 DEF Pushed
<1> QED BY <1>2, <1>3 DEF Pushed, Entry

(* What stake does: the total follows unless it overflows; nothing is unlocked. *)
LEMMA StakeStep ==
    ASSUME PoolType, NEW key \in PositionKeys, NEW amount \in Amounts, NEW tier \in Tiers,
           Stake(key, amount, tier)
    PROVE  /\ PoolType'
           /\ TotalAmount(positions') = TotalAmount(positions) + amount
           /\ LockedIn(positions'[key], epoch) >= LockedIn(positions[key], epoch)
           /\ \A other \in PositionKeys \ {key} : positions'[other] = positions[other]
<1> DEFINE q == positions[key]
           e == Pushed(amount, tier)
<1>1. positions' = [positions EXCEPT ![key] = Append(q, e)]
  BY DEF Stake, Pushed
<1>2. e \in Entry /\ e.amount = amount /\ amount \in Nat
  BY PushedEntry
<1>3. positions \in Pools /\ q \in Seq(Entry)
  BY DEF PoolType, Pools
<1>4. AmountIn(q) \in Nat /\ UnlockedIn(q, epoch) \in Nat
  BY <1>3, EntrySums
<1> HIDE DEF q, e
<1>5. /\ Append(q, e) \in Seq(Entry)
      /\ AmountIn(Append(q, e)) = AmountIn(q) + amount
      /\ UnlockedIn(Append(q, e), epoch)
           = UnlockedIn(q, epoch) + (IF IsUnlocked(e, epoch) THEN amount ELSE 0)
  BY <1>2, <1>3, AppendSums
<1>6. /\ positions' \in Pools
      /\ TotalAmount(positions') = TotalAmount(positions) - AmountIn(q) + AmountIn(Append(q, e))
  BY <1>1, <1>3, <1>5, TotalChange DEF q
<1>7. TotalAmount(positions) \in Nat
  BY <1>3, TotalIsSum
<1>8. TotalAmount(positions') = TotalAmount(positions) + amount
  BY <1>2, <1>4, <1>5, <1>6, <1>7
<1>9. PoolType'
  BY <1>2, <1>6, StakingAssumption DEF PoolType, Stake
<1>10. positions'[key] = Append(q, e) /\ \A other \in PositionKeys \ {key} : positions'[other] = positions[other]
  BY <1>1, <1>3 DEF Pools
<1>11. LockedIn(Append(q, e), epoch) >= LockedIn(q, epoch)
  BY <1>2, <1>4, <1>5 DEF LockedIn
<1> QED BY <1>8, <1>9, <1>10, <1>11 DEF q

(* What a withdrawal of a covered amount does. *)
Withdrawn(pos, next, key, now, amount) ==
    /\ next \in Pools
    /\ TotalAmount(next) = TotalAmount(pos) - amount
    /\ LockedIn(next[key], now) = LockedIn(pos[key], now)
    /\ \A other \in PositionKeys \ {key} : next[other] = pos[other]

LEMMA WithdrawStep ==
    ASSUME NEW pos \in Pools, NEW key \in PositionKeys, NEW now, NEW amount \in Nat,
           UnlockedIn(pos[key], now) >= amount
    PROVE  Withdrawn(pos, [pos EXCEPT ![key] = Withdraw(@, now, amount)], key, now, amount)
<1> DEFINE q == pos[key]
           r == Withdraw(q, now, amount)
           next == [pos EXCEPT ![key] = r]
<1>1. q \in Seq(Entry)
  BY DEF Pools
<1>2. AmountIn(q) \in Nat /\ UnlockedIn(q, now) \in Nat
  BY <1>1, EntrySums
<1>3. UnlockedIn(q, now) >= amount
  OBVIOUS
<1> HIDE DEF q
<1>4. r \in Seq(Entry) /\ AmountIn(r) = AmountIn(q) - amount /\ UnlockedIn(r, now) = UnlockedIn(q, now) - amount
  BY <1>1, <1>3, WithdrawFacts
<1> HIDE DEF r
<1>5. next \in Pools /\ TotalAmount(next) = TotalAmount(pos) - AmountIn(q) + AmountIn(r)
  BY <1>4, TotalChange DEF q
<1>6. TotalAmount(pos) \in Nat
  BY TotalIsSum
<1>7. next[key] = r /\ \A other \in PositionKeys \ {key} : next[other] = pos[other]
  BY DEF Pools
<1>8. LockedIn(r, now) = LockedIn(q, now)
  BY <1>2, <1>4 DEF LockedIn
<1> HIDE DEF next
<1>9. TotalAmount(next) = TotalAmount(pos) - amount
  BY <1>2, <1>4, <1>5, <1>6
<1>10. Withdrawn(pos, next, key, now, amount)
  BY <1>5, <1>7, <1>8, <1>9 DEF q, Withdrawn
<1> QED BY <1>10 DEF next, r, q

LEMMA UnstakeStep ==
    ASSUME PoolType, NEW key \in PositionKeys, NEW amount \in Amounts, Unstake(key, amount)
    PROVE  /\ PoolType'
           /\ TotalAmount(positions') = TotalAmount(positions) - amount
           /\ LockedIn(positions'[key], epoch) = LockedIn(positions[key], epoch)
           /\ \A other \in PositionKeys \ {key} : positions'[other] = positions[other]
<1>1. amount \in Nat /\ UnlockedIn(positions[key], epoch) >= amount /\ positions \in Pools
  BY StakingAssumption DEF PoolType, Unstake
<1>2. positions' = [positions EXCEPT ![key] = Withdraw(@, epoch, amount)]
  BY DEF Unstake
<1>3. Withdrawn(positions, positions', key, epoch, amount)
  BY <1>1, <1>2, WithdrawStep
<1> QED BY <1>1, <1>3 DEF PoolType, Unstake, Withdrawn

LEMMA PoolInit == StakingInit => PoolType /\ TotalMatches
<1> SUFFICES ASSUME StakingInit PROVE PoolType /\ TotalMatches
  OBVIOUS
<1>1. <<>> \in Seq(Entry)
  OBVIOUS
<1>2. PoolType /\ \A key \in PositionKeys : positions[key] = <<>>
  BY <1>1 DEF StakingInit, PoolType, Pools
<1>3. \A key \in PositionKeys : SumsIn(positions)[key] = 0
  BY <1>2, NoSums DEF SumsIn
<1>4. SumFunctionOnSet(SumsIn(positions), PositionKeys) = 0
  BY <1>3, FiniteKeys, SumZero
<1>5. TotalAmount(positions) = 0
  BY <1>2, <1>4, TotalIsSum DEF PoolType
<1> QED BY <1>2, <1>5 DEF StakingInit, TotalMatches

LEMMA PoolTypeNext == PoolType /\ [StakingNext]_stakingVars => PoolType'
<1> SUFFICES ASSUME PoolType, [StakingNext]_stakingVars PROVE PoolType'
  OBVIOUS
<1>1. CASE \E e \in Epochs : SetEpoch(e)
  BY <1>1, StakingAssumption DEF PoolType, SetEpoch
<1>2. CASE UNCHANGED stakingVars
  BY <1>2 DEF PoolType, stakingVars
<1> QED BY <1>1, <1>2, StakeStep, UnstakeStep DEF StakingNext

Fits == TotalAmount(positions) <= MaxU64

LEMMA TotalNext ==
    PoolType /\ TotalMatches /\ Fits' /\ [StakingNext]_stakingVars => TotalMatches'
<1> SUFFICES ASSUME PoolType, TotalMatches, Fits', [StakingNext]_stakingVars PROVE TotalMatches'
  OBVIOUS
<1>1. TotalAmount(positions) \in Nat
  BY TotalIsSum DEF PoolType
<1>2. ASSUME NEW key \in PositionKeys, NEW amount \in Amounts, NEW tier \in Tiers,
             Stake(key, amount, tier)
      PROVE  TotalMatches'
  <2>1. TotalAmount(positions') = TotalAmount(positions) + amount
    BY <1>2, StakeStep
  <2>2. totalStaked' = IF totalStaked + amount <= MaxU64 THEN totalStaked + amount ELSE totalStaked
    BY <1>2 DEF Stake
  <2>3. TotalAmount(positions') <= MaxU64
    BY DEF Fits
  <2> QED BY <2>1, <2>2, <2>3 DEF TotalMatches
<1>3. ASSUME NEW key \in PositionKeys, NEW amount \in Amounts, Unstake(key, amount)
      PROVE  TotalMatches'
  BY <1>3, UnstakeStep DEF TotalMatches, Unstake
<1>4. CASE \E e \in Epochs : SetEpoch(e)
  BY <1>4 DEF TotalMatches, SetEpoch
<1>5. CASE UNCHANGED stakingVars
  BY <1>5 DEF TotalMatches, stakingVars
<1> QED BY <1>2, <1>3, <1>4, <1>5 DEF StakingNext

(* For any stakers, delegations, amounts and tiers: total_staked is the sum of all
   entries, through every partial withdrawal, as long as that sum is a u64.  (The
   condition is needed: on overflow stake and delegate keep the entry and not the
   total.)                                                                   *)
THEOREM TotalIsTheEntries == StakingSpec /\ []Fits => []TotalMatches
<1>1. PoolType /\ TotalMatches /\ Fits' /\ [StakingNext]_stakingVars => (PoolType /\ TotalMatches)'
  BY PoolTypeNext, TotalNext
<1> QED BY <1>1, PoolInit, PTL DEF StakingSpec

(* For any mixture of entries under a key: no step takes from one that is locked. *)
THEOREM LocksAreKept == StakingSpec => LocksHold
<1> DEFINE Kept == \A key \in PositionKeys : epoch' = epoch =>
                      LockedIn(positions'[key], epoch) >= LockedIn(positions[key], epoch)
<1>1. PoolType /\ [StakingNext]_stakingVars => [Kept]_stakingVars
  <2> SUFFICES ASSUME PoolType, StakingNext, NEW key \in PositionKeys, epoch' = epoch
               PROVE  LockedIn(positions'[key], epoch) >= LockedIn(positions[key], epoch)
    BY DEF stakingVars
  <2>1. LockedIn(positions[key], epoch) \in Int
    BY EntrySums DEF PoolType, Pools, LockedIn
  <2>2. CASE \E e \in Epochs : SetEpoch(e)
    BY <2>1, <2>2 DEF SetEpoch
  <2>3. ASSUME NEW k \in PositionKeys, NEW amount \in Amounts, NEW tier \in Tiers,
               Stake(k, amount, tier)
        PROVE  LockedIn(positions'[key], epoch) >= LockedIn(positions[key], epoch)
    BY <2>1, <2>3, StakeStep
  <2>4. ASSUME NEW k \in PositionKeys, NEW amount \in Amounts, Unstake(k, amount)
        PROVE  LockedIn(positions'[key], epoch) >= LockedIn(positions[key], epoch)
    BY <2>1, <2>4, UnstakeStep
  <2> QED BY <2>2, <2>3, <2>4 DEF StakingNext
<1> QED BY <1>1, PoolInit, PoolTypeNext, PTL DEF StakingSpec, LocksHold

-----------------------------------------------------------------------------
(* One turn, for an entry that holds something: it is kept when nothing is wanted
   or it is locked, used up when more is wanted, and otherwise split.        *)
TurnCases(kept, want, e, now, next) ==
    /\ want = 0 \/ ~ IsUnlocked(e, now) => next = [want |-> want, kept |-> Append(kept, e)]
    /\ IsUnlocked(e, now) /\ want > e.amount => next = [want |-> want - e.amount, kept |-> kept]
    /\ IsUnlocked(e, now) /\ want > 0 /\ want <= e.amount =>
          next = [want |-> 0,
                  kept |-> IF want = e.amount THEN kept
                           ELSE Append(kept, [e EXCEPT !.amount = @ - want])]

LEMMA TurnInOrder ==
    ASSUME NEW kept \in Seq(Entry), NEW want \in Nat, NEW e \in Entry, e.amount > 0, NEW now
    PROVE  TurnCases(kept, want, e, now, Turn([want |-> want, kept |-> kept], e, now))
<1> DEFINE t == Taken(e, now, want)
           left == [e EXCEPT !.amount = @ - t]
           next == Turn([want |-> want, kept |-> kept], e, now)
<1>1. e.amount \in Nat
  BY DEF Entry
<1>2. t = IF IsUnlocked(e, now) THEN (IF e.amount <= want THEN e.amount ELSE want) ELSE 0
  BY <1>1, MinTwo DEF Taken
<1>3. next = [want |-> want - t, kept |-> IF t = e.amount THEN kept ELSE Append(kept, left)]
  BY DEF Turn
<1> HIDE DEF t, next
<1> USE DEF TurnCases
<1>4. ASSUME want = 0 \/ ~ IsUnlocked(e, now) PROVE TurnCases(kept, want, e, now, next)
  <2>1. t = 0
    BY <1>1, <1>2, <1>4
  <2>2. left = e
    <3>1. e.amount - t = e.amount
      BY <1>1, <2>1
    <3>2. [e EXCEPT !.amount = e.amount] = e
      BY DEF Entry
    <3> QED BY <3>1, <3>2
  <2> HIDE DEF left
  <2>3. next = [want |-> want, kept |-> Append(kept, e)]
    <3>1. want - t = want /\ t # e.amount
      BY <1>1, <2>1
    <3> QED BY <1>3, <2>2, <3>1, Zenon
  <2>4. want > 0 => ~ IsUnlocked(e, now)
    BY <1>4
  <2>5. want > e.amount => ~ IsUnlocked(e, now)
    BY <1>1, <1>4
  <2> QED BY <2>3, <2>4, <2>5
<1>5. ASSUME IsUnlocked(e, now), want > e.amount PROVE TurnCases(kept, want, e, now, next)
  <2>1. t = e.amount
    BY <1>1, <1>2, <1>5
  <2> HIDE DEF left
  <2> QED BY <1>1, <1>3, <1>5, <2>1
<1>6. ASSUME IsUnlocked(e, now), want > 0, want <= e.amount
      PROVE  TurnCases(kept, want, e, now, next)
  <2>1. t = want
    BY <1>1, <1>2, <1>6
  <2>2. want - t = 0
    BY <2>1
  <2>3. left = [e EXCEPT !.amount = @ - want]
    BY <2>1
  <2>4. next = [want |-> 0, kept |-> IF want = e.amount THEN kept
                                     ELSE Append(kept, [e EXCEPT !.amount = @ - want])]
    BY <1>3, <2>1, <2>2, <2>3, Zenon
  <2>5. want # 0 /\ ~ (want > e.amount)
    BY <1>1, <1>6
  <2> QED BY <1>6, <2>4, <2>5, Zenon
<1>7. TurnCases(kept, want, e, now, next)
  <2> HIDE DEF TurnCases
  <2> QED BY <1>1, <1>4, <1>5, <1>6
<1> QED BY <1>7 DEF next

(* The entries in front of n, and what they hold. *)
LEMMA FrontFacts ==
    ASSUME NEW q \in Seq(Entry), NEW now, NEW n \in 1 .. Len(q)
    PROVE  /\ SubSeq(q, 1, n - 1) \in Seq(Entry) /\ Len(SubSeq(q, 1, n - 1)) = n - 1
           /\ \A i \in 1 .. n - 1 : SubSeq(q, 1, n - 1)[i] = q[i]
           /\ UnlockedIn(SubSeq(q, 1, n - 1), now) = FreeUpTo(q, now, n - 1)
<1> DEFINE front == SubSeq(q, 1, n - 1)
<1>1. Len(q) \in Nat /\ n - 1 \in Nat /\ \A i \in 1 .. n - 1 : i \in 1 .. Len(q)
  BY EntryTypes
<1>2. \A i \in 1 .. n - 1 : q[i] \in Entry
  BY <1>1, EntryTypes
<1>3. /\ front \in Seq(Entry)
      /\ Len(front) = IF 1 <= n - 1 THEN (n - 1) - 1 + 1 ELSE 0
      /\ \A i \in 1 .. (n - 1) - 1 + 1 : front[i] = q[1 + i - 1]
  BY <1>1, <1>2, SubSeqProperties
<1> HIDE DEF front
<1>4. Len(front) = n - 1 /\ \A i \in 1 .. n - 1 : front[i] = q[i]
  BY <1>1, <1>3
<1>5. UnlockedIn(front, now) = SumFunctionOnSet(FreeOf(front, now), 1 .. n - 1)
  BY <1>3, <1>4, EntrySums
<1>6. \A i \in 1 .. n - 1 : FreeOf(front, now)[i] \in Int /\ FreeOf(front, now)[i] = FreeOf(q, now)[i]
  <2> SUFFICES ASSUME NEW i \in 1 .. n - 1
               PROVE  FreeOf(front, now)[i] \in Int /\ FreeOf(front, now)[i] = FreeOf(q, now)[i]
    OBVIOUS
  <2>1. /\ FreeOf(front, now)[i] = (IF IsUnlocked(front[i], now) THEN front[i].amount ELSE 0)
        /\ FreeOf(front, now)[i] \in Nat
    BY <1>3, <1>4, EntryTypes
  <2>2. FreeOf(q, now)[i] = (IF IsUnlocked(q[i], now) THEN q[i].amount ELSE 0)
    BY <1>1, EntryTypes
  <2> QED BY <1>4, <2>1, <2>2
<1>7. SumFunctionOnSet(FreeOf(front, now), 1 .. n - 1) = SumFunctionOnSet(FreeOf(q, now), 1 .. n - 1)
  <2>1. IsFiniteSet(1 .. n - 1)
    BY <1>1, FS_Interval
  <2> QED BY <1>6, <2>1, SumSame
<1> QED BY <1>3, <1>4, <1>5, <1>7 DEF front, FreeUpTo

(* Appending goes on behind a concatenation. *)
Grows(s, q, m, i) == Append(s \o SubSeq(q, m, i - 1), q[i]) = s \o SubSeq(q, m, i)

LEMMA GrowingTail ==
    ASSUME NEW X, NEW s \in Seq(X), NEW q \in Seq(X), NEW m \in 1 .. Len(q), NEW i \in m .. Len(q)
    PROVE  Grows(s, q, m, i)
<1> DEFINE u == SubSeq(q, m, i - 1)
<1>1. Len(q) \in Nat /\ q[i] \in X /\ \A j \in m .. i - 1 : q[j] \in X
  BY ElementOfSeq, LenProperties
<1>2. u \in Seq(X)
  BY <1>1, SubSeqProperties
<1>3. SubSeq(q, m, i) = u \o <<q[i]>>
  BY SubSeqRecursiveSecond
<1> HIDE DEF u
<1>4. <<q[i]>> \in Seq(X)
  BY <1>1
<1>5. s \o (u \o <<q[i]>>) = (s \o u) \o <<q[i]>>
  BY <1>2, <1>4, ConcatAssociative
<1>6. s \o u \in Seq(X)
  BY <1>2, ConcatProperties
<1>7. \A w \in Seq(X) : Append(w, q[i]) = w \o <<q[i]>>
  BY <1>1
<1> QED BY <1>3, <1>5, <1>6, <1>7 DEF u, Grows

(* unstake of entries that all hold something goes from the oldest on. *)
LEMMA WithdrawInOrder ==
    ASSUME NEW q \in Seq(Entry), \A i \in 1 .. Len(q) : q[i].amount > 0,
           NEW now, NEW amount \in Nat \ {0}, UnlockedIn(q, now) >= amount
    PROVE  \E n \in DOMAIN q : TakenUpTo(q, Withdraw(q, now, amount), now, n)
<1>1. PICK k : /\ WithdrawRun(q, now, amount, k)
               /\ \A i \in 0 .. Len(q) : AfterTurns(q, now, amount, i, k[i])
  BY WithdrawLoop
<1>2. /\ k[0] = [want |-> amount, kept |-> <<>>]
      /\ \A i \in 1 .. Len(q) : k[i] = Turn(k[i - 1], q[i], now)
      /\ Withdraw(q, now, amount) = k[Len(q)].kept
  BY <1>1 DEF WithdrawRun
<1>3. Len(q) \in Nat /\ DOMAIN q = 1 .. Len(q) /\ \A i \in 1 .. Len(q) : q[i] \in Entry
  BY EntryTypes
<1>4. \A i \in 0 .. Len(q) : /\ k[i] = [want |-> k[i].want, kept |-> k[i].kept]
                             /\ k[i].want \in Nat /\ k[i].kept \in Seq(Entry)
  BY <1>1 DEF AfterTurns
(* n is the turn after which nothing more is wanted. *)
<1>5. PICK n \in 1 .. Len(q) : k[n].want = 0 /\ \A i \in 0 .. n - 1 : k[i].want > 0
  <2> DEFINE Z == {i \in 0 .. Len(q) : k[i].want = 0}
  <2>1. Len(q) \in Z
    <3>1. UnlockedIn(q, now) = FreeUpTo(q, now, Len(q)) /\ UnlockedIn(q, now) \in Nat
      BY EntrySums DEF FreeUpTo
    <3>2. Len(q) \in 0 .. Len(q)
      BY <1>3
    <3>3. AfterTurns(q, now, amount, Len(q), k[Len(q)])
      BY <1>1, <3>2
    <3> QED BY <3>1, <3>2, <3>3 DEF AfterTurns
  <2>2. Z \in SUBSET Nat /\ Z # {}
    BY <1>3, <2>1
  <2>3. PICK n \in Z : \A i \in Z : n <= i
    BY <2>2, NatMin
  <2>4. n # 0
    BY <1>2
  <2>5. n \in 1 .. Len(q)
    BY <1>3, <2>4
  <2>6. ASSUME NEW i \in 0 .. n - 1 PROVE k[i].want > 0
    <3>1. i \in 0 .. Len(q) /\ ~ (n <= i)
      BY <1>3, <2>5
    <3>2. i \notin Z
      BY <2>3, <3>1
    <3>3. k[i].want # 0
      BY <3>1, <3>2
    <3>4. k[i].want \in Nat
      BY <1>4, <3>1
    <3> QED BY <3>3, <3>4
  <2> QED BY <2>3, <2>5, <2>6
<1> DEFINE front  == SubSeq(q, 1, n - 1)
           locked == {e \in ToSet(front) : ~ IsUnlocked(e, now)}
<1>6. /\ front \in Seq(Entry) /\ Len(front) = n - 1 /\ \A i \in 1 .. n - 1 : front[i] = q[i]
      /\ UnlockedIn(front, now) = FreeUpTo(q, now, n - 1)
  BY FrontFacts
<1>7. \A i \in 1 .. n - 1 : front[i] \in locked <=> ~ IsUnlocked(q[i], now)
  <2>1. DOMAIN front = 1 .. n - 1
    BY <1>6
  <2> HIDE DEF front
  <2> QED BY <1>6, <2>1 DEF ToSet
<1> HIDE DEF front, locked
<1>8. PICK R : /\ R[0] = <<>>
               /\ \A i \in 1 .. Len(front) :
                     R[i] = IF front[i] \in locked THEN Append(R[i - 1], front[i]) ELSE R[i - 1]
               /\ Retain(front, locked) = R[Len(front)]
  BY <1>6, RetainSteps
(* Up to there, the locked entries are what is kept. *)
<1>9. k[n - 1].kept = Retain(front, locked)
  <2> DEFINE N == {i \in Nat : i <= n - 1 => k[i].kept = R[i]}
  <2>1. 0 \in N
    BY <1>2, <1>8
  <2>2. ASSUME NEW i \in N PROVE i + 1 \in N
    <3> SUFFICES ASSUME i + 1 <= n - 1 PROVE k[i + 1].kept = R[i + 1]
      OBVIOUS
    <3> DEFINE e == q[i + 1]
               want == k[i].want
               kept == k[i].kept
    <3>1. /\ i \in Nat /\ i <= n - 1 /\ i \in 0 .. n - 1 /\ i + 1 \in 0 .. n - 1 /\ i + 1 \in 1 .. n - 1
          /\ i \in 0 .. Len(q) /\ i + 1 \in 1 .. Len(q) /\ (i + 1) - 1 = i
      BY <1>3
    <3>2. kept = R[i]
      BY <3>1
    <3>3. R[i + 1] = IF IsUnlocked(e, now) THEN kept ELSE Append(kept, e)
      BY <1>6, <1>7, <1>8, <3>1, <3>2
    <3>4. /\ e \in Entry /\ e.amount > 0 /\ e.amount \in Nat
          /\ want \in Nat /\ kept \in Seq(Entry) /\ want > 0
      BY <1>3, <1>4, <1>5, <3>1 DEF Entry
    <3>5. k[i + 1] = Turn([want |-> want, kept |-> kept], e, now) /\ k[i + 1].want > 0
      BY <1>2, <1>4, <1>5, <3>1
    <3> HIDE DEF e, want, kept
    <3> DEFINE next == k[i + 1]
    <3> HIDE DEF next
    <3>6. /\ ~ IsUnlocked(e, now) => next = [want |-> want, kept |-> Append(kept, e)]
          /\ IsUnlocked(e, now) /\ want > e.amount =>
                next = [want |-> want - e.amount, kept |-> kept]
          /\ IsUnlocked(e, now) /\ want > 0 /\ want <= e.amount => next.want = 0
      <4>1. TurnCases(kept, want, e, now, next)
        BY <3>4, <3>5, TurnInOrder DEF next
      <4> QED BY <3>4, <4>1 DEF TurnCases
    <3>7. next.kept = IF IsUnlocked(e, now) THEN kept ELSE Append(kept, e)
      <4>1. CASE ~ IsUnlocked(e, now)
        BY <3>6, <4>1
      <4>2. CASE IsUnlocked(e, now)
        <5>1. want > e.amount
          BY <3>4, <3>5, <3>6, <4>2 DEF next
        <5> QED BY <3>6, <4>2, <5>1
      <4> QED BY <4>1, <4>2
    <3> QED BY <3>3, <3>7 DEF next
  <2>3. N = Nat
    <3> HIDE DEF N
    <3>1. N \in SUBSET Nat
      BY DEF N
    <3> QED BY <2>1, <2>2, <3>1, NatInductive
  <2>4. n - 1 \in Nat /\ n - 1 <= n - 1
    BY <1>3
  <2>5. k[n - 1].kept = R[n - 1]
    BY <2>3, <2>4
  <2> QED BY <1>6, <1>8, <2>5
<1> DEFINE e     == q[n]
           want  == k[n - 1].want
           kept  == k[n - 1].kept
           rest  == [e EXCEPT !.amount = @ - want]
           part  == IF rest.amount > 0 THEN <<rest>> ELSE <<>>
(* Entry n is the one that is split or just used up. *)
<1>10. /\ e \in Entry /\ e.amount > 0 /\ e.amount \in Nat
       /\ want \in Nat /\ kept \in Seq(Entry) /\ want > 0
       /\ k[n] = Turn([want |-> want, kept |-> kept], e, now)
  <2>1. n \in 1 .. Len(q) /\ n - 1 \in 0 .. Len(q) /\ n - 1 \in 0 .. n - 1
    BY <1>3
  <2> QED BY <1>2, <1>3, <1>4, <1>5, <2>1 DEF Entry
<1>11. rest.amount = e.amount - want /\ rest = [amount |-> e.amount - want, tier |-> e.tier, unlock |-> e.unlock]
  <2> DEFINE d == e.amount - want
  <2>1. rest = [e EXCEPT !.amount = d]
    OBVIOUS
  <2>2. e \in Entry
    BY <1>10
  <2> HIDE DEF d, e, rest
  <2>3. rest = [amount |-> d, tier |-> e.tier, unlock |-> e.unlock]
    BY <2>1, <2>2 DEF Entry
  <2> QED BY <2>3 DEF d
<1>12. IsUnlocked(e, now) /\ want <= e.amount
  <2> DEFINE next == k[n]
  <2>1. /\ ~ IsUnlocked(e, now) => next = [want |-> want, kept |-> Append(kept, e)]
        /\ IsUnlocked(e, now) /\ want > e.amount =>
                next = [want |-> want - e.amount, kept |-> kept]
    <3> HIDE DEF next, e, want, kept
    <3>1. TurnCases(kept, want, e, now, next)
      BY <1>10, TurnInOrder DEF next
    <3> QED BY <3>1 DEF TurnCases
  <2>2. next.want = 0
    BY <1>5
  <2> HIDE DEF next, e, want, kept
  <2> QED BY <1>10, <2>1, <2>2
<1>13. k[n].kept = kept \o part /\ kept \o part \in Seq(Entry)
  <2>1. k[n].kept = IF want = e.amount THEN kept ELSE Append(kept, rest)
    <3> DEFINE next == k[n]
    <3>1. next = [want |-> 0, kept |-> IF want = e.amount THEN kept
                                       ELSE Append(kept, [e EXCEPT !.amount = @ - want])]
      <4> HIDE DEF next, e, want, kept
      <4>1. TurnCases(kept, want, e, now, next)
        BY <1>10, TurnInOrder DEF next
      <4> QED BY <1>10, <1>12, <4>1 DEF TurnCases
    <3> QED BY <3>1
  <2>2. want # e.amount => rest \in Entry
    <3>1. want # e.amount => e.amount - want \in Nat
      BY <1>10, <1>12
    <3> HIDE DEF rest, e, want
    <3> QED BY <1>10, <1>11, <3>1 DEF Entry
  <2>3. part = IF want = e.amount THEN <<>> ELSE <<rest>>
    <3>1. rest.amount > 0 <=> want # e.amount
      BY <1>10, <1>11, <1>12
    <3> QED BY <3>1, Zenon
  <2> HIDE DEF rest, e, want, kept, part
  <2>4. CASE want = e.amount
    <3>1. kept \o <<>> = kept
      BY <1>10, ConcatEmptySeq
    <3> QED BY <1>10, <2>1, <2>3, <2>4, <3>1
  <2>5. CASE want # e.amount
    <3>1. <<rest>> \in Seq(Entry)
      BY <2>2, <2>5
    <3>2. kept \o <<rest>> = Append(kept, rest)
      BY <1>10, <2>2, <2>5
    <3>3. kept \o <<rest>> \in Seq(Entry)
      BY <1>10, <3>1, ConcatProperties
    <3> QED BY <2>1, <2>3, <2>5, <3>2, <3>3
  <2> QED BY <2>4, <2>5
(* The entries behind it are kept as they are. *)
<1>14. k[Len(q)].kept = (kept \o part) \o SubSeq(q, n + 1, Len(q))
  <2> DEFINE head == kept \o part
             N == {i \in Nat : n + i <= Len(q) =>
                       k[n + i].want = 0 /\ k[n + i].kept = head \o SubSeq(q, n + 1, n + i)}
  <2> HIDE DEF kept, part
  <2>0. head \in Seq(Entry) /\ k[n].kept = head /\ k[n].want = 0
    BY <1>5, <1>13
  <2> HIDE DEF head
  <2>1. 0 \in N
    <3>1. SubSeq(q, n + 1, n) = <<>>
      BY <1>3, SubSeqEmpty
    <3>2. head \o <<>> = head
      BY <2>0, ConcatEmptySeq
    <3>3. n + 0 = n
      BY <1>3
    <3> QED BY <2>0, <3>1, <3>2, <3>3
  <2>2. ASSUME NEW i \in N PROVE i + 1 \in N
    <3> SUFFICES ASSUME n + (i + 1) <= Len(q)
                 PROVE  /\ k[n + (i + 1)].want = 0
                        /\ k[n + (i + 1)].kept = head \o SubSeq(q, n + 1, n + (i + 1))
      <4>1. i + 1 \in Nat
        OBVIOUS
      <4> QED BY <4>1, Zenon
    <3> DEFINE j == n + (i + 1)
    <3>1. /\ i \in Nat /\ n + i <= Len(q) /\ n + i = j - 1 /\ j \in 1 .. Len(q) /\ j \in n + 1 .. Len(q)
          /\ n + 1 \in 1 .. Len(q) /\ j - 1 \in 0 .. Len(q)
      <4>1. i \in Nat
        OBVIOUS
      <4> HIDE DEF N
      <4> QED BY <1>3, <4>1
    <3>2. k[n + i].want = 0 /\ k[n + i].kept = head \o SubSeq(q, n + 1, n + i)
      BY <3>1
    <3> HIDE DEF j, N
    <3> DEFINE x == q[j]
               w == k[j - 1].want
               s == k[j - 1].kept
    <3>3. /\ w = 0 /\ w \in Nat /\ s \in Seq(Entry) /\ s = head \o SubSeq(q, n + 1, j - 1)
          /\ x \in Entry /\ x.amount > 0
          /\ k[j] = Turn([want |-> w, kept |-> s], x, now)
      BY <1>2, <1>3, <1>4, <3>1, <3>2
    <3>4. Append(head \o SubSeq(q, n + 1, j - 1), q[j]) = head \o SubSeq(q, n + 1, j)
      <4> DEFINE m == n + 1
      <4>1. m \in 1 .. Len(q) /\ j \in m .. Len(q)
        BY <3>1
      <4> HIDE DEF m
      <4>2. Grows(head, q, m, j)
        BY <2>0, <4>1, GrowingTail
      <4> QED BY <4>2 DEF m, Grows
    <3> DEFINE next == k[j]
    <3>5. next = [want |-> w, kept |-> Append(s, x)]
      <4> HIDE DEF x, w, s, next
      <4>1. TurnCases(s, w, x, now, next)
        BY <3>3, TurnInOrder DEF next
      <4> QED BY <3>3, <4>1 DEF TurnCases
    <3>6. k[j].want = 0 /\ k[j].kept = head \o SubSeq(q, n + 1, j)
      <4>1. next.want = w /\ next.kept = Append(s, x)
        <5> HIDE DEF next, w, s, x
        <5> QED BY <3>5
      <4> QED BY <3>3, <3>4, <4>1
    <3> QED BY <3>6 DEF j
  <2>3. N = Nat
    <3> HIDE DEF N
    <3>1. N \in SUBSET Nat
      BY DEF N
    <3> QED BY <2>1, <2>2, <3>1, NatInductive
  <2>4. Len(q) - n \in Nat /\ n + (Len(q) - n) = Len(q)
    BY <1>3
  <2>5. Len(q) - n \in N
    BY <2>3, <2>4
  <2>6. k[Len(q)].kept = head \o SubSeq(q, n + 1, Len(q))
    <3>1. \A m \in N : n + m <= Len(q) => k[n + m].kept = head \o SubSeq(q, n + 1, n + m)
      OBVIOUS
    <3> DEFINE d == Len(q) - n
    <3> HIDE DEF N
    <3>2. d \in N /\ n + d = Len(q) /\ n + d <= Len(q)
      BY <1>3, <2>4, <2>5
    <3> HIDE DEF d
    <3>3. k[n + d].kept = head \o SubSeq(q, n + 1, n + d)
      BY <3>1, <3>2
    <3> QED BY <3>2, <3>3, Zenon
  <2> QED BY <2>6 DEF head
<1>15. AmountIn(q) - AmountIn(Withdraw(q, now, amount)) - UnlockedIn(front, now) = want
  <2>1. AmountIn(q) \in Nat /\ AmountIn(Withdraw(q, now, amount)) = AmountIn(q) - amount
    BY EntrySums, WithdrawFacts
  <2>2. want = amount - FreeUpTo(q, now, n - 1) /\ FreeUpTo(q, now, n - 1) \in Nat
    <3>1. n - 1 \in 0 .. Len(q) /\ n - 1 \in 0 .. n - 1
      BY <1>3
    <3>2. want = IF amount <= FreeUpTo(q, now, n - 1) THEN 0 ELSE amount - FreeUpTo(q, now, n - 1)
      BY <1>1, <3>1 DEF AfterTurns
    <3>3. FreeUpTo(q, now, n - 1) \in Nat
      BY <1>6, EntrySums
    <3> HIDE DEF want
    <3> QED BY <1>10, <3>2, <3>3
  <2> HIDE DEF want
  <2> QED BY <1>6, <2>1, <2>2
<1>16. TakenUpTo(q, Withdraw(q, now, amount), now, n)
  <2>1. want \in 1 .. q[n].amount /\ IsUnlocked(q[n], now)
    BY <1>10, <1>12
  <2>2. Withdraw(q, now, amount) = Retain(front, locked) \o part \o SubSeq(q, n + 1, Len(q))
    BY <1>2, <1>9, <1>14
  <2> HIDE DEF want
  <2> QED BY <1>15, <2>1, <2>2, Zenon DEF TakenUpTo, front, locked
<1> QED BY <1>3, <1>16

(* What is withdrawn leaves no empty entry behind. *)
LEMMA StaysFilled ==
    ASSUME NEW q \in Seq(Entry), \A i \in 1 .. Len(q) : q[i].amount > 0,
           NEW now, NEW after \in Seq(Entry), NEW n \in DOMAIN q, TakenUpTo(q, after, now, n)
    PROVE  \A i \in 1 .. Len(after) : after[i].amount > 0
<1> DEFINE front  == SubSeq(q, 1, n - 1)
           locked == {e \in ToSet(front) : ~ IsUnlocked(e, now)}
           taken  == AmountIn(q) - AmountIn(after) - UnlockedIn(front, now)
           rest   == [q[n] EXCEPT !.amount = @ - taken]
           part   == IF rest.amount > 0 THEN <<rest>> ELSE <<>>
           behind == SubSeq(q, n + 1, Len(q))
           Full(s) == s \in Seq(Entry) /\ \A i \in 1 .. Len(s) : s[i].amount > 0
<1>1. after = Retain(front, locked) \o part \o behind /\ taken \in 1 .. q[n].amount
  BY DEF TakenUpTo
<1>2. n \in 1 .. Len(q) /\ Len(q) \in Nat /\ q[n] \in Entry /\ \A i \in 1 .. Len(q) : q[i] \in Entry
  BY EntryTypes
<1>3. /\ front \in Seq(Entry) /\ Len(front) = n - 1 /\ \A i \in 1 .. n - 1 : front[i] = q[i]
  BY <1>2, FrontFacts
<1>4. Full(Retain(front, locked))
  <2> HIDE DEF front, locked
  <2>1. Retain(front, locked) \in Seq(Entry) /\ Range(Retain(front, locked)) \subseteq Range(front)
    BY <1>3, RetainFacts
  <2>2. \A x \in Range(front) : x.amount > 0
    BY <1>2, <1>3 DEF Range
  <2> DEFINE r == Retain(front, locked)
  <2> HIDE DEF r
  <2>3. \A i \in 1 .. Len(r) : r[i] \in Range(r)
    BY <2>1 DEF Range, r
  <2> QED BY <2>1, <2>2, <2>3 DEF r
<1>5. Full(part)
  <2>1. CASE rest.amount > 0
    <3> DEFINE a == q[n].amount - taken
    <3>1. rest = [q[n] EXCEPT !.amount = a] /\ a \in Int
      BY <1>1, <1>2 DEF Entry
    <3> HIDE DEF a, rest
    <3>2. rest = [amount |-> a, tier |-> q[n].tier, unlock |-> q[n].unlock]
      BY <1>2, <3>1 DEF Entry
    <3>3. rest \in Entry
      <4>1. rest.amount = a
        BY <3>2
      <4>2. a \in Nat
        BY <2>1, <3>1, <4>1
      <4> QED BY <1>2, <3>2, <4>2 DEF Entry
    <3>4. <<rest>> \in Seq(Entry) /\ Len(<<rest>>) = 1 /\ <<rest>>[1] = rest
      BY <3>3
    <3> QED BY <2>1, <3>4
  <2>2. CASE ~ (rest.amount > 0)
    BY <2>2
  <2> QED BY <2>1, <2>2
<1>6. Full(behind)
  <2>1. \A i \in n + 1 .. Len(q) : q[i] \in Entry
    BY <1>2
  <2>2. /\ behind \in Seq(Entry)
        /\ Len(behind) = IF n + 1 <= Len(q) THEN Len(q) - (n + 1) + 1 ELSE 0
        /\ \A i \in 1 .. Len(q) - (n + 1) + 1 : behind[i] = q[(n + 1) + i - 1]
    BY <1>2, <2>1, SubSeqProperties
  <2> HIDE DEF behind
  <2>3. ASSUME NEW i \in 1 .. Len(behind) PROVE behind[i].amount > 0
    <3>1. i \in 1 .. Len(q) - (n + 1) + 1
      BY <1>2, <2>2
    <3> DEFINE at == (n + 1) + i - 1
    <3>2. at \in 1 .. Len(q) /\ behind[i] = q[at]
      BY <1>2, <2>2, <3>1
    <3> HIDE DEF at
    <3> QED BY <3>2
  <2> QED BY <2>2, <2>3
<1>7. \A s, t : Full(s) /\ Full(t) => Full(s \o t)
  <2> SUFFICES ASSUME NEW s, NEW t, Full(s), Full(t) PROVE Full(s \o t)
    OBVIOUS
  <2>1. s \in Seq(Entry) /\ t \in Seq(Entry) /\ Len(s) \in Nat /\ Len(t) \in Nat
    OBVIOUS
  <2>2. /\ s \o t \in Seq(Entry) /\ Len(s \o t) = Len(s) + Len(t)
        /\ \A i \in 1 .. Len(s) + Len(t) : (s \o t)[i] = IF i <= Len(s) THEN s[i] ELSE t[i - Len(s)]
    BY <2>1, ConcatProperties
  <2> DEFINE u == s \o t
  <2> HIDE DEF u
  <2>3. ASSUME NEW i \in 1 .. Len(u) PROVE u[i].amount > 0
    <3>1. i \in 1 .. Len(s) + Len(t)
      BY <2>2 DEF u
    <3>2. u[i] = IF i <= Len(s) THEN s[i] ELSE t[i - Len(s)]
      BY <2>2, <3>1 DEF u
    <3>3. i <= Len(s) \/ i - Len(s) \in 1 .. Len(t)
      BY <2>1, <3>1
    <3> QED BY <2>1, <3>1, <3>2, <3>3
  <2> QED BY <2>2, <2>3 DEF u
<1> DEFINE r == Retain(front, locked)
<1>8. Full(r) /\ after = (r \o part) \o behind
  BY <1>1, <1>4
<1> HIDE DEF Full, part, behind, r
<1>9. Full(after)
  <2>1. Full(r \o part)
    BY <1>5, <1>7, <1>8
  <2>2. Full((r \o part) \o behind)
    BY <1>6, <1>7, <2>1
  <2> QED BY <1>8, <2>2
<1> QED BY <1>9 DEF Full

(* No entry is empty. *)
AllFilled == \A key \in PositionKeys : \A i \in 1 .. Len(positions[key]) : positions[key][i].amount > 0

(* A step that takes from a key takes from its oldest unlocked entries. *)
LEMMA TakingStep ==
    ASSUME PoolType, AllFilled, StakingNext, NEW key \in PositionKeys
    PROVE  /\ AmountIn(positions'[key]) < AmountIn(positions[key]) =>
                 \E n \in DOMAIN positions[key] :
                    TakenUpTo(positions[key], positions'[key], epoch, n)
           /\ \A i \in 1 .. Len(positions'[key]) : positions'[key][i].amount > 0
<1> DEFINE q == positions[key]
           r == positions'[key]
           Oldest == AmountIn(r) < AmountIn(q) => \E n \in DOMAIN q : TakenUpTo(q, r, epoch, n)
           Filled == \A i \in 1 .. Len(r) : r[i].amount > 0
<1>1. q \in Seq(Entry) /\ positions \in Pools /\ (\A i \in 1 .. Len(q) : q[i].amount > 0) /\ AmountIn(q) \in Nat
  BY EntrySums DEF PoolType, Pools, AllFilled
<1>2. CASE r = q
  <2> HIDE DEF q, r
  <2> QED BY <1>1, <1>2 DEF q, r
<1>3. ASSUME NEW amount \in Amounts, NEW tier \in Tiers, Stake(key, amount, tier)
      PROVE  Oldest /\ Filled
  <2> DEFINE e == Pushed(amount, tier)
  <2>1. r = Append(q, e) /\ amount > 0
    BY <1>1, <1>3 DEF Stake, Pushed, Pools
  <2>2. e \in Entry /\ e.amount = amount /\ amount \in Nat
    BY PushedEntry
  <2> HIDE DEF q, r, e
  <2>3. AmountIn(r) = AmountIn(q) + amount
    BY <1>1, <2>1, <2>2, AppendSums
  <2>4. /\ Len(r) = Len(q) + 1 /\ Len(q) \in Nat
        /\ \A j \in 1 .. Len(q) + 1 : r[j] = IF j = Len(q) + 1 THEN e ELSE q[j]
    BY <1>1, <2>1, <2>2, AppendFacts
  <2> QED BY <1>1, <2>1, <2>2, <2>3, <2>4
<1>4. ASSUME NEW amount \in Amounts, Unstake(key, amount)
      PROVE  Oldest /\ Filled
  <2>1. /\ r = Withdraw(q, epoch, amount) /\ amount \in Nat \ {0}
        /\ UnlockedIn(q, epoch) >= amount
    BY <1>1, <1>4, StakingAssumption DEF Unstake, Pools
  <2> HIDE DEF q, r
  <2>2. PICK n \in DOMAIN q : TakenUpTo(q, r, epoch, n)
    BY <1>1, <2>1, WithdrawInOrder
  <2>3. r \in Seq(Entry)
    BY <1>1, <2>1, WithdrawFacts
  <2>4. Filled
    BY <1>1, <2>2, <2>3, StaysFilled
  <2> QED BY <2>2, <2>4
<1>5. CASE r # q
  <2>1. \E amount \in Amounts : (\E tier \in Tiers : Stake(key, amount, tier)) \/ Unstake(key, amount)
    <3>1. ASSUME NEW k \in PositionKeys, k # key, NEW amount \in Amounts, NEW tier \in Tiers,
                 Stake(k, amount, tier)
          PROVE  r = q
      BY <1>1, <3>1 DEF Stake, Pools
    <3>2. ASSUME NEW k \in PositionKeys, k # key, NEW amount \in Amounts, Unstake(k, amount)
          PROVE  r = q
      BY <1>1, <3>2 DEF Unstake, Pools
    <3>3. ASSUME NEW e \in Epochs, SetEpoch(e) PROVE r = q
      BY <3>3 DEF SetEpoch
    <3> QED BY <1>5, <3>1, <3>2, <3>3 DEF StakingNext
  <2> QED BY <1>3, <1>4, <2>1
<1> QED BY <1>2, <1>5

(* For any mixture of locked and unlocked entries under a key: a withdrawal uses up
   the oldest unlocked entries, splits at most one, and leaves the others alone. *)
THEOREM OldestGoFirst == StakingSpec => WithdrawsOldestFirst
<1>1. StakingInit => PoolType /\ AllFilled
  BY PoolInit DEF StakingInit, AllFilled
<1>2. PoolType /\ AllFilled /\ [StakingNext]_stakingVars => (PoolType /\ AllFilled)'
  <2> SUFFICES ASSUME PoolType, AllFilled, [StakingNext]_stakingVars PROVE AllFilled'
    BY PoolTypeNext
  <2>1. CASE StakingNext
    BY <2>1, TakingStep DEF AllFilled
  <2>2. CASE UNCHANGED stakingVars
    BY <2>2 DEF AllFilled, stakingVars
  <2> QED BY <2>1, <2>2
<1>3. PoolType /\ AllFilled /\ [StakingNext]_stakingVars =>
        [\A key \in PositionKeys :
            AmountIn(positions'[key]) < AmountIn(positions[key]) =>
               \E n \in DOMAIN positions[key] :
                  TakenUpTo(positions[key], positions'[key], epoch, n)]_stakingVars
  BY TakingStep
<1> QED BY <1>1, <1>2, <1>3, PTL DEF StakingSpec, WithdrawsOldestFirst

-----------------------------------------------------------------------------
(* Rewards.  One entry's reward is a rounded-down quotient between the lowest and
   the top tier's rate; SumBound adds the bounds up.                         *)
RewardsOf(entries) ==
    [i \in DOMAIN entries |-> CalculateReward(entries[i].amount, entries[i].tier, 1)]

LEMMA RateBounds == \A tier \in Tiers : RatePct[tier] \in Nat /\ 5 <= RatePct[tier] /\ RatePct[tier] <= 120
<1> SUFFICES ASSUME NEW tier \in Tiers
             PROVE  RatePct[tier] \in Nat /\ 5 <= RatePct[tier] /\ RatePct[tier] <= 120
  OBVIOUS
<1>1. tier \in DOMAIN LockDuration
  BY StakingAssumption
<1>2. tier \in {"NoLock", "ThirtyDay", "NinetyDay", "OneEightyDay", "ThreeSixtyDay", "Delegator",
                "Permanent"}
  BY <1>1 DEF LockDuration
<1> QED BY <1>2 DEF RatePct

LEMMA EntryReward ==
    ASSUME NEW amount \in Nat, NEW tier \in Tiers
    PROVE  /\ CalculateReward(amount, tier, 1) \in Nat
           /\ RewardDivisor * CalculateReward(amount, tier, 1) <= 60000 * amount + 0
           /\ 2500 * amount <= RewardDivisor * CalculateReward(amount, tier, 1) + RewardDivisor
<1> DEFINE rate == RatePct[tier]
           a == amount * BaseApyBps * rate * 1
           q == CalculateReward(amount, tier, 1)
           d == RewardDivisor
<1>1. rate \in Nat /\ 5 <= rate /\ rate <= 120
  BY RateBounds
<1> HIDE DEF rate
<1>2. amount * 5 <= amount * rate /\ amount * rate <= amount * 120 /\ amount * rate \in Nat
  BY <1>1, MulMono
<1>3. a = 500 * (amount * rate) /\ a \in Nat
  BY <1>1 DEF BaseApyBps
<1>4. 2500 * amount <= a /\ a <= 60000 * amount
  <2> DEFINE u == amount * rate
  <2>1. u \in Nat /\ 5 * amount <= u /\ u <= 120 * amount /\ a = 500 * u
    BY <1>2, <1>3
  <2> HIDE DEF u, a
  <2> QED BY <2>1
<1>5. d \in Nat \ {0}
  BY DEF RewardDivisor
<1>6. q = a \div d
  BY DEF CalculateReward, rate
<1> HIDE DEF a, q, d
<1>7. q \in Nat /\ d * q <= a /\ a < d * q + d
  <2>1. a \in Nat
    BY <1>3
  <2>2. a \div d \in Nat /\ d * (a \div d) <= a /\ a < d * (a \div d) + d
    BY <1>5, <2>1, DivFacts
  <2> QED BY <1>6, <2>2
<1> DEFINE v == d * q
<1>8. v \in Nat /\ v <= a /\ a < v + d
  BY <1>5, <1>7
<1> HIDE DEF v
<1>9. v <= 60000 * amount + 0 /\ 2500 * amount <= v + d
  BY <1>3, <1>4, <1>5, <1>8
<1> QED BY <1>7, <1>9 DEF v, q, d

LEMMA KeyReward ==
    ASSUME NEW q \in Seq(Entry)
    PROVE  /\ SumFunction(RewardsOf(q)) \in Nat
           /\ RewardDivisor * SumFunction(RewardsOf(q)) <= 60000 * AmountIn(q) + 0
           /\ 2500 * AmountIn(q) <= RewardDivisor * (SumFunction(RewardsOf(q)) + Len(q))
<1> DEFINE T == 1 .. Len(q)
           f == RewardsOf(q)
           g == AmountsOf(q)
           d == RewardDivisor
           top == 60000
           low == 2500
           none == 0
           F == SumFunctionOnSet(f, T)
           G == SumFunctionOnSet(g, T)
<1>1. Len(q) \in Nat /\ IsFiniteSet(T) /\ Cardinality(T) = Len(q) /\ DOMAIN f = T /\ d \in Nat
  <2>1. Len(q) \in Nat /\ DOMAIN q = T
    OBVIOUS
  <2>2. IsFiniteSet(T) /\ Cardinality(T) = Len(q)
    BY <2>1, FS_Interval
  <2> QED BY <2>1, <2>2 DEF RewardsOf, RewardDivisor
<1>2. ASSUME NEW i \in T
      PROVE  /\ f[i] \in Nat /\ g[i] \in Nat
             /\ d * f[i] <= 60000 * g[i] + 0
             /\ 2500 * g[i] <= d * f[i] + d
  <2>1. q[i] \in Entry /\ g[i] = q[i].amount /\ i \in DOMAIN q
    BY EntryTypes
  <2>2. q[i].amount \in Nat /\ q[i].tier \in Tiers
    BY <2>1 DEF Entry
  <2>3. f[i] = CalculateReward(q[i].amount, q[i].tier, 1)
    BY <2>1 DEF RewardsOf
  <2> HIDE DEF f, g, d
  <2> QED BY <2>1, <2>2, <2>3, EntryReward DEF d
<1>3. AmountIn(q) = G /\ G \in Nat
  BY EntrySums
<1>4. SumFunction(f) = F
  BY <1>1 DEF SumFunction
<1> HIDE DEF f, g, d, T
<1>5. F \in Nat
  BY <1>1, <1>2, SumNat
<1>6. top \in Int /\ low \in Int /\ none \in Int /\ d \in Int
  BY <1>1
<1>7. \A i \in T : /\ f[i] \in Int /\ g[i] \in Int
                  /\ d * f[i] <= top * g[i] + none /\ low * g[i] <= d * f[i] + d
  BY <1>2
<1> HIDE DEF top, low, none
<1>8. d * F <= top * G + none * Cardinality(T)
  BY <1>1, <1>6, <1>7, SumBound
<1>9. low * G <= d * F + d * Cardinality(T)
  BY <1>1, <1>6, <1>7, SumBound
<1> HIDE DEF F, G
<1>10. none * Cardinality(T) = 0 /\ d * F + d * Cardinality(T) = d * (F + Len(q))
  BY <1>1, <1>5 DEF none
<1>11. d * F <= 60000 * G + 0 /\ 2500 * G <= d * (F + Len(q))
  BY <1>3, <1>8, <1>9, <1>10 DEF top, low
<1> QED BY <1>3, <1>4, <1>5, <1>11 DEF f, d

(* For any stakers, tiers and amounts, and however stakes were split up: an epoch
   pays no more than the top tier's rate on total_staked, and no key loses a whole
   unit per entry against the lowest rate.  (Fits as in TotalIsTheEntries.)  *)
THEOREM RewardsStayWithinRate == StakingSpec /\ []Fits => []RewardsWithinRate
<1>1. PoolType /\ TotalMatches => RewardsWithinRate
  <2> SUFFICES ASSUME PoolType, TotalMatches PROVE RewardsWithinRate
    OBVIOUS
  <2> DEFINE r == EpochRewards(positions)
             d == RewardDivisor
             s == SumsIn(positions)
             R == SumFunctionOnSet(r, PositionKeys)
             A == SumFunctionOnSet(s, PositionKeys)
  <2>1. d \in Nat \ {0}
    BY DEF RewardDivisor
  <2>2. ASSUME NEW key \in PositionKeys
        PROVE  /\ r[key] \in Nat /\ s[key] \in Nat /\ s[key] = AmountIn(positions[key])
               /\ d * r[key] <= 60000 * s[key] + 0
               /\ 2500 * s[key] <= d * (r[key] + Len(positions[key]))
               /\ Len(positions[key]) \in Nat
    <3>1. positions[key] \in Seq(Entry)
      BY DEF PoolType, Pools
    <3>2. r[key] = SumFunction(RewardsOf(positions[key]))
      BY DEF EpochRewards, RewardsOf
    <3>3. s[key] = AmountIn(positions[key]) /\ s[key] \in Nat
      BY <3>1, EntrySums DEF SumsIn
    <3>4. Len(positions[key]) \in Nat
      BY <3>1
    <3> HIDE DEF r, s, d
    <3> QED BY <3>1, <3>2, <3>3, <3>4, KeyReward DEF d
  <2>3. /\ SumFunction(r) = R /\ totalStaked = A /\ A \in Nat
    <3>1. DOMAIN r = PositionKeys
      BY DEF EpochRewards
    <3>2. SumFunction(r) = R
      BY <3>1 DEF SumFunction
    <3>3. TotalAmount(positions) = A /\ TotalAmount(positions) \in Nat
      BY TotalIsSum DEF PoolType
    <3> QED BY <3>2, <3>3 DEF TotalMatches
  <2> HIDE DEF r, s, d
  <2>4. R \in Nat
    BY <2>2, FiniteKeys, SumNat
  <2>5. d * R <= 60000 * A
    <3> DEFINE top == 60000
               none == 0
    <3>1. \A key \in PositionKeys : r[key] \in Int /\ s[key] \in Int /\ d * r[key] <= top * s[key] + none
      BY <2>2
    <3>2. top \in Int /\ none \in Int /\ d \in Int
      BY <2>1
    <3> HIDE DEF top, none
    <3>3. d * R <= top * A + none * Cardinality(PositionKeys)
      BY <3>1, <3>2, FiniteKeys, SumBound
    <3>4. none * Cardinality(PositionKeys) = 0
      BY FiniteKeys, FS_CardinalityType DEF none
    <3> HIDE DEF R, A
    <3> QED BY <2>1, <2>3, <2>4, <3>3, <3>4 DEF top
  <2> HIDE DEF R, A
  <2>6. R <= CalculateReward(totalStaked, "Permanent", 1)
    <3>1. R <= (60000 * A) \div d
      BY <2>1, <2>3, <2>4, <2>5, DivLower
    <3>2. A * 500 * 120 * 1 = 60000 * A
      BY <2>3
    <3>3. CalculateReward(totalStaked, "Permanent", 1) = (A * 500 * 120 * 1) \div d
      BY <2>3 DEF CalculateReward, BaseApyBps, RatePct, d
    <3> QED BY <3>1, <3>2, <3>3
  <2>7. ASSUME NEW key \in PositionKeys
        PROVE  r[key] + Len(positions[key]) >= CalculateReward(AmountIn(positions[key]), "NoLock", 1)
    <3> DEFINE n == r[key] + Len(positions[key])
               a == AmountIn(positions[key])
    <3>1. n \in Nat /\ a \in Nat /\ 2500 * a <= d * n
      BY <2>2
    <3> HIDE DEF n, a
    <3>2. (2500 * a) \div d <= n
      BY <2>1, <3>1, DivUpper
    <3>3. a * 500 * 5 * 1 = 2500 * a
      BY <3>1
    <3>4. CalculateReward(a, "NoLock", 1) = (a * 500 * 5 * 1) \div d
      BY DEF CalculateReward, BaseApyBps, RatePct, d
    <3>5. CalculateReward(a, "NoLock", 1) <= n /\ CalculateReward(a, "NoLock", 1) \in Nat
      <4>1. (2500 * a) \div d \in Nat
        BY <2>1, <3>1, DivFacts
      <4> QED BY <3>2, <3>3, <3>4, <4>1
    <3> QED BY <3>1, <3>5 DEF n, a
  <2> QED BY <2>3, <2>6, <2>7 DEF r, RewardsWithinRate
<1>2. PoolType /\ TotalMatches /\ Fits' /\ [StakingNext]_stakingVars => (PoolType /\ TotalMatches)'
  BY PoolTypeNext, TotalNext
<1> QED BY <1>1, <1>2, PoolInit, PTL DEF StakingSpec

-----------------------------------------------------------------------------
(***************************************************************************)
(* The slashing engine.  Grown says what any number of slashes does to the *)
(* books; the loop of process_all_evidence keeps it, record by record.     *)
(***************************************************************************)
Records == EvidenceRecords
Events  == [evidence : Records, amount : Nat]

SetOK(v) == DOMAIN v \subseteq Keys /\ \A k \in DOMAIN v : v[k] \in ValidatorInfo

BooksOf(v, p, t, h, g) ==
    [validators |-> v, positions |-> p, total |-> t, history |-> h, treasury |-> g]

BooksOK(b) ==
    /\ b = BooksOf(b.validators, b.positions, b.total, b.history, b.treasury)
    /\ SetOK(b.validators) /\ b.positions \in Pools /\ b.total \in Int
    /\ b.history \in Seq(Events) /\ b.treasury \in Int

(* From b to c, records in S were punished, none of them twice: total_staked lost
   what the positions did, and only the offenders' own positions changed.    *)
Grown(b, c, S) ==
    /\ BooksOK(c)
    /\ Len(c.history) >= Len(b.history)
    /\ \A i \in 1 .. Len(b.history) : c.history[i] = b.history[i]
    /\ b.total - c.total = TotalAmount(b.positions) - TotalAmount(c.positions)
    /\ \A key \in PositionKeys : c.positions[key] # b.positions[key] =>
          \E i \in Len(b.history) + 1 .. Len(c.history) :
             key = DirectKey(c.history[i].evidence.offender)
    /\ \A i \in Len(b.history) + 1 .. Len(c.history) : c.history[i].evidence \in S
    /\ \A i, j \in Len(b.history) + 1 .. Len(c.history) :
          c.history[i].evidence = c.history[j].evidence => i = j

LEMMA SlashAmounts ==
    ASSUME NEW stake \in Nat, NEW offense \in DOMAIN SlashBps
    PROVE  SlashAmount(stake, offense) \in Nat /\ SlashAmount(stake, offense) <= stake
<1>1. offense \in {"DoubleSign", "Downtime", "InvalidBlock"}
  BY DEF SlashBps
<1>2. SlashBps[offense] \in {100, 500, 1000}
  BY <1>1 DEF SlashBps
<1> QED BY <1>2 DEF SlashAmount

(* What a slash writes. *)
LEMMA SlashBooks ==
    ASSUME NEW v, NEW p, NEW t, NEW h, NEW g, NEW ev
    PROVE  LET amount == SlashAmount(v[ev.offender].stake, ev.offense)
               key    == DirectKey(ev.offender)
               free   == UnlockedIn(p[key], epoch) >= amount
           IN  Slash(BooksOf(v, p, t, h, g), ev)
                 = BooksOf([v EXCEPT ![ev.offender] = [stake |-> @.stake - amount, status |-> "Jailed"]],
                           [p EXCEPT ![key] = IF free THEN Withdraw(@, epoch, amount) ELSE @],
                           IF free THEN t - amount ELSE t,
                           Append(h, SlashEvent(ev, amount)),
                           g + amount)
<1> DEFINE amount == SlashAmount(v[ev.offender].stake, ev.offense)
           key    == DirectKey(ev.offender)
           free   == UnlockedIn(p[key], epoch) >= amount
           o      == ev.offender
           x      == [stake |-> v[o].stake - amount, status |-> "Jailed"]
           q      == IF free THEN Withdraw(p[key], epoch, amount) ELSE p[key]
           t2     == IF free THEN t - amount ELSE t
           h2     == Append(h, SlashEvent(ev, amount))
           b      == BooksOf(v, p, t, h, g)
<1>1. /\ b.validators = v /\ b.positions = p /\ b.total = t /\ b.history = h /\ b.treasury = g
      /\ DOMAIN b = {"validators", "positions", "total", "history", "treasury"}
  BY DEF BooksOf
<1> HIDE DEF b
<1>2. Slash(b, ev) = [b EXCEPT !.validators[o] = x, !.positions[key] = q, !.total = t2,
                               !.treasury = g + amount, !.history = h2]
  BY <1>1, Zenon DEF Slash
<1> HIDE DEF amount, key, free, o, x, q, t2, h2
<1>3. [b EXCEPT !.validators[o] = x, !.positions[key] = q, !.total = t2,
                !.treasury = g + amount, !.history = h2]
        = BooksOf([v EXCEPT ![o] = x], [p EXCEPT ![key] = q], t2, h2, g + amount)
  <2> DEFINE v2 == [v EXCEPT ![o] = x]
             p2 == [p EXCEPT ![key] = q]
             g2 == g + amount
             b1 == [b EXCEPT !.validators[o] = x]
             b2 == [b1 EXCEPT !.positions[key] = q]
             b3 == [b2 EXCEPT !.total = t2]
             b4 == [b3 EXCEPT !.treasury = g2]
             b5 == [b4 EXCEPT !.history = h2]
  <2>1. [b EXCEPT !.validators[o] = x, !.positions[key] = q, !.total = t2,
                  !.treasury = g2, !.history = h2] = b5
    OBVIOUS
  <2>2. b1 = BooksOf(v2, p, t, h, g)
    BY DEF b, BooksOf
  <2> HIDE DEF v2, g2, b1
  <2>3. b2 = BooksOf(v2, p2, t, h, g)
    BY <2>2 DEF BooksOf
  <2> HIDE DEF p2, b2
  <2>4. b3 = BooksOf(v2, p2, t2, h, g)
    BY <2>3 DEF BooksOf
  <2> HIDE DEF b3
  <2>5. b4 = BooksOf(v2, p2, t2, h, g2)
    BY <2>4 DEF BooksOf
  <2> HIDE DEF b4
  <2>6. b5 = BooksOf(v2, p2, t2, h2, g2)
    BY <2>5 DEF BooksOf
  <2> HIDE DEF b5
  <2>7. [b EXCEPT !.validators[o] = x, !.positions[key] = q, !.total = t2,
                  !.treasury = g2, !.history = h2] = BooksOf(v2, p2, t2, h2, g2)
    BY <2>1, <2>6
  <2> QED BY <2>7 DEF v2, p2, g2
<1>4. Slash(b, ev) = BooksOf([v EXCEPT ![o] = x], [p EXCEPT ![key] = q], t2, h2, g + amount)
  BY <1>2, <1>3
<1> QED BY <1>4 DEF b, amount, key, free, o, x, q, t2, h2

LEMMA SlashGrows ==
    ASSUME NEW b, BooksOK(b), NEW ev \in Records, ev.offender \in DOMAIN b.validators
    PROVE  Grown(b, Slash(b, ev), {ev})
<1> DEFINE v == b.validators
           p == b.positions
           t == b.total
           h == b.history
           g == b.treasury
           o == ev.offender
           amount == SlashAmount(v[o].stake, ev.offense)
           key == DirectKey(o)
           free == UnlockedIn(p[key], epoch) >= amount
           v2 == [v EXCEPT ![o] = [stake |-> v[o].stake - amount, status |-> "Jailed"]]
           p2 == [p EXCEPT ![key] = IF free THEN Withdraw(p[key], epoch, amount) ELSE p[key]]
           t2 == IF free THEN t - amount ELSE t
           h2 == Append(h, SlashEvent(ev, amount))
           g2 == g + amount
           c == Slash(b, ev)
<1>1. /\ b = BooksOf(v, p, t, h, g) /\ SetOK(v) /\ p \in Pools /\ t \in Int /\ h \in Seq(Events)
      /\ g \in Int
  BY DEF BooksOK
<1>2. o \in Keys /\ o \in DOMAIN v /\ ev.offense \in DOMAIN SlashBps
  BY DEF Records, EvidenceRecords
<1>3. v[o].stake \in Nat
  BY <1>1, <1>2 DEF SetOK, ValidatorInfo
<1>4. amount \in Nat /\ amount <= v[o].stake
  BY <1>2, <1>3, SlashAmounts
<1>5. key \in PositionKeys
  BY <1>2, EvidenceAssumption DEF PositionKeys
<1> HIDE DEF v, p, t, h, g
<1>6. c = BooksOf(v2, p2, t2, h2, g2)
  BY <1>1, SlashBooks
<1>7. c.validators = v2 /\ c.positions = p2 /\ c.total = t2 /\ c.history = h2 /\ c.treasury = g2
  BY <1>6 DEF BooksOf
<1> HIDE DEF c, amount, o, key
<1>8. SetOK(v2)
  <2> DEFINE info == [stake |-> v[o].stake - amount, status |-> "Jailed"]
  <2>1. info \in ValidatorInfo
    BY <1>3, <1>4 DEF ValidatorInfo, Statuses
  <2> HIDE DEF info
  <2>2. v2 = [v EXCEPT ![o] = info]
    BY DEF info
  <2> HIDE DEF v2
  <2> QED BY <1>1, <2>1, <2>2 DEF SetOK
<1>9. /\ p2 \in Pools
      /\ TotalAmount(p2) = IF free THEN TotalAmount(p) - amount ELSE TotalAmount(p)
      /\ \A other \in PositionKeys \ {key} : p2[other] = p[other]
  <2>1. CASE free
    <3>1. Withdrawn(p, p2, key, epoch, amount)
      BY <1>1, <1>4, <1>5, <2>1, WithdrawStep
    <3> QED BY <2>1, <3>1 DEF Withdrawn
  <2>2. CASE ~ free
    <3>1. p2 = p
      BY <1>1, <1>5, <2>2 DEF Pools
    <3> HIDE DEF p2
    <3> QED BY <1>1, <2>2, <3>1
  <2> QED BY <2>1, <2>2
<1> HIDE DEF free, p2, v2
<1>10. TotalAmount(p) \in Nat
  BY <1>1, TotalIsSum
<1>11. t2 \in Int /\ g2 \in Int /\ t - t2 = TotalAmount(p) - TotalAmount(p2)
  BY <1>1, <1>4, <1>9, <1>10
<1> HIDE DEF t2, g2
<1> DEFINE e == SlashEvent(ev, amount)
           n == Len(h)
<1>12. e \in Events /\ e.evidence = ev
  BY <1>4 DEF SlashEvent, Events
<1> HIDE DEF e
<1>13. /\ h2 \in Seq(Events) /\ n \in Nat /\ Len(h2) = n + 1 /\ h2[n + 1] = e
       /\ \A i \in 1 .. n : h2[i] = h[i]
  BY <1>1, <1>12, AppendFacts DEF e
<1> HIDE DEF h2
<1>14. BooksOK(c)
  BY <1>6, <1>7, <1>8, <1>9, <1>11, <1>13 DEF BooksOK
<1> HIDE DEF n
<1>15. n + 1 .. n + 1 = {n + 1} /\ n + 1 >= n
  BY <1>13
<1>16. ev.offender = o
  BY DEF o
<1>17. \A k \in PositionKeys : p2[k] # p[k] =>
          \E i \in n + 1 .. n + 1 : k = DirectKey(h2[i].evidence.offender)
  BY <1>9, <1>12, <1>13, <1>15, <1>16 DEF key
<1>18. /\ \A i \in n + 1 .. n + 1 : h2[i].evidence \in {ev}
       /\ \A i, j \in n + 1 .. n + 1 : i = j
  BY <1>12, <1>13, <1>15
<1>19. /\ b.history = h /\ b.positions = p /\ b.treasury = g /\ b.total = t
  BY DEF h, p, g, t
<1>20. Len(h) = n
  BY DEF n
<1>21. Len(c.history) = n + 1 /\ Len(b.history) = n
  BY <1>7, <1>13, <1>19, <1>20
<1>22. \A i \in 1 .. Len(b.history) : c.history[i] = b.history[i]
  BY <1>7, <1>13, <1>19, <1>21
<1>23. b.total - c.total = TotalAmount(b.positions) - TotalAmount(c.positions)
  BY <1>7, <1>11, <1>19
<1>24. \A k \in PositionKeys : c.positions[k] # b.positions[k] =>
          \E i \in Len(b.history) + 1 .. Len(c.history) : k = DirectKey(c.history[i].evidence.offender)
  BY <1>7, <1>17, <1>19, <1>21
<1>25. /\ \A i \in Len(b.history) + 1 .. Len(c.history) : c.history[i].evidence \in {ev}
       /\ \A i, j \in Len(b.history) + 1 .. Len(c.history) : i = j
  BY <1>7, <1>18, <1>21
<1>26. Len(c.history) >= Len(b.history)
  BY <1>15, <1>21
<1>27. Grown(b, c, {ev})
  BY <1>14, <1>22, <1>23, <1>24, <1>25, <1>26, Zenon DEF Grown
<1> QED BY <1>27 DEF c

LEMMA GrownSelf == ASSUME NEW b, BooksOK(b) PROVE Grown(b, b, {})
<1>1. b.history \in Seq(Events) /\ Len(b.history) \in Nat
  BY DEF BooksOK
<1>2. Len(b.history) + 1 .. Len(b.history) = {}
  BY <1>1
<1>3. b.treasury \in Int /\ b.total \in Int /\ TotalAmount(b.positions) \in Nat
  BY TotalIsSum DEF BooksOK
<1> QED BY <1>1, <1>2, <1>3 DEF Grown

LEMMA GrownMore ==
    ASSUME NEW b, NEW c, NEW S, NEW T, Grown(b, c, S), S \subseteq T
    PROVE  Grown(b, c, T)
BY DEF Grown

LEMMA ProcessGrows ==
    ASSUME NEW b, BooksOK(b), NEW ev \in Records
    PROVE  Grown(b, ProcessSingle(b, ev), {ev})
<1>1. CASE ev.offender \in DOMAIN b.validators
  BY <1>1, SlashGrows, GrownSelf, GrownMore DEF ProcessSingle
<1>2. CASE ev.offender \notin DOMAIN b.validators
  BY <1>2, GrownSelf, GrownMore DEF ProcessSingle
<1> QED BY <1>1, <1>2

LEMMA GrownTwice ==
    ASSUME NEW b, NEW c, NEW d, NEW S, NEW T, BooksOK(b), Grown(b, c, S), Grown(c, d, T),
           S \cap T = {}
    PROVE  Grown(b, d, S \cup T)
<1> DEFINE l == Len(b.history)
           m == Len(c.history)
           n == Len(d.history)
<1>1. BooksOK(b) /\ BooksOK(c) /\ BooksOK(d)
  BY DEF Grown
<1>2. l \in Nat /\ m \in Nat /\ n \in Nat
  BY <1>1 DEF BooksOK
<1>3. l <= m /\ m <= n
  BY DEF Grown
<1>4. /\ TotalAmount(b.positions) \in Nat /\ TotalAmount(c.positions) \in Nat
      /\ TotalAmount(d.positions) \in Nat
  BY <1>1, TotalIsSum DEF BooksOK
<1>5. /\ b.treasury \in Int /\ c.treasury \in Int /\ d.treasury \in Int
      /\ b.total \in Int /\ c.total \in Int /\ d.total \in Int
  BY <1>1 DEF BooksOK
<1>6. /\ \A i \in 1 .. l : c.history[i] = b.history[i]
      /\ \A key \in PositionKeys : c.positions[key] # b.positions[key] =>
            \E i \in l + 1 .. m : key = DirectKey(c.history[i].evidence.offender)
      /\ \A i \in l + 1 .. m : c.history[i].evidence \in S
      /\ \A i, j \in l + 1 .. m : c.history[i].evidence = c.history[j].evidence => i = j
  BY DEF Grown
<1>7. /\ \A i \in 1 .. m : d.history[i] = c.history[i]
      /\ \A key \in PositionKeys : d.positions[key] # c.positions[key] =>
            \E i \in m + 1 .. n : key = DirectKey(d.history[i].evidence.offender)
      /\ \A i \in m + 1 .. n : d.history[i].evidence \in T
      /\ \A i, j \in m + 1 .. n : d.history[i].evidence = d.history[j].evidence => i = j
  BY DEF Grown
<1>8. b.total - d.total = TotalAmount(b.positions) - TotalAmount(d.positions)
  <2>1. /\ b.total - c.total = TotalAmount(b.positions) - TotalAmount(c.positions)
        /\ c.total - d.total = TotalAmount(c.positions) - TotalAmount(d.positions)
    BY DEF Grown
  <2> QED BY <1>4, <1>5, <2>1
<1> HIDE DEF l, m, n
<1>9. /\ n >= l
      /\ \A i \in 1 .. l : i \in 1 .. m
      /\ \A i \in l + 1 .. m : i \in 1 .. m /\ i \in l + 1 .. n
      /\ \A i \in m + 1 .. n : i \in l + 1 .. n
      /\ \A i \in l + 1 .. n : i \in l + 1 .. m \/ i \in m + 1 .. n
  BY <1>2, <1>3
<1>10. \A i \in 1 .. l : d.history[i] = b.history[i]
  BY <1>6, <1>7, <1>9
<1>11. \A i \in l + 1 .. m : d.history[i] = c.history[i] /\ d.history[i].evidence \in S
  BY <1>6, <1>7, <1>9
<1>12. \A i \in l + 1 .. n : d.history[i].evidence \in S \cup T
  BY <1>7, <1>9, <1>11
<1>13. ASSUME NEW key \in PositionKeys, d.positions[key] # b.positions[key]
       PROVE  \E i \in l + 1 .. n : key = DirectKey(d.history[i].evidence.offender)
  <2>1. CASE d.positions[key] # c.positions[key]
    BY <1>7, <1>9, <2>1
  <2>2. CASE d.positions[key] = c.positions[key]
    <3>1. PICK i \in l + 1 .. m : key = DirectKey(c.history[i].evidence.offender)
      BY <1>6, <1>13, <2>2
    <3> QED BY <1>9, <1>11, <3>1
  <2> QED BY <2>1, <2>2
<1>14. ASSUME NEW i \in l + 1 .. n, NEW j \in l + 1 .. n,
              d.history[i].evidence = d.history[j].evidence
       PROVE  i = j
  <2>1. CASE i \in l + 1 .. m /\ j \in l + 1 .. m
    BY <1>6, <1>11, <1>14, <2>1
  <2>2. CASE i \in m + 1 .. n /\ j \in m + 1 .. n
    BY <1>7, <1>14, <2>2
  <2>3. CASE i \in l + 1 .. m /\ j \in m + 1 .. n
    BY <1>7, <1>11, <1>14, <2>3
  <2>4. CASE i \in m + 1 .. n /\ j \in l + 1 .. m
    BY <1>7, <1>11, <1>14, <2>4
  <2> QED BY <1>9, <2>1, <2>2, <2>3, <2>4
<1>15. l = Len(b.history) /\ n = Len(d.history)
  BY DEF l, n
<1> QED BY <1>1, <1>8, <1>9, <1>10, <1>12, <1>13, <1>14, <1>15, Zenon DEF Grown

(* process_all_evidence: what the first i records leave. *)
Processed(b, order, n, k) ==
    k = [i \in 0 .. n |-> IF i = 0 THEN b ELSE ProcessSingle(k[i - 1], order[i])]

LEMMA ProcessedExists ==
    ASSUME NEW b, NEW order, NEW n \in Nat
    PROVE  \E k : Processed(b, order, n, k)
<1> DEFINE N == {m \in Nat : \E k : Processed(b, order, m, k)}
<1>1. 0 \in N
  <2> DEFINE k == [i \in 0 .. 0 |-> b]
  <2>1. Processed(b, order, 0, k)
    BY DEF Processed
  <2> HIDE DEF k
  <2> QED BY <2>1
<1>2. ASSUME NEW m \in N PROVE m + 1 \in N
  <2> m \in Nat
    OBVIOUS
  <2>1. PICK k : Processed(b, order, m, k)
    OBVIOUS
  <2> DEFINE h == [i \in 0 .. m + 1 |-> IF i = 0 THEN b ELSE ProcessSingle(k[i - 1], order[i])]
  <2>2. ASSUME NEW i \in 0 .. m PROVE h[i] = k[i]
    <3>1. i \in 0 .. m + 1
      OBVIOUS
    <3>2. k[i] = IF i = 0 THEN b ELSE ProcessSingle(k[i - 1], order[i])
      BY <2>1 DEF Processed
    <3> QED BY <3>1, <3>2
  <2>3. ASSUME NEW i \in 0 .. m + 1, i # 0 PROVE h[i - 1] = k[i - 1]
    <3>1. i - 1 \in 0 .. m
      BY <2>3
    <3> HIDE DEF h
    <3> QED BY <2>2, <3>1
  <2>4. Processed(b, order, m + 1, h)
    BY <2>3 DEF Processed
  <2> HIDE DEF h
  <2> QED BY <2>4
<1>3. N = Nat
  <2> HIDE DEF N
  <2>1. N \in SUBSET Nat
    BY DEF N
  <2> QED BY <1>1, <1>2, <2>1, NatInductive
<1> QED BY <1>3

(* Whatever the order in which the pending records are processed. *)
LEMMA OrderGrows ==
    ASSUME NEW b, BooksOK(b), NEW n \in Nat, NEW order \in [1 .. n -> Records],
           \A i, j \in 1 .. n : i # j => order[i] # order[j]
    PROVE  Grown(b, ProcessInOrder(b, order), {order[i] : i \in 1 .. n})
<1>1. Len(order) = n
  OBVIOUS
<1> DEFINE k == CHOOSE kk : Processed(b, order, n, kk)
<1>2. ProcessInOrder(b, order) = k[n]
  <2>1. ProcessInOrder(b, order) = (CHOOSE kk : Processed(b, order, Len(order), kk))[Len(order)]
    BY DEF ProcessInOrder, Processed
  <2> QED BY <1>1, <2>1
<1>3. Processed(b, order, n, k)
  BY ProcessedExists
<1> HIDE DEF k
<1>4. k[0] = b /\ \A i \in 1 .. n : k[i] = ProcessSingle(k[i - 1], order[i])
  BY <1>3 DEF Processed
<1> DEFINE S(i) == {order[j] : j \in 1 .. i}
           N == {i \in Nat : i <= n => Grown(b, k[i], S(i))}
<1>5. 0 \in N
  <2>1. S(0) = {}
    OBVIOUS
  <2> HIDE DEF S
  <2> QED BY <1>4, <2>1, GrownSelf
<1>6. ASSUME NEW i \in N PROVE i + 1 \in N
  <2> SUFFICES ASSUME i + 1 <= n PROVE Grown(b, k[i + 1], S(i + 1))
    OBVIOUS
  <2>1. i \in Nat /\ i <= n /\ i + 1 \in 1 .. n /\ (i + 1) - 1 = i
    OBVIOUS
  <2>2. Grown(b, k[i], S(i))
    BY <2>1
  <2>3. order[i + 1] \in Records /\ order[i + 1] \notin S(i) /\ S(i + 1) = S(i) \cup {order[i + 1]}
    BY <2>1
  <2> HIDE DEF S, N
  <2>4. k[i + 1] = ProcessSingle(k[i], order[i + 1])
    BY <1>4, <2>1
  <2>5. BooksOK(k[i])
    BY <2>2 DEF Grown
  <2>6. Grown(k[i], k[i + 1], {order[i + 1]})
    BY <2>3, <2>4, <2>5, ProcessGrows
  <2>7. S(i) \cap {order[i + 1]} = {}
    BY <2>3
  <2>8. Grown(b, k[i + 1], S(i) \cup {order[i + 1]})
    BY <2>2, <2>6, <2>7, GrownTwice
  <2> QED BY <2>3, <2>8
<1>7. N = Nat
  <2> HIDE DEF N
  <2>1. N \in SUBSET Nat
    BY DEF N
  <2> QED BY <1>5, <1>6, <2>1, NatInductive
<1> HIDE DEF S
<1>8. Grown(b, k[n], S(n))
  BY <1>7
<1> QED BY <1>2, <1>8 DEF S

-----------------------------------------------------------------------------
(* The evidence pool holds submitted records. *)
EvidenceOK ==
    /\ DOMAIN evidencePool \subseteq Evidence /\ IsFiniteSet(DOMAIN evidencePool)
    /\ \A e \in DOMAIN evidencePool : evidencePool[e] \in BOOLEAN

(* A submitted record that was punished is marked as processed, ... *)
Marked ==
    \A i \in DOMAIN slashHistory :
        LET e == slashHistory[i].evidence IN
        e.data # DirectData => e \in DOMAIN evidencePool /\ evidencePool[e]

(* ... and was punished once. *)
Once ==
    \A i, j \in DOMAIN slashHistory :
        /\ slashHistory[i].evidence.data # DirectData
        /\ slashHistory[i].evidence = slashHistory[j].evidence
        => i = j

EngineInv == BooksOK(Books) /\ epoch \in Nat /\ EvidenceOK /\ Marked /\ Once

LEMMA BooksOfOK ==
    ASSUME NEW v, NEW p, NEW t, NEW h, NEW g,
           SetOK(v), p \in Pools, t \in Int, h \in Seq(Events), g \in Int
    PROVE  BooksOK(BooksOf(v, p, t, h, g))
<1> DEFINE b == BooksOf(v, p, t, h, g)
<1>1. b.validators = v /\ b.positions = p /\ b.total = t /\ b.history = h /\ b.treasury = g
  BY DEF BooksOf
<1>2. b = BooksOf(b.validators, b.positions, b.total, b.history, b.treasury)
  BY <1>1
<1> HIDE DEF b
<1>3. BooksOK(b)
  BY <1>1, <1>2 DEF BooksOK
<1> QED BY <1>3 DEF b

LEMMA BooksParts ==
    /\ BooksOK(Books) => /\ SetOK(validators) /\ positions \in Pools /\ totalStaked \in Int
                         /\ slashHistory \in Seq(Events) /\ treasury \in Int
    /\ Books.validators = validators /\ Books.positions = positions /\ Books.total = totalStaked
    /\ Books.history = slashHistory /\ Books.treasury = treasury
<1>1. /\ Books.validators = validators /\ Books.positions = positions /\ Books.total = totalStaked
      /\ Books.history = slashHistory /\ Books.treasury = treasury
  BY DEF Books
<1> QED BY <1>1, Zenon DEF BooksOK

(* The books follow, and the history with them, when pending records are punished
   and marked.                                                               *)
LEMMA PostStep ==
    ASSUME EngineInv, NEW c, NEW S, Grown(Books, c, S), Post(c),
           \A e \in S : \/ e.data = DirectData
                        \/ /\ e \in DOMAIN evidencePool /\ ~ evidencePool[e]
                           /\ e \in DOMAIN evidencePool' /\ evidencePool'[e],
           \A e \in DOMAIN evidencePool : /\ e \in DOMAIN evidencePool'
                                          /\ evidencePool[e] => evidencePool'[e]
    PROVE  BooksOK(Books)' /\ epoch' \in Nat /\ Marked' /\ Once'
<1> DEFINE m == Len(slashHistory)
           n == Len(slashHistory')
<1>1. /\ validators' = c.validators /\ positions' = c.positions /\ totalStaked' = c.total
      /\ slashHistory' = c.history /\ treasury' = c.treasury /\ epoch' = epoch
  BY DEF Post
<1>2. BooksOK(c)
  BY DEF Grown
<1>3. BooksOK(Books)'
  <2>1. /\ SetOK(validators') /\ positions' \in Pools /\ totalStaked' \in Int
        /\ slashHistory' \in Seq(Events) /\ treasury' \in Int
    BY <1>1, <1>2 DEF BooksOK
  <2> QED BY <2>1, BooksOfOK DEF Books, BooksOf
<1>4. slashHistory \in Seq(Events) /\ slashHistory' \in Seq(Events)
  BY <1>1, <1>2, BooksParts DEF EngineInv, BooksOK
<1>5. /\ m \in Nat /\ n \in Nat /\ DOMAIN slashHistory = 1 .. m /\ DOMAIN slashHistory' = 1 .. n
  BY <1>4
<1>6. /\ n >= m
      /\ \A i \in 1 .. m : slashHistory'[i] = slashHistory[i]
      /\ \A i \in m + 1 .. n : slashHistory'[i].evidence \in S
      /\ \A i, j \in m + 1 .. n : slashHistory'[i].evidence = slashHistory'[j].evidence => i = j
  BY <1>1, BooksParts DEF Grown
<1> HIDE DEF m, n
<1>7. \A i \in 1 .. n : i \in 1 .. m \/ i \in m + 1 .. n
  BY <1>5
<1>8. \A i \in 1 .. m : LET e == slashHistory'[i].evidence IN
         e.data # DirectData => e \in DOMAIN evidencePool /\ evidencePool[e]
  BY <1>5, <1>6 DEF EngineInv, Marked
<1>9. \A i \in m + 1 .. n : LET e == slashHistory'[i].evidence IN
         e.data # DirectData => /\ e \in DOMAIN evidencePool /\ ~ evidencePool[e]
                       /\ e \in DOMAIN evidencePool' /\ evidencePool'[e]
  BY <1>6
<1>10. Marked'
  BY <1>5, <1>7, <1>8, <1>9 DEF Marked
<1>11. ASSUME NEW i \in 1 .. n, NEW j \in 1 .. n, slashHistory'[i].evidence.data # DirectData,
              slashHistory'[i].evidence = slashHistory'[j].evidence
       PROVE  i = j
  <2>1. CASE i \in 1 .. m /\ j \in 1 .. m
    BY <1>5, <1>6, <1>11, <2>1 DEF EngineInv, Once
  <2>2. CASE i \in m + 1 .. n /\ j \in m + 1 .. n
    BY <1>6, <1>11, <2>2
  <2>3. CASE i \in 1 .. m /\ j \in m + 1 .. n
    BY <1>8, <1>9, <1>11, <2>3
  <2>4. CASE i \in m + 1 .. n /\ j \in 1 .. m
    BY <1>8, <1>9, <1>11, <2>4
  <2> QED BY <1>7, <2>1, <2>2, <2>3, <2>4
<1>12. Once'
  BY <1>5, <1>11 DEF Once
<1> QED BY <1>1, <1>3, <1>10, <1>12 DEF EngineInv

LEMMA EngineInit == Init => EngineInv
<1> SUFFICES ASSUME Init PROVE EngineInv
  OBVIOUS
<1>1. positions \in Pools /\ totalStaked \in Int /\ epoch \in Nat
  BY PoolInit DEF Init, PoolType
<1>2. SetOK(validators) /\ slashHistory \in Seq(Events) /\ treasury \in Int
  BY DEF Init, SetInit, SetOK
<1>3. DOMAIN evidencePool = {} /\ DOMAIN slashHistory = {}
  BY DEF Init
<1>4. IsFiniteSet({})
  BY FS_EmptySet
<1>5. BooksOK(Books)
  BY <1>1, <1>2, BooksOfOK DEF Books, BooksOf
<1> QED BY <1>1, <1>3, <1>4, <1>5 DEF EngineInv, EvidenceOK, Marked, Once

(* Steps of pool and set leave the engine's own state alone. *)
LEMMA OtherSteps ==
    ASSUME EngineInv, UNCHANGED engineVars, SetOK(validators'), positions' \in Pools,
           totalStaked' \in Int, epoch' \in Nat
    PROVE  EngineInv'
<1>1. /\ slashHistory' = slashHistory /\ treasury' = treasury /\ evidencePool' = evidencePool
  BY DEF engineVars
<1>2. slashHistory \in Seq(Events) /\ treasury \in Int
  BY BooksParts DEF EngineInv
<1>3. BooksOK(Books)'
  BY <1>1, <1>2, BooksOfOK DEF Books, BooksOf
<1> QED BY <1>1, <1>3 DEF EngineInv, EvidenceOK, Marked, Once

LEMMA SetOKNext ==
    ASSUME SetOK(validators),
           \/ \E k \in Keys, stake \in Stakes : RegisterValidator(k, stake)
           \/ \E k \in Keys : DeregisterValidator(k) \/ Unjail(k)
           \/ \E pow : EpochRotation(pow)
           \/ RotateSwap
           \/ RotateFill
    PROVE  SetOK(validators')
<1>0. \A r \in ValidatorInfo, s \in Statuses : [r EXCEPT !.status = s] \in ValidatorInfo
  BY DEF ValidatorInfo
<1>1. CASE \E k \in Keys, stake \in Stakes : RegisterValidator(k, stake)
  BY <1>1, ConfigAssumption DEF RegisterValidator, SetOK, ValidatorInfo, Statuses
<1>2. CASE \E k \in Keys : DeregisterValidator(k) \/ Unjail(k)
  <2>1. "Standby" \in Statuses
    BY DEF Statuses
  <2> QED BY <1>0, <1>2, <2>1 DEF DeregisterValidator, Unjail, SetOK
<1>3. CASE \E pow : EpochRotation(pow)
  BY <1>3 DEF EpochRotation
<1>4. CASE RotateSwap
  <2> DEFINE w == WeakestActive(rotation[1])
             s == StrongestStandby(rotation[1])
             v == [validators EXCEPT ![w].status = "Standby"]
  <2>1. "Standby" \in Statuses /\ "Active" \in Statuses
    BY DEF Statuses
  <2>2. validators' = [v EXCEPT ![s].status = "Active"]
    BY <1>4 DEF RotateSwap
  <2> HIDE DEF w, s
  <2>3. SetOK(v)
    BY <1>0, <2>1 DEF SetOK
  <2> HIDE DEF v
  <2> QED BY <1>0, <2>1, <2>2, <2>3 DEF SetOK
<1>5. CASE RotateFill
  <2>1. "Active" \in Statuses
    BY DEF Statuses
  <2>2. CASE UNCHANGED validators
    BY <2>2
  <2>3. ASSUME NEW top, validators' = [k \in DOMAIN validators |->
                            IF k \in top THEN [validators[k] EXCEPT !.status = "Active"]
                                         ELSE validators[k]]
        PROVE  SetOK(validators')
    BY <1>0, <2>1, <2>3 DEF SetOK
  <2> QED BY <1>5, <2>2, <2>3 DEF RotateFill
<1> QED BY <1>1, <1>2, <1>3, <1>4, <1>5

(* The records that process_all_evidence goes through. *)
LEMMA PendingOrder ==
    ASSUME EvidenceOK, NEW order \in SetToSeqs(PendingEvidence)
    PROVE  LET n == Cardinality(PendingEvidence) IN
           /\ n \in Nat
           /\ order \in [1 .. n -> PendingEvidence] /\ order \in [1 .. n -> Records]
           /\ \A i, j \in 1 .. n : i # j => order[i] # order[j]
<1>1. PendingEvidence \subseteq DOMAIN evidencePool /\ PendingEvidence \subseteq Records
  BY EvidenceAssumption DEF EvidenceOK, PendingEvidence, Records, EvidenceRecords
<1>2. Cardinality(PendingEvidence) \in Nat
  BY <1>1, FS_Subset, FS_CardinalityType DEF EvidenceOK
<1>3. /\ order \in [1 .. Cardinality(PendingEvidence) -> PendingEvidence]
      /\ \A i, j \in 1 .. Cardinality(PendingEvidence) : i # j => order[i] # order[j]
  BY DEF SetToSeqs
<1> QED BY <1>1, <1>2, <1>3

(* A step that slashes: the books grow by the records in S. *)
Slashes(c, S) == Grown(Books, c, S) /\ Post(c)

LEMMA ProcessStep ==
    ASSUME EngineInv, ProcessAllEvidence
    PROVE  EngineInv' /\ \E c, S : Slashes(c, S)
<1>1. PICK order \in SetToSeqs(PendingEvidence) : Post(ProcessInOrder(Books, order))
  BY DEF ProcessAllEvidence
<1> DEFINE n == Cardinality(PendingEvidence)
           c == ProcessInOrder(Books, order)
           S == {order[i] : i \in 1 .. n}
<1>2. /\ n \in Nat
      /\ order \in [1 .. n -> PendingEvidence] /\ order \in [1 .. n -> Records]
      /\ \A i, j \in 1 .. n : i # j => order[i] # order[j]
  BY <1>1, PendingOrder DEF EngineInv
<1> HIDE DEF n
<1>3. Grown(Books, c, S)
  BY <1>2, OrderGrows DEF EngineInv
<1>4. \A e \in S : e \in PendingEvidence
  BY <1>2
<1> HIDE DEF c, S
<1>5. Post(c)
  BY <1>1 DEF c
<1>6. evidencePool' = MarkProcessed(evidencePool, PendingEvidence)
  BY DEF ProcessAllEvidence
<1>7. /\ DOMAIN evidencePool' = DOMAIN evidencePool
      /\ \A e \in DOMAIN evidencePool : evidencePool'[e] = (e \in PendingEvidence \/ evidencePool[e])
  BY <1>6 DEF MarkProcessed
<1>8. \A e \in S : \/ e.data = DirectData
                   \/ /\ e \in DOMAIN evidencePool /\ ~ evidencePool[e]
                      /\ e \in DOMAIN evidencePool' /\ evidencePool'[e]
  BY <1>4, <1>7 DEF PendingEvidence
<1>9. \A e \in DOMAIN evidencePool : /\ e \in DOMAIN evidencePool'
                                     /\ evidencePool[e] => evidencePool'[e]
  BY <1>7
<1>10. BooksOK(Books)' /\ epoch' \in Nat /\ Marked' /\ Once'
  BY <1>3, <1>5, <1>8, <1>9, PostStep
<1>11. EvidenceOK'
  BY <1>7 DEF EngineInv, EvidenceOK
<1>12. Slashes(c, S)
  BY <1>3, <1>5 DEF Slashes
<1> QED BY <1>10, <1>11, <1>12 DEF EngineInv

LEMMA DirectRecord ==
    ASSUME NEW r \in Evidence
    PROVE  LET ev == [offender |-> r.offender, offense |-> r.offense, height |-> r.height,
                      data |-> DirectData]
           IN  ev \in Records /\ ev.data = DirectData
<1>1. DirectData \in Payloads \cup {NoData, DirectData}
  OBVIOUS
<1>2. r.offender \in Keys /\ r.offense \in DOMAIN SlashBps /\ r.height \in Nat
  BY EvidenceAssumption DEF EvidenceRecords
<1> QED BY <1>1, <1>2 DEF Records, EvidenceRecords

LEMMA SlashStep ==
    ASSUME EngineInv, NEW r \in Evidence, SlashValidator(r.offender, r.offense, r.height)
    PROVE  EngineInv' /\ \E c, S : Slashes(c, S)
<1> DEFINE ev == [offender |-> r.offender, offense |-> r.offense, height |-> r.height,
                  data |-> DirectData]
           c == Slash(Books, ev)
<1>1. ev \in Records /\ ev.data = DirectData
  BY DirectRecord
<1>2. ev.offender \in DOMAIN validators /\ Post(c) /\ evidencePool' = evidencePool
  BY DEF SlashValidator
<1> HIDE DEF ev
<1>3. Grown(Books, c, {ev})
  BY <1>1, <1>2, SlashGrows, BooksParts DEF EngineInv
<1> HIDE DEF c
<1>4. BooksOK(Books)' /\ epoch' \in Nat /\ Marked' /\ Once'
  BY <1>1, <1>2, <1>3, PostStep
<1>5. EvidenceOK'
  BY <1>2 DEF EngineInv, EvidenceOK
<1>6. Slashes(c, {ev})
  BY <1>2, <1>3 DEF Slashes
<1> QED BY <1>4, <1>5, <1>6 DEF EngineInv

LEMMA SubmitStep ==
    ASSUME EngineInv, NEW ev \in Evidence, NEW processed \in BOOLEAN, SubmitEvidence(ev, processed)
    PROVE  EngineInv'
<1>1. /\ UNCHANGED <<positions, totalStaked, epoch, validators, slashHistory, treasury>>
      /\ DOMAIN evidencePool' = DOMAIN evidencePool \cup {ev} /\ ev \notin DOMAIN evidencePool
      /\ \A e \in DOMAIN evidencePool : evidencePool'[e] = evidencePool[e]
      /\ evidencePool'[ev] = processed
  BY DEF SubmitEvidence, stakingVars, setVars
<1>2. IsFiniteSet(DOMAIN evidencePool \cup {ev})
  BY FS_AddElement DEF EngineInv, EvidenceOK
<1>3. EvidenceOK'
  BY <1>1, <1>2 DEF EngineInv, EvidenceOK
<1>4. BooksOK(Books)'
  BY <1>1 DEF EngineInv, Books
<1> QED BY <1>1, <1>3, <1>4 DEF EngineInv, Marked, Once

(* The steps that do not slash. *)
LEMMA PlainStep ==
    ASSUME EngineInv, [Next]_vars,
           ~ ProcessAllEvidence,
           ~ \E ev \in Evidence : SlashValidator(ev.offender, ev.offense, ev.height)
    PROVE  EngineInv' /\ UNCHANGED slashHistory
<1>1. SetOK(validators) /\ positions \in Pools /\ totalStaked \in Int /\ epoch \in Nat
  BY BooksParts DEF EngineInv
<1>2. CASE StakingNext /\ rotation = <<>> /\ UNCHANGED <<setVars, engineVars>>
  <2>1. PoolType'
    BY <1>1, <1>2, PoolTypeNext DEF PoolType
  <2>2. validators' = validators /\ UNCHANGED engineVars
    BY <1>2 DEF setVars
  <2> QED BY <1>1, <2>1, <2>2, OtherSteps DEF PoolType, engineVars
<1>3. CASE /\ \/ \E k \in Keys, stake \in Stakes : RegisterValidator(k, stake)
              \/ \E k \in Keys : DeregisterValidator(k) \/ Unjail(k)
              \/ EpochRotation(VotingPowers)
              \/ RotateSwap
              \/ RotateFill
           /\ UNCHANGED <<stakingVars, engineVars>>
  <2>1. SetOK(validators')
    BY <1>1, <1>3, SetOKNext
  <2>2. UNCHANGED <<positions, totalStaked, epoch>> /\ UNCHANGED engineVars
    BY <1>3 DEF stakingVars
  <2> QED BY <1>1, <2>1, <2>2, OtherSteps DEF engineVars
<1>4. CASE \E ev \in Evidence, processed \in BOOLEAN : SubmitEvidence(ev, processed)
  BY <1>4, SubmitStep DEF SubmitEvidence
<1>5. CASE UNCHANGED vars
  <2>1. UNCHANGED <<positions, totalStaked, epoch, validators>> /\ UNCHANGED engineVars
    BY <1>5 DEF vars, stakingVars, setVars
  <2> QED BY <1>1, <2>1, OtherSteps DEF engineVars
<1> QED BY <1>2, <1>3, <1>4, <1>5 DEF Next

LEMMA EngineNext == EngineInv /\ [Next]_vars => EngineInv'
BY PlainStep, ProcessStep, SlashStep

(* For any evidence, stakes and validator sets: a submitted record is punished at
   most once, in whatever order HashMaps hand the pending records out, whatever
   slash_validator does besides and whoever leaves and comes back.           *)
THEOREM EvidencePunishedOnce == Spec => []PunishedOnce
<1>1. EngineInv => PunishedOnce
  <2> SUFFICES ASSUME EngineInv, NEW ev \in Evidence, ev.data # DirectData
               PROVE  Cardinality({i \in DOMAIN slashHistory : slashHistory[i].evidence = ev}) <= 1
    BY DEF PunishedOnce
  <2> DEFINE I == {i \in DOMAIN slashHistory : slashHistory[i].evidence = ev}
  <2>2. \A i, j \in I : i = j
    BY DEF EngineInv, Once
  <2> HIDE DEF I
  <2>3. CASE I = {}
    BY <2>3, FS_EmptySet DEF I
  <2>4. CASE I # {}
    <3>1. PICK i \in I : I = {i}
      BY <2>2, <2>4
    <3>2. Cardinality(I) = 1
      BY <3>1, FS_Singleton
    <3> QED BY <3>2 DEF I
  <2> QED BY <2>3, <2>4
<1> QED BY <1>1, EngineInit, EngineNext, PTL DEF Spec

(* What a step that slashes does to positions and total. *)
LEMMA SlashingStep ==
    ASSUME EngineInv, [Next]_vars, slashHistory' # slashHistory
    PROVE  /\ \A key \in PositionKeys : positions'[key] # positions[key] =>
                 \E i \in (DOMAIN slashHistory') \ DOMAIN slashHistory :
                    key = DirectKey(slashHistory'[i].evidence.offender)
           /\ totalStaked - totalStaked' = TotalAmount(positions) - TotalAmount(positions')
<1>1. PICK c, S : Slashes(c, S)
  BY PlainStep, ProcessStep, SlashStep
<1>2. Grown(Books, c, S) /\ BooksOK(c)
  BY <1>1 DEF Slashes, Grown
<1>3. /\ positions' = c.positions /\ totalStaked' = c.total /\ slashHistory' = c.history
      /\ treasury' = c.treasury
  BY <1>1 DEF Slashes, Post
<1>4. slashHistory \in Seq(Events) /\ slashHistory' \in Seq(Events)
  BY <1>2, <1>3, BooksParts DEF EngineInv, BooksOK
<1>5. \A i \in Len(slashHistory) + 1 .. Len(slashHistory') :
         i \in (DOMAIN slashHistory') \ DOMAIN slashHistory
  BY <1>4
<1>6. \A key \in PositionKeys : positions'[key] # positions[key] =>
         \E i \in Len(slashHistory) + 1 .. Len(slashHistory') :
            key = DirectKey(slashHistory'[i].evidence.offender)
  BY <1>2, <1>3, BooksParts DEF Grown
<1>7. totalStaked - totalStaked' = TotalAmount(positions) - TotalAmount(positions')
  BY <1>2, <1>3, BooksParts DEF Grown
<1> QED BY <1>5, <1>6, <1>7

(* For any pool: a slash changes the offenders' own positions and no others. *)
THEOREM DelegatorsAreSafe == Spec => DelegatorsNeverSlashed
<1> DEFINE Safe == slashHistory' # slashHistory =>
              LET offenders == {slashHistory'[i].evidence.offender :
                                   i \in (DOMAIN slashHistory') \ DOMAIN slashHistory}
              IN  \A key \in PositionKeys \ {DirectKey(k) : k \in offenders} :
                     positions'[key] = positions[key]
<1>1. EngineInv /\ [Next]_vars => [Safe]_vars
  <2> SUFFICES ASSUME EngineInv, [Next]_vars, slashHistory' # slashHistory PROVE Safe
    OBVIOUS
  <2>1. \A key \in PositionKeys : positions'[key] # positions[key] =>
           \E i \in (DOMAIN slashHistory') \ DOMAIN slashHistory :
              key = DirectKey(slashHistory'[i].evidence.offender)
    BY SlashingStep
  <2> QED BY <2>1
<1> QED BY <1>1, EngineInit, EngineNext, PTL DEF Spec, DelegatorsNeverSlashed

-----------------------------------------------------------------------------
(***************************************************************************)
(* Processing orders.  A slash multiplies a recorded stake by a factor and *)
(* rounds up.  Without the rounding the product of the factors, which has  *)
(* no order, would decide: Excess is what the rounding adds, scaled to     *)
(* integers, and grows by less than one unit per record over all stakes.   *)
(***************************************************************************)
(* The stakes s are exact / w rounded up, n times. *)
Excess(D, s, w, exact) == [k \in D |-> w * s[k] - exact[k]]

Close(D, s, w, exact, n) ==
    /\ \A k \in D : s[k] \in Nat /\ exact[k] \in Nat /\ exact[k] <= w * s[k]
    /\ \/ SumFunctionOnSet(Excess(D, s, w, exact), D) < n * w
       \/ n = 0 /\ SumFunctionOnSet(Excess(D, s, w, exact), D) = 0

Exceeds(D, s, w, exact, e) ==
    \A k \in D : s[k] \in Nat /\ exact[k] \in Nat /\ e[k] \in Nat /\ e[k] = w * s[k] - exact[k]

LEMMA ExcessIsNat ==
    ASSUME NEW D, NEW s, NEW w \in Nat, NEW exact, NEW n \in Nat, Close(D, s, w, exact, n)
    PROVE  Exceeds(D, s, w, exact, Excess(D, s, w, exact))
<1> SUFFICES ASSUME NEW k \in D
             PROVE  /\ s[k] \in Nat /\ exact[k] \in Nat
                    /\ Excess(D, s, w, exact)[k] \in Nat
                    /\ Excess(D, s, w, exact)[k] = w * s[k] - exact[k]
  BY DEF Exceeds
<1>1. s[k] \in Nat /\ exact[k] \in Nat /\ exact[k] <= w * s[k]
  BY DEF Close
<1>2. Excess(D, s, w, exact)[k] = w * s[k] - exact[k]
  BY DEF Excess
<1> QED BY <1>1, <1>2

(* y is x times f / 10000, rounded up. *)
RoundedCut(x, y, f) ==
    f \in 0 .. 10000 /\ y \in Nat /\ f * x <= 10000 * y /\ 10000 * y < f * x + 10000

(* One stake is cut by a factor f / 10000 and rounded; exact grows by 10000. *)
RoundsUp(D, o, f, s, exact, s2, exact2) ==
    /\ \A k \in D \ {o} : s2[k] = s[k] /\ exact2[k] = 10000 * exact[k]
    /\ o \in D => exact2[o] = f * exact[o] /\ RoundedCut(s[o], s2[o], f)

LEMMA CloseStep ==
    ASSUME NEW D, IsFiniteSet(D), NEW s, NEW w \in Nat \ {0}, NEW exact, NEW n \in Nat,
           Close(D, s, w, exact, n),
           NEW o, NEW f, NEW s2, NEW exact2,
           RoundsUp(D, o, f, s, exact, s2, exact2)
    PROVE  Close(D, s2, 10000 * w, exact2, n + 1)
<1> DEFINE e == Excess(D, s, w, exact)
           w2 == 10000 * w
           e2 == Excess(D, s2, w2, exact2)
<1>1. \A k \in D : s[k] \in Nat /\ exact[k] \in Nat /\ e[k] \in Nat /\ e[k] = w * s[k] - exact[k]
  <2>1. w \in Nat
    OBVIOUS
  <2>2. Exceeds(D, s, w, exact, e)
    BY <2>1, ExcessIsNat
  <2> QED BY <2>2 DEF Exceeds
<1>2. \A k \in D : e2[k] = w2 * s2[k] - exact2[k]
  BY DEF Excess
<1>3. SumFunctionOnSet(e, D) < n * w \/ (n = 0 /\ SumFunctionOnSet(e, D) = 0)
  BY DEF Close
<1> HIDE DEF e, e2
<1>4. ASSUME NEW k \in D \ {o}
      PROVE  /\ s2[k] \in Nat /\ exact2[k] \in Nat /\ exact2[k] <= w2 * s2[k]
             /\ e2[k] \in Nat /\ e2[k] = 10000 * e[k]
  <2>1. s2[k] = s[k] /\ exact2[k] = 10000 * exact[k] /\ e2[k] = w2 * s2[k] - exact2[k]
    BY <1>2 DEF RoundsUp
  <2>2. s[k] \in Nat /\ exact[k] \in Nat /\ e[k] \in Nat /\ e[k] = w * s[k] - exact[k]
    BY <1>1
  <2> DEFINE p == w * s[k]
  <2>3. w2 * s2[k] = 10000 * p /\ p \in Nat
    BY <2>1, <2>2
  <2> HIDE DEF p, w2
  <2>4. e[k] = p - exact[k]
    BY <2>2 DEF p
  <2> QED BY <2>1, <2>2, <2>3, <2>4
<1>5. ASSUME o \in D
      PROVE  /\ s2[o] \in Nat /\ exact2[o] \in Nat /\ exact2[o] <= w2 * s2[o]
             /\ e2[o] \in Nat /\ e2[o] <= 10000 * e[o] + 9999 * w
  <2> DEFINE a == s[o]
             b == s2[o]
             x == exact[o]
             y == e[o]
             p == w * a
             q == f * a
             u == f * x
             fy == f * y
             z == w2 * b
             gap == 10000 * b - q
             wg == w * gap
  <2>1. a \in Nat /\ b \in Nat /\ x \in Nat /\ y \in Nat /\ f \in Nat /\ f <= 10000 /\ w \in Nat
    <3>1. a \in Nat /\ x \in Nat /\ y \in Nat /\ w \in Nat
      BY <1>1, <1>5
    <3>2. b \in Nat /\ f \in 0 .. 10000
      BY <1>5 DEF RoundsUp, RoundedCut
    <3> HIDE DEF a, b, x, y
    <3> QED BY <3>1, <3>2
  <2>2. y = p - x /\ e2[o] = z - exact2[o]
    BY <1>1, <1>2, <1>5
  <2>3. exact2[o] = u /\ q <= 10000 * b /\ 10000 * b < q + 10000
    BY <1>5 DEF RoundsUp, RoundedCut
  <2> HIDE DEF a, b, x, y
  <2>4. p \in Nat /\ q \in Nat /\ u \in Nat /\ fy \in Nat /\ z \in Nat
    BY <2>1
  <2>5. fy <= 10000 * y
    BY <2>1, MulMono
  <2>6. f * p = w * q /\ z = w * (10000 * b)
    BY <2>1
  <2>7. gap \in Int /\ 0 <= gap /\ gap <= 9999
    <3> HIDE DEF p, u, fy, z, q
    <3> QED BY <2>1, <2>3, <2>4
  <2>8. wg \in Int /\ 0 <= wg /\ wg <= 9999 * w
    <3> HIDE DEF gap
    <3> QED BY <2>1, <2>7
  <2>9. wg = w * (10000 * b) - w * q
    <3> HIDE DEF q
    <3> QED BY <2>1, <2>4
  <2>10. f * p = u + fy
    <3>1. p = x + y
      <4> HIDE DEF p
      <4> QED BY <2>1, <2>2, <2>4
    <3>2. f * (x + y) = f * x + f * y
      BY <2>1
    <3> HIDE DEF p
    <3> QED BY <3>1, <3>2
  <2> DEFINE wq == w * q
             wb == w * (10000 * b)
  <2>11. wq \in Int /\ wb \in Int /\ wq = u + fy /\ z = wb /\ wg = wb - wq
    <3>1. wq \in Int /\ wb \in Int
      <4> HIDE DEF q
      <4> QED BY <2>1, <2>4
    <3>2. wq = u + fy /\ z = wb /\ wg = wb - wq
      <4> HIDE DEF p, q, u, fy, z, wg
      <4> QED BY <2>6, <2>9, <2>10
    <3> QED BY <3>1, <3>2
  <2> HIDE DEF wq, wb, wg, gap, p, q, u, fy, z
  <2>12. z = wg + (u + fy)
    BY <2>4, <2>8, <2>11
  <2>13. exact2[o] \in Nat /\ exact2[o] <= z /\ e2[o] \in Nat /\ e2[o] <= 10000 * y + 9999 * w
    BY <2>1, <2>2, <2>3, <2>4, <2>5, <2>8, <2>12
  <2> QED BY <2>1, <2>13 DEF b, y, z
<1>6. \A k \in D : /\ s2[k] \in Nat /\ exact2[k] \in Nat /\ exact2[k] <= w2 * s2[k] /\ e2[k] \in Nat
  <2> HIDE DEF w2
  <2> QED BY <1>4, <1>5
<1> DEFINE E(S) == SumFunctionOnSet(e, S)
           E2(S) == SumFunctionOnSet(e2, S)
           R == D \ {o}
<1>7. IsFiniteSet(R) /\ E(D) \in Nat /\ E2(D) \in Nat /\ E(R) \in Nat /\ E2(R) \in Nat
  <2>1. IsFiniteSet(R)
    BY FS_Subset
  <2>2. E(D) \in Nat /\ E2(D) \in Nat
    BY <1>1, <1>6, SumNat
  <2>3. E(R) \in Nat
    BY <1>1, <2>1, SumNat
  <2>4. E2(R) \in Nat
    BY <1>6, <2>1, SumNat
  <2> QED BY <2>1, <2>2, <2>3, <2>4
<1>8. E2(R) <= 10000 * E(R)
  <2>1. \A k \in R : e2[k] \in Int /\ e[k] \in Int /\ e2[k] = 10000 * e[k]
    BY <1>1, <1>4
  <2> DEFINE c == 10000
  <2>2. c \in Int /\ \A k \in R : e2[k] \in Int /\ e[k] \in Int /\ e2[k] = c * e[k]
    BY <2>1
  <2> HIDE DEF R, c
  <2>3. E2(R) = c * E(R)
    BY <1>7, <2>2, SumScaled
  <2> HIDE DEF E, E2
  <2> QED BY <1>7, <2>3 DEF c
<1>9. E2(D) <= 10000 * E(D) + 9999 * w
  <2>1. CASE o \in D
    <3>1. E(D) = e[o] + E(R)
      <4>1. \A k \in D : e[k] \in Int
        BY <1>1
      <4> QED BY <2>1, <4>1, SumSplit
    <3>2. E2(D) = e2[o] + E2(R)
      <4>1. \A k \in D : e2[k] \in Int
        BY <1>6
      <4> QED BY <2>1, <4>1, SumSplit
    <3>3. e[o] \in Nat /\ e2[o] \in Nat /\ e2[o] <= 10000 * e[o] + 9999 * w
      BY <1>1, <1>5, <2>1
    <3> HIDE DEF E, E2, R
    <3> QED BY <1>7, <1>8, <3>1, <3>2, <3>3
  <2>2. CASE o \notin D
    <3>1. R = D
      BY <2>2
    <3> HIDE DEF E, E2, R
    <3> QED BY <1>7, <1>8, <3>1
  <2> QED BY <2>1, <2>2
<1>10. E2(D) < (n + 1) * w2
  <2> DEFINE x == E(D)
             y == E2(D)
             v == n * w
  <2>1. /\ x \in Nat /\ y \in Nat /\ v \in Nat /\ y <= 10000 * x + 9999 * w
        /\ x < v \/ (n = 0 /\ x = 0)
    BY <1>3, <1>7, <1>9
  <2>2. (n + 1) * w2 = 10000 * v + 10000 * w
    OBVIOUS
  <2> HIDE DEF x, y, v, w2
  <2>3. y < 10000 * v + 10000 * w
    BY <2>1
  <2> QED BY <2>2, <2>3 DEF y
<1>11. \A k \in D : s2[k] \in Nat /\ exact2[k] \in Nat /\ exact2[k] <= w2 * s2[k]
  BY <1>6
<1>12. SumFunctionOnSet(Excess(D, s2, w2, exact2), D) < (n + 1) * w2
  BY <1>10 DEF e2
<1> HIDE DEF w2
<1>13. Close(D, s2, w2, exact2, n + 1)
  BY <1>11, <1>12 DEF Close
<1> QED BY <1>13 DEF w2

(* Two roundings of the same values are less than n apart, and so are their sums. *)
LEMMA CloseTwo ==
    ASSUME NEW D, IsFiniteSet(D), NEW w \in Nat \ {0}, NEW exact, NEW n \in Nat \ {0},
           NEW s, NEW r, Close(D, s, w, exact, n), Close(D, r, w, exact, n)
    PROVE  /\ \A k \in D : s[k] - r[k] < n
           /\ SumFunctionOnSet(s, D) - SumFunctionOnSet(r, D) < n
<1> DEFINE e == Excess(D, s, w, exact)
           g == Excess(D, r, w, exact)
           E == SumFunctionOnSet(e, D)
           G == SumFunctionOnSet(g, D)
<1>1. /\ \A k \in D : s[k] \in Nat /\ exact[k] \in Nat /\ e[k] \in Nat /\ e[k] = w * s[k] - exact[k]
      /\ \A k \in D : r[k] \in Nat /\ exact[k] \in Nat /\ g[k] \in Nat /\ g[k] = w * r[k] - exact[k]
  <2>1. w \in Nat /\ n \in Nat
    OBVIOUS
  <2>2. Exceeds(D, s, w, exact, e)
    BY <2>1, ExcessIsNat
  <2>3. Exceeds(D, r, w, exact, g)
    BY <2>1, ExcessIsNat
  <2> QED BY <2>2, <2>3 DEF Exceeds
<1>2. E < n * w /\ G < n * w
  BY DEF Close
<1> HIDE DEF e, g
<1>3. E \in Nat /\ G \in Nat
  BY <1>1, SumNat
<1>4. ASSUME NEW a \in Int, NEW b \in Int, NEW x \in Nat, NEW y \in Nat, NEW m \in Int,
             x < n * w, w * a = m + x, w * b = m + y
      PROVE  a - b < n
  <2>1. w * (a - b) = w * a - w * b /\ w * a \in Int /\ w * b \in Int /\ w * n = n * w /\ n * w \in Int
    OBVIOUS
  <2> DEFINE wa == w * a
             wb == w * b
             nw == n * w
  <2>2. wa = m + x /\ wb = m + y /\ x < nw /\ wa \in Int /\ wb \in Int /\ nw \in Int
    BY <1>4, <2>1
  <2> HIDE DEF wa, wb, nw
  <2>3. wa - wb < nw
    BY <2>2
  <2>4. w * (a - b) < w * n
    BY <2>1, <2>3 DEF wa, wb, nw
  <2> QED BY <2>4, MulCancel
<1>5. ASSUME NEW k \in D PROVE s[k] - r[k] < n
  <2>1. e[k] <= E
    BY <1>1, SumBoundsTerm
  <2> DEFINE x == e[k]
             y == g[k]
             a == s[k]
             b == r[k]
             m == exact[k]
             nw == n * w
             wa == w * a
             wb == w * b
  <2>2. x \in Nat /\ y \in Nat /\ a \in Int /\ b \in Int /\ m \in Int
    BY <1>1
  <2>3. x < nw
    <3>1. nw \in Int /\ E < nw /\ x <= E
      BY <1>2, <2>1
    <3> HIDE DEF nw, x, E
    <3> QED BY <1>3, <2>2, <3>1
  <2>4. wa = m + x /\ wb = m + y
    <3>1. x = wa - m /\ y = wb - m /\ wa \in Int /\ wb \in Int
      BY <1>1, <2>2
    <3> HIDE DEF x, y, m, wa, wb
    <3> QED BY <2>2, <3>1
  <2> HIDE DEF x, y, a, b, m
  <2>5. a - b < n
    BY <1>4, <2>2, <2>3, <2>4
  <2> QED BY <2>5 DEF a, b
<1>6. ASSUME NEW t, NEW d, \A k \in D : t[k] \in Nat /\ exact[k] \in Nat /\ d[k] \in Nat
                                         /\ d[k] = w * t[k] - exact[k]
      PROVE  w * SumFunctionOnSet(t, D) = SumFunctionOnSet(exact, D) + SumFunctionOnSet(d, D)
  <2> DEFINE h == [k \in D |-> w * t[k]]
             H == SumFunctionOnSet(h, D)
             T == SumFunctionOnSet(t, D)
             M == SumFunctionOnSet(exact, D)
             X == SumFunctionOnSet(d, D)
  <2>1. \A k \in D : h[k] = w * t[k] /\ h[k] \in Int
    BY <1>6
  <2>2. \A k \in D : /\ h[k] \in Int /\ t[k] \in Int /\ exact[k] \in Int /\ d[k] \in Int
                     /\ h[k] = exact[k] + d[k] /\ h[k] = w * t[k]
    <3> TAKE k \in D
    <3> DEFINE wt == w * t[k]
    <3>1. h[k] = wt /\ wt \in Int /\ exact[k] \in Nat /\ d[k] \in Nat /\ d[k] = wt - exact[k] /\ t[k] \in Int
      BY <1>6, <2>1
    <3> HIDE DEF h, wt
    <3>2. h[k] = exact[k] + d[k]
      BY <3>1
    <3> QED BY <3>1, <3>2 DEF wt
  <2> HIDE DEF h
  <2>3. H = M + X
    BY <2>2, SumPlus
  <2>4. H = w * T
    <3>1. w \in Int
      OBVIOUS
    <3> QED BY <2>2, <3>1, SumScaled
  <2> QED BY <2>3, <2>4
<1>7. SumFunctionOnSet(s, D) - SumFunctionOnSet(r, D) < n
  <2> DEFINE a == SumFunctionOnSet(s, D)
             b == SumFunctionOnSet(r, D)
             m == SumFunctionOnSet(exact, D)
  <2>1. w * a = m + E
    BY <1>1, <1>6
  <2>2. w * b = m + G
    BY <1>1, <1>6
  <2>3. a \in Int /\ b \in Int /\ m \in Int
    BY <1>1, SumInt
  <2> HIDE DEF a, b, m, E, G
  <2>4. a - b < n
    BY <1>2, <1>3, <1>4, <2>1, <2>2, <2>3
  <2> QED BY <2>4 DEF a, b
<1> QED BY <1>5, <1>7

-----------------------------------------------------------------------------
(* What one record does to the books. *)
StakesOf(b) == [k \in DOMAIN b.validators |-> b.validators[k].stake]
Wealth(b)   == b.treasury + SumFunctionOnSet(StakesOf(b), DOMAIN b.validators)

AmountFor(c, ev) == SlashAmount(c.validators[ev.offender].stake, ev.offense)

Punished(c, ev, d) ==
    /\ BooksOK(d) /\ DOMAIN d.validators = DOMAIN c.validators
    /\ \A k \in DOMAIN c.validators \ {ev.offender} : d.validators[k] = c.validators[k]
    /\ ev.offender \notin DOMAIN c.validators => d.treasury = c.treasury
    /\ ev.offender \in DOMAIN c.validators =>
          /\ d.validators[ev.offender].stake = c.validators[ev.offender].stake - AmountFor(c, ev)
          /\ d.validators[ev.offender].status
                = IF AmountFor(c, ev) > 0 THEN "Jailed" ELSE c.validators[ev.offender].status
          /\ d.treasury = c.treasury + AmountFor(c, ev)

LEMMA SlashRounds ==
    ASSUME NEW stake \in Nat, NEW offense \in DOMAIN SlashBps
    PROVE  RoundedCut(stake, stake - SlashAmount(stake, offense), 10000 - SlashBps[offense])
<1>1. SlashBps[offense] \in {100, 500, 1000}
  BY DEF SlashBps
<1>2. CASE SlashBps[offense] = 100
  BY <1>2 DEF SlashAmount, RoundedCut
<1>3. CASE SlashBps[offense] = 500
  BY <1>3 DEF SlashAmount, RoundedCut
<1>4. CASE SlashBps[offense] = 1000
  BY <1>4 DEF SlashAmount, RoundedCut
<1>5. SlashBps[offense] = 100 \/ SlashBps[offense] = 500 \/ SlashBps[offense] = 1000
  BY <1>1
<1> QED BY <1>2, <1>3, <1>4, <1>5

LEMMA SingleEffect ==
    ASSUME NEW c, BooksOK(c), NEW ev \in Records
    PROVE  Punished(c, ev, ProcessSingle(c, ev))
<1> DEFINE o == ev.offender
           amount == AmountFor(c, ev)
           d == ProcessSingle(c, ev)
           v == c.validators
           p == c.positions
           t == c.total
           h == c.history
           g == c.treasury
<1>1. BooksOK(d)
  BY ProcessGrows DEF Grown
<1>2. CASE o \notin DOMAIN v
  <2>1. d = c
    BY <1>2 DEF ProcessSingle
  <2> QED BY <1>2, <2>1 DEF Punished
<1>3. CASE o \in DOMAIN v
  <2>1. v[o] \in ValidatorInfo /\ ev.offense \in DOMAIN SlashBps /\ g \in Int
    BY <1>3 DEF BooksOK, SetOK, Records, EvidenceRecords
  <2>2. v[o].stake \in Nat
    BY <2>1 DEF ValidatorInfo
  <2>3. amount \in Nat
    BY <2>1, <2>2, SlashAmounts DEF AmountFor
  <2>4. d = IF amount > 0 THEN Slash(c, ev) ELSE c
    BY <1>3 DEF ProcessSingle, AmountFor
  <2>5. CASE amount > 0
    <3> DEFINE key == DirectKey(o)
               free == UnlockedIn(p[key], epoch) >= amount
               v2 == [v EXCEPT ![o] = [stake |-> v[o].stake - amount, status |-> "Jailed"]]
               p2 == [p EXCEPT ![key] = IF free THEN Withdraw(p[key], epoch, amount) ELSE p[key]]
               t2 == IF free THEN t - amount ELSE t
               h2 == Append(h, SlashEvent(ev, amount))
               g2 == g + amount
    <3>1. c = BooksOf(v, p, t, h, g)
      BY DEF BooksOK
    <3>2. amount = SlashAmount(v[o].stake, ev.offense)
      BY DEF AmountFor
    <3> HIDE DEF v, p, t, h, g, amount
    <3>3. Slash(c, ev) = BooksOf(v2, p2, t2, h2, g2)
      BY <3>1, <3>2, SlashBooks
    <3>4. /\ DOMAIN v2 = DOMAIN v /\ \A k \in DOMAIN v \ {o} : v2[k] = v[k]
          /\ v2[o].stake = v[o].stake - amount /\ v2[o].status = "Jailed"
      BY <1>3
    <3> HIDE DEF v2, p2, t2, h2, g2
    <3>5. Slash(c, ev).validators = v2 /\ Slash(c, ev).treasury = g2
      BY <3>3 DEF BooksOf
    <3>6. d.validators = v2 /\ d.treasury = g2
      BY <2>4, <2>5, <3>5
    <3> HIDE DEF d, o
    <3>7. /\ DOMAIN d.validators = DOMAIN v /\ \A k \in DOMAIN v \ {o} : d.validators[k] = v[k]
          /\ d.validators[o].stake = v[o].stake - amount /\ d.validators[o].status = "Jailed"
          /\ d.treasury = g + amount
      BY <3>4, <3>6 DEF g2
    <3>8. d.validators[o].status = IF amount > 0 THEN "Jailed" ELSE v[o].status
      BY <2>5, <3>7
    <3>9. Punished(c, ev, d)
      BY <1>1, <1>3, <3>7, <3>8, Zenon DEF Punished, v, g, amount, o
    <3> QED BY <3>9 DEF d
  <2>6. CASE ~ (amount > 0)
    <3>1. d = c /\ amount = 0
      BY <2>3, <2>4, <2>6
    <3>2. v[o].stake - amount = v[o].stake /\ g + amount = g
      BY <2>1, <2>2, <3>1
    <3> HIDE DEF d, amount
    <3>3. Punished(c, ev, d)
      BY <1>1, <1>3, <2>6, <3>1, <3>2 DEF Punished, amount
    <3> QED BY <3>3 DEF d
  <2> QED BY <2>5, <2>6
<1> QED BY <1>2, <1>3

(* What any number of them has done: a validator is jailed if any one of them, judged
   by the stake it had at the start, is worth a unit; and nothing is lost.    *)
Guilty(b, k, S) ==
    \E e \in S : e.offender = k /\ SlashAmount(b.validators[k].stake, e.offense) > 0

Judged(b, c, S) ==
    /\ BooksOK(c) /\ DOMAIN c.validators = DOMAIN b.validators
    /\ Wealth(c) = Wealth(b)
    /\ \A k \in DOMAIN b.validators :
          IF Guilty(b, k, S) THEN c.validators[k].status = "Jailed"
                             ELSE c.validators[k] = b.validators[k]

LEMMA BooksFinite ==
    ASSUME NEW b, BooksOK(b)
    PROVE  /\ IsFiniteSet(DOMAIN b.validators) /\ b.treasury \in Int
           /\ \A k \in DOMAIN b.validators :
                 /\ StakesOf(b)[k] = b.validators[k].stake /\ StakesOf(b)[k] \in Nat
                 /\ b.validators[k]
                      = [stake |-> b.validators[k].stake, status |-> b.validators[k].status]
<1>1. IsFiniteSet(Keys)
  <2>1. PICK last \in Nat : \A k \in Keys : k <= last
    BY KeysAssumption
  <2> QED BY <2>1, KeysAssumption, FS_BoundedSetOfNaturals
<1>2. DOMAIN b.validators \subseteq Keys /\ b.treasury \in Int
  BY DEF BooksOK, SetOK
<1>3. IsFiniteSet(DOMAIN b.validators)
  BY <1>1, <1>2, FS_Subset
<1>4. \A k \in DOMAIN b.validators : b.validators[k] \in [stake : Nat, status : Statuses]
  BY DEF BooksOK, SetOK, ValidatorInfo
<1> QED BY <1>2, <1>3, <1>4 DEF StakesOf

LEMMA WealthStep ==
    ASSUME NEW c, BooksOK(c), NEW ev \in Records, NEW d, Punished(c, ev, d)
    PROVE  Wealth(d) = Wealth(c)
<1> DEFINE v == c.validators
           o == ev.offender
           D == DOMAIN v
           s == StakesOf(c)
           r == StakesOf(d)
           a == AmountFor(c, ev)
<1>1. BooksOK(d) /\ DOMAIN d.validators = D
  BY DEF Punished
<1>2. /\ IsFiniteSet(D) /\ c.treasury \in Int /\ d.treasury \in Int
      /\ \A k \in D : s[k] = v[k].stake /\ s[k] \in Nat /\ r[k] = d.validators[k].stake /\ r[k] \in Nat
  BY <1>1, BooksFinite
<1>3. \A k \in D \ {o} : r[k] = s[k]
  BY <1>2 DEF Punished
<1> DEFINE Sc == SumFunctionOnSet(s, D)
           Sd == SumFunctionOnSet(r, D)
<1>4. Sc \in Int /\ Sd \in Int
  <2> HIDE DEF s, r, D
  <2> QED BY <1>2, SumInt
<1>5. d.treasury + Sd = c.treasury + Sc
  <2>1. CASE o \in D
    <3>1. r[o] = s[o] - a /\ d.treasury = c.treasury + a /\ s[o] \in Nat /\ r[o] \in Nat
      BY <1>2, <2>1 DEF Punished
    <3>2. a \in Int
      BY <1>2, <2>1, SlashAmounts DEF Records, EvidenceRecords, AmountFor
    <3> HIDE DEF s, r, D, a
    <3>3. Sd = Sc - s[o] + r[o]
      BY <1>2, <1>3, <2>1, SumChange
    <3> HIDE DEF Sc, Sd
    <3> QED BY <1>2, <1>4, <3>1, <3>2, <3>3
  <2>2. CASE o \notin D
    <3>1. d.treasury = c.treasury
      BY <2>2 DEF Punished
    <3>2. \A k \in D : s[k] \in Int /\ s[k] = r[k]
      BY <1>2, <1>3, <2>2
    <3> HIDE DEF s, r, D
    <3>3. Sc = Sd
      BY <1>2, <3>2, SumSame
    <3> QED BY <3>1, <3>3
  <2> QED BY <2>1, <2>2
<1> QED BY <1>1, <1>5 DEF Wealth

LEMMA JudgedStep ==
    ASSUME NEW b, NEW c, NEW S, BooksOK(b), Judged(b, c, S),
           NEW ev \in Records, NEW d, Punished(c, ev, d)
    PROVE  Judged(b, d, S \cup {ev})
<1> DEFINE o == ev.offender
           D == DOMAIN b.validators
           S2 == S \cup {ev}
<1>1. BooksOK(c) /\ BooksOK(d) /\ DOMAIN c.validators = D /\ DOMAIN d.validators = D
  BY DEF Judged, Punished
<1>2. Wealth(d) = Wealth(b)
  BY <1>1, WealthStep DEF Judged
<1>3. ASSUME NEW k \in D
      PROVE  IF Guilty(b, k, S2) THEN d.validators[k].status = "Jailed"
                                 ELSE d.validators[k] = b.validators[k]
  <2>1. IF Guilty(b, k, S) THEN c.validators[k].status = "Jailed"
                           ELSE c.validators[k] = b.validators[k]
    BY DEF Judged
  <2>2. CASE k # o
    <3>1. d.validators[k] = c.validators[k]
      BY <1>1, <2>2 DEF Punished
    <3>2. Guilty(b, k, S2) <=> Guilty(b, k, S)
      BY <2>2 DEF Guilty
    <3> QED BY <2>1, <3>1, <3>2
  <2>3. CASE k = o
    <3> DEFINE a == SlashAmount(c.validators[k].stake, ev.offense)
    <3>1. /\ d.validators[k].stake = c.validators[k].stake - a
          /\ d.validators[k].status = IF a > 0 THEN "Jailed" ELSE c.validators[k].status
      BY <1>1, <2>3 DEF Punished, AmountFor
    <3>2. CASE Guilty(b, k, S)
      <4>1. Guilty(b, k, S2)
        BY <3>2 DEF Guilty
      <4> QED BY <2>1, <3>1, <3>2, <4>1
    <3>3. CASE ~ Guilty(b, k, S)
      <4>1. c.validators[k] = b.validators[k]
        BY <2>1, <3>3
      <4>2. Guilty(b, k, S2) <=> a > 0
        BY <2>3, <3>3, <4>1 DEF Guilty
      <4>3. c.validators[k].stake \in Nat /\ a \in Nat
        <5>1. ev.offense \in DOMAIN SlashBps
          BY DEF Records, EvidenceRecords
        <5>2. c.validators[k].stake \in Nat
          BY <1>1, BooksFinite
        <5> QED BY <5>1, <5>2, SlashAmounts
      <4> HIDE DEF a
      <4>4. CASE a > 0
        BY <3>1, <4>2, <4>4
      <4>5. CASE ~ (a > 0)
        <5>1. a = 0
          BY <4>3, <4>5
        <5>2. c.validators[k].stake - a = c.validators[k].stake
          BY <4>3, <5>1
        <5>3. d.validators[k].stake = c.validators[k].stake /\ d.validators[k].status = c.validators[k].status
          BY <3>1, <4>5, <5>2
        <5>4. d.validators[k] = c.validators[k]
          BY <1>1, <5>3, BooksFinite
        <5> QED BY <4>1, <4>2, <4>5, <5>4
      <4> QED BY <4>4, <4>5
    <3> QED BY <3>2, <3>3
  <2> QED BY <2>2, <2>3
<1> QED BY <1>1, <1>2, <1>3 DEF Judged

-----------------------------------------------------------------------------
(* What the slashes between b and c took from validator k, of its recorded stake
   and of its own position.                                                  *)
SlashedOf(b, c, k) == b.validators[k].stake - c.validators[k].stake
FreeOfKey(b, k)    == UnlockedIn(b.positions[DirectKey(k)], epoch)
HeldOfKey(b, k)    == AmountIn(b.positions[DirectKey(k)])

(* An offender's position loses what its recorded stake does, as long as its
   unlocked stake covers that.                                               *)
Covers(slashed, lost, free, left) ==
    /\ slashed \in Nat /\ lost \in Nat /\ free \in Nat /\ left \in Nat
    /\ lost <= slashed /\ left = free - lost
    /\ slashed <= free => lost = slashed

Charged(b, c) ==
    \A k \in DOMAIN b.validators :
        Covers(SlashedOf(b, c, k), HeldOfKey(b, k) - HeldOfKey(c, k),
               FreeOfKey(b, k), FreeOfKey(c, k))

LEMMA PositionFacts ==
    ASSUME NEW b, BooksOK(b), NEW k \in DOMAIN b.validators
    PROVE  /\ b.validators[k].stake \in Nat /\ DirectKey(k) \in PositionKeys
           /\ b.positions[DirectKey(k)] \in Seq(Entry)
           /\ HeldOfKey(b, k) \in Nat /\ FreeOfKey(b, k) \in Nat
<1>1. k \in Keys /\ b.validators[k] \in ValidatorInfo /\ b.positions \in Pools
  BY DEF BooksOK, SetOK
<1>2. DirectKey(k) \in PositionKeys
  BY <1>1, EvidenceAssumption DEF PositionKeys
<1>3. b.validators[k].stake \in Nat
  BY <1>1 DEF ValidatorInfo
<1>4. b.positions[DirectKey(k)] \in Seq(Entry)
  BY <1>1, <1>2 DEF Pools
<1>5. HeldOfKey(b, k) \in Nat /\ FreeOfKey(b, k) \in Nat
  BY <1>4, EntrySums DEF HeldOfKey, FreeOfKey
<1> QED BY <1>2, <1>3, <1>4, <1>5

LEMMA ChargedSelf == ASSUME NEW b, BooksOK(b) PROVE Charged(b, b)
<1> SUFFICES ASSUME NEW k \in DOMAIN b.validators
             PROVE  Covers(SlashedOf(b, b, k), HeldOfKey(b, k) - HeldOfKey(b, k),
                           FreeOfKey(b, k), FreeOfKey(b, k))
  BY DEF Charged
<1>1. b.validators[k].stake \in Nat /\ HeldOfKey(b, k) \in Nat /\ FreeOfKey(b, k) \in Nat
  BY PositionFacts
<1> QED BY <1>1 DEF Covers, SlashedOf

(* One more record. *)
LEMMA CoversMore ==
    ASSUME NEW slashed, NEW lost, NEW free, NEW left, Covers(slashed, lost, free, left),
           NEW amount \in Nat
    PROVE  /\ left >= amount => Covers(slashed + amount, lost + amount, free, left - amount)
           /\ ~ (left >= amount) => Covers(slashed + amount, lost, free, left)
BY DEF Covers

LEMMA SlashPositions ==
    ASSUME NEW v, NEW p, NEW t, NEW h, NEW g, NEW ev
    PROVE  LET amount == SlashAmount(v[ev.offender].stake, ev.offense)
               key    == DirectKey(ev.offender)
           IN  Slash(BooksOf(v, p, t, h, g), ev).positions
                 = [p EXCEPT ![key] = IF UnlockedIn(p[key], epoch) >= amount
                                      THEN Withdraw(p[key], epoch, amount) ELSE p[key]]
<1> DEFINE amount == SlashAmount(v[ev.offender].stake, ev.offense)
           key    == DirectKey(ev.offender)
           free   == UnlockedIn(p[key], epoch) >= amount
           v2 == [v EXCEPT ![ev.offender] = [stake |-> v[ev.offender].stake - amount,
                                             status |-> "Jailed"]]
           p2 == [p EXCEPT ![key] = IF free THEN Withdraw(p[key], epoch, amount) ELSE p[key]]
           t2 == IF free THEN t - amount ELSE t
           h2 == Append(h, SlashEvent(ev, amount))
           g2 == g + amount
<1>1. Slash(BooksOf(v, p, t, h, g), ev) = BooksOf(v2, p2, t2, h2, g2)
  BY SlashBooks
<1> HIDE DEF v2, p2, t2, h2, g2
<1>2. Slash(BooksOf(v, p, t, h, g), ev).positions = p2
  BY <1>1 DEF BooksOf
<1> QED BY <1>2 DEF p2

(* What one record does to the position of the offender and to the others. *)
LEMMA SingleWithdraws ==
    ASSUME NEW c, BooksOK(c), NEW ev \in Records, NEW k \in DOMAIN c.validators
    PROVE  LET d      == ProcessSingle(c, ev)
               amount == IF k = ev.offender THEN AmountFor(c, ev) ELSE 0
               taken  == IF FreeOfKey(c, k) >= amount THEN amount ELSE 0
           IN  /\ amount \in Nat
               /\ HeldOfKey(d, k) = HeldOfKey(c, k) - taken
               /\ FreeOfKey(d, k) = FreeOfKey(c, k) - taken
               /\ d.validators[k].stake = c.validators[k].stake - amount
<1> DEFINE o == ev.offender
           a == AmountFor(c, ev)
           d == ProcessSingle(c, ev)
           held == HeldOfKey(c, k)
           free == FreeOfKey(c, k)
<1>1. /\ c.validators[k].stake \in Nat /\ DirectKey(k) \in PositionKeys
      /\ c.positions[DirectKey(k)] \in Seq(Entry) /\ held \in Nat /\ free \in Nat
  BY PositionFacts
<1>2. Punished(c, ev, d)
  BY SingleEffect
<1>3. c.positions \in Pools
  BY DEF BooksOK
<1>4. ev.offense \in DOMAIN SlashBps
  BY DEF Records, EvidenceRecords
<1>5. CASE k # o
  <2>1. d.positions[DirectKey(k)] = c.positions[DirectKey(k)]
    <3>1. CASE d = c
      BY <3>1
    <3>2. CASE d # c
      <4>1. o \in DOMAIN c.validators /\ d = Slash(c, ev)
        BY <3>2 DEF ProcessSingle
      <4> DEFINE v == c.validators
                 p == c.positions
                 t == c.total
                 h == c.history
                 g == c.treasury
      <4>2. c = BooksOf(v, p, t, h, g)
        BY DEF BooksOK
      <4> HIDE DEF v, p, t, h, g
      <4> DEFINE w == SlashAmount(v[o].stake, ev.offense)
                 y == IF UnlockedIn(p[DirectKey(o)], epoch) >= w
                      THEN Withdraw(p[DirectKey(o)], epoch, w) ELSE p[DirectKey(o)]
      <4>3. Slash(BooksOf(v, p, t, h, g), ev).positions = [p EXCEPT ![DirectKey(o)] = y]
        BY SlashPositions
      <4> HIDE DEF y, d
      <4>4. PICK x : d.positions = [p EXCEPT ![DirectKey(o)] = x]
        BY <4>1, <4>2, <4>3, Zenon
      <4>5. DirectKey(k) # DirectKey(o)
        BY <1>5 DEF DirectKey
      <4> HIDE DEF d
      <4> QED BY <1>1, <1>3, <4>4, <4>5 DEF p, Pools
    <3> QED BY <3>1, <3>2
  <2>2. d.validators[k] = c.validators[k]
    BY <1>2, <1>5 DEF Punished
  <2>3. HeldOfKey(d, k) = held /\ FreeOfKey(d, k) = free
    BY <2>1 DEF HeldOfKey, FreeOfKey
  <2> HIDE DEF d, held, free
  <2> QED BY <1>1, <1>5, <2>2, <2>3 DEF held, free, d
<1>6. CASE k = o
  <2>1. a \in Nat /\ a = SlashAmount(c.validators[k].stake, ev.offense)
    BY <1>1, <1>4, <1>6, SlashAmounts DEF AmountFor
  <2>2. d.validators[k].stake = c.validators[k].stake - a
    BY <1>2, <1>6 DEF Punished
  <2>3. d = IF a > 0 THEN Slash(c, ev) ELSE c
    BY <1>6 DEF ProcessSingle, AmountFor
  <2> DEFINE q == c.positions[DirectKey(k)]
             taken == IF free >= a THEN a ELSE 0
  <2>4. CASE a > 0
    <3> DEFINE v == c.validators
               p == c.positions
               t == c.total
               h == c.history
               g == c.treasury
    <3>1. c = BooksOf(v, p, t, h, g)
      BY DEF BooksOK
    <3>2. a = SlashAmount(v[o].stake, ev.offense)
      BY DEF AmountFor
    <3> HIDE DEF v, p, t, h, g, a
    <3>3. Slash(BooksOf(v, p, t, h, g), ev).positions
            = [p EXCEPT ![DirectKey(o)] =
                 IF UnlockedIn(p[DirectKey(o)], epoch) >= a THEN Withdraw(p[DirectKey(o)], epoch, a)
                 ELSE p[DirectKey(o)]]
      BY <3>2, SlashPositions
    <3>4. d.positions[DirectKey(k)] = IF free >= a THEN Withdraw(q, epoch, a) ELSE q
      <4>1. d.positions = [p EXCEPT ![DirectKey(o)] =
                 IF UnlockedIn(p[DirectKey(o)], epoch) >= a THEN Withdraw(p[DirectKey(o)], epoch, a)
                 ELSE p[DirectKey(o)]]
        BY <2>3, <2>4, <3>1, <3>3
      <4> HIDE DEF d
      <4> QED BY <1>1, <1>3, <1>6, <4>1, Zenon DEF p, Pools, FreeOfKey
    <3>5. free >= a => /\ AmountIn(Withdraw(q, epoch, a)) = AmountIn(q) - a
                       /\ UnlockedIn(Withdraw(q, epoch, a), epoch) = UnlockedIn(q, epoch) - a
      BY <1>1, <2>1, WithdrawFacts DEF FreeOfKey
    <3>6. held = AmountIn(q) /\ free = UnlockedIn(q, epoch)
      BY DEF HeldOfKey, FreeOfKey
    <3>7. HeldOfKey(d, k) = AmountIn(d.positions[DirectKey(k)])
          /\ FreeOfKey(d, k) = UnlockedIn(d.positions[DirectKey(k)], epoch)
      BY DEF HeldOfKey, FreeOfKey
    <3> HIDE DEF d, q, held, free
    <3>8. HeldOfKey(d, k) = held - taken /\ FreeOfKey(d, k) = free - taken
      BY <1>1, <2>1, <3>4, <3>5, <3>6, <3>7
    <3> QED BY <1>6, <2>1, <2>2, <3>8 DEF a, d, held, free
  <2>5. CASE ~ (a > 0)
    <3>1. d = c /\ a = 0
      BY <2>1, <2>3, <2>5
    <3> HIDE DEF d, held, free, a
    <3>2. HeldOfKey(d, k) = held - taken /\ FreeOfKey(d, k) = free - taken
      BY <1>1, <3>1 DEF held, free
    <3> QED BY <1>6, <2>1, <2>2, <3>2 DEF a, d, held, free
  <2> QED BY <2>4, <2>5
<1> QED BY <1>5, <1>6

(* Nothing is lost, and pool and recorded stakes keep in step. *)
Booked(b, c) ==
    /\ BooksOK(c) /\ DOMAIN c.validators = DOMAIN b.validators
    /\ Wealth(c) = Wealth(b) /\ Charged(b, c)

LEMMA BookedStep ==
    ASSUME NEW b, BooksOK(b), NEW c, Booked(b, c), NEW ev \in Records
    PROVE  Booked(b, ProcessSingle(c, ev))
<1> DEFINE d == ProcessSingle(c, ev)
<1>1. BooksOK(c) /\ DOMAIN c.validators = DOMAIN b.validators /\ Charged(b, c)
  BY DEF Booked
<1>2. Punished(c, ev, d)
  BY <1>1, SingleEffect
<1>3. BooksOK(d) /\ DOMAIN d.validators = DOMAIN b.validators /\ Wealth(d) = Wealth(b)
  BY <1>1, <1>2, WealthStep DEF Punished, Booked
<1>4. ASSUME NEW k \in DOMAIN b.validators
      PROVE  Covers(SlashedOf(b, d, k), HeldOfKey(b, k) - HeldOfKey(d, k),
                    FreeOfKey(b, k), FreeOfKey(d, k))
  <2> DEFINE amount == IF k = ev.offender THEN AmountFor(c, ev) ELSE 0
             free   == FreeOfKey(c, k)
             taken  == IF free >= amount THEN amount ELSE 0
             slashed == SlashedOf(b, c, k)
             lost   == HeldOfKey(b, k) - HeldOfKey(c, k)
             start  == FreeOfKey(b, k)
  <2>1. /\ amount \in Nat /\ HeldOfKey(d, k) = HeldOfKey(c, k) - taken
        /\ FreeOfKey(d, k) = free - taken
        /\ d.validators[k].stake = c.validators[k].stake - amount
    BY <1>1, SingleWithdraws
  <2>2. Covers(slashed, lost, start, free)
    BY <1>1 DEF Charged
  <2>3. /\ b.validators[k].stake \in Nat /\ c.validators[k].stake \in Nat
        /\ HeldOfKey(b, k) \in Nat /\ HeldOfKey(c, k) \in Nat /\ free \in Nat
    BY <1>1, PositionFacts
  <2> HIDE DEF amount, d, free, start
  <2>4. SlashedOf(b, d, k) = slashed + amount
    BY <2>1, <2>3 DEF SlashedOf
  <2>5. CASE free >= amount
    <3>1. HeldOfKey(b, k) - HeldOfKey(d, k) = lost + amount /\ FreeOfKey(d, k) = free - amount
      BY <2>1, <2>3, <2>5
    <3>2. Covers(slashed + amount, lost + amount, start, free - amount)
      <4> HIDE DEF slashed, lost
      <4> QED BY <2>1, <2>2, <2>5, CoversMore
    <3> QED BY <2>4, <3>1, <3>2 DEF start
  <2>6. CASE ~ (free >= amount)
    <3>1. HeldOfKey(b, k) - HeldOfKey(d, k) = lost /\ FreeOfKey(d, k) = free
      BY <2>1, <2>3, <2>6
    <3>2. Covers(slashed + amount, lost, start, free)
      <4> HIDE DEF slashed, lost
      <4> QED BY <2>1, <2>2, <2>6, CoversMore
    <3> QED BY <2>4, <3>1, <3>2 DEF start
  <2> QED BY <2>5, <2>6
<1>5. Charged(b, d)
  BY <1>4 DEF Charged
<1> QED BY <1>3, <1>5 DEF Booked

LEMMA OrderBooked ==
    ASSUME NEW b, BooksOK(b), NEW n \in Nat, NEW order \in [1 .. n -> Records]
    PROVE  Booked(b, ProcessInOrder(b, order))
<1>1. Len(order) = n
  OBVIOUS
<1> DEFINE k == CHOOSE kk : Processed(b, order, n, kk)
<1>2. ProcessInOrder(b, order) = k[n]
  <2>1. ProcessInOrder(b, order) = (CHOOSE kk : Processed(b, order, Len(order), kk))[Len(order)]
    BY DEF ProcessInOrder, Processed
  <2> QED BY <1>1, <2>1
<1>3. Processed(b, order, n, k)
  BY ProcessedExists
<1> HIDE DEF k
<1>4. k[0] = b /\ \A i \in 1 .. n : k[i] = ProcessSingle(k[i - 1], order[i])
  BY <1>3 DEF Processed
<1> DEFINE N == {i \in Nat : i <= n => Booked(b, k[i])}
<1>5. 0 \in N
  BY <1>4, ChargedSelf DEF Booked
<1>6. ASSUME NEW i \in N PROVE i + 1 \in N
  <2> SUFFICES ASSUME i + 1 <= n PROVE Booked(b, k[i + 1])
    OBVIOUS
  <2>1. i \in Nat /\ i <= n /\ i + 1 \in 1 .. n /\ (i + 1) - 1 = i /\ order[i + 1] \in Records
    OBVIOUS
  <2>2. Booked(b, k[i])
    BY <2>1
  <2> HIDE DEF N
  <2>3. k[i + 1] = ProcessSingle(k[i], order[i + 1])
    BY <1>4, <2>1
  <2> QED BY <2>1, <2>2, <2>3, BookedStep
<1>7. N = Nat
  <2> HIDE DEF N
  <2>1. N \in SUBSET Nat
    BY DEF N
  <2> QED BY <1>5, <1>6, <2>1, NatInductive
<1>8. Booked(b, k[n])
  BY <1>7
<1> QED BY <1>2, <1>8

LEMMA BookedPosted ==
    ASSUME EngineInv, [Next]_vars, slashHistory' # slashHistory
    PROVE  \E c : Booked(Books, c) /\ Post(c)
<1>1. CASE ProcessAllEvidence
  <2>1. PICK order \in SetToSeqs(PendingEvidence) : Post(ProcessInOrder(Books, order))
    BY <1>1 DEF ProcessAllEvidence
  <2>2. Cardinality(PendingEvidence) \in Nat /\ order \in [1 .. Cardinality(PendingEvidence) -> Records]
    BY <2>1, PendingOrder DEF EngineInv
  <2>3. Booked(Books, ProcessInOrder(Books, order))
    BY <2>2, OrderBooked DEF EngineInv
  <2> QED BY <2>1, <2>3
<1>2. ASSUME NEW r \in Evidence, SlashValidator(r.offender, r.offense, r.height)
      PROVE  \E c : Booked(Books, c) /\ Post(c)
  <2> DEFINE ev == [offender |-> r.offender, offense |-> r.offense, height |-> r.height,
                    data |-> DirectData]
  <2>1. ev \in Records
    BY DirectRecord
  <2>2. /\ ev.offender \in DOMAIN validators /\ Post(Slash(Books, ev))
        /\ SlashAmount(validators[ev.offender].stake, ev.offense) > 0
    BY <1>2 DEF SlashValidator
  <2> HIDE DEF ev
  <2>3. ProcessSingle(Books, ev) = Slash(Books, ev)
    BY <2>2, BooksParts DEF ProcessSingle
  <2>4. Booked(Books, Books)
    BY ChargedSelf DEF Booked, EngineInv
  <2>5. Booked(Books, Slash(Books, ev))
    BY <2>1, <2>3, <2>4, BookedStep DEF EngineInv
  <2> QED BY <2>2, <2>5
<1> QED BY <1>1, <1>2, PlainStep

(* For any pool, set and number of records processed at once: no slash is booked
   twice or forgotten, and treasury and pool part only over locked stake.    *)
THEOREM SlashesAreBooked == Spec => SlashedStakeIsBooked
<1> DEFINE Kept(k) ==
              LET slashed == validators[k].stake - validators'[k].stake
                  key     == DirectKey(k)
                  lost    == AmountIn(positions[key]) - AmountIn(positions'[key])
                  free    == UnlockedIn(positions[key], epoch)
              IN  /\ 0 <= lost /\ lost <= slashed /\ lost <= free
                  /\ slashed <= free => lost = slashed
           Step == slashHistory' # slashHistory =>
              /\ treasury' - treasury = RecordedStake(validators) - RecordedStake(validators')
              /\ \A k \in DOMAIN validators :
                    LET slashed == validators[k].stake - validators'[k].stake
                        key     == DirectKey(k)
                        lost    == AmountIn(positions[key]) - AmountIn(positions'[key])
                        free    == UnlockedIn(positions[key], epoch)
                    IN  /\ 0 <= lost /\ lost <= slashed /\ lost <= free
                        /\ slashed <= free => lost = slashed
              /\ totalStaked - totalStaked' = TotalAmount(positions) - TotalAmount(positions')
<1>1. ASSUME EngineInv, [Next]_vars, slashHistory' # slashHistory PROVE Step
  <2>1. PICK c : Booked(Books, c) /\ Post(c)
    BY <1>1, BookedPosted
  <2>2. /\ validators' = c.validators /\ positions' = c.positions /\ treasury' = c.treasury
    BY <2>1 DEF Post
  <2>3. BooksOK(Books) /\ BooksOK(c) /\ DOMAIN c.validators = DOMAIN validators
    BY <1>1, <2>1, BooksParts DEF EngineInv, Booked
  <2>4. treasury' - treasury = RecordedStake(validators) - RecordedStake(validators')
    <3> DEFINE D == DOMAIN validators
               s == StakesOf(Books)
               r == StakesOf(c)
    <3>1. RecordedStake(validators) = SumFunctionOnSet(s, D) /\ DOMAIN Books.validators = D
      BY BooksParts DEF RecordedStake, SumFunction, StakesOf
    <3>2. RecordedStake(validators') = SumFunctionOnSet(r, D)
      BY <2>2, <2>3 DEF RecordedStake, SumFunction, StakesOf
    <3>3. Wealth(c) = c.treasury + SumFunctionOnSet(r, D)
          /\ Wealth(Books) = treasury + SumFunctionOnSet(s, D) /\ Wealth(c) = Wealth(Books)
      BY <2>1, <2>3, <3>1, BooksParts DEF Wealth, Booked
    <3>4. /\ IsFiniteSet(D) /\ treasury \in Int /\ c.treasury \in Int
          /\ \A k \in D : s[k] \in Nat /\ r[k] \in Nat
      BY <2>3, <3>1, BooksFinite, BooksParts
    <3> HIDE DEF s, r, D
    <3>5. SumFunctionOnSet(s, D) \in Int /\ SumFunctionOnSet(r, D) \in Int
      BY <3>4, SumInt
    <3> QED BY <2>2, <3>1, <3>2, <3>3, <3>4, <3>5
  <2>5. ASSUME NEW k \in DOMAIN validators PROVE Kept(k)
    <3>1. Covers(SlashedOf(Books, c, k), HeldOfKey(Books, k) - HeldOfKey(c, k),
                 FreeOfKey(Books, k), FreeOfKey(c, k))
      BY <2>1, BooksParts DEF Booked, Charged
    <3>2. /\ SlashedOf(Books, c, k) = validators[k].stake - validators'[k].stake
          /\ HeldOfKey(Books, k) = AmountIn(positions[DirectKey(k)])
          /\ HeldOfKey(c, k) = AmountIn(positions'[DirectKey(k)])
          /\ FreeOfKey(Books, k) = UnlockedIn(positions[DirectKey(k)], epoch)
      BY <2>2, BooksParts DEF SlashedOf, HeldOfKey, FreeOfKey
    <3> DEFINE slashed == SlashedOf(Books, c, k)
               lost == HeldOfKey(Books, k) - HeldOfKey(c, k)
               free == FreeOfKey(Books, k)
    <3>3. /\ 0 <= lost /\ lost <= slashed /\ lost <= free
          /\ slashed <= free => lost = slashed
      <4> HIDE DEF slashed, lost, free
      <4>1. Covers(slashed, lost, free, FreeOfKey(c, k))
        BY <3>1 DEF slashed, lost, free
      <4> QED BY <4>1 DEF Covers
    <3> QED BY <3>2, <3>3
  <2>6. totalStaked - totalStaked' = TotalAmount(positions) - TotalAmount(positions')
    BY <1>1, SlashingStep
  <2> QED BY <2>4, <2>5, <2>6
<1>2. EngineInv /\ [Next]_vars => [Step]_vars
  BY <1>1
<1> HIDE DEF Step
<1>3. Spec => [][Step]_vars
  BY <1>2, EngineInit, EngineNext, PTL DEF Spec
<1>4. [][Step]_vars => SlashedStakeIsBooked
  BY PTL DEF Step, SlashedStakeIsBooked
<1> QED BY <1>3, <1>4

-----------------------------------------------------------------------------
(* Without rounding, a record in T would multiply k's stake by its factor / 10000. *)
Factors(k, T) == [e \in T |-> IF e.offender = k THEN 10000 - SlashBps[e.offense] ELSE 10000]

Exacts(b, T, ex) ==
    \A k \in DOMAIN b.validators : ProductOf(ex[k], T, Factors(k, T), b.validators[k].stake)

Scales(T, sc) == ProductOf(sc, T, [e \in T |-> 10000], 1)

At(ex, D, S) == [k \in D |-> ex[k][S]]

LEMMA FactorTypes ==
    ASSUME NEW T \in SUBSET Records, NEW k, NEW e \in T
    PROVE  /\ Factors(k, T)[e] \in Nat
           /\ Factors(k, T)[e] = IF e.offender = k THEN 10000 - SlashBps[e.offense] ELSE 10000
<1>1. e.offense \in DOMAIN SlashBps
  BY DEF Records, EvidenceRecords
<1>2. SlashBps[e.offense] \in {100, 500, 1000}
  BY <1>1 DEF SlashBps
<1>3. Factors(k, T)[e] = IF e.offender = k THEN 10000 - SlashBps[e.offense] ELSE 10000
  BY DEF Factors
<1> QED BY <1>2, <1>3

LEMMA ExactsExist ==
    ASSUME NEW b, BooksOK(b), NEW T \in SUBSET Records, IsFiniteSet(T)
    PROVE  (\E ex : Exacts(b, T, ex)) /\ \E sc : Scales(T, sc)
<1>1. \E sc : Scales(T, sc)
  <2> DEFINE f == [e \in T |-> 10000]
  <2>1. \A e \in T : f[e] \in Nat
    OBVIOUS
  <2> HIDE DEF f
  <2>2. \E sc : ProductOf(sc, T, f, 1)
    BY <2>1, ProductExists
  <2> QED BY <2>2 DEF Scales, f
<1>2. ASSUME NEW k \in DOMAIN b.validators
      PROVE  \E m : ProductOf(m, T, Factors(k, T), b.validators[k].stake)
  <2>1. \A e \in T : Factors(k, T)[e] \in Nat
    BY FactorTypes
  <2>2. b.validators[k].stake \in Nat
    BY BooksFinite
  <2> QED BY <2>1, <2>2, ProductExists
<1> DEFINE ex == [k \in DOMAIN b.validators |->
                     CHOOSE m : ProductOf(m, T, Factors(k, T), b.validators[k].stake)]
<1>3. ASSUME NEW k \in DOMAIN b.validators
      PROVE  ProductOf(ex[k], T, Factors(k, T), b.validators[k].stake)
  <2>1. ex[k] = CHOOSE m : ProductOf(m, T, Factors(k, T), b.validators[k].stake)
    OBVIOUS
  <2> HIDE DEF ex
  <2> QED BY <1>2, <2>1
<1> HIDE DEF ex
<1>4. Exacts(b, T, ex)
  BY <1>3 DEF Exacts
<1> QED BY <1>1, <1>4

(* The books after the records of S, of the pending ones T. *)
Follows(b, c, T, ex, sc, S, n) ==
    /\ Judged(b, c, S) /\ sc[S] \in Nat \ {0}
    /\ Close(DOMAIN b.validators, StakesOf(c), sc[S], At(ex, DOMAIN b.validators, S), n)

LEMMA FollowsStart ==
    ASSUME NEW b, BooksOK(b), NEW T, NEW ex, NEW sc, Exacts(b, T, ex), Scales(T, sc)
    PROVE  Follows(b, b, T, ex, sc, {}, 0)
<1> DEFINE D == DOMAIN b.validators
           s == StakesOf(b)
           exact == At(ex, D, {})
<1>1. sc[{}] = 1
  BY DEF Scales, ProductOf
<1>2. \A k \in D : exact[k] = s[k] /\ s[k] \in Nat
  <2>1. \A k \in D : exact[k] = ex[k][{}] /\ ex[k][{}] = b.validators[k].stake
    BY DEF At, Exacts, ProductOf
  <2> QED BY <2>1, BooksFinite
<1>3. Judged(b, b, {})
  BY DEF Judged, Guilty
<1>4. IsFiniteSet(D)
  BY BooksFinite
<1> HIDE DEF D, s, exact
<1>5. \A k \in D : Excess(D, s, 1, exact)[k] = 0
  BY <1>2 DEF Excess
<1>6. SumFunctionOnSet(Excess(D, s, 1, exact), D) = 0
  BY <1>4, <1>5, SumZero
<1>7. \A k \in D : s[k] \in Nat /\ exact[k] \in Nat /\ exact[k] <= 1 * s[k]
  BY <1>2
<1>8. Close(D, s, 1, exact, 0)
  BY <1>6, <1>7 DEF Close
<1> QED BY <1>1, <1>3, <1>8 DEF Follows, D, s, exact

LEMMA FollowsStep ==
    ASSUME NEW b, BooksOK(b), NEW T \in SUBSET Records, NEW ex, NEW sc,
           Exacts(b, T, ex), Scales(T, sc),
           NEW S \in SUBSET T, NEW n \in Nat, NEW c, Follows(b, c, T, ex, sc, S, n),
           NEW ev \in T \ S
    PROVE  Follows(b, ProcessSingle(c, ev), T, ex, sc, S \cup {ev}, n + 1)
<1> DEFINE D == DOMAIN b.validators
           d == ProcessSingle(c, ev)
           S2 == S \cup {ev}
           o == ev.offender
           f == 10000 - SlashBps[ev.offense]
           w == sc[S]
           s == StakesOf(c)
           s2 == StakesOf(d)
           exact == At(ex, D, S)
           exact2 == At(ex, D, S2)
<1>1. BooksOK(c) /\ DOMAIN c.validators = D /\ Judged(b, c, S)
  BY DEF Follows, Judged
<1>2. ev \in Records /\ ev.offense \in DOMAIN SlashBps
  BY DEF Records, EvidenceRecords
<1>3. Punished(c, ev, d)
  BY <1>1, <1>2, SingleEffect
<1>4. Judged(b, d, S2)
  BY <1>1, <1>2, <1>3, JudgedStep
<1>5. BooksOK(d) /\ DOMAIN d.validators = D
  BY <1>4 DEF Judged
<1>6. w \in Nat \ {0} /\ Close(D, s, w, exact, n)
  BY DEF Follows
<1>7. sc[S2] = 10000 * w
  BY DEF Scales, ProductOf
<1>8. IsFiniteSet(D)
  BY BooksFinite
<1>10. RoundsUp(D, o, f, s, exact, s2, exact2)
  <2>1. \A k \in D : exact2[k] = Factors(k, T)[ev] * exact[k]
    <3>1. \A k \in D : exact2[k] = ex[k][S2] /\ exact[k] = ex[k][S]
      BY DEF At
    <3>2. \A k \in D : ex[k][S2] = Factors(k, T)[ev] * ex[k][S]
      BY DEF Exacts, ProductOf
    <3> QED BY <3>1, <3>2
  <2>2. \A k \in D : Factors(k, T)[ev] = IF o = k THEN f ELSE 10000
    BY FactorTypes
  <2>3. \A k \in D : s[k] = c.validators[k].stake /\ s2[k] = d.validators[k].stake /\ s[k] \in Nat
    BY <1>1, <1>5, BooksFinite
  <2>4. \A k \in D \ {o} : s2[k] = s[k] /\ exact2[k] = 10000 * exact[k]
    <3>1. \A k \in D \ {o} : d.validators[k] = c.validators[k]
      BY <1>1, <1>3 DEF Punished
    <3> HIDE DEF D, o, f, s, s2, exact, exact2, d
    <3> QED BY <2>1, <2>2, <2>3, <3>1
  <2>5. ASSUME o \in D
        PROVE  exact2[o] = f * exact[o] /\ RoundedCut(s[o], s2[o], f)
    <3>1. s2[o] = s[o] - SlashAmount(s[o], ev.offense)
      BY <1>1, <1>3, <2>3, <2>5 DEF Punished, AmountFor
    <3>2. s[o] \in Nat /\ exact2[o] = f * exact[o]
      <4> HIDE DEF D, o, f, s, s2, exact, exact2, d
      <4> QED BY <2>1, <2>2, <2>3, <2>5
    <3>3. RoundedCut(s[o], s[o] - SlashAmount(s[o], ev.offense), f)
      <4> HIDE DEF s, o
      <4> QED BY <1>2, <3>2, SlashRounds
    <3> HIDE DEF D, o, f, s, s2, exact, exact2, d
    <3> QED BY <3>1, <3>2, <3>3
  <2> HIDE DEF D, o, f, s, s2, exact, exact2
  <2> QED BY <2>4, <2>5 DEF RoundsUp
<1> HIDE DEF D, o, f, s, s2, exact, exact2, w
<1>11. Close(D, s2, 10000 * w, exact2, n + 1)
  <2>1. w \in Nat \ {0}
    BY <1>6
  <2>2. Close(D, s, w, exact, n)
    BY <1>6
  <2> QED BY <1>8, <1>10, <2>1, <2>2, CloseStep
<1>12. sc[S2] \in Nat \ {0}
  BY <1>6, <1>7
<1>13. Close(D, s2, sc[S2], exact2, n + 1)
  BY <1>7, <1>11
<1> QED BY <1>4, <1>12, <1>13 DEF Follows, D, s2, exact2

(* Whatever the order, the books end where the set of pending records says, but
   for the rounding.                                                         *)
LEMMA OrderFollows ==
    ASSUME NEW b, BooksOK(b), NEW T \in SUBSET Records, IsFiniteSet(T), NEW ex, NEW sc,
           Exacts(b, T, ex), Scales(T, sc), NEW order \in SetToSeqs(T)
    PROVE  Follows(b, ProcessInOrder(b, order), T, ex, sc, T, Cardinality(T))
<1> DEFINE n == Cardinality(T)
<1>1. /\ n \in Nat /\ order \in [1 .. n -> T]
      /\ \A i, j \in 1 .. n : i # j => order[i] # order[j]
  BY FS_CardinalityType DEF SetToSeqs
<1>2. {order[i] : i \in 1 .. n} = T
  <2> DEFINE R == {order[i] : i \in 1 .. n}
  <2>1. R \in SUBSET T
    BY <1>1
  <2>2. order \in Bijection(1 .. n, R)
    <3>1. order \in [1 .. n -> R]
      BY <1>1
    <3> QED BY <1>1, <3>1 DEF Bijection, Injection, Surjection, IsInjective
  <2> HIDE DEF R, n
  <2>3. IsFiniteSet(1 .. n) /\ Cardinality(1 .. n) = n
    BY <1>1, FS_Interval
  <2>4. Cardinality(R) = n
    BY <2>2, <2>3, FS_Bijection DEF ExistsBijection
  <2>5. R = T
    BY <2>1, <2>4, FS_Subset DEF n
  <2> QED BY <2>5 DEF R
<1> HIDE DEF n
<1>3. Len(order) = n
  BY <1>1
<1> DEFINE k == CHOOSE kk : Processed(b, order, n, kk)
<1>4. ProcessInOrder(b, order) = k[n]
  <2>1. ProcessInOrder(b, order) = (CHOOSE kk : Processed(b, order, Len(order), kk))[Len(order)]
    BY DEF ProcessInOrder, Processed
  <2> QED BY <1>3, <2>1
<1>5. Processed(b, order, n, k)
  BY <1>1, ProcessedExists
<1> HIDE DEF k
<1>6. k[0] = b /\ \A i \in 1 .. n : k[i] = ProcessSingle(k[i - 1], order[i])
  BY <1>1, <1>5 DEF Processed
<1> DEFINE S(i) == {order[j] : j \in 1 .. i}
           N == {i \in Nat : i <= n => Follows(b, k[i], T, ex, sc, S(i), i)}
<1>7. 0 \in N
  <2>1. S(0) = {}
    OBVIOUS
  <2> HIDE DEF S
  <2> QED BY <1>6, <2>1, FollowsStart
<1>8. ASSUME NEW i \in N PROVE i + 1 \in N
  <2> SUFFICES ASSUME i + 1 <= n PROVE Follows(b, k[i + 1], T, ex, sc, S(i + 1), i + 1)
    OBVIOUS
  <2>1. i \in Nat /\ i <= n /\ i + 1 \in 1 .. n /\ (i + 1) - 1 = i
    BY <1>1
  <2>2. Follows(b, k[i], T, ex, sc, S(i), i)
    BY <2>1
  <2>3. /\ order[i + 1] \in T \ S(i) /\ S(i + 1) = S(i) \cup {order[i + 1]} /\ S(i) \in SUBSET T
    BY <1>1, <2>1
  <2> HIDE DEF S, N
  <2>4. k[i + 1] = ProcessSingle(k[i], order[i + 1])
    BY <1>6, <2>1
  <2>5. Follows(b, ProcessSingle(k[i], order[i + 1]), T, ex, sc, S(i) \cup {order[i + 1]}, i + 1)
    BY <2>1, <2>2, <2>3, FollowsStep
  <2> QED BY <2>3, <2>4, <2>5
<1>9. N = Nat
  <2> HIDE DEF N
  <2>1. N \in SUBSET Nat
    BY DEF N
  <2> QED BY <1>7, <1>8, <2>1, NatInductive
<1> HIDE DEF S
<1>10. Follows(b, k[n], T, ex, sc, S(n), n)
  BY <1>1, <1>9
<1> QED BY <1>2, <1>4, <1>10 DEF S, n

(* Two ends of the same records. *)
JailedIn(b) == {k \in DOMAIN b.validators : b.validators[k].status = "Jailed"}

Near(b, c, d, n) ==
    /\ JailedIn(c) \subseteq JailedIn(d)
    /\ c.treasury \in Int /\ d.treasury \in Int /\ d.treasury - c.treasury < n
    /\ \A k \in DOMAIN b.validators :
          /\ c.validators[k].stake \in Int /\ d.validators[k].stake \in Int
          /\ c.validators[k].stake - d.validators[k].stake < n

LEMMA TwoEnds ==
    ASSUME NEW b, BooksOK(b), NEW T, NEW ex, NEW sc, NEW S, NEW n \in Nat \ {0},
           NEW c, Follows(b, c, T, ex, sc, S, n), NEW d, Follows(b, d, T, ex, sc, S, n)
    PROVE  Near(b, c, d, n)
<1> DEFINE D == DOMAIN b.validators
           s == StakesOf(c)
           r == StakesOf(d)
           exact == At(ex, D, S)
           w == sc[S]
<1>1. /\ Judged(b, c, S) /\ Judged(b, d, S) /\ w \in Nat \ {0}
      /\ Close(D, s, w, exact, n) /\ Close(D, r, w, exact, n)
  BY DEF Follows
<1>2. /\ BooksOK(c) /\ BooksOK(d) /\ DOMAIN c.validators = D /\ DOMAIN d.validators = D
      /\ Wealth(c) = Wealth(d)
  BY <1>1 DEF Judged
<1>3. /\ IsFiniteSet(D) /\ c.treasury \in Int /\ d.treasury \in Int
      /\ \A k \in D : /\ s[k] = c.validators[k].stake /\ r[k] = d.validators[k].stake
                      /\ s[k] \in Nat /\ r[k] \in Nat
  BY <1>2, BooksFinite
<1>4. \A k \in D : c.validators[k].status = "Jailed" => d.validators[k].status = "Jailed"
  BY <1>1 DEF Judged
<1> DEFINE Sc == SumFunctionOnSet(s, D)
           Sd == SumFunctionOnSet(r, D)
<1>5. c.treasury + Sc = d.treasury + Sd
  BY <1>2 DEF Wealth
<1> HIDE DEF D, s, r, exact, w
<1>6. (\A k \in D : s[k] - r[k] < n) /\ Sc - Sd < n
  BY <1>1, <1>3, CloseTwo
<1>7. Sc \in Int /\ Sd \in Int
  BY <1>3, SumInt
<1> HIDE DEF Sc, Sd
<1>8. d.treasury - c.treasury < n
  BY <1>3, <1>5, <1>6, <1>7
<1>9. \A k \in D : /\ c.validators[k].stake \in Int /\ d.validators[k].stake \in Int
                   /\ c.validators[k].stake - d.validators[k].stake < n
  BY <1>3, <1>6
<1> QED BY <1>2, <1>3, <1>4, <1>8, <1>9 DEF D, Near, JailedIn

LEMMA OrdersAgree == EngineInv => OrdersAgreeButForRounding
<1> DEFINE T == PendingEvidence
           n == Cardinality(T)
           jailed(b) == {k \in DOMAIN b.validators : b.validators[k].status = "Jailed"}
           covered == {k \in DOMAIN validators :
                          UnlockedIn(positions[DirectKey(k)], epoch) >= validators[k].stake}
<1> SUFFICES ASSUME EngineInv, n > 1, NEW p \in Orders, NEW q \in Orders
             PROVE  LET a == ProcessInOrder(Books, p)
                        b == ProcessInOrder(Books, q)
                    IN  /\ jailed(a) = jailed(b)
                        /\ Distance(a.treasury, b.treasury) < n
                        /\ \A k \in DOMAIN validators :
                              Distance(a.validators[k].stake, b.validators[k].stake) < n
                        /\ \A k \in covered :
                              Distance(AmountIn(a.positions[DirectKey(k)]),
                                       AmountIn(b.positions[DirectKey(k)])) < n
  BY DEF OrdersAgreeButForRounding
<1> DEFINE a == ProcessInOrder(Books, p)
           b == ProcessInOrder(Books, q)
<1>1. T \in SUBSET Records /\ IsFiniteSet(T) /\ BooksOK(Books) /\ Books.validators = validators
  <2>1. T \subseteq DOMAIN evidencePool /\ T \in SUBSET Records
    BY EvidenceAssumption DEF EngineInv, EvidenceOK, PendingEvidence, Records, EvidenceRecords
  <2> QED BY <2>1, FS_Subset, BooksParts DEF EngineInv, EvidenceOK
<1>2. p \in SetToSeqs(T) /\ q \in SetToSeqs(T)
  BY DEF Orders
<1> HIDE DEF T
<1>3. n \in Nat \ {0}
  BY <1>1, FS_CardinalityType
<1>4. PICK ex, sc : Exacts(Books, T, ex) /\ Scales(T, sc)
  BY <1>1, ExactsExist
<1>5. Follows(Books, a, T, ex, sc, T, n) /\ Follows(Books, b, T, ex, sc, T, n)
  BY <1>1, <1>2, <1>4, OrderFollows
<1> HIDE DEF a, b, n
<1>6. Near(Books, a, b, n) /\ Near(Books, b, a, n)
  BY <1>1, <1>3, <1>5, TwoEnds
<1>7. /\ JailedIn(a) = JailedIn(b)
      /\ a.treasury \in Int /\ b.treasury \in Int
      /\ a.treasury - b.treasury < n /\ b.treasury - a.treasury < n
      /\ \A k \in DOMAIN validators :
            /\ a.validators[k].stake \in Int /\ b.validators[k].stake \in Int
            /\ a.validators[k].stake - b.validators[k].stake < n
            /\ b.validators[k].stake - a.validators[k].stake < n
  BY <1>1, <1>6 DEF Near
<1>8. jailed(a) = jailed(b)
  BY <1>7 DEF JailedIn
<1> HIDE DEF jailed
<1>9. \A x, y \in Int : x - y < n /\ y - x < n => Distance(x, y) < n
  BY <1>3 DEF Distance
<1>10. Booked(Books, a) /\ Booked(Books, b)
  <2>1. n \in Nat /\ p \in [1 .. n -> Records] /\ q \in [1 .. n -> Records]
    BY <1>2, PendingOrder DEF EngineInv, n, T
  <2> QED BY <1>1, <2>1, OrderBooked DEF a, b
<1>11. ASSUME NEW k \in covered
       PROVE  Distance(AmountIn(a.positions[DirectKey(k)]), AmountIn(b.positions[DirectKey(k)])) < n
  <2>1. k \in DOMAIN validators /\ FreeOfKey(Books, k) >= Books.validators[k].stake
    BY BooksParts DEF FreeOfKey
  <2>2. /\ Covers(SlashedOf(Books, a, k), HeldOfKey(Books, k) - HeldOfKey(a, k),
                  FreeOfKey(Books, k), FreeOfKey(a, k))
        /\ Covers(SlashedOf(Books, b, k), HeldOfKey(Books, k) - HeldOfKey(b, k),
                  FreeOfKey(Books, k), FreeOfKey(b, k))
    BY <1>10, <2>1, BooksParts DEF Booked, Charged
  <2> DEFINE x == a.validators[k].stake
             y == b.validators[k].stake
             z == Books.validators[k].stake
             f == FreeOfKey(Books, k)
             ha == HeldOfKey(a, k)
             hb == HeldOfKey(b, k)
             hz == HeldOfKey(Books, k)
  <2>3. BooksOK(a) /\ BooksOK(b) /\ k \in DOMAIN a.validators /\ k \in DOMAIN b.validators
        /\ k \in DOMAIN Books.validators
    BY <1>10, <2>1, BooksParts DEF Booked
  <2>4. x \in Nat /\ y \in Nat /\ z \in Nat /\ ha \in Nat /\ hb \in Nat /\ hz \in Nat /\ f \in Nat
    BY <1>1, <2>3, PositionFacts
  <2>5. x - y < n /\ y - x < n
    BY <1>7, <2>1
  <2>6. SlashedOf(Books, a, k) = z - x /\ SlashedOf(Books, b, k) = z - y
    BY DEF SlashedOf
  <2>7. Covers(z - x, hz - ha, f, FreeOfKey(a, k)) /\ Covers(z - y, hz - hb, f, FreeOfKey(b, k))
    BY <2>2, <2>6
  <2>8. f >= z
    BY <2>1
  <2> HIDE DEF x, y, z, f, ha, hb, hz
  <2>9. hz - ha = z - x /\ hz - hb = z - y
    BY <2>4, <2>7, <2>8 DEF Covers
  <2>10. ha - hb < n /\ hb - ha < n
    BY <1>3, <2>4, <2>5, <2>9
  <2>11. Distance(ha, hb) < n
    BY <1>9, <2>4, <2>10
  <2> QED BY <2>11 DEF ha, hb, HeldOfKey
<1> HIDE DEF covered
<1> QED BY <1>7, <1>8, <1>9, <1>11 DEF a, b

(* For any records, stakes and order: all nodes jail the same validators, and their
   books are less than one unit per pending record apart.                   *)
THEOREM ProcessingOrdersAgree == Spec => []OrdersAgreeButForRounding
BY EngineInit, EngineNext, OrdersAgree, PTL DEF Spec

-----------------------------------------------------------------------------
(***************************************************************************)
(* Developer rewards.  What is pending of a contract never exceeds what it *)
(* earned, so that adding to pending cannot overflow when adding to        *)
(* total_fees_earned did not.                                              *)
(***************************************************************************)
RewardsType ==
    /\ DOMAIN earned \subseteq Contracts /\ \A c \in DOMAIN earned : earned[c] \in 0 .. RewardMax
    /\ DOMAIN pending \subseteq DOMAIN earned /\ \A c \in DOMAIN pending : pending[c] \in Nat
    /\ distributed \in Nat
    /\ paid \in [Developers -> Nat]

PendingWithinEarned == \A c \in DOMAIN earned : PendingOf(c) <= earned[c]

RewardsInv == RewardsType /\ PendingWithinEarned /\ RewardsConserved

LEMMA FiniteDevelopers == IsFiniteSet(Developers) /\ \A c \in Contracts : Deployer[c] \in Developers
<1>1. [c \in Contracts |-> Deployer[c]] \in Surjection(Contracts, Developers)
  BY DEF Surjection, Developers
<1>2. IsFiniteSet(Developers)
  BY <1>1, FS_Surjection, RewardsAssumption DEF ExistsSurjection
<1> QED BY <1>2 DEF Developers

LEMMA RewardTerms ==
    ASSUME RewardsType
    PROVE  /\ IsFiniteSet(DOMAIN earned) /\ \A d : IsFiniteSet(DeployedBy(d))
           /\ \A d : DeployedBy(d) \subseteq DOMAIN earned
           /\ \A c \in DOMAIN earned : /\ earned[c] \in Nat /\ PendingOf(c) \in Nat
                                       /\ PendingFees[c] = PendingOf(c)
           /\ DOMAIN PendingFees = DOMAIN earned
<1>1. IsFiniteSet(DOMAIN earned)
  BY RewardsAssumption, FS_Subset DEF RewardsType
<1>2. \A d : DeployedBy(d) \subseteq DOMAIN earned
  BY DEF DeployedBy
<1>3. \A d : IsFiniteSet(DeployedBy(d))
  BY <1>1, <1>2, FS_Subset
<1>4. \A c \in DOMAIN earned : earned[c] \in Nat /\ PendingOf(c) \in Nat
  BY RewardsAssumption DEF RewardsType, PendingOf
<1> QED BY <1>1, <1>2, <1>3, <1>4 DEF PendingFees

LEMMA RewardsStart == RewardsInit => RewardsInv
<1> SUFFICES ASSUME RewardsInit PROVE RewardsInv
  OBVIOUS
<1>1. DOMAIN earned = {} /\ DOMAIN pending = {} /\ distributed = 0 /\ paid = [d \in Developers |-> 0]
  BY DEF RewardsInit
<1>2. RewardsType /\ PendingWithinEarned
  BY <1>1 DEF RewardsType, PendingWithinEarned
<1>3. ASSUME NEW d \in Developers
      PROVE  SumFunctionOnSet(earned, DeployedBy(d)) = Undistributed(d) + paid[d]
  <2>1. DeployedBy(d) = {} /\ paid[d] = 0
    BY <1>1 DEF DeployedBy
  <2>2. SumFunctionOnSet(earned, DeployedBy(d)) = 0 /\ Undistributed(d) = 0
    BY <2>1, SumEmpty DEF Undistributed
  <2> QED BY <2>1, <2>2
<1>4. SumFunction(paid) = 0
  <2>1. DOMAIN paid = Developers /\ \A d \in Developers : paid[d] = 0
    BY <1>1
  <2>2. SumFunctionOnSet(paid, Developers) = 0
    BY <2>1, FiniteDevelopers, SumZero
  <2> QED BY <2>1, <2>2 DEF SumFunction
<1>5. Min({0, RewardMax}) = 0
  BY RewardsAssumption, MinTwo
<1> QED BY <1>1, <1>2, <1>3, <1>4, <1>5 DEF RewardsInv, RewardsConserved

LEMMA RegisterContractStep ==
    ASSUME RewardsInv, NEW c \in Contracts, RegisterContract(c)
    PROVE  RewardsInv'
<1>1. /\ DOMAIN earned' = DOMAIN earned \cup {c} /\ c \notin DOMAIN earned /\ earned'[c] = 0
      /\ \A x \in DOMAIN earned : earned'[x] = earned[x]
      /\ UNCHANGED <<pending, distributed, paid>>
  BY DEF RegisterContract
<1>2. RewardsType /\ c \notin DOMAIN pending
  BY <1>1 DEF RewardsInv, RewardsType
<1>3. RewardsType'
  BY <1>1, RewardsAssumption DEF RewardsInv, RewardsType
<1>4. /\ \A x : PendingOf(x)' = PendingOf(x)
      /\ PendingOf(c)' = 0
  BY <1>1, <1>2 DEF PendingOf
<1>5. PendingWithinEarned'
  BY <1>1, <1>4 DEF RewardsInv, PendingWithinEarned
<1>6. /\ \A x \in DOMAIN earned : PendingFees'[x] = PendingFees[x]
      /\ PendingFees'[c] = 0
  BY <1>1, <1>4 DEF PendingFees
<1>7. ASSUME NEW d \in Developers
      PROVE  /\ SumFunctionOnSet(earned', DeployedBy(d)') = SumFunctionOnSet(earned, DeployedBy(d))
             /\ Undistributed(d)' = Undistributed(d)
  <2> DEFINE S == DeployedBy(d)
             e == earned'
             p == PendingFees'
  <2>1. /\ IsFiniteSet(S) /\ c \notin S
        /\ \A x \in S : /\ earned[x] \in Int /\ e[x] = earned[x]
                        /\ PendingFees[x] \in Int /\ p[x] = PendingFees[x]
    BY <1>1, <1>2, <1>6, RewardTerms
  <2>2. DeployedBy(d)' = S \/ DeployedBy(d)' = S \cup {c}
    BY <1>1 DEF DeployedBy
  <2>3. e[c] = 0 /\ p[c] = 0
    BY <1>1, <1>6
  <2> HIDE DEF S, e, p
  <2>4. /\ SumFunctionOnSet(e, S) = SumFunctionOnSet(earned, S)
        /\ SumFunctionOnSet(p, S) = SumFunctionOnSet(PendingFees, S)
    BY <2>1, SumSame
  <2>5. /\ SumFunctionOnSet(e, S) \in Int /\ SumFunctionOnSet(p, S) \in Int
    BY <2>1, SumInt
  <2>9. \A x \in S \cup {c} : e[x] \in Int /\ p[x] \in Int
    BY <2>1, <2>3
  <2>6. SumFunctionOnSet(e, S \cup {c}) = e[c] + SumFunctionOnSet(e, S)
    BY <2>1, <2>9, SumAdd
  <2>7. SumFunctionOnSet(p, S \cup {c}) = p[c] + SumFunctionOnSet(p, S)
    BY <2>1, <2>9, SumAdd
  <2>10. /\ SumFunctionOnSet(e, S \cup {c}) = SumFunctionOnSet(earned, S)
         /\ SumFunctionOnSet(p, S \cup {c}) = SumFunctionOnSet(PendingFees, S)
    BY <2>3, <2>4, <2>5, <2>6, <2>7
  <2>8. /\ SumFunctionOnSet(e, DeployedBy(d)') = SumFunctionOnSet(earned, S)
        /\ SumFunctionOnSet(p, DeployedBy(d)') = SumFunctionOnSet(PendingFees, S)
    BY <2>2, <2>4, <2>10, Zenon
  <2> QED BY <2>8 DEF e, p, S, Undistributed
<1>8. RewardsConserved'
  BY <1>1, <1>7 DEF RewardsInv, RewardsConserved
<1> QED BY <1>3, <1>5, <1>8 DEF RewardsInv

LEMMA RecordFeeStep ==
    ASSUME RewardsInv, NEW c \in Contracts, NEW fee \in FeeAmounts, RecordFee(c, fee)
    PROVE  RewardsInv'
<1>1. /\ RewardsType /\ c \in DOMAIN earned /\ fee \in Nat
      /\ earned[c] \in Nat /\ PendingOf(c) \in Nat
      /\ PendingOf(c) <= earned[c] /\ earned[c] + fee <= RewardMax /\ RewardMax \in Nat
  BY RewardsAssumption, RewardTerms DEF RewardsInv, PendingWithinEarned, RecordFee
<1>2. PendingOf(c) + fee <= RewardMax
  BY <1>1
<1>3. /\ earned' = [earned EXCEPT ![c] = earned[c] + fee]
      /\ pending' = [x \in DOMAIN pending \cup {c} |->
                        IF x = c THEN PendingOf(c) + fee ELSE pending[x]]
      /\ UNCHANGED <<distributed, paid>>
  BY <1>2 DEF RecordFee
<1>4. /\ DOMAIN earned' = DOMAIN earned /\ earned'[c] = earned[c] + fee
      /\ \A x \in DOMAIN earned \ {c} : earned'[x] = earned[x]
  BY <1>1, <1>3
<1>5. /\ DOMAIN pending' = DOMAIN pending \cup {c} /\ pending'[c] = PendingOf(c) + fee
      /\ \A x \in DOMAIN pending \ {c} : pending'[x] = pending[x]
  BY <1>3
<1>6. RewardsType'
  BY <1>1, <1>3, <1>4, <1>5 DEF RewardsType
<1>7. PendingOf(c)' = PendingOf(c) + fee /\ \A x : x # c => PendingOf(x)' = PendingOf(x)
  BY <1>5 DEF PendingOf
<1>8. PendingWithinEarned'
  BY <1>1, <1>4, <1>7 DEF RewardsInv, PendingWithinEarned
<1>9. /\ PendingFees'[c] = PendingFees[c] + fee
      /\ \A x \in DOMAIN earned \ {c} : PendingFees'[x] = PendingFees[x]
  BY <1>1, <1>4, <1>7 DEF PendingFees
<1>10. ASSUME NEW d \in Developers
       PROVE  SumFunctionOnSet(earned', DeployedBy(d)') = Undistributed(d)' + paid'[d]
  <2> DEFINE S == DeployedBy(d)
             e == earned'
             p == PendingFees'
  <2>1. DeployedBy(d)' = S
    BY <1>4 DEF DeployedBy
  <2>2. /\ IsFiniteSet(S) /\ S \subseteq DOMAIN earned
        /\ \A x \in S : earned[x] \in Int /\ PendingFees[x] \in Int
        /\ \A x \in S \ {c} : e[x] = earned[x] /\ p[x] = PendingFees[x]
        /\ e[c] = earned[c] + fee /\ p[c] = PendingFees[c] + fee
    BY <1>1, <1>4, <1>9, RewardTerms
  <2>3. paid[d] \in Nat /\ paid'[d] = paid[d]
    BY <1>1, <1>3 DEF RewardsType
  <2>4. SumFunctionOnSet(earned, S) = SumFunctionOnSet(PendingFees, S) + paid[d]
    BY DEF RewardsInv, RewardsConserved, Undistributed
  <2> HIDE DEF S, e, p
  <2>5. SumFunctionOnSet(earned, S) \in Int /\ SumFunctionOnSet(PendingFees, S) \in Int
    BY <2>2, SumInt
  <2>6. CASE c \in S
    <3>1. \A x \in S : e[x] \in Int /\ p[x] \in Int
      BY <1>1, <2>2
    <3>2. earned[c] \in Int /\ PendingFees[c] \in Int
      BY <2>2, <2>6
    <3>3. SumFunctionOnSet(e, S) = SumFunctionOnSet(earned, S) - earned[c] + e[c]
      BY <2>2, <2>6, <3>1, SumChange
    <3>4. SumFunctionOnSet(p, S) = SumFunctionOnSet(PendingFees, S) - PendingFees[c] + p[c]
      BY <2>2, <2>6, <3>1, SumChange
    <3>5. SumFunctionOnSet(e, S) = SumFunctionOnSet(earned, S) + fee
      BY <1>1, <2>2, <2>5, <3>2, <3>3
    <3>6. SumFunctionOnSet(p, S) = SumFunctionOnSet(PendingFees, S) + fee
      BY <1>1, <2>2, <2>5, <3>2, <3>4
    <3>7. SumFunctionOnSet(e, S) = SumFunctionOnSet(p, S) + paid'[d]
      BY <1>1, <2>3, <2>4, <2>5, <3>5, <3>6
    <3> QED BY <2>1, <3>7 DEF e, p, S, Undistributed
  <2>7. CASE c \notin S
    <3>1. \A x \in S : e[x] = earned[x] /\ p[x] = PendingFees[x]
      BY <2>2, <2>7
    <3>2. /\ SumFunctionOnSet(earned, S) = SumFunctionOnSet(e, S)
          /\ SumFunctionOnSet(PendingFees, S) = SumFunctionOnSet(p, S)
      BY <2>2, <3>1, SumSame
    <3>3. SumFunctionOnSet(e, S) = SumFunctionOnSet(p, S) + paid'[d]
      BY <2>3, <2>4, <3>2
    <3> QED BY <2>1, <3>3 DEF e, p, S, Undistributed
  <2> QED BY <2>6, <2>7
<1>11. RewardsConserved'
  BY <1>3, <1>10 DEF RewardsInv, RewardsConserved
<1> QED BY <1>6, <1>8, <1>11 DEF RewardsInv


LEMMA DistributeStep ==
    ASSUME RewardsInv, DistributeRewards
    PROVE  RewardsInv'
<1>1. /\ RewardsType /\ RewardMax \in Nat
      /\ paid' = [d \in Developers |-> paid[d] + Undistributed(d)]
      /\ distributed' = Min({distributed + SumFunction(PendingFees), RewardMax})
      /\ DOMAIN pending' = {} /\ earned' = earned
  BY RewardsAssumption DEF RewardsInv, DistributeRewards
<1>2. \A c : PendingOf(c)' = 0
  BY <1>1 DEF PendingOf
<1>3. \A c \in DOMAIN earned : PendingFees'[c] = 0
  BY <1>1, <1>2 DEF PendingFees
<1>4. \A d : DeployedBy(d)' = DeployedBy(d)
  BY <1>1 DEF DeployedBy
<1>5. ASSUME NEW d \in Developers
      PROVE  Undistributed(d) \in Nat /\ paid[d] \in Nat /\ Undistributed(d)' = 0
  <2>1. /\ IsFiniteSet(DeployedBy(d)) /\ DeployedBy(d) \subseteq DOMAIN earned
        /\ \A c \in DeployedBy(d) : PendingFees[c] \in Nat
    BY <1>1, RewardTerms
  <2>2. Undistributed(d) \in Nat
    BY <2>1, SumNat DEF Undistributed
  <2> DEFINE p == PendingFees'
             S == DeployedBy(d)
  <2>3. IsFiniteSet(S) /\ \A c \in S : p[c] = 0
    BY <1>3, <2>1
  <2> HIDE DEF p, S
  <2>4. SumFunctionOnSet(p, S) = 0
    BY <2>3, SumZero
  <2>5. Undistributed(d)' = SumFunctionOnSet(p, S)
    BY <1>4 DEF Undistributed, p, S
  <2> QED BY <1>1, <2>2, <2>4, <2>5 DEF RewardsType
<1>6. RewardsType'
  <2>1. distributed + SumFunction(PendingFees) \in Nat
    <3>1. SumFunctionOnSet(PendingFees, DOMAIN earned) \in Nat
      BY <1>1, RewardTerms, SumNat
    <3>2. SumFunction(PendingFees) \in Nat
      BY <1>1, <3>1, RewardTerms DEF SumFunction
    <3> QED BY <1>1, <3>2 DEF RewardsType
  <2>2. distributed' \in Nat
    BY <1>1, <2>1, MinTwo
  <2>3. paid' \in [Developers -> Nat]
    BY <1>1, <1>5
  <2> QED BY <1>1, <2>2, <2>3 DEF RewardsType
<1>7. PendingWithinEarned'
  BY <1>1, <1>2 DEF RewardsType, PendingWithinEarned
<1>8. ASSUME NEW d \in Developers
      PROVE  SumFunctionOnSet(earned, DeployedBy(d))' = Undistributed(d)' + paid'[d]
  <2>1. SumFunctionOnSet(earned, DeployedBy(d)) = Undistributed(d) + paid[d]
    BY DEF RewardsInv, RewardsConserved
  <2>2. paid'[d] = paid[d] + Undistributed(d)
    BY <1>1
  <2>3. SumFunctionOnSet(earned, DeployedBy(d))' = SumFunctionOnSet(earned, DeployedBy(d))
    BY <1>1, <1>4
  <2> QED BY <1>5, <2>1, <2>2, <2>3
<1>9. distributed' = Min({SumFunction(paid'), RewardMax})
  <2> DEFINE before == SumFunction(paid)
             after == SumFunction(paid')
             drained == SumFunction(PendingFees)
             g == [d \in Developers |-> Undistributed(d)]
             q == paid'
  <2>1. drained \in Nat /\ drained = SumFunctionOnSet(PendingFees, DOMAIN earned)
    <3>1. SumFunctionOnSet(PendingFees, DOMAIN earned) \in Nat
      BY <1>1, RewardTerms, SumNat
    <3> QED BY <1>1, <3>1, RewardTerms DEF SumFunction
  <2>2. before \in Nat /\ before = SumFunctionOnSet(paid, Developers)
    <3>1. \A d \in Developers : paid[d] \in Nat
      BY <1>5
    <3>2. SumFunctionOnSet(paid, Developers) \in Nat
      BY <3>1, FiniteDevelopers, SumNat
    <3> QED BY <1>1, <3>2 DEF SumFunction, RewardsType
  <2>3. SumFunctionOnSet(g, Developers) = SumFunctionOnSet(PendingFees, DOMAIN earned)
    <3>1. \A d \in Developers : g[d] = SumFunctionOnSet(PendingFees, {c \in DOMAIN earned : Deployer[c] = d})
      BY DEF Undistributed, DeployedBy
    <3>2. /\ IsFiniteSet(DOMAIN earned) /\ IsFiniteSet(Developers)
          /\ \A c \in DOMAIN earned : Deployer[c] \in Developers
      BY <1>1, RewardTerms, FiniteDevelopers DEF RewardsType
    <3>3. \A c \in DOMAIN earned : PendingFees[c] \in Int
      BY <1>1, RewardTerms
    <3>4. PartSums(g, PendingFees, DOMAIN earned, Developers, Deployer)
      BY <3>1 DEF PartSums
    <3> HIDE DEF g
    <3> QED BY <3>2, <3>3, <3>4, SumByParts
  <2>4. after = SumFunctionOnSet(q, Developers)
    <3>1. DOMAIN q = Developers
      BY <1>1
    <3> QED BY <3>1 DEF SumFunction
  <2>5. \A d \in Developers : paid[d] \in Int /\ g[d] \in Int /\ q[d] = paid[d] + g[d]
    BY <1>1, <1>5
  <2> HIDE DEF g, q
  <2>6. SumFunctionOnSet(q, Developers) = SumFunctionOnSet(paid, Developers) + SumFunctionOnSet(g, Developers)
    BY <2>5, FiniteDevelopers, SumPlus
  <2>7. after = before + drained
    BY <2>1, <2>2, <2>3, <2>4, <2>6
  <2>8. distributed = Min({before, RewardMax}) /\ distributed' = Min({distributed + drained, RewardMax})
    BY <1>1 DEF RewardsInv, RewardsConserved
  <2> HIDE DEF before, after, drained
  <2>9. distributed = IF before <= RewardMax THEN before ELSE RewardMax
    BY <1>1, <2>2, <2>8, MinTwo
  <2>10. distributed + drained \in Nat /\ after \in Nat
    BY <1>1, <2>1, <2>2, <2>7, <2>9
  <2>11. distributed' = IF distributed + drained <= RewardMax THEN distributed + drained ELSE RewardMax
    BY <1>1, <2>8, <2>10, MinTwo
  <2>12. Min({after, RewardMax}) = IF after <= RewardMax THEN after ELSE RewardMax
    BY <1>1, <2>10, MinTwo
  <2>13. distributed' = Min({after, RewardMax})
    BY <1>1, <2>1, <2>2, <2>7, <2>9, <2>11, <2>12
  <2> QED BY <2>13 DEF after
<1>10. RewardsConserved'
  BY <1>8, <1>9 DEF RewardsConserved
<1> QED BY <1>6, <1>7, <1>10 DEF RewardsInv

(* For any contracts, deployers and fees: what a developer's contracts earned is
   pending or was paid to the developer, and total_distributed is what was paid
   until it saturates.  Pending never exceeds what was earned, so record_fee
   never books a fee as earned and then fails to add it to pending.          *)
THEOREM RewardsNeverLost == RewardsSpec => []RewardsConserved
<1>1. RewardsInv /\ [RewardsNext]_rewardVars => RewardsInv'
  <2> SUFFICES ASSUME RewardsInv, [RewardsNext]_rewardVars PROVE RewardsInv'
    OBVIOUS
  <2>1. ASSUME NEW c \in Contracts, RegisterContract(c) PROVE RewardsInv'
    BY <2>1, RegisterContractStep
  <2>2. ASSUME NEW c \in Contracts, NEW fee \in FeeAmounts, RecordFee(c, fee) PROVE RewardsInv'
    BY <2>2, RecordFeeStep
  <2>3. CASE DistributeRewards
    BY <2>3, DistributeStep
  <2>4. CASE UNCHANGED rewardVars
    BY <2>4 DEF rewardVars, RewardsInv, RewardsType, PendingWithinEarned, RewardsConserved,
                PendingOf, Undistributed, PendingFees, DeployedBy
  <2> QED BY <2>1, <2>2, <2>3, <2>4 DEF RewardsNext
<1>2. RewardsInv => RewardsConserved
  BY DEF RewardsInv
<1> QED BY <1>1, <1>2, RewardsStart, PTL DEF RewardsSpec


-----------------------------------------------------------------------------
(***************************************************************************)
(* The fee market.  The base fee stays between the floor and the maximum;  *)
(* a block's share of it is a rounded-down quotient, monotone in the gas.  *)
(***************************************************************************)
LEMMA MaxTwo ==
    ASSUME NEW a \in Int, NEW b \in Int
    PROVE  Max({a, b}) = IF a >= b THEN a ELSE b
<1>1. \E x \in {a, b} : \A y \in {a, b} : x >= y
  OBVIOUS
<1>2. Max({a, b}) \in {a, b} /\ \A y \in {a, b} : Max({a, b}) >= y
  BY <1>1 DEF Max
<1> QED BY <1>2

Share(fee, excess) == (fee * excess) \div (TargetGas * Elasticity)

FeeInv == baseFee \in FeeFloor .. FeeMax /\ height \in Nat

LEMMA FeeConstants ==
    /\ TargetGas \in Nat \ {0} /\ Elasticity \in Nat \ {0} /\ Bps \in Nat \ {0}
    /\ TargetGas * Elasticity \in Nat \ {0}
    /\ FeeMax \in Nat \ {0} /\ FeeFloor \in Nat /\ FeeFloor <= FeeMax
BY FeesAssumption

(* The share is at most the fee within elasticity_multiplier targets, at most
   one part in elasticity_multiplier within one, and grows with the gas.     *)
LEMMA ShareFacts ==
    ASSUME NEW fee \in Nat, NEW x \in Nat
    PROVE  /\ Share(fee, x) \in Nat
           /\ x <= TargetGas * Elasticity => Share(fee, x) <= fee
           /\ x <= TargetGas => Share(fee, x) <= fee \div Elasticity
           /\ \A y \in Nat : x <= y => Share(fee, x) <= Share(fee, y)
<1> DEFINE d == TargetGas * Elasticity
<1>1. d \in Nat \ {0}
  BY FeeConstants
<1>2. \A y \in Nat : fee * y \in Nat
  OBVIOUS
<1>3. Share(fee, x) \in Nat
  <2> HIDE DEF d
  <2>1. (fee * x) \div d \in Nat
    BY <1>1, <1>2, DivFacts
  <2> QED BY <2>1 DEF d, Share
<1>4. ASSUME x <= d PROVE Share(fee, x) <= fee
  <2> HIDE DEF d
  <2>1. fee * x <= fee * d
    BY <1>1, <1>4, MulMono
  <2>2. fee * x <= d * fee
    BY <1>1, <2>1
  <2>3. (fee * x) \div d <= fee
    BY <1>1, <1>2, <2>2, DivUpper
  <2> QED BY <2>3 DEF d, Share
<1>5. ASSUME x <= TargetGas PROVE Share(fee, x) <= fee \div Elasticity
  <2> DEFINE p == fee \div Elasticity
             c == Share(fee, x)
  <2>1. /\ p \in Nat /\ fee < Elasticity * p + Elasticity
        /\ TargetGas \in Nat \ {0} /\ Elasticity \in Nat \ {0}
    BY FeeConstants, DivFacts
  <2>2. c \in Nat /\ (TargetGas * Elasticity) * c <= fee * x
    <3> HIDE DEF d
    <3>1. d * ((fee * x) \div d) <= fee * x
      BY <1>1, <1>2, DivFacts
    <3> QED BY <1>3, <3>1 DEF d, Share
  <2> HIDE DEF p, c, d
  <2>3. fee * x <= fee * TargetGas
    BY <1>5, <2>1, MulMono
  <2>4. TargetGas * (Elasticity * c) <= TargetGas * fee
    BY <2>1, <2>2, <2>3
  <2>5. Elasticity * c <= fee
    <3>1. fee < Elasticity * c => TargetGas * (fee + 1) <= TargetGas * (Elasticity * c)
      BY <2>1, <2>2, MulMono
    <3>2. TargetGas * (fee + 1) = TargetGas * fee + TargetGas
      BY <2>1
    <3> DEFINE u == TargetGas * fee
               v == TargetGas * (Elasticity * c)
               w == Elasticity * c
    <3>3. u \in Nat /\ v \in Nat /\ w \in Nat
      BY <2>1, <2>2
    <3>4. v <= u /\ (fee < w => u + TargetGas <= v)
      BY <2>4, <3>1, <3>2
    <3> HIDE DEF u, v, w
    <3>5. w <= fee
      BY <2>1, <3>3, <3>4
    <3> QED BY <3>5 DEF w
  <2>6. c <= fee \div Elasticity
    BY <2>1, <2>2, <2>5, DivLower
  <2> QED BY <2>6 DEF c
<1>6. ASSUME NEW y \in Nat, x <= y PROVE Share(fee, x) <= Share(fee, y)
  <2> HIDE DEF d
  <2>1. fee * x <= fee * y
    BY <1>6, MulMono
  <2>2. (fee * x) \div d <= (fee * y) \div d
    BY <1>1, <1>2, <2>1, DivMono
  <2> QED BY <2>2 DEF d, Share
<1> QED BY <1>3, <1>4, <1>5, <1>6 DEF d


(* Truncation to 64 bits gives a u64, and leaves one alone. *)
LEMMA Truncation ==
    ASSUME NEW a \in Nat
    PROVE  AsU64(a) \in 0 .. FeeMax /\ (a <= FeeMax => AsU64(a) = a)
BY FeeConstants DEF AsU64

(* Whatever the gas, the fee stays between the floor and the maximum. *)
LEMMA FeeInRange ==
    ASSUME NEW fee \in FeeFloor .. FeeMax, NEW gas \in Nat
    PROVE  UpdateBaseFee(fee, gas) \in FeeFloor .. FeeMax
<1>1. fee \in Nat /\ FeeMax \in Nat \ {0} /\ FeeFloor \in Nat /\ FeeFloor <= FeeMax
      /\ TargetGas \in Nat
  BY FeeConstants
<1>2. CASE gas = TargetGas
  BY <1>2 DEF UpdateBaseFee
<1>3. CASE gas > TargetGas
  <2> DEFINE m == Max({Share(fee, gas - TargetGas), 1})
             up == AsU64(m)
             sum == SatAdd(fee, up)
  <2>1. UpdateBaseFee(fee, gas) = Max({FeeFloor, sum})
    BY <1>1, <1>3 DEF UpdateBaseFee, Share
  <2>2. m \in Nat
    <3>1. Share(fee, gas - TargetGas) \in Nat
      BY <1>1, <1>3, ShareFacts
    <3> QED BY <3>1, MaxTwo
  <2> HIDE DEF m
  <2>3. up \in Nat
    BY <1>1, <2>2, Truncation
  <2> HIDE DEF up
  <2>4. sum \in 0 .. FeeMax
    BY <1>1, <2>3, MinTwo DEF SatAdd
  <2> HIDE DEF sum
  <2> QED BY <1>1, <2>1, <2>4, MaxTwo
<1>4. CASE gas < TargetGas
  <2> DEFINE s == Share(fee, TargetGas - gas)
             down == AsU64(s)
             rest == SatSub(fee, down)
  <2>1. UpdateBaseFee(fee, gas) = Max({FeeFloor, rest})
    <3>1. gas # TargetGas /\ ~(gas > TargetGas)
      BY <1>1, <1>4
    <3> QED BY <3>1, Zenon DEF UpdateBaseFee, Share
  <2>2. s \in Nat
    BY <1>1, <1>4, ShareFacts
  <2> HIDE DEF s
  <2>3. down \in Nat
    BY <1>1, <2>2, Truncation
  <2> HIDE DEF down
  <2>4. rest \in 0 .. FeeMax
    <3>1. rest = Max({fee - down, 0}) /\ fee - down \in Int
      BY <1>1, <2>3 DEF SatSub
    <3>2. rest = IF fee - down >= 0 THEN fee - down ELSE 0
      BY <3>1, MaxTwo
    <3> HIDE DEF rest
    <3> QED BY <1>1, <2>3, <3>2
  <2> HIDE DEF rest
  <2> QED BY <1>1, <2>1, <2>4, MaxTwo
<1> QED BY <1>1, <1>2, <1>3, <1>4

(* The gas of a block whose share of a fee cannot exceed the fee. *)
WithinElasticity(gas) == gas <= TargetGas * (Elasticity + 1)

(* The next fee, without truncation. *)
LEMMA NextFee ==
    ASSUME NEW fee \in FeeFloor .. FeeMax, NEW gas \in Nat, WithinElasticity(gas)
    PROVE  LET up   == Share(fee, gas - TargetGas)
               down == Share(fee, TargetGas - gas)
               step == IF up >= 1 THEN up ELSE 1
           IN  /\ gas > TargetGas => UpdateBaseFee(fee, gas) =
                     IF fee + step <= FeeMax THEN fee + step ELSE FeeMax
               /\ gas < TargetGas => UpdateBaseFee(fee, gas) =
                     IF FeeFloor >= fee - down THEN FeeFloor ELSE fee - down
<1>1. fee \in Nat /\ FeeMax \in Nat \ {0} /\ FeeFloor \in Nat /\ FeeFloor <= fee /\ fee <= FeeMax
      /\ TargetGas \in Nat \ {0} /\ Elasticity \in Nat \ {0}
      /\ TargetGas * (Elasticity + 1) = TargetGas * Elasticity + TargetGas
      /\ TargetGas * Elasticity \in Nat /\ TargetGas <= TargetGas * Elasticity
  <2>1. TargetGas \in Nat \ {0} /\ Elasticity \in Nat \ {0} /\ TargetGas * 1 <= TargetGas * Elasticity
    BY FeeConstants, MulMono
  <2> QED BY <2>1, FeeConstants
<1>2. ASSUME gas > TargetGas
      PROVE  LET up   == Share(fee, gas - TargetGas)
                 step == IF up >= 1 THEN up ELSE 1
             IN  UpdateBaseFee(fee, gas) = IF fee + step <= FeeMax THEN fee + step ELSE FeeMax
  <2> DEFINE up == Share(fee, gas - TargetGas)
             step == IF up >= 1 THEN up ELSE 1
             sum == SatAdd(fee, step)
  <2>1. gas - TargetGas \in Nat /\ gas - TargetGas <= TargetGas * Elasticity
    BY <1>1, <1>2 DEF WithinElasticity
  <2>2. up \in Nat /\ up <= fee
    BY <1>1, <2>1, ShareFacts
  <2>3. UpdateBaseFee(fee, gas) = Max({FeeFloor, SatAdd(fee, AsU64(Max({up, 1})))})
    BY <1>1, <1>2 DEF UpdateBaseFee, Share
  <2> HIDE DEF up
  <2>4. Max({up, 1}) = step
    BY <2>2, MaxTwo
  <2>5. step \in Nat /\ step <= FeeMax
    BY <1>1, <2>2
  <2> HIDE DEF step
  <2>6. AsU64(step) = step
    BY <2>5, Truncation
  <2>7. UpdateBaseFee(fee, gas) = Max({FeeFloor, sum})
    BY <2>3, <2>4, <2>6
  <2>8. sum = IF fee + step <= FeeMax THEN fee + step ELSE FeeMax
    BY <1>1, <2>5, MinTwo DEF SatAdd
  <2> HIDE DEF sum
  <2>9. sum \in Nat /\ FeeFloor <= sum
    BY <1>1, <2>5, <2>8
  <2>10. UpdateBaseFee(fee, gas) = sum
    BY <1>1, <2>7, <2>9, MaxTwo
  <2> QED BY <2>8, <2>10 DEF step, up
<1>3. ASSUME gas < TargetGas
      PROVE  LET down == Share(fee, TargetGas - gas)
             IN  UpdateBaseFee(fee, gas) = IF FeeFloor >= fee - down THEN FeeFloor ELSE fee - down
  <2> DEFINE down == Share(fee, TargetGas - gas)
             rest == SatSub(fee, down)
  <2>1. TargetGas - gas \in Nat /\ TargetGas - gas <= TargetGas * Elasticity
    BY <1>1, <1>3
  <2>2. down \in Nat /\ down <= fee
    BY <1>1, <2>1, ShareFacts
  <2>3. UpdateBaseFee(fee, gas) = Max({FeeFloor, SatSub(fee, AsU64(down))})
    <3>1. gas # TargetGas /\ ~(gas > TargetGas)
      BY <1>1, <1>3
    <3> QED BY <3>1, Zenon DEF UpdateBaseFee, Share
  <2> HIDE DEF down
  <2>4. AsU64(down) = down
    BY <1>1, <2>2, Truncation
  <2>5. UpdateBaseFee(fee, gas) = Max({FeeFloor, rest})
    BY <2>3, <2>4
  <2>6. rest = fee - down
    <3>1. rest = Max({fee - down, 0}) /\ fee - down \in Nat
      BY <1>1, <2>2 DEF SatSub
    <3>2. rest = IF fee - down >= 0 THEN fee - down ELSE 0
      BY <3>1, MaxTwo
    <3> HIDE DEF rest
    <3> QED BY <3>1, <3>2
  <2> HIDE DEF rest
  <2>7. UpdateBaseFee(fee, gas) = IF FeeFloor >= rest THEN FeeFloor ELSE rest
    BY <1>1, <2>2, <2>5, <2>6, MaxTwo
  <2> QED BY <2>6, <2>7 DEF down
<1> QED BY <1>2, <1>3

LEMMA FeeInvHolds == FeeSpec => []FeeInv
<1>1. FeeInit => FeeInv
  <2> SUFFICES ASSUME FeeInit PROVE FeeInv
    OBVIOUS
  <2>1. PICK f \in InitialFees : baseFee = Max({f, FeeFloor})
    BY DEF FeeInit, InitialBaseFee
  <2>2. f \in 0 .. FeeMax
    BY FeesAssumption
  <2> QED BY <2>1, <2>2, FeeConstants, MaxTwo DEF FeeInit, FeeInv
<1>2. FeeInv /\ [FeeNext]_feeVars => FeeInv'
  <2> SUFFICES ASSUME FeeInv, [FeeNext]_feeVars PROVE FeeInv'
    OBVIOUS
  <2>1. ASSUME NEW gas \in BlockGas, Commit(gas) PROVE FeeInv'
    <3>1. gas \in Nat
      BY FeesAssumption
    <3>2. baseFee' \in FeeFloor .. FeeMax
      BY <2>1, <3>1, FeeInRange DEF Commit, FeeInv
    <3> QED BY <2>1, <3>2 DEF Commit, FeeInv
  <2>2. CASE UNCHANGED feeVars
    BY <2>2 DEF feeVars, FeeInv
  <2> QED BY <2>1, <2>2 DEF FeeNext
<1> QED BY <1>1, <1>2, PTL DEF FeeSpec


(* What one block does to a fee that is in range. *)
LEMMA OneBlock ==
    ASSUME NEW fee \in FeeFloor .. FeeMax, NEW gas \in Nat, WithinElasticity(gas)
    PROVE  LET next == UpdateBaseFee(fee, gas) IN
           /\ gas > TargetGas => next > fee \/ next = FeeMax
           /\ gas < TargetGas => next <= fee
           /\ gas <= 2 * TargetGas => next - fee <= Max({1, fee \div Elasticity})
           /\ fee - next <= fee \div Elasticity
           /\ next >= FeeFloor
<1> DEFINE next == UpdateBaseFee(fee, gas)
           part == fee \div Elasticity
           up   == Share(fee, gas - TargetGas)
           down == Share(fee, TargetGas - gas)
<1>1. /\ fee \in Nat /\ FeeMax \in Nat \ {0} /\ FeeFloor \in Nat /\ FeeFloor <= fee /\ fee <= FeeMax
      /\ TargetGas \in Nat \ {0} /\ part \in Nat
  BY FeeConstants, DivFacts
<1>2. next \in FeeFloor .. FeeMax
  BY FeeInRange
<1>3. Max({1, part}) = IF 1 >= part THEN 1 ELSE part
  BY <1>1, MaxTwo
<1>4. CASE gas = TargetGas
  <2>1. next = fee
    BY <1>4 DEF UpdateBaseFee
  <2> HIDE DEF next, part
  <2>2. gas <= 2 * TargetGas => next - fee <= Max({1, part})
    BY <1>1, <1>3, <2>1
  <2>3. fee - next <= part /\ next >= FeeFloor
    BY <1>1, <2>1
  <2> QED BY <1>1, <1>4, <2>2, <2>3 DEF next, part
<1>5. CASE gas > TargetGas
  <2> DEFINE step == IF up >= 1 THEN up ELSE 1
  <2>1. next = IF fee + step <= FeeMax THEN fee + step ELSE FeeMax
    BY <1>5, NextFee
  <2>2. gas - TargetGas \in Nat /\ (gas <= 2 * TargetGas => gas - TargetGas <= TargetGas)
    BY <1>1, <1>5
  <2>3. up \in Nat /\ (gas <= 2 * TargetGas => up <= part)
    BY <1>1, <2>2, ShareFacts
  <2> HIDE DEF next, part, up
  <2>4. step \in Nat /\ step >= 1 /\ (gas <= 2 * TargetGas => step <= Max({1, part}))
    BY <1>1, <1>3, <2>3
  <2> HIDE DEF step
  <2>5. next > fee \/ next = FeeMax
    BY <1>1, <2>1, <2>4
  <2>6. gas <= 2 * TargetGas => next - fee <= Max({1, part})
    <3> DEFINE top == Max({1, part})
    <3>1. top \in Nat
      BY <1>1, <1>3
    <3>2. gas <= 2 * TargetGas => step <= top
      BY <2>4
    <3>3. next - fee <= step
      BY <1>1, <2>1, <2>4
    <3>4. next \in Nat
      BY <1>1, <1>2
    <3> HIDE DEF top
    <3>5. gas <= 2 * TargetGas => next - fee <= top
      BY <1>1, <2>4, <3>1, <3>2, <3>3, <3>4
    <3> QED BY <3>5 DEF top
  <2>7. fee - next <= part /\ next >= FeeFloor
    BY <1>1, <1>2, <2>1, <2>4
  <2> QED BY <1>1, <1>5, <2>5, <2>6, <2>7 DEF next, part
<1>6. CASE gas < TargetGas
  <2>1. next = IF FeeFloor >= fee - down THEN FeeFloor ELSE fee - down
    BY <1>6, NextFee
  <2>2. TargetGas - gas \in Nat /\ TargetGas - gas <= TargetGas
    BY <1>1, <1>6
  <2>3. down \in Nat /\ down <= part
    BY <1>1, <2>2, ShareFacts
  <2> HIDE DEF next, part, down
  <2>4. next <= fee /\ fee - next <= part /\ next >= FeeFloor
    BY <1>1, <2>1, <2>3
  <2>5. next - fee <= Max({1, part})
    BY <1>1, <1>2, <1>3, <2>4
  <2> QED BY <1>1, <1>6, <2>4, <2>5 DEF next, part
<1> QED BY <1>1, <1>4, <1>5, <1>6

(* A fuller block never leaves a lower fee. *)
LEMMA FullerBlock ==
    ASSUME NEW fee \in FeeFloor .. FeeMax,
           NEW gas \in Nat, WithinElasticity(gas), NEW more \in Nat, WithinElasticity(more), more > gas
    PROVE  UpdateBaseFee(fee, more) >= UpdateBaseFee(fee, gas)
<1> DEFINE a == UpdateBaseFee(fee, gas)
           b == UpdateBaseFee(fee, more)
<1>1. /\ fee \in Nat /\ FeeMax \in Nat \ {0} /\ FeeFloor \in Nat /\ FeeFloor <= fee /\ fee <= FeeMax
      /\ TargetGas \in Nat \ {0}
  BY FeeConstants
<1>2. a \in FeeFloor .. FeeMax /\ b \in FeeFloor .. FeeMax
  BY FeeInRange
<1>3. /\ gas <= TargetGas => a <= fee
      /\ more >= TargetGas => b >= fee
  <2>1. gas < TargetGas => a <= fee
    BY OneBlock
  <2>2. more > TargetGas => b > fee \/ b = FeeMax
    BY OneBlock
  <2>3. (gas = TargetGas => a = fee) /\ (more = TargetGas => b = fee)
    BY DEF UpdateBaseFee
  <2> HIDE DEF a, b
  <2> QED BY <1>1, <1>2, <2>1, <2>2, <2>3
<1>4. CASE gas <= TargetGas /\ more >= TargetGas
  <2> HIDE DEF a, b
  <2>1. b >= a
    BY <1>1, <1>2, <1>3, <1>4
  <2> QED BY <2>1 DEF a, b
<1>5. CASE gas > TargetGas
  <2> DEFINE u == Share(fee, gas - TargetGas)
             v == Share(fee, more - TargetGas)
  <2>1. /\ a = (IF fee + (IF u >= 1 THEN u ELSE 1) <= FeeMax
                THEN fee + (IF u >= 1 THEN u ELSE 1) ELSE FeeMax)
    BY <1>5, NextFee
  <2>2. /\ b = (IF fee + (IF v >= 1 THEN v ELSE 1) <= FeeMax
                THEN fee + (IF v >= 1 THEN v ELSE 1) ELSE FeeMax)
    <3>1. more > TargetGas
      BY <1>1, <1>5
    <3> QED BY <3>1, NextFee
  <2>3. gas - TargetGas \in Nat /\ more - TargetGas \in Nat /\ gas - TargetGas <= more - TargetGas
    BY <1>1, <1>5
  <2>4. u \in Nat /\ v \in Nat /\ u <= v
    BY <1>1, <2>3, ShareFacts
  <2> HIDE DEF a, b, u, v
  <2>5. b >= a
    BY <1>1, <2>1, <2>2, <2>4
  <2> QED BY <2>5 DEF a, b
<1>6. CASE more < TargetGas
  <2> DEFINE u == Share(fee, TargetGas - gas)
             v == Share(fee, TargetGas - more)
  <2>1. a = IF FeeFloor >= fee - u THEN FeeFloor ELSE fee - u
    <3>1. gas < TargetGas
      BY <1>1, <1>6
    <3> QED BY <3>1, NextFee
  <2>2. b = IF FeeFloor >= fee - v THEN FeeFloor ELSE fee - v
    BY <1>6, NextFee
  <2>3. TargetGas - gas \in Nat /\ TargetGas - more \in Nat /\ TargetGas - more <= TargetGas - gas
    BY <1>1, <1>6
  <2>4. u \in Nat /\ v \in Nat /\ v <= u
    BY <1>1, <2>3, ShareFacts
  <2> HIDE DEF a, b, u, v
  <2>5. b >= a
    BY <1>1, <2>1, <2>2, <2>4
  <2> QED BY <2>5 DEF a, b
<1> QED BY <1>1, <1>4, <1>5, <1>6

(* For any target, elasticity, floor and maximum, and blocks of at most
   elasticity_multiplier targets over the target (beyond that the truncation of
   the share to 64 bits may bite): the base fee follows demand.              *)
THEOREM BaseFeeFollowsDemand ==
    ASSUME \A gas \in BlockGas : WithinElasticity(gas)
    PROVE  FeeSpec => []FeeFollowsDemand
<1>1. FeeInv => FeeFollowsDemand
  <2> SUFFICES ASSUME FeeInv PROVE FeeFollowsDemand
    OBVIOUS
  <2>1. baseFee \in FeeFloor .. FeeMax /\ \A gas \in BlockGas : gas \in Nat /\ WithinElasticity(gas)
    BY FeesAssumption DEF FeeInv
  <2>2. ASSUME NEW gas \in BlockGas, NEW more \in BlockGas, more > gas
        PROVE  UpdateBaseFee(baseFee, more) >= UpdateBaseFee(baseFee, gas)
    BY <2>1, <2>2, FullerBlock
  <2>3. ASSUME NEW gas \in BlockGas
        PROVE  LET next == UpdateBaseFee(baseFee, gas) IN
               /\ gas > TargetGas => next > baseFee \/ next = FeeMax
               /\ gas < TargetGas => next <= baseFee
               /\ gas <= 2 * TargetGas => next - baseFee <= Max({1, baseFee \div Elasticity})
               /\ baseFee - next <= baseFee \div Elasticity
               /\ next >= FeeFloor
    BY <2>1, OneBlock
  <2> QED BY <2>2, <2>3 DEF FeeFollowsDemand
<1> QED BY <1>1, FeeInvHolds, PTL


-----------------------------------------------------------------------------
(***************************************************************************)
(* The fee split.  An interpolated share is less than one basis point over *)
(* its exact value, so three of them are less than three over; two basis   *)
(* points of burn share absorb that, the sum being a whole number.         *)
(***************************************************************************)
LEMMA InterpFacts ==
    ASSUME NEW l \in Nat, NEW m \in Nat, NEW tr \in Nat \ {0}, NEW ep \in Nat, ep < tr
    PROVE  /\ Interp(l, m, ep, tr) \in Nat
           /\ tr * Interp(l, m, ep, tr) <= tr * l + (m - l) * ep + (tr - 1)
<1> DEFINE d == (m - l) * ep
           q == Quot(d, tr)
           n == -d
<1>1. d \in Int
  OBVIOUS
<1>2. Interp(l, m, ep, tr) = l + q
  BY DEF Interp
<1>3. CASE d >= 0
  <2> HIDE DEF d
  <2>1. d \in Nat /\ q = d \div tr
    BY <1>1, <1>3 DEF Quot
  <2>2. q \in Nat /\ tr * q <= d
    BY <2>1, DivFacts
  <2> HIDE DEF q
  <2>3. tr * (l + q) = tr * l + tr * q
    BY <2>2
  <2> DEFINE u == tr * q
             v == tr * l
             w == tr * (l + q)
  <2>4. u \in Nat /\ v \in Nat /\ w = v + u /\ u <= d
    BY <2>2, <2>3
  <2> HIDE DEF u, v, w
  <2>5. w <= v + d + (tr - 1)
    BY <1>1, <2>4
  <2>6. l + q \in Nat
    BY <2>2
  <2> QED BY <1>2, <2>5, <2>6 DEF u, v, w, d
<1>4. CASE d < 0
  <2>1. m < l
    <3>1. m >= l => (m - l) * ep >= 0
      OBVIOUS
    <3> QED BY <1>4, <3>1
  <2>2. n <= tr * l
    <3>1. n = (l - m) * ep
      OBVIOUS
    <3>2. (l - m) \in Nat /\ (l - m) <= l
      BY <2>1
    <3>3. (l - m) * ep <= (l - m) * tr
      BY <3>2, MulMono
    <3>4. tr * (l - m) <= tr * l
      BY <3>2, MulMono
    <3> HIDE DEF n, d
    <3>5. (l - m) * tr = tr * (l - m)
      OBVIOUS
    <3> QED BY <3>1, <3>2, <3>3, <3>4, <3>5
  <2> HIDE DEF d
  <2>3. n \in Nat /\ q = -(n \div tr)
    BY <1>1, <1>4 DEF Quot
  <2> DEFINE p == n \div tr
  <2>4. p \in Nat /\ n < tr * p + tr
    BY <2>3, DivFacts
  <2>5. p <= l
    BY <2>2, <2>3, DivUpper
  <2>6. q = -p
    BY <2>3
  <2> HIDE DEF p, q
  <2>7. tr * (l + q) = tr * l - tr * p
    BY <2>4, <2>6
  <2> DEFINE u == tr * p
             v == tr * l
             w == tr * (l + q)
  <2>8. u \in Nat /\ v \in Nat /\ w = v - u /\ n < u + tr
    BY <2>4, <2>7
  <2> HIDE DEF u, v, w
  <2>9. w <= v + d + (tr - 1)
    BY <1>1, <2>8
  <2>10. l + q \in Nat
    BY <2>4, <2>5, <2>6
  <2> QED BY <1>2, <2>9, <2>10 DEF u, v, w, d
<1> QED BY <1>1, <1>3, <1>4

(* The three interpolated shares leave a burn share. *)
LEMMA SharesFit ==
    ASSUME NEW lv \in Nat, NEW lt \in Nat, NEW ld \in Nat, lv + lt + ld + 2 <= Bps,
           NEW mv \in Nat, NEW mt \in Nat, NEW md \in Nat, mv + mt + md + 2 <= Bps,
           NEW tr \in Nat \ {0}, NEW ep \in Nat, ep < tr
    PROVE  /\ Interp(lv, mv, ep, tr) \in Nat /\ Interp(lt, mt, ep, tr) \in Nat
           /\ Interp(ld, md, ep, tr) \in Nat
           /\ Interp(lv, mv, ep, tr) + Interp(lt, mt, ep, tr) + Interp(ld, md, ep, tr) <= Bps
<1> DEFINE lb == Bps - (lv + lt + ld)
           mb == Bps - (mv + mt + md)
<1>0. /\ lb \in Nat /\ lb >= 2 /\ lb + lv + lt + ld = Bps
      /\ mb \in Nat /\ mb >= 2 /\ mb + mv + mt + md = Bps
  BY FeeConstants
<1> HIDE DEF lb, mb
<1> DEFINE v == Interp(lv, mv, ep, tr)
           t == Interp(lt, mt, ep, tr)
           d == Interp(ld, md, ep, tr)
<1>1. /\ v \in Nat /\ tr * v <= tr * lv + (mv - lv) * ep + (tr - 1)
      /\ t \in Nat /\ tr * t <= tr * lt + (mt - lt) * ep + (tr - 1)
      /\ d \in Nat /\ tr * d <= tr * ld + (md - ld) * ep + (tr - 1)
  BY InterpFacts
<1> HIDE DEF v, t, d
<1> DEFINE z == v + t + d
           r == tr - ep
<1>2. z \in Nat /\ r \in Nat /\ Bps \in Nat
  BY <1>1, FeeConstants
<1>3. tr * z = tr * v + tr * t + tr * d
  BY <1>1
<1>4. /\ lv + lt + ld = Bps - lb
      /\ (mv - lv) + (mt - lt) + (md - ld) = lb - mb
  BY <1>0, <1>2
<1>5. /\ tr * lv + tr * lt + tr * ld = tr * (Bps - lb)
      /\ (mv - lv) * ep + (mt - lt) * ep + (md - ld) * ep = (lb - mb) * ep
  <2>1. tr * lv + tr * lt + tr * ld = tr * (lv + lt + ld)
    OBVIOUS
  <2>2. (mv - lv) * ep + (mt - lt) * ep + (md - ld) * ep = ((mv - lv) + (mt - lt) + (md - ld)) * ep
    OBVIOUS
  <2> QED BY <1>4, <2>1, <2>2
<1>6. tr * z <= tr * (Bps - lb) + (lb - mb) * ep + 3 * (tr - 1)
  <2> DEFINE a1 == tr * v
             a2 == tr * t
             a3 == tr * d
             b1 == tr * lv
             b2 == tr * lt
             b3 == tr * ld
             c1 == (mv - lv) * ep
             c2 == (mt - lt) * ep
             c3 == (md - ld) * ep
             a == tr * z
             b == tr * (Bps - lb)
             c == (lb - mb) * ep
  <2>1. /\ a1 \in Int /\ a2 \in Int /\ a3 \in Int /\ b1 \in Int /\ b2 \in Int /\ b3 \in Int
        /\ c1 \in Int /\ c2 \in Int /\ c3 \in Int
    BY <1>1
  <2>2. /\ a1 <= b1 + c1 + (tr - 1) /\ a2 <= b2 + c2 + (tr - 1) /\ a3 <= b3 + c3 + (tr - 1)
        /\ a = a1 + a2 + a3 /\ b1 + b2 + b3 = b /\ c1 + c2 + c3 = c
    BY <1>1, <1>3, <1>5
  <2> HIDE DEF a1, a2, a3, b1, b2, b3, c1, c2, c3, a, b, c
  <2>3. a <= b + c + 3 * (tr - 1)
    BY <2>1, <2>2
  <2> QED BY <2>3 DEF a, b, c
<1>7. tr * (Bps - lb) + (lb - mb) * ep = tr * Bps - (r * lb + ep * mb)
  BY <1>0, <1>2
<1>8. 2 * tr <= r * lb + ep * mb
  <2>1. r * 2 <= r * lb /\ ep * 2 <= ep * mb
    BY <1>0, <1>2, MulMono
  <2>2. r * 2 + ep * 2 = 2 * tr
    OBVIOUS
  <2> DEFINE x == r * lb
             y == ep * mb
  <2>3. x \in Nat /\ y \in Nat /\ r * 2 <= x /\ ep * 2 <= y
    BY <1>0, <1>2, <2>1
  <2> HIDE DEF x, y
  <2>4. 2 * tr <= x + y
    BY <1>2, <2>2, <2>3
  <2> QED BY <2>4 DEF x, y
<1>9. tr * z < tr * (Bps + 1)
  <2>1. tr * (Bps + 1) = tr * Bps + tr
    BY <1>2
  <2> DEFINE a == tr * z
             e == r * lb + ep * mb
             f == tr * Bps
             g == tr * (Bps - lb) + (lb - mb) * ep
  <2>2. a \in Nat /\ e \in Nat /\ f \in Nat
    BY <1>0, <1>2
  <2>3. a <= g + 3 * (tr - 1) /\ g = f - e /\ 2 * tr <= e
    BY <1>6, <1>7, <1>8
  <2> HIDE DEF a, e, f, g
  <2>4. a < f + tr
    BY <2>2, <2>3
  <2> QED BY <2>1, <2>4 DEF a, f
<1> HIDE DEF z, r
<1>10. z < Bps + 1
  BY <1>2, <1>9, MulCancel
<1>11. z <= Bps
  BY <1>2, <1>10
<1> QED BY <1>1, <1>11 DEF z, v, t, d


(* Three parts of a fee, rounded down, leave a part to burn. *)
LEMMA PartsFit ==
    ASSUME NEW total \in Nat, NEW v \in Nat, NEW t \in Nat, NEW d \in Nat, v + t + d <= Bps
    PROVE  /\ (total * v) \div Bps \in Nat /\ (total * t) \div Bps \in Nat
           /\ (total * d) \div Bps \in Nat
           /\ (total * v) \div Bps + (total * t) \div Bps + (total * d) \div Bps <= total
<1> DEFINE x == (total * v) \div Bps
           y == (total * t) \div Bps
           z == (total * d) \div Bps
           w == x + y + z
<1>1. Bps \in Nat \ {0} /\ total * v \in Nat /\ total * t \in Nat /\ total * d \in Nat
  BY FeeConstants
<1>2. /\ x \in Nat /\ Bps * x <= total * v /\ y \in Nat /\ Bps * y <= total * t
      /\ z \in Nat /\ Bps * z <= total * d
  BY <1>1, DivFacts
<1> HIDE DEF x, y, z
<1>3. total * (v + t + d) <= total * Bps
  <2>1. v + t + d \in Nat
    OBVIOUS
  <2> QED BY <1>1, <2>1, MulMono
<1>4. /\ Bps * w = Bps * x + Bps * y + Bps * z
      /\ total * (v + t + d) = total * v + total * t + total * d
      /\ total * Bps = Bps * total
  BY <1>1, <1>2
<1>5. Bps * w < Bps * (total + 1)
  <2>1. Bps * (total + 1) = Bps * total + Bps
    BY <1>1
  <2> DEFINE a1 == Bps * x
             a2 == Bps * y
             a3 == Bps * z
             b1 == total * v
             b2 == total * t
             b3 == total * d
             a == Bps * w
             c == Bps * total
  <2>2. /\ a1 \in Nat /\ a2 \in Nat /\ a3 \in Nat /\ b1 \in Nat /\ b2 \in Nat /\ b3 \in Nat
        /\ c \in Nat
    BY <1>1, <1>2
  <2>3. a1 <= b1 /\ a2 <= b2 /\ a3 <= b3 /\ a = a1 + a2 + a3 /\ b1 + b2 + b3 <= c
    BY <1>2, <1>3, <1>4
  <2> HIDE DEF a1, a2, a3, b1, b2, b3, a, c
  <2>4. a < c + Bps
    BY <1>1, <2>2, <2>3
  <2> QED BY <2>1, <2>4 DEF a, c
<1>6. w \in Nat
  BY <1>2
<1> HIDE DEF w
<1>7. w < total + 1
  BY <1>1, <1>5, <1>6, MulCancel
<1>8. w <= total
  BY <1>6, <1>7
<1> QED BY <1>2, <1>8 DEF w, x, y, z

LEMMA FeeIsNat ==
    ASSUME NEW fee \in Nat, NEW gas \in Nat
    PROVE  CalculateFee(fee, gas, 1) \in Nat
<1>1. \A a \in Nat, b \in Nat : SatMul(a, b) \in Nat /\ SatAdd(a, b) \in Nat
  <2> SUFFICES ASSUME NEW a \in Nat, NEW b \in Nat PROVE SatMul(a, b) \in Nat /\ SatAdd(a, b) \in Nat
    OBVIOUS
  <2>1. a * b \in Nat /\ a + b \in Nat /\ FeeMax \in Nat
    BY FeeConstants
  <2>2. Min({a * b, FeeMax}) \in {a * b, FeeMax} /\ Min({a + b, FeeMax}) \in {a + b, FeeMax}
    BY <2>1, MinTwo
  <2> QED BY <2>1, <2>2 DEF SatMul, SatAdd
<1> QED BY <1>1 DEF CalculateFee

(* The ratios of any epoch are shares of the whole ... *)
LEMMA RatiosAdd ==
    ASSUME NEW cfg \in SplitConfigs, ValidSplit(cfg), cfg.launch.burn >= 2, cfg.maturity.burn >= 2,
           NEW ep \in Nat
    PROVE  /\ SplitAtEpoch(cfg, ep) \in SplitRatios
           /\ RatioSum(SplitAtEpoch(cfg, ep)) = Bps
<1> DEFINE l == cfg.launch
           m == cfg.maturity
           tr == cfg.transition
<1>1. l \in SplitRatios /\ m \in SplitRatios /\ tr \in Nat /\ Bps \in Nat
  BY FeesAssumption
<1>2. RatioSum(l) = Bps /\ RatioSum(m) = Bps /\ l.burn >= 2 /\ m.burn >= 2
  BY DEF ValidSplit
<1>3. CASE ep >= tr
  BY <1>1, <1>2, <1>3 DEF SplitAtEpoch
<1>4. CASE ep < tr
  <2> DEFINE v == Interp(l.validator, m.validator, ep, tr)
             t == Interp(l.treasury, m.treasury, ep, tr)
             d == Interp(l.developer, m.developer, ep, tr)
  <2>1. SplitAtEpoch(cfg, ep) =
          [burn |-> Bps - v - t - d, validator |-> v, treasury |-> t, developer |-> d]
    <3>1. ~(ep >= tr)
      BY <1>1, <1>4
    <3> QED BY <3>1, Zenon DEF SplitAtEpoch
  <2>2. /\ l.burn \in Nat /\ l.validator \in Nat /\ l.treasury \in Nat /\ l.developer \in Nat
        /\ m.burn \in Nat /\ m.validator \in Nat /\ m.treasury \in Nat /\ m.developer \in Nat
        /\ l.burn + l.validator + l.treasury + l.developer = Bps
        /\ m.burn + m.validator + m.treasury + m.developer = Bps
        /\ tr \in Nat \ {0}
    BY <1>1, <1>2, <1>4 DEF SplitRatios, RatioSum
  <2>3. v \in Nat /\ t \in Nat /\ d \in Nat /\ v + t + d <= Bps
    <3> DEFINE lv == l.validator
               lt == l.treasury
               ld == l.developer
               mv == m.validator
               mt == m.treasury
               md == m.developer
    <3>1. /\ lv \in Nat /\ lt \in Nat /\ ld \in Nat /\ lv + lt + ld + 2 <= Bps
          /\ mv \in Nat /\ mt \in Nat /\ md \in Nat /\ mv + mt + md + 2 <= Bps
      BY <1>1, <1>2, <2>2
    <3> HIDE DEF lv, lt, ld, mv, mt, md, tr
    <3>2. /\ Interp(lv, mv, ep, tr) \in Nat /\ Interp(lt, mt, ep, tr) \in Nat
          /\ Interp(ld, md, ep, tr) \in Nat
          /\ Interp(lv, mv, ep, tr) + Interp(lt, mt, ep, tr) + Interp(ld, md, ep, tr) <= Bps
      BY <1>4, <2>2, <3>1, SharesFit
    <3> QED BY <3>2 DEF lv, lt, ld, mv, mt, md
  <2> HIDE DEF v, t, d
  <2>4. Bps - v - t - d \in Nat /\ (Bps - v - t - d) + v + t + d = Bps
    BY <1>1, <2>3
  <2> QED BY <2>1, <2>3, <2>4 DEF SplitRatios, RatioSum
<1> QED BY <1>1, <1>3, <1>4

(* ... and the parts of a fee are the whole fee. *)
LEMMA PartsAdd ==
    ASSUME NEW cfg \in SplitConfigs, ValidSplit(cfg), cfg.launch.burn >= 2, cfg.maturity.burn >= 2,
           NEW ep \in Nat, NEW total \in Nat
    PROVE  /\ SplitFee(cfg, total, ep) \in SplitRatios
           /\ RatioSum(SplitFee(cfg, total, ep)) = total
<1> DEFINE r == SplitAtEpoch(cfg, ep)
           v == (total * r.validator) \div Bps
           t == (total * r.treasury) \div Bps
           d == (total * r.developer) \div Bps
<1>1. SplitFee(cfg, total, ep) =
        [burn |-> total - v - t - d, validator |-> v, treasury |-> t, developer |-> d]
  BY Zenon DEF SplitFee
<1>2. r \in SplitRatios /\ RatioSum(r) = Bps /\ Bps \in Nat
  BY RatiosAdd, FeeConstants
<1> HIDE DEF r
<1>3. /\ r.burn \in Nat /\ r.validator \in Nat /\ r.treasury \in Nat /\ r.developer \in Nat
      /\ r.burn + r.validator + r.treasury + r.developer = Bps
  BY <1>2 DEF SplitRatios, RatioSum
<1>4. r.validator + r.treasury + r.developer <= Bps
  BY <1>2, <1>3
<1>5. v \in Nat /\ t \in Nat /\ d \in Nat /\ v + t + d <= total
  BY <1>3, <1>4, PartsFit
<1> HIDE DEF v, t, d
<1>6. total - v - t - d \in Nat /\ (total - v - t - d) + v + t + d = total
  BY <1>5
<1> QED BY <1>1, <1>5, <1>6 DEF SplitRatios, RatioSum

(* For any configuration, fee and epoch: two basis points of burn share at both
   ends absorb the rounding of the other three shares, and the four parts of a
   fee are never negative and add up to it.                                  *)
THEOREM BurnShareAbsorbsRounding == FeeSpec => []BurnAbsorbsRounding
<1>1. FeeInv => BurnAbsorbsRounding
  <2> SUFFICES ASSUME FeeInv,
                      NEW cfg \in {c \in SplitConfigs : ValidSplit(c) /\ c.launch.burn >= 2
                                                                   /\ c.maturity.burn >= 2},
                      NEW gas \in BlockGas
               PROVE  LET total  == CalculateFee(baseFee, gas, 1)
                          ratios == SplitAtEpoch(cfg, height)
                          parts  == SplitFee(cfg, total, height)
                      IN  /\ \A f \in DOMAIN ratios : ratios[f] >= 0 /\ parts[f] >= 0
                          /\ RatioSum(ratios) = Bps
                          /\ RatioSum(parts) = total
    BY DEF BurnAbsorbsRounding
  <2>0. /\ cfg \in SplitConfigs /\ ValidSplit(cfg)
        /\ cfg.launch.burn >= 2 /\ cfg.maturity.burn >= 2
    OBVIOUS
  <2> DEFINE total  == CalculateFee(baseFee, gas, 1)
             ratios == SplitAtEpoch(cfg, height)
             parts  == SplitFee(cfg, total, height)
  <2>1. height \in Nat /\ baseFee \in Nat /\ gas \in Nat
    BY FeesAssumption, FeeConstants DEF FeeInv
  <2>2. total \in Nat
    BY <2>1, FeeIsNat
  <2> HIDE DEF total
  <2>3. ratios \in SplitRatios /\ RatioSum(ratios) = Bps
    BY <2>0, <2>1, RatiosAdd
  <2>4. parts \in SplitRatios /\ RatioSum(parts) = total
    BY <2>0, <2>1, <2>2, PartsAdd
  <2> HIDE DEF ratios, parts
  <2>5. \A f \in DOMAIN ratios : ratios[f] >= 0 /\ parts[f] >= 0
    BY <2>3, <2>4 DEF SplitRatios
  <2> QED BY <2>3, <2>4, <2>5 DEF total, ratios, parts
<1> QED BY <1>1, FeeInvHolds, PTL

-----------------------------------------------------------------------------
(***************************************************************************)
(* The three crates in one process.                                        *)
(***************************************************************************)
Together == INSTANCE Economy

(* The operators of the instance are those of the modules it is made of. *)
LEMMA SameOperators ==
    /\ \A s : Together!Min(s) = Min(s) /\ Together!Max(s) = Max(s)
    /\ \A f, S : Together!SumFunctionOnSet(f, S) = SumFunctionOnSet(f, S)
    /\ \A f : Together!SumFunction(f) = SumFunction(f)
<1>1. \A s : Together!Min(s) = Min(s) /\ Together!Max(s) = Max(s)
  BY DEF Together!Min, Min, Together!Max, Max
<1>2. \A f, S : Together!SumFunctionOnSet(f, S) = SumFunctionOnSet(f, S)
  BY Zenon DEF Together!SumFunctionOnSet, SumFunctionOnSet, FoldFunctionOnSet,
               Together!FoldFunctionOnSet, MapThenFoldSet, Together!MapThenFoldSet
<1>3. \A f : Together!SumFunction(f) = SumFunction(f)
  BY <1>2, Zenon DEF Together!SumFunction, SumFunction
<1> QED BY <1>1, <1>2, <1>3

LEMMA SameStaking ==
    /\ \A e, n : Together!UnlockedIn(e, n) = UnlockedIn(e, n)
    /\ \A e, n, a : Together!Withdraw(e, n, a) = Withdraw(e, n, a)
<1> USE DEF Together!IsUnlocked, IsUnlocked, Together!Never, Never
<1>1. \A e, n : Together!UnlockedIn(e, n) = UnlockedIn(e, n)
  BY SameOperators, Zenon DEF Together!UnlockedIn, UnlockedIn
<1>2. \A e, n, a : Together!Withdraw(e, n, a) = Withdraw(e, n, a)
  BY Zenon DEF Together!Withdraw, Withdraw, Together!Min, Min
<1> QED BY <1>1, <1>2

LEMMA SameFee == \A f, g : Together!UpdateBaseFee(f, g) = UpdateBaseFee(f, g)
BY Zenon DEF Together!UpdateBaseFee, UpdateBaseFee, Together!SatAdd, SatAdd, Together!SatSub,
             SatSub, Together!AsU64, AsU64, Min, Together!Min, Max, Together!Max

(* The composition changes nothing: a behaviour of the economics crates in one
   process, as run economy explores it, is one of staking pool, fee market and
   developer rewards each, so the theorems about these hold there.           *)
THEOREM EconomyIsItsParts == Together!Spec => StakingSpec /\ FeeSpec /\ RewardsSpec
<1> USE DEF Together!PositionKeys, PositionKeys, Together!DirectKey, DirectKey,
            Together!Developers, Developers
<1>1. Together!Init => StakingInit /\ FeeInit /\ RewardsInit
  BY SameOperators
  DEF Together!Init, Together!StakingInit, StakingInit, Together!FeeInit, FeeInit,
      Together!InitialBaseFee, InitialBaseFee, Together!RewardsInit, RewardsInit
<1>2. Together!StakingNext => StakingNext
  <2>1. \A key, amount : Together!Unstake(key, amount) => Unstake(key, amount)
    BY SameStaking DEF Together!Unstake, Unstake
  <2>2. \A key, amount, tier : Together!Stake(key, amount, tier) => Stake(key, amount, tier)
    BY DEF Together!Stake, Stake, Together!LockDuration, LockDuration, Together!Never, Never
  <2> QED BY <2>1, <2>2 DEF Together!StakingNext, StakingNext, Together!SetEpoch, SetEpoch
<1>3. Together!FeeNext => FeeNext
  BY SameFee DEF Together!FeeNext, FeeNext, Together!Commit, Commit
<1>4. Together!RewardsNext => RewardsNext
  <2>1. \A d : Together!Undistributed(d) = Undistributed(d)
    BY SameOperators DEF Together!Undistributed, Undistributed, Together!PendingFees, PendingFees,
       Together!PendingOf, PendingOf, Together!DeployedBy, DeployedBy
  <2>2. Together!DistributeRewards => DistributeRewards
    BY <2>1, SameOperators
    DEF Together!DistributeRewards, DistributeRewards, Together!PendingFees, PendingFees,
        Together!PendingOf, PendingOf
  <2>3. \A c, fee : Together!RecordFee(c, fee) => RecordFee(c, fee)
    BY DEF Together!RecordFee, RecordFee, Together!PendingOf, PendingOf
  <2>4. \A c : Together!RegisterContract(c) => RegisterContract(c)
    BY DEF Together!RegisterContract, RegisterContract
  <2> QED BY <2>2, <2>3, <2>4 DEF Together!RewardsNext, RewardsNext
<1>5. [Together!Next]_(Together!vars)
        => [StakingNext]_stakingVars /\ [FeeNext]_feeVars /\ [RewardsNext]_rewardVars
  BY <1>2, <1>3, <1>4
  DEF Together!Next, Together!vars, Together!stakingVars, Together!feeVars, Together!rewardVars,
      stakingVars, feeVars, rewardVars
<1> QED BY <1>1, <1>5, PTL DEF Together!Spec, StakingSpec, FeeSpec, RewardsSpec
=============================================================================
