------------------------------- MODULE Slashing -------------------------------
(***************************************************************************)
(* SlashingEngine of runtime/slashing, with the validator set and the      *)
(* staking pool it acts on.  Every method borrows engine, set and pool     *)
(* mutably, so it is one step; a rotation reads the pool's voting powers.  *)
(***************************************************************************)
EXTENDS Staking, ValidatorSet

CONSTANTS
    Payloads,     \* the data evidence comes with, when it has any
    Evidence,     \* the evidence records made: [offender, offense, height, data]
    MaxEvents     \* bound: slash events recorded

VARIABLES
    evidencePool, \* records submitted: evidence |-> its processed flag
    slashHistory, \* the slash events, in order
    treasury

engineVars == <<evidencePool, slashHistory, treasury>>
vars == <<stakingVars, setVars, engineVars>>

(* SlashingConfig::default *)
SlashBps == [DoubleSign |-> 500, Downtime |-> 100, InvalidBlock |-> 1000]

SlashAmount(stake, offense) == (stake * SlashBps[offense]) \div 10000

(* What the hash of an EvidenceRecord covers: all fields but the processed flag.
   slash_validator makes its own records, with a data of its own.            *)
NoData     == ""
DirectData == "direct_slash"
EvidenceRecords ==
    [offender : Keys, offense : DOMAIN SlashBps, height : Nat,
     data : Payloads \cup {NoData, DirectData}]

(* Any key may stake, and a record names a key and an offence. *)
ASSUME EvidenceAssumption ==
    /\ Keys \subseteq Stakers
    /\ Evidence \subseteq EvidenceRecords

(* What process_single_evidence works on. *)
Books == [validators |-> validators, positions |-> positions, total |-> totalStaked,
          history |-> slashHistory, treasury |-> treasury]

SlashEvent(ev, amount) == [evidence |-> ev, amount |-> amount]

(* Mutant of Slash: the stake is taken from the delegators. *)
SlashDelegators(b, ev) ==
    LET amount == SlashAmount(b.validators[ev.offender].stake, ev.offense) IN
    [b EXCEPT !.validators[ev.offender] = [stake |-> @.stake - amount, status |-> "Jailed"],
              !.positions = [key \in PositionKeys |->
                  IF Len(key) = 2 /\ key[2] = ev.offender /\ UnlockedIn(@[key], epoch) >= amount
                  THEN Withdraw(@[key], epoch, amount)
                  ELSE @[key]],
              !.treasury = @ + amount,
              !.history = Append(@, SlashEvent(ev, amount))]

(* Mutant of Slash: the treasury is credited with what was taken from the pool. *)
SlashUnpaid(b, ev) ==
    LET amount == SlashAmount(b.validators[ev.offender].stake, ev.offense)
        key    == DirectKey(ev.offender)
        free   == UnlockedIn(b.positions[key], epoch) >= amount
    IN  [b EXCEPT !.validators[ev.offender] = [stake |-> @.stake - amount,
                                               status |-> "Jailed"],
                  !.positions[key] = IF free THEN Withdraw(@, epoch, amount) ELSE @,
                  !.total = IF free THEN @ - amount ELSE @,
                  !.treasury = IF free THEN @ + amount ELSE @,
                  !.history = Append(@, SlashEvent(ev, amount))]

(* The slash of a registered offender by a non-zero amount: the recorded stake
   shrinks, unstake is tried and may fail, the treasury is credited, the offender
   is jailed.                                                                *)
Slash(b, ev) ==
    LET amount == SlashAmount(b.validators[ev.offender].stake, ev.offense)
        key    == DirectKey(ev.offender)
        free   == UnlockedIn(b.positions[key], epoch) >= amount
    IN  [b EXCEPT !.validators[ev.offender] = [stake |-> @.stake - amount,
                                               status |-> "Jailed"],
                  !.positions[key] = IF free THEN Withdraw(@, epoch, amount) ELSE @,
                  !.total = IF free THEN @ - amount ELSE @,
                  !.treasury = @ + amount,
                  !.history = Append(@, SlashEvent(ev, amount))]

(* Mutant of ProcessSingle: an offender in jail is not slashed again. *)
ProcessSingleUnjailed(b, ev) ==
    IF /\ ev.offender \in DOMAIN b.validators
       /\ b.validators[ev.offender].status # "Jailed"
       /\ SlashAmount(b.validators[ev.offender].stake, ev.offense) > 0
    THEN Slash(b, ev)
    ELSE b

(* process_single_evidence: unknown offenders and zero amounts are skipped. *)
ProcessSingle(b, ev) ==
    IF /\ ev.offender \in DOMAIN b.validators
       /\ SlashAmount(b.validators[ev.offender].stake, ev.offense) > 0
    THEN Slash(b, ev)
    ELSE b

(* process_all_evidence goes through the pending records one by one. *)
ProcessInOrder(b, order) ==
    LET after[i \in 0 .. Len(order)] ==
            IF i = 0 THEN b ELSE ProcessSingle(after[i - 1], order[i])
    IN  after[Len(order)]

Post(b) ==
    /\ validators' = b.validators
    /\ positions' = b.positions
    /\ totalStaked' = b.total
    /\ slashHistory' = b.history
    /\ treasury' = b.treasury
    /\ UNCHANGED <<epoch, rotation>>

-----------------------------------------------------------------------------
Init ==
    /\ StakingInit
    /\ SetInit
    /\ evidencePool = [e \in {} |-> FALSE]
    /\ slashHistory = <<>>
    /\ treasury = 0

(* Mutant of SubmitEvidence: the hash of a record is not looked up. *)
SubmitEvidenceAgain(ev, processed) ==
    /\ ev.data # NoData
    /\ evidencePool' = [e \in DOMAIN evidencePool \cup {ev} |->
                           IF e = ev THEN processed ELSE evidencePool[e]]
    /\ UNCHANGED <<stakingVars, setVars, slashHistory, treasury>>

(* EvidencePool::submit_evidence: a record with data is accepted once, by its hash,
   with the processed flag its sender gave it.                               *)
SubmitEvidence(ev, processed) ==
    /\ ev.data # NoData
    /\ ev \notin DOMAIN evidencePool
    /\ evidencePool' = [e \in DOMAIN evidencePool \cup {ev} |->
                           IF e = ev THEN processed ELSE evidencePool[e]]
    /\ UNCHANGED <<stakingVars, setVars, slashHistory, treasury>>

PendingEvidence == {e \in DOMAIN evidencePool : ~ evidencePool[e]}

MarkProcessed(pool, records) == [e \in DOMAIN pool |-> e \in records \/ pool[e]]

(* process_all_evidence, in the iteration order of a HashMap. *)
ProcessAllEvidence ==
    /\ rotation = <<>>
    /\ PendingEvidence # {}
    /\ Len(slashHistory) + Cardinality(PendingEvidence) <= MaxEvents
    /\ \E order \in SetToSeqs(PendingEvidence) :
          Post(ProcessInOrder(Books, order))
    /\ evidencePool' = MarkProcessed(evidencePool, PendingEvidence)

(* slash_validator: without the pool, so the same offence may be slashed again. *)
SlashValidator(k, offense, h) ==
    LET ev == [offender |-> k, offense |-> offense, height |-> h, data |-> DirectData] IN
    /\ rotation = <<>>
    /\ Len(slashHistory) < MaxEvents
    /\ k \in DOMAIN validators
    /\ SlashAmount(validators[k].stake, offense) > 0
    /\ Post(Slash(Books, ev))
    /\ UNCHANGED evidencePool

VotingPowers == [k \in Keys |-> VotingPowerIn(positions, k)]

Next ==
    \/ StakingNext /\ rotation = <<>> /\ UNCHANGED <<setVars, engineVars>>
    \/ /\ \/ \E k \in Keys, stake \in Stakes : RegisterValidator(k, stake)
          \/ \E k \in Keys : DeregisterValidator(k) \/ Unjail(k)
          \/ EpochRotation(VotingPowers)
          \/ RotateSwap
          \/ RotateFill
       /\ UNCHANGED <<stakingVars, engineVars>>
    \/ \E ev \in Evidence, processed \in BOOLEAN : SubmitEvidence(ev, processed)
    \/ ProcessAllEvidence
    \/ \E ev \in Evidence : SlashValidator(ev.offender, ev.offense, ev.height)

Spec == Init /\ [][Next]_vars

-----------------------------------------------------------------------------
(* engine.rs: "Only the validator's own stake is slashed.  Delegator stake is
   never touched by slashing": a step that slashes leaves every delegation and
   every other staker's position alone.                                      *)
DelegatorsNeverSlashed ==
    [][slashHistory' # slashHistory =>
          LET offenders == {slashHistory'[i].evidence.offender :
                               i \in (DOMAIN slashHistory') \ DOMAIN slashHistory}
          IN  \A key \in PositionKeys \ {DirectKey(k) : k \in offenders} :
                 positions'[key] = positions[key]]_vars

(* One submitted record is punished at most once, however often it is submitted
   again and whatever happens to the offender in between.  A record with other data
   is another record, and one with slash_validator's data has its hash.      *)
PunishedOnce ==
    \A ev \in {e \in Evidence : e.data # DirectData} :
        Cardinality({i \in DOMAIN slashHistory : slashHistory[i].evidence = ev}) <= 1

RecordedStake(v) == SumFunction([k \in DOMAIN v |-> v[k].stake])

(* process_single_evidence writes one slash into four books, and its unstake may
   fail.  Over any number of records processed at once: the treasury gets exactly
   what leaves the recorded stakes; an offender's own position loses just as much
   if its unlocked stake covers it, and otherwise no more than it had unlocked and
   no more than was slashed; total_staked follows the positions.  So treasury and
   pool part only over offenders whose stake is locked.                      *)
SlashedStakeIsBooked ==
    [][slashHistory' # slashHistory =>
          /\ treasury' - treasury = RecordedStake(validators) - RecordedStake(validators')
          /\ \A k \in DOMAIN validators :
                LET slashed == validators[k].stake - validators'[k].stake
                    key     == DirectKey(k)
                    lost    == AmountIn(positions[key]) - AmountIn(positions'[key])
                    free    == UnlockedIn(positions[key], epoch)
                IN  /\ 0 <= lost /\ lost <= slashed /\ lost <= free
                    /\ slashed <= free => lost = slashed
          /\ totalStaked - totalStaked' = TotalAmount(positions) - TotalAmount(positions')]_vars

Orders == SetToSeqs(PendingEvidence)
Distance(a, b) == IF a < b THEN b - a ELSE a - b

(* Nodes walk the pending evidence in different orders (a HashMap's) and rounding
   makes the amounts differ, but by less than one unit per record: all orders jail
   the same validators, and treasury and recorded stakes drift apart by no more
   than the number of pending records less one.  The pool does so too for a
   validator whose unlocked stake covers its recorded one; for others unstake takes
   all or nothing, and its loss depends on the order by whole slashes.       *)
OrdersAgreeButForRounding ==
    LET n      == Cardinality(PendingEvidence)
        ends   == {ProcessInOrder(Books, order) : order \in Orders}
        jailed(b) == {k \in DOMAIN b.validators : b.validators[k].status = "Jailed"}
        covered   == {k \in DOMAIN validators :
                         UnlockedIn(positions[DirectKey(k)], epoch) >= validators[k].stake}
    IN  n > 1 =>
        \A a, b \in ends :
            /\ jailed(a) = jailed(b)
            /\ Distance(a.treasury, b.treasury) < n
            /\ \A k \in DOMAIN validators :
                  Distance(a.validators[k].stake, b.validators[k].stake) < n
            /\ \A k \in covered :
                  Distance(AmountIn(a.positions[DirectKey(k)]),
                           AmountIn(b.positions[DirectKey(k)])) < n

=============================================================================
