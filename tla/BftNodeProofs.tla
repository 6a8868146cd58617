--------------------------- MODULE BftNodeProofs ---------------------------
(***************************************************************************)
(* Proofs about BftNode, for every number of nodes, rounds and heights:    *)
(* the node implements the voting discipline of BftVoting, so that what is *)
(* proved of BftVoting holds of the node, and the parts of its state that  *)
(* BftVoting does not have (vote sets, timers, the valid value) are sound. *)
(*                                                                         *)
(* StepFacts says what one event can do to the node that handles it; the   *)
(* parts of Inv are then shown preserved from these facts alone.           *)
(***************************************************************************)
EXTENDS BftNode, FiniteSetTheorems, TLAPS

TimeoutEvents ==
    [height : Heights, round : Rounds, step : {"Propose", "Prevote", "Precommit"}]

(* The keyed nodes other than n that voted in round r of height h. *)
OthersVoted(n, type, h, r) ==
    {v \in Keyed \ {n} : \E w \in votes :
        w.type = type /\ w.voter = v /\ w.height = h /\ w.round = r}

(* Those that prevoted b. *)
PrevotersOf(h, r, b) == {v \in Keyed : Vote("Prevote", h, r, b, v) \in votes}

(* n has left round r of height h, for good unless it restarts. *)
Past(n, h, r) ==
    \/ h < height[n]
    \/ h = height[n] /\ r < round[n]

Current(n, h, r) == h = height[n] /\ r = round[n]

Voted(n) == step[n] \in {"Prevote", "Precommit"}

-----------------------------------------------------------------------------
(* The inductive invariant. *)

Types ==
    /\ height \in [Nodes -> Heights]
    /\ round \in [Nodes -> Rounds]
    /\ step \in [Nodes -> RoundSteps]
    /\ lockedValue \in [Nodes -> Blocks \cup {Nil}]
    /\ lockedRound \in [Nodes -> Rounds \cup {NoRound}]
    /\ proposals \subseteq Proposals
    /\ votes \subseteq Votes
    /\ commits \subseteq [node : Nodes, height : Heights, block : Blocks]
    /\ validValue \in [Nodes -> Blocks \cup {Nil}]
    /\ validRound \in [Nodes -> Rounds \cup {NoRound}]
    /\ prevotes \in [Nodes -> SUBSET Votes]
    /\ precommits \in [Nodes -> SUBSET Votes]
    /\ proposedBlocks \in [Nodes -> SUBSET Blocks]
    /\ DOMAIN timers = Nodes
    /\ \A n \in Nodes : IsABag(timers[n]) /\ BagToSet(timers[n]) \subseteq TimeoutEvents
    /\ applied \subseteq [node : Nodes, height : Heights, txs : Blocks \cup {Nil}]

(* The two vote sets of a round hold votes of their own type. *)
SetsByType ==
    \A n \in Nodes : /\ \A v \in prevotes[n] : v.type = "Prevote"
                     /\ \A v \in precommits[n] : v.type = "Precommit"

(* A process that has not called start_round has no timers yet. *)
NotStarted ==
    \A n \in Nodes : step[n] = "NewRound" =>
        height[n] = 0 /\ round[n] = 0 /\ BagToSet(timers[n]) = {}

(* A proposer is past Propose as soon as its round begins. *)
ProposerPastPropose ==
    \A n \in Nodes : step[n] = "Propose" => n # Proposer(height[n], round[n])

(* A node that does not restart has voted only in rounds it left, or in its
   present one on entering Prevote or Precommit.                             *)
VotesBehind ==
    \A v \in votes : v.voter \notin Restarting =>
        \/ Past(v.voter, v.height, v.round)
        \/ Current(v.voter, v.height, v.round) /\ Voted(v.voter)

(* So does every pending timeout belong to a round its node left or is in. *)
TimersBehind ==
    \A n \in Nodes : \A te \in BagToSet(timers[n]) :
        \/ Past(n, te.height, te.round)
        \/ /\ Current(n, te.height, te.round)
           /\ te.step = "Prevote" => Voted(n)

(* The prevote timeout runs after a missed proposal or once 2/3 have prevoted, *)
PrevoteTimerDue(n, h, r) ==
    \/ IsQuorum(Cardinality(OthersVoted(n, "Prevote", h, r)))
    \/ /\ n # Proposer(h, r)
       /\ \/ n \in Restarting
          \/ ~ \E w \in votes : /\ w.type = "Prevote" /\ w.voter = n
                                /\ w.height = h /\ w.round = r

(* and the precommit timeout once 2/3 have precommitted. *)
PrecommitTimerDue(n, h, r) == IsQuorum(Cardinality(OthersVoted(n, "Precommit", h, r)))

TimersDue ==
    \A n \in Nodes : \A te \in BagToSet(timers[n]) :
        /\ te.step = "Prevote" => PrevoteTimerDue(n, te.height, te.round)
        /\ te.step = "Precommit" => PrecommitTimerDue(n, te.height, te.round)

(* start_round's timeout task is pending as long as the node is in Propose. *)
ProposeTimed ==
    \A n \in Nodes : step[n] = "Propose" =>
        TimeoutEvent(height[n], round[n], "Propose") \in BagToSet(timers[n])

LockNotAhead == \A n \in Nodes : lockedRound[n] <= round[n]

Inv ==
    /\ Types
    /\ SetsByType
    /\ CountsOnlyCurrentVotes
    /\ NotStarted
    /\ ProposerPastPropose
    /\ VotesBehind
    /\ TimersBehind
    /\ TimersDue
    /\ ProposeTimed
    /\ LockNotAhead
    /\ ValidCoversLock

-----------------------------------------------------------------------------
(* Bags: what scheduling a task and waking one up do to the set of tasks. *)
LEMMA BagAdd ==
    ASSUME NEW B, IsABag(B), NEW e
    PROVE  /\ IsABag(B (+) SetToBag({e}))
           /\ BagToSet(B (+) SetToBag({e})) = BagToSet(B) \cup {e}
BY DEF IsABag, BagToSet, SetToBag, (+)

LEMMA BagRemove ==
    ASSUME NEW B, IsABag(B), NEW e
    PROVE  /\ IsABag(B (-) SetToBag({e}))
           /\ BagToSet(B (-) SetToBag({e})) \subseteq BagToSet(B)
           /\ BagToSet(B) \ {e} \subseteq BagToSet(B (-) SetToBag({e}))
BY DEF IsABag, BagToSet, SetToBag, (-)

LEMMA BagEmpty == IsABag(EmptyBag) /\ BagToSet(EmptyBag) = {}
BY DEF IsABag, BagToSet, SetToBag, EmptyBag

-----------------------------------------------------------------------------
(* Quorums. *)
LEMMA KeyedFinite == IsFiniteSet(Keyed)
BY NodesAssumption, FS_Subset

(* A superset of a quorum is a quorum (is_quorum is monotone). *)
LEMMA QuorumMonotone ==
    ASSUME NEW A, NEW B, A \subseteq B, B \subseteq Keyed, IsQuorum(Cardinality(A))
    PROVE  IsQuorum(Cardinality(B))
<1>1. IsFiniteSet(B) /\ IsFiniteSet(A)
  BY KeyedFinite, FS_Subset
<1>2. Cardinality(A) <= Cardinality(B) /\ Cardinality(A) \in Nat /\ Cardinality(B) \in Nat
  BY <1>1, FS_Subset, FS_CardinalityType
<1> QED BY <1>2, ValidatorsAssumption DEF IsQuorum

(* A vote set that is a quorum has a quorum of voters, because add_vote keeps
   one vote of each.                                                         *)
LEMMA QuorumOfVoters ==
    ASSUME NEW S, NEW T, T \subseteq Keyed,
           \A v \in S : v.voter \in T,
           \A v, w \in S : v.voter = w.voter => v = w,
           IsQuorum(Cardinality(S))
    PROVE  IsQuorum(Cardinality(T))
<1> DEFINE f == [v \in S |-> v.voter]
<1>1. IsFiniteSet(T)
  BY KeyedFinite, FS_Subset
<1>2. f \in Injection(S, T)
  BY DEF Injection, IsInjective
<1>3. IsFiniteSet(S) /\ Cardinality(S) <= Cardinality(T)
  BY <1>1, <1>2, FS_Injection
<1>4. Cardinality(S) \in Nat /\ Cardinality(T) \in Nat
  BY <1>1, <1>3, FS_CardinalityType
<1> QED BY <1>3, <1>4, ValidatorsAssumption DEF IsQuorum

(* A quorum has a member. *)
LEMMA QuorumNonEmpty ==
    ASSUME NEW S, IsQuorum(Cardinality(S))
    PROVE  S # {}
<1> SUFFICES ASSUME S = {} PROVE FALSE
  OBVIOUS
<1>1. Cardinality(S) = 0
  BY FS_EmptySet
<1> QED BY <1>1, ValidatorsAssumption DEF IsQuorum

-----------------------------------------------------------------------------
(* Type correctness, action by action. *)
EnterRoundTypes ==
    /\ height' \in [Nodes -> Heights]
    /\ round' \in [Nodes -> Rounds]
    /\ step' \in [Nodes -> RoundSteps]
    /\ proposals' \subseteq Proposals
    /\ prevotes' \in [Nodes -> SUBSET Votes]
    /\ precommits' \in [Nodes -> SUBSET Votes]
    /\ proposedBlocks' \in [Nodes -> SUBSET Blocks]
    /\ DOMAIN timers' = Nodes
    /\ \A n \in Nodes : IsABag(timers'[n]) /\ BagToSet(timers'[n]) \subseteq TimeoutEvents

LEMMA CastVoteType ==
    ASSUME Types, NEW n \in Nodes, NEW type \in VoteTypes, NEW b \in Blocks \cup {Nil},
           CastVote(n, type, b)
    PROVE  votes' \subseteq Votes
BY DEF Types, CastVote, Vote, Votes

LEMMA SetTimersType ==
    ASSUME Types, NEW n \in Nodes, NEW B, IsABag(B), BagToSet(B) \subseteq TimeoutEvents,
           timers' = [timers EXCEPT ![n] = B]
    PROVE  /\ DOMAIN timers' = Nodes
           /\ \A m \in Nodes : IsABag(timers'[m]) /\ BagToSet(timers'[m]) \subseteq TimeoutEvents
BY DEF Types

LEMMA EnterRoundType ==
    ASSUME Types, NEW n \in Nodes, NEW h \in Heights, NEW r \in Rounds,
           NEW cached \in SUBSET Blocks,
           NEW pending, IsABag(pending), BagToSet(pending) \subseteq TimeoutEvents,
           EnterRound(n, h, r, cached, pending)
    PROVE  EnterRoundTypes
<1> DEFINE te == TimeoutEvent(h, r, "Propose")
           B == pending (+) SetToBag({te})
<1>1. te \in TimeoutEvents
  BY DEF TimeoutEvent, TimeoutEvents
<1>3. timers' = [timers EXCEPT ![n] = B]
  BY DEF EnterRound, StartRound
<1> HIDE DEF te
<1>2. IsABag(B) /\ BagToSet(B) \subseteq TimeoutEvents
  <2>1. IsABag(B) /\ BagToSet(B) = BagToSet(pending) \cup {te}
    BY BagAdd
  <2> QED BY <1>1, <2>1
<1> HIDE DEF B
<1>4. /\ DOMAIN timers' = Nodes
      /\ \A m \in Nodes : IsABag(timers'[m]) /\ BagToSet(timers'[m]) \subseteq TimeoutEvents
  BY <1>2, <1>3, SetTimersType
<1>5. /\ height' = [height EXCEPT ![n] = h] /\ round' = [round EXCEPT ![n] = r]
      /\ prevotes' = [prevotes EXCEPT ![n] = {}] /\ precommits' = [precommits EXCEPT ![n] = {}]
  BY DEF EnterRound, StartRound, NewRoundState, NewVoteSet
<1>6. CASE n = Proposer(h, r)
  <2>1. PICK body \in Bodies :
          /\ step' = [step EXCEPT ![n] = "Prevote"]
          /\ proposals' = proposals \cup {NewProposal(n, h, r, body)}
          /\ proposedBlocks' = [proposedBlocks EXCEPT
                                   ![n] = cached \cup {NewProposal(n, h, r, body).block}]
    BY <1>6 DEF EnterRound
  <2>2. NewProposal(n, h, r, body) \in Proposals /\ NewProposal(n, h, r, body).block \in Blocks
    BY DEF NewProposal, Proposals, Blocks, NoRound
  <2> QED BY <1>4, <1>5, <2>1, <2>2 DEF Types, EnterRoundTypes, RoundSteps
<1>7. CASE n # Proposer(h, r)
  <2>1. /\ step' = [step EXCEPT ![n] = "Propose"] /\ UNCHANGED proposals
        /\ proposedBlocks' = [proposedBlocks EXCEPT ![n] = cached]
    BY <1>7 DEF EnterRound
  <2> QED BY <1>4, <1>5, <2>1 DEF Types, EnterRoundTypes, RoundSteps
<1> QED BY <1>6, <1>7

LEMMA PendingType ==
    ASSUME NEW B, IsABag(B), BagToSet(B) \subseteq TimeoutEvents, NEW e
    PROVE  /\ IsABag(B (-) SetToBag({e})) /\ BagToSet(B (-) SetToBag({e})) \subseteq TimeoutEvents
           /\ e \in TimeoutEvents =>
                IsABag(B (+) SetToBag({e})) /\ BagToSet(B (+) SetToBag({e})) \subseteq TimeoutEvents
<1>1. IsABag(B (-) SetToBag({e})) /\ BagToSet(B (-) SetToBag({e})) \subseteq BagToSet(B)
  BY BagRemove
<1>2. IsABag(B (+) SetToBag({e})) /\ BagToSet(B (+) SetToBag({e})) = BagToSet(B) \cup {e}
  BY BagAdd
<1> QED BY <1>1, <1>2

LEMMA ZeroInRange == 0 \in Rounds /\ 0 \in Heights
BY BoundsAssumption DEF Rounds, Heights

LEMMA NextInRange ==
    ASSUME Types, NEW n \in Nodes, Active(n)
    PROVE  height[n] + 1 \in Heights /\ round[n] + 1 \in Rounds
BY BoundsAssumption DEF Types, Active, Rounds, Heights

LEMMA ScheduleType ==
    ASSUME Types, NEW n \in Nodes, NEW s \in {"Propose", "Prevote", "Precommit"},
           Schedule(n, height[n], round[n], s)
    PROVE  /\ DOMAIN timers' = Nodes
           /\ \A m \in Nodes : IsABag(timers'[m]) /\ BagToSet(timers'[m]) \subseteq TimeoutEvents
<1> DEFINE te == TimeoutEvent(height[n], round[n], s)
           B == timers[n] (+) SetToBag({te})
<1>1. te \in TimeoutEvents
  BY DEF TimeoutEvent, TimeoutEvents, Types
<1>2. timers' = [timers EXCEPT ![n] = B]
  BY DEF Schedule
<1> HIDE DEF te
<1>3. IsABag(B) /\ BagToSet(B) \subseteq TimeoutEvents
  BY <1>1, PendingType DEF Types
<1> HIDE DEF B
<1> QED BY <1>2, <1>3, SetTimersType

LEMMA TypesStart ==
    ASSUME Types, NEW n \in Nodes, Start(n) \/ Restart(n)
    PROVE  Types'
<1>1. /\ EnterRound(n, 0, 0, {}, timers[n]) \/ EnterRound(n, 0, 0, {}, EmptyBag)
      /\ UNCHANGED <<votes, commits, applied>>
  BY DEF Start, Restart
<1>2. IsABag(timers[n]) /\ BagToSet(timers[n]) \subseteq TimeoutEvents
  BY DEF Types
<1>3. IsABag(EmptyBag) /\ BagToSet(EmptyBag) \subseteq TimeoutEvents
  BY BagEmpty
<1>4. EnterRoundTypes
  BY <1>1, <1>2, <1>3, EnterRoundType, ZeroInRange
<1>5. /\ lockedValue' \in [Nodes -> Blocks \cup {Nil}] /\ validValue' \in [Nodes -> Blocks \cup {Nil}]
      /\ lockedRound' \in [Nodes -> Rounds \cup {NoRound}]
      /\ validRound' \in [Nodes -> Rounds \cup {NoRound}]
  BY DEF Start, Restart, Types
<1> QED BY <1>1, <1>4, <1>5 DEF Types, EnterRoundTypes

LEMMA TypesProposal ==
    ASSUME Types, NEW n \in Nodes, NEW p \in proposals, ReceiveProposal(n, p)
    PROVE  Types'
<1>1. PrevoteFor(p, lockedValue[n], lockedRound[n]) \in Blocks \cup {Nil}
  BY DEF Types, Proposals, PrevoteFor
<1>2. votes' \subseteq Votes
  BY <1>1, CastVoteType DEF ReceiveProposal, VoteTypes
<1> QED BY <1>2 DEF Types, ReceiveProposal, Proposals, RoundSteps

LEMMA TypesPrevote ==
    ASSUME Types, NEW n \in Nodes, NEW v \in votes, ReceivePrevote(n, v)
    PROVE  Types'
<1> DEFINE set == AddVote(prevotes[n], v)
<1>1. set \in SUBSET Votes
  BY DEF Types, AddVote
<1>2. /\ prevotes' = [prevotes EXCEPT ![n] = set]
      /\ UNCHANGED <<height, round, proposals, commits, precommits, proposedBlocks, applied>>
      /\ \/ step[n] = "Prevote" /\ PrevoteInPrevote(n, set)
         \/ step[n] = "Precommit" /\ PrevoteInPrecommit(n, set)
         \/ UNCHANGED <<step, votes, lockedValue, lockedRound, validValue, validRound, timers>>
  BY DEF ReceivePrevote
<1> HIDE DEF set
<1>3. ASSUME NEW b \in QuorumBlocks(set), SeePolka(n, b)
      PROVE  /\ validValue' \in [Nodes -> Blocks \cup {Nil}]
             /\ validRound' \in [Nodes -> Rounds \cup {NoRound}]
  BY <1>3 DEF SeePolka, Types, QuorumBlocks
<1>4. CASE PrevoteInPrevote(n, set)
  <2>1. ASSUME NEW b \in QuorumBlocks(set),
               SeePolka(n, b), lockedValue' = [lockedValue EXCEPT ![n] = b],
               lockedRound' = [lockedRound EXCEPT ![n] = round[n]],
               step' = [step EXCEPT ![n] = "Precommit"],
               CastVote(n, "Precommit", b), UNCHANGED timers
        PROVE  Types'
    <3>1. b \in Blocks
      BY DEF QuorumBlocks
    <3>2. votes' \subseteq Votes
      BY <2>1, <3>1, CastVoteType DEF VoteTypes
    <3> QED BY <1>1, <1>2, <1>3, <2>1, <3>1, <3>2 DEF Types, RoundSteps
  <2>2. ASSUME step' = [step EXCEPT ![n] = "Precommit"], CastVote(n, "Precommit", Nil),
               UNCHANGED <<lockedValue, lockedRound, validValue, validRound, timers>>
        PROVE  Types'
    <3>1. votes' \subseteq Votes
      BY <2>2, CastVoteType DEF VoteTypes
    <3> QED BY <1>1, <1>2, <2>2, <3>1 DEF Types, RoundSteps
  <2>3. ASSUME IF HasTwoThirdsAny(set)
               THEN Schedule(n, height[n], round[n], "Prevote") ELSE UNCHANGED timers,
               UNCHANGED <<step, votes, lockedValue, lockedRound, validValue, validRound>>
        PROVE  Types'
    <3>1. CASE Schedule(n, height[n], round[n], "Prevote")
      <4>1. /\ DOMAIN timers' = Nodes
            /\ \A m \in Nodes : IsABag(timers'[m]) /\ BagToSet(timers'[m]) \subseteq TimeoutEvents
        BY <3>1, ScheduleType
      <4> QED BY <1>1, <1>2, <2>3, <4>1 DEF Types
    <3>2. CASE UNCHANGED timers
      BY <1>1, <1>2, <2>3, <3>2 DEF Types
    <3> QED BY <2>3, <3>1, <3>2
  <2> QED BY <1>4, <2>1, <2>2, <2>3 DEF PrevoteInPrevote
<1>5. CASE PrevoteInPrecommit(n, set)
  <2>1. /\ validValue' \in [Nodes -> Blocks \cup {Nil}]
        /\ validRound' \in [Nodes -> Rounds \cup {NoRound}]
    BY <1>3, <1>5 DEF PrevoteInPrecommit, Types
  <2> QED BY <1>1, <1>2, <1>5, <2>1 DEF Types, PrevoteInPrecommit
<1>6. CASE UNCHANGED <<step, votes, lockedValue, lockedRound, validValue, validRound, timers>>
  BY <1>1, <1>2, <1>6 DEF Types
<1> QED BY <1>2, <1>4, <1>5, <1>6

LEMMA TypesPrecommit ==
    ASSUME Types, NEW n \in Nodes, NEW v \in votes, ReceivePrecommit(n, v)
    PROVE  Types'
<1> DEFINE set == AddVote(precommits[n], v)
<1>1. set \in SUBSET Votes
  BY DEF Types, AddVote
<1>2. Active(n)
  BY DEF ReceivePrecommit
<1>3. ASSUME NEW b \in QuorumBlocks(set), CommitBlock(n, b)
      PROVE  Types'
  <2>1. b \in Blocks /\ GetCommittedBlock(n, b) \in Blocks \cup {Nil}
    BY DEF QuorumBlocks, GetCommittedBlock
  <2>2. EnterRound(n, height[n] + 1, 0, {}, timers[n])
    BY <1>3 DEF CommitBlock, AdvanceHeight
  <2>3. IsABag(timers[n]) /\ BagToSet(timers[n]) \subseteq TimeoutEvents
    BY DEF Types
  <2>4. EnterRoundTypes
    BY <1>2, <2>2, <2>3, EnterRoundType, NextInRange, ZeroInRange
  <2>5. /\ lockedValue' \in [Nodes -> Blocks \cup {Nil}] /\ validValue' \in [Nodes -> Blocks \cup {Nil}]
        /\ lockedRound' \in [Nodes -> Rounds \cup {NoRound}]
        /\ validRound' \in [Nodes -> Rounds \cup {NoRound}]
    BY <1>3 DEF CommitBlock, AdvanceHeight, Types
  <2>6. /\ commits' \subseteq [node : Nodes, height : Heights, block : Blocks]
        /\ applied' \subseteq [node : Nodes, height : Heights, txs : Blocks \cup {Nil}]
        /\ votes' \subseteq Votes
    BY <1>3, <2>1 DEF CommitBlock, Types
  <2> QED BY <2>4, <2>5, <2>6 DEF Types, EnterRoundTypes
<1>4. ASSUME precommits' = [precommits EXCEPT ![n] = set],
             IF HasTwoThirdsAny(set) /\ step[n] = "Precommit"
             THEN Schedule(n, height[n], round[n], "Precommit") ELSE UNCHANGED timers,
             UNCHANGED <<votingVars, validValue, validRound, prevotes, proposedBlocks, applied>>
      PROVE  Types'
  <2> HIDE DEF set
  <2>1. CASE Schedule(n, height[n], round[n], "Precommit")
    <3>1. /\ DOMAIN timers' = Nodes
          /\ \A m \in Nodes : IsABag(timers'[m]) /\ BagToSet(timers'[m]) \subseteq TimeoutEvents
      BY <2>1, ScheduleType
    <3> QED BY <1>1, <1>4, <3>1 DEF Types, votingVars
  <2>2. CASE UNCHANGED timers
    BY <1>1, <1>4, <2>2 DEF Types, votingVars
  <2> QED BY <1>4, <2>1, <2>2
<1> QED BY <1>3, <1>4 DEF ReceivePrecommit

LEMMA TypesTimeout ==
    ASSUME Types, NEW n \in Nodes, NEW te \in BagToSet(timers[n]), Timeout(n, te)
    PROVE  Types'
<1> DEFINE pending == timers[n] (-) SetToBag({te})
           now == TimeoutEvent(height[n], round[n], "Prevote")
<1>1. IsABag(pending) /\ BagToSet(pending) \subseteq TimeoutEvents
  BY PendingType DEF Types
<1>2. /\ Active(n)
      /\ UNCHANGED <<lockedValue, lockedRound, commits, validValue, validRound, applied>>
      /\ \/ TimeoutPropose(n, pending) \/ TimeoutPrevote(n, pending)
         \/ TimeoutPrecommit(n, pending) \/ TimeoutStale(n, te, pending)
  BY DEF Timeout
<1> HIDE DEF pending
<1>3. CASE TimeoutPropose(n, pending)
  <2> DEFINE B == pending (+) SetToBag({now})
  <2>1. now \in TimeoutEvents
    BY DEF Types, TimeoutEvent, TimeoutEvents
  <2>2. timers' = [timers EXCEPT ![n] = B]
    BY <1>3 DEF TimeoutPropose
  <2> HIDE DEF now
  <2>3. IsABag(B) /\ BagToSet(B) \subseteq TimeoutEvents
    BY <1>1, <2>1, PendingType
  <2> HIDE DEF B
  <2>4. /\ DOMAIN timers' = Nodes
        /\ \A m \in Nodes : IsABag(timers'[m]) /\ BagToSet(timers'[m]) \subseteq TimeoutEvents
    BY <2>2, <2>3, SetTimersType
  <2> QED BY <1>2, <1>3, <2>4 DEF TimeoutPropose, Types, RoundSteps
<1>4. CASE TimeoutPrevote(n, pending)
  <2>1. votes' \subseteq Votes
    BY <1>4, CastVoteType DEF TimeoutPrevote, VoteTypes
  <2>2. /\ DOMAIN timers' = Nodes
        /\ \A m \in Nodes : IsABag(timers'[m]) /\ BagToSet(timers'[m]) \subseteq TimeoutEvents
    BY <1>1, <1>4, SetTimersType DEF TimeoutPrevote
  <2> QED BY <1>2, <1>4, <2>1, <2>2 DEF TimeoutPrevote, Types, RoundSteps
<1>5. CASE TimeoutPrecommit(n, pending)
  <2>1. EnterRoundTypes
    BY <1>1, <1>2, <1>5, EnterRoundType, NextInRange DEF TimeoutPrecommit, Types
  <2> QED BY <1>2, <1>5, <2>1 DEF TimeoutPrecommit, Types, EnterRoundTypes
<1>6. CASE TimeoutStale(n, te, pending)
  <2>1. /\ DOMAIN timers' = Nodes
        /\ \A m \in Nodes : IsABag(timers'[m]) /\ BagToSet(timers'[m]) \subseteq TimeoutEvents
    BY <1>1, <1>6, SetTimersType DEF TimeoutStale
  <2>2. PICK body \in Bodies : proposals' = proposals \cup {NewProposal(n, height[n], round[n], body)}
    BY <1>6 DEF TimeoutStale
  <2>3. NewProposal(n, height[n], round[n], body) \in Proposals
    BY DEF NewProposal, Proposals, Blocks, NoRound, Types
  <2> QED BY <1>2, <1>6, <2>1, <2>2, <2>3 DEF TimeoutStale, Types
<1> QED BY <1>2, <1>3, <1>4, <1>5, <1>6

LEMMA TypesNext ==
    ASSUME Types, [Next]_vars
    PROVE  Types'
<1>1. CASE UNCHANGED vars
  BY <1>1 DEF Types, vars, votingVars, nodeVars
<1>2. CASE Next
  BY <1>2, TypesStart, TypesProposal, TypesPrevote, TypesPrecommit, TypesTimeout DEF Next
<1> QED BY <1>1, <1>2

-----------------------------------------------------------------------------
(* What a vote set of n holds: votes of others for n's round, one per voter. *)
Sound(n, type, set) ==
    /\ set \subseteq votes
    /\ \A v \in set : v.type = type /\ v.voter # n /\ Current(n, v.height, v.round)
    /\ \A v, w \in set : v.voter = w.voter => v = w

OthersFor(n, type, b) ==
    {u \in Keyed \ {n} : Vote(type, height[n], round[n], b, u) \in votes}

LEMMA SetsSound ==
    ASSUME SetsByType, CountsOnlyCurrentVotes, NEW n \in Nodes
    PROVE  Sound(n, "Prevote", prevotes[n]) /\ Sound(n, "Precommit", precommits[n])
BY DEF SetsByType, CountsOnlyCurrentVotes, Sound, Current

(* add_vote keeps a vote set sound. *)
LEMMA AddVoteSound ==
    ASSUME NEW n, NEW type, NEW set, Sound(n, type, set),
           NEW v \in votes, v.type = type, v.voter # n, Current(n, v.height, v.round)
    PROVE  Sound(n, type, AddVote(set, v))
BY DEF Sound, AddVote

(* quorum_block and has_two_thirds_any, read as facts about the votes cast. *)
LEMMA SoundQuorum ==
    ASSUME Types, NEW n \in Nodes, NEW type, NEW set, Sound(n, type, set),
           NEW b, HasQuorumFor(set, b)
    PROVE  /\ IsQuorum(Cardinality(OthersFor(n, type, b)))
           /\ IsQuorum(Cardinality(OthersVoted(n, type, height[n], round[n])))
           /\ \E v \in votes : v.block = b
<1> DEFINE S == {v \in set : v.block = b}
<1>1. IsQuorum(Cardinality(S))
  BY DEF HasQuorumFor
<1>2. S # {}
  BY <1>1, QuorumNonEmpty
<1>3. \A v \in S : v.voter \in OthersFor(n, type, b)
  <2> SUFFICES ASSUME NEW v \in S PROVE v.voter \in OthersFor(n, type, b)
    OBVIOUS
  <2>1. /\ v \in Votes /\ v \in votes /\ v.block = b
        /\ v.type = type /\ v.voter # n /\ v.height = height[n] /\ v.round = round[n]
    BY DEF Sound, Types, Current
  <2>2. v = Vote(type, height[n], round[n], b, v.voter) /\ v.voter \in Keyed
    BY <2>1 DEF Votes, Vote
  <2> QED BY <2>1, <2>2 DEF OthersFor
<1>4. \A v, w \in S : v.voter = w.voter => v = w
  BY DEF Sound
<1>5. OthersFor(n, type, b) \subseteq Keyed
  BY DEF OthersFor
<1>6. IsQuorum(Cardinality(OthersFor(n, type, b)))
  BY <1>1, <1>3, <1>4, <1>5, QuorumOfVoters
<1>7. OthersFor(n, type, b) \subseteq OthersVoted(n, type, height[n], round[n])
  BY DEF OthersFor, OthersVoted, Vote
<1>8. OthersVoted(n, type, height[n], round[n]) \subseteq Keyed
  BY DEF OthersVoted
<1>9. \E v \in votes : v.block = b
  BY <1>2 DEF Sound
<1> QED BY <1>6, <1>7, <1>8, <1>9, QuorumMonotone

LEMMA SoundTwoThirds ==
    ASSUME Types, NEW n \in Nodes, NEW type, NEW set, Sound(n, type, set), HasTwoThirdsAny(set)
    PROVE  IsQuorum(Cardinality(OthersVoted(n, type, height[n], round[n])))
<1>1. \A v \in set : v.voter \in OthersVoted(n, type, height[n], round[n])
  BY DEF Sound, OthersVoted, Types, Votes, Current
<1>2. \A v, w \in set : v.voter = w.voter => v = w
  BY DEF Sound
<1>3. OthersVoted(n, type, height[n], round[n]) \subseteq Keyed
  BY DEF OthersVoted
<1> QED BY <1>1, <1>2, <1>3, QuorumOfVoters DEF HasTwoThirdsAny

-----------------------------------------------------------------------------
(* What a step of n does, as far as the invariant looks at it. *)

OthersKeep(n) ==
    \A m \in Nodes \ {n} :
        /\ height'[m] = height[m] /\ round'[m] = round[m] /\ step'[m] = step[m]
        /\ lockedValue'[m] = lockedValue[m] /\ lockedRound'[m] = lockedRound[m]
        /\ validValue'[m] = validValue[m] /\ validRound'[m] = validRound[m]
        /\ prevotes'[m] = prevotes[m] /\ precommits'[m] = precommits[m]
        /\ timers'[m] = timers[m]

(* Only n casts a vote, for the round it is in; a prevote only on leaving
   Propose.                                                                  *)
CastsVotes(n) ==
    /\ votes \subseteq votes'
    /\ \A v \in votes' \ votes :
          /\ v.voter = n /\ Current(n, v.height, v.round)
          /\ v.type = "Prevote" => step[n] = "Propose"
          /\ step'[n] \in {"Prevote", "Precommit"}

KeepsLocks(n) ==
    /\ lockedValue'[n] = lockedValue[n] /\ lockedRound'[n] = lockedRound[n]
    /\ validValue'[n] = validValue[n] /\ validRound'[n] = validRound[n]

ForgetsLocks(n) ==
    /\ lockedValue'[n] = Nil /\ lockedRound'[n] = NoRound
    /\ validValue'[n] = Nil /\ validRound'[n] = NoRound

TakesPolka(n) ==
    /\ validRound'[n] = round[n]
    /\ IsQuorum(Cardinality(PrevotersOf(height[n], round[n], validValue'[n])))
    /\ \/ lockedRound'[n] = round[n]
       \/ lockedValue'[n] = lockedValue[n] /\ lockedRound'[n] = lockedRound[n]

(* A step within a round: tasks are added when they are due, and the propose
   timeout is still there if the node is still in Propose.                   *)
StaysInRound(n) ==
    /\ height'[n] = height[n] /\ round'[n] = round[n]
    /\ step[n] # "NewRound" /\ step'[n] # "NewRound"
    /\ Voted(n) => step'[n] \in {"Prevote", "Precommit"}
    /\ Sound(n, "Prevote", prevotes'[n]) /\ Sound(n, "Precommit", precommits'[n])
    /\ step'[n] = "Propose" =>
          /\ step[n] = "Propose"
          /\ \A te \in BagToSet(timers[n]) :
                te = TimeoutEvent(height[n], round[n], "Propose") => te \in BagToSet(timers'[n])
    /\ \A te \in BagToSet(timers'[n]) \ BagToSet(timers[n]) :
          /\ Current(n, te.height, te.round)
          /\ te.step = "Prevote" => /\ step'[n] \in {"Prevote", "Precommit"}
                                    /\ PrevoteTimerDue(n, te.height, te.round)
                                    /\ votes' = votes
          /\ te.step = "Precommit" => PrecommitTimerDue(n, te.height, te.round)
    /\ KeepsLocks(n) \/ TakesPolka(n)

(* A step that starts a round, the next, the first of the next height or, on
   starting the process, the first of all.                                   *)
EntersRound(n) ==
    LET now == TimeoutEvent(height'[n], round'[n], "Propose") IN
    /\ votes' = votes
    /\ step'[n] = IF n = Proposer(height'[n], round'[n]) THEN "Prevote" ELSE "Propose"
    /\ prevotes'[n] = {} /\ precommits'[n] = {}
    /\ now \in BagToSet(timers'[n])
    /\ BagToSet(timers'[n]) \subseteq {now} \cup BagToSet(timers[n])
    /\ \/ /\ step[n] = "NewRound" /\ height'[n] = 0 /\ round'[n] = 0
          /\ KeepsLocks(n)
       \/ /\ height'[n] = height[n] /\ round'[n] = round[n] + 1
          /\ KeepsLocks(n)
       \/ /\ height'[n] = height[n] + 1 /\ round'[n] = 0
          /\ ForgetsLocks(n)
       \/ /\ n \in Restarting /\ height'[n] = 0 /\ round'[n] = 0
          /\ BagToSet(timers'[n]) = {now}
          /\ ForgetsLocks(n)

StepOf(n) == OthersKeep(n) /\ CastsVotes(n) /\ (StaysInRound(n) \/ EntersRound(n))

LEMMA EnterRoundFacts ==
    ASSUME Types, NEW n \in Nodes, NEW h, NEW r, NEW cached, NEW pending, IsABag(pending),
           EnterRound(n, h, r, cached, pending)
    PROVE  /\ height'[n] = h /\ round'[n] = r
           /\ step'[n] = IF n = Proposer(h, r) THEN "Prevote" ELSE "Propose"
           /\ prevotes'[n] = {} /\ precommits'[n] = {}
           /\ BagToSet(timers'[n]) = BagToSet(pending) \cup {TimeoutEvent(h, r, "Propose")}
           /\ \A m \in Nodes \ {n} :
                 /\ height'[m] = height[m] /\ round'[m] = round[m] /\ step'[m] = step[m]
                 /\ prevotes'[m] = prevotes[m] /\ precommits'[m] = precommits[m]
                 /\ timers'[m] = timers[m]
<1> DEFINE te == TimeoutEvent(h, r, "Propose")
           B == pending (+) SetToBag({te})
<1>1. /\ height' = [height EXCEPT ![n] = h] /\ round' = [round EXCEPT ![n] = r]
      /\ prevotes' = [prevotes EXCEPT ![n] = {}] /\ precommits' = [precommits EXCEPT ![n] = {}]
      /\ timers' = [timers EXCEPT ![n] = B]
      /\ step' = [step EXCEPT ![n] = IF n = Proposer(h, r) THEN "Prevote" ELSE "Propose"]
  BY DEF EnterRound, StartRound, NewRoundState, NewVoteSet
<1> HIDE DEF te
<1>2. BagToSet(B) = BagToSet(pending) \cup {te}
  BY BagAdd
<1> HIDE DEF B
<1>3. BagToSet(timers'[n]) = BagToSet(pending) \cup {te}
  BY <1>1, <1>2 DEF Types
<1> QED BY <1>1, <1>3 DEF Types, te

LEMMA CastVoteFacts ==
    ASSUME Types, NEW n \in Nodes, NEW type, NEW b, CastVote(n, type, b),
           type = "Prevote" => step[n] = "Propose", step'[n] \in {"Prevote", "Precommit"}
    PROVE  CastsVotes(n)
BY DEF CastVote, CastsVotes, Vote, Current

LEMMA StartFacts ==
    ASSUME Inv, NEW n \in Nodes, Start(n)
    PROVE  StepOf(n)
<1>1. /\ EnterRound(n, 0, 0, {}, timers[n]) /\ IsABag(timers[n]) /\ step[n] = "NewRound"
      /\ UNCHANGED <<lockedValue, lockedRound, votes, validValue, validRound>>
  BY DEF Start, Inv, Types
<1>2. EntersRound(n)
  BY <1>1, EnterRoundFacts DEF Inv, EntersRound, KeepsLocks
<1>3. OthersKeep(n)
  BY <1>1, EnterRoundFacts DEF Inv, OthersKeep
<1> QED BY <1>1, <1>2, <1>3 DEF StepOf, CastsVotes

LEMMA RestartFacts ==
    ASSUME Inv, NEW n \in Nodes, Restart(n)
    PROVE  StepOf(n)
<1>1. /\ EnterRound(n, 0, 0, {}, EmptyBag) /\ n \in Restarting /\ votes' = votes
      /\ ForgetsLocks(n)
      /\ \A m \in Nodes \ {n} :
            /\ lockedValue'[m] = lockedValue[m] /\ lockedRound'[m] = lockedRound[m]
            /\ validValue'[m] = validValue[m] /\ validRound'[m] = validRound[m]
  BY DEF Restart, Inv, Types, ForgetsLocks
<1>2. EntersRound(n)
  BY <1>1, EnterRoundFacts, BagEmpty DEF Inv, EntersRound
<1>3. OthersKeep(n)
  BY <1>1, EnterRoundFacts, BagEmpty DEF Inv, OthersKeep
<1> QED BY <1>1, <1>2, <1>3 DEF StepOf, CastsVotes

LEMMA ProposalFacts ==
    ASSUME Inv, NEW n \in Nodes, NEW p \in proposals, ReceiveProposal(n, p)
    PROVE  StepOf(n)
<1>1. /\ step[n] = "Propose" /\ step'[n] = "Prevote"
      /\ UNCHANGED <<height, round, lockedValue, lockedRound, validValue, validRound,
                     prevotes, precommits, timers>>
      /\ \A m \in Nodes \ {n} : step'[m] = step[m]
  BY DEF ReceiveProposal, Inv, Types
<1>2. CastsVotes(n)
  BY <1>1, CastVoteFacts DEF ReceiveProposal, Inv
<1>3. StaysInRound(n)
  BY <1>1, SetsSound DEF Inv, StaysInRound, Voted, KeepsLocks
<1> QED BY <1>1, <1>2, <1>3 DEF StepOf, OthersKeep

(* Scheduling one task changes n's timers by that task alone. *)
LEMMA ScheduleFacts ==
    ASSUME Types, NEW n \in Nodes, NEW s, Schedule(n, height[n], round[n], s)
    PROVE  /\ BagToSet(timers'[n])
                = BagToSet(timers[n]) \cup {TimeoutEvent(height[n], round[n], s)}
           /\ \A m \in Nodes \ {n} : timers'[m] = timers[m]
<1> DEFINE te == TimeoutEvent(height[n], round[n], s)
           B == timers[n] (+) SetToBag({te})
<1>1. timers' = [timers EXCEPT ![n] = B]
  BY DEF Schedule
<1> HIDE DEF te
<1>2. BagToSet(B) = BagToSet(timers[n]) \cup {te}
  BY BagAdd DEF Types
<1> HIDE DEF B
<1>3. /\ BagToSet(timers'[n]) = BagToSet(timers[n]) \cup {te}
      /\ \A m \in Nodes \ {n} : timers'[m] = timers[m]
  BY <1>1, <1>2 DEF Types
<1> QED BY <1>3 DEF te

LEMMA PrevoteFacts ==
    ASSUME Inv, NEW n \in Nodes, NEW v \in votes, ReceivePrevote(n, v)
    PROVE  StepOf(n)
<1> DEFINE set == AddVote(prevotes[n], v)
<1>1. /\ prevotes'[n] = set
      /\ UNCHANGED <<height, round, precommits>>
      /\ \A m \in Nodes \ {n} : prevotes'[m] = prevotes[m]
      /\ v.type = "Prevote" /\ v.voter # n /\ Current(n, v.height, v.round)
      /\ \/ step[n] = "Prevote" /\ PrevoteInPrevote(n, set)
         \/ step[n] = "Precommit" /\ PrevoteInPrecommit(n, set)
         \/ /\ step[n] = "Propose"
            /\ UNCHANGED <<step, votes, lockedValue, lockedRound, validValue, validRound, timers>>
  BY DEF ReceivePrevote, Inv, Types, Current
<1>2. Sound(n, "Prevote", set)
  BY <1>1, SetsSound, AddVoteSound DEF Inv
<1> HIDE DEF set
<1>3. Sound(n, "Prevote", prevotes'[n]) /\ Sound(n, "Precommit", precommits'[n])
  BY <1>1, <1>2, SetsSound DEF Inv
<1>4. ASSUME NEW b \in QuorumBlocks(set)
      PROVE  IsQuorum(Cardinality(PrevotersOf(height[n], round[n], b)))
  <2>1. IsQuorum(Cardinality(OthersFor(n, "Prevote", b)))
    BY <1>2, <1>4, SoundQuorum DEF QuorumBlocks, Inv
  <2>2. /\ OthersFor(n, "Prevote", b) \subseteq PrevotersOf(height[n], round[n], b)
        /\ PrevotersOf(height[n], round[n], b) \subseteq Keyed
    BY DEF OthersFor, PrevotersOf
  <2> QED BY <2>1, <2>2, QuorumMonotone
<1>5. CASE step[n] = "Prevote" /\ PrevoteInPrevote(n, set)
  <2>1. ASSUME NEW b \in QuorumBlocks(set),
               SeePolka(n, b), lockedValue' = [lockedValue EXCEPT ![n] = b],
               lockedRound' = [lockedRound EXCEPT ![n] = round[n]],
               step' = [step EXCEPT ![n] = "Precommit"],
               CastVote(n, "Precommit", b), UNCHANGED timers
        PROVE  StepOf(n)
    <3>1. /\ step'[n] = "Precommit" /\ lockedRound'[n] = round[n]
          /\ validValue'[n] = b /\ validRound'[n] = round[n]
      BY <2>1 DEF SeePolka, Inv, Types
    <3>2. OthersKeep(n)
      BY <1>1, <2>1 DEF OthersKeep, SeePolka, Inv, Types
    <3>3. CastsVotes(n)
      BY <2>1, <3>1, CastVoteFacts DEF Inv
    <3>4. StaysInRound(n)
      BY <1>1, <1>3, <1>4, <1>5, <2>1, <3>1 DEF StaysInRound, TakesPolka, Voted
    <3> QED BY <3>2, <3>3, <3>4 DEF StepOf
  <2>2. ASSUME step' = [step EXCEPT ![n] = "Precommit"], CastVote(n, "Precommit", Nil),
               UNCHANGED <<lockedValue, lockedRound, validValue, validRound, timers>>
        PROVE  StepOf(n)
    <3>1. step'[n] = "Precommit" /\ \A m \in Nodes \ {n} : step'[m] = step[m]
      BY <2>2 DEF Inv, Types
    <3>2. CastsVotes(n)
      BY <2>2, <3>1, CastVoteFacts DEF Inv
    <3>3. StaysInRound(n)
      BY <1>1, <1>3, <1>5, <2>2, <3>1 DEF StaysInRound, KeepsLocks, Voted
    <3> QED BY <1>1, <2>2, <3>1, <3>2, <3>3 DEF StepOf, OthersKeep
  <2>3. ASSUME IF HasTwoThirdsAny(set)
               THEN Schedule(n, height[n], round[n], "Prevote") ELSE UNCHANGED timers,
               UNCHANGED <<step, votes, lockedValue, lockedRound, validValue, validRound>>
        PROVE  StepOf(n)
    <3>1. CASE HasTwoThirdsAny(set)
      <4> DEFINE te == TimeoutEvent(height[n], round[n], "Prevote")
      <4>1. /\ BagToSet(timers'[n]) = BagToSet(timers[n]) \cup {te}
            /\ \A m \in Nodes \ {n} : timers'[m] = timers[m]
        BY <2>3, <3>1, ScheduleFacts DEF Inv
      <4>2. PrevoteTimerDue(n, height[n], round[n])
        BY <1>2, <3>1, SoundTwoThirds DEF PrevoteTimerDue, Inv
      <4>3. te.height = height[n] /\ te.round = round[n] /\ te.step = "Prevote"
        BY DEF TimeoutEvent
      <4> HIDE DEF te
      <4>4. StaysInRound(n)
        BY <1>1, <1>3, <1>5, <2>3, <4>1, <4>2, <4>3 DEF StaysInRound, KeepsLocks, Voted, Current
      <4> QED BY <1>1, <2>3, <4>1, <4>4 DEF StepOf, OthersKeep, CastsVotes
    <3>2. CASE ~ HasTwoThirdsAny(set)
      <4>1. StaysInRound(n)
        BY <1>1, <1>3, <1>5, <2>3, <3>2 DEF StaysInRound, KeepsLocks, Voted
      <4> QED BY <1>1, <2>3, <3>2, <4>1 DEF StepOf, OthersKeep, CastsVotes
    <3> QED BY <3>1, <3>2
  <2> QED BY <1>5, <2>1, <2>2, <2>3 DEF PrevoteInPrevote
<1>6. CASE step[n] = "Precommit" /\ PrevoteInPrecommit(n, set)
  <2>1. UNCHANGED <<step, votes, lockedValue, lockedRound, timers>>
    BY <1>6 DEF PrevoteInPrecommit
  <2>2. /\ KeepsLocks(n) \/ TakesPolka(n)
        /\ \A m \in Nodes \ {n} : validValue'[m] = validValue[m] /\ validRound'[m] = validRound[m]
    <3>1. CASE QuorumBlocks(set) = {}
      BY <1>6, <2>1, <3>1 DEF PrevoteInPrecommit, KeepsLocks
    <3>2. CASE QuorumBlocks(set) # {}
      <4>1. PICK b \in QuorumBlocks(set) : SeePolka(n, b)
        BY <1>6, <3>2 DEF PrevoteInPrecommit
      <4> QED BY <1>4, <2>1, <4>1 DEF SeePolka, TakesPolka, Inv, Types
    <3> QED BY <3>1, <3>2
  <2>3. StaysInRound(n)
    BY <1>1, <1>3, <1>6, <2>1, <2>2 DEF StaysInRound, Voted
  <2> QED BY <1>1, <2>1, <2>2, <2>3 DEF StepOf, OthersKeep, CastsVotes
<1>7. CASE /\ step[n] = "Propose"
           /\ UNCHANGED <<step, votes, lockedValue, lockedRound, validValue, validRound, timers>>
  <2>1. StaysInRound(n)
    BY <1>1, <1>3, <1>7 DEF StaysInRound, KeepsLocks, Voted
  <2> QED BY <1>1, <1>7, <2>1 DEF StepOf, OthersKeep, CastsVotes
<1> QED BY <1>1, <1>5, <1>6, <1>7

LEMMA PrecommitFacts ==
    ASSUME Inv, NEW n \in Nodes, NEW v \in votes, ReceivePrecommit(n, v)
    PROVE  StepOf(n)
<1> DEFINE set == AddVote(precommits[n], v)
<1>1. /\ v.type = "Precommit" /\ v.voter # n /\ Current(n, v.height, v.round)
      /\ step[n] # "NewRound"
  BY DEF ReceivePrecommit, Current
<1>2. Sound(n, "Precommit", set)
  BY <1>1, SetsSound, AddVoteSound DEF Inv
<1>3. ASSUME NEW b \in QuorumBlocks(set), CommitBlock(n, b)
      PROVE  StepOf(n)
  <2>1. /\ EnterRound(n, height[n] + 1, 0, {}, timers[n]) /\ IsABag(timers[n])
        /\ votes' = votes /\ ForgetsLocks(n)
        /\ \A m \in Nodes \ {n} :
              /\ lockedValue'[m] = lockedValue[m] /\ lockedRound'[m] = lockedRound[m]
              /\ validValue'[m] = validValue[m] /\ validRound'[m] = validRound[m]
    BY <1>3 DEF CommitBlock, AdvanceHeight, Inv, Types, ForgetsLocks
  <2>2. EntersRound(n)
    BY <2>1, EnterRoundFacts DEF Inv, EntersRound
  <2>3. OthersKeep(n)
    BY <2>1, EnterRoundFacts DEF Inv, OthersKeep
  <2> QED BY <2>1, <2>2, <2>3 DEF StepOf, CastsVotes
<1>4. ASSUME precommits' = [precommits EXCEPT ![n] = set],
             IF HasTwoThirdsAny(set) /\ step[n] = "Precommit"
             THEN Schedule(n, height[n], round[n], "Precommit") ELSE UNCHANGED timers,
             UNCHANGED <<votingVars, validValue, validRound, prevotes, proposedBlocks, applied>>
      PROVE  StepOf(n)
  <2> HIDE DEF set
  <2>1. /\ precommits'[n] = set /\ \A m \in Nodes \ {n} : precommits'[m] = precommits[m]
        /\ UNCHANGED <<height, round, step, lockedValue, lockedRound, votes,
                       validValue, validRound, prevotes>>
    BY <1>4 DEF Inv, Types, votingVars
  <2>2. Sound(n, "Prevote", prevotes'[n]) /\ Sound(n, "Precommit", precommits'[n])
    BY <1>2, <2>1, SetsSound DEF Inv
  <2>3. CASE HasTwoThirdsAny(set) /\ step[n] = "Precommit"
    <3> DEFINE te == TimeoutEvent(height[n], round[n], "Precommit")
    <3>1. /\ BagToSet(timers'[n]) = BagToSet(timers[n]) \cup {te}
          /\ \A m \in Nodes \ {n} : timers'[m] = timers[m]
      BY <1>4, <2>3, ScheduleFacts DEF Inv
    <3>2. PrecommitTimerDue(n, height[n], round[n])
      BY <1>2, <2>3, SoundTwoThirds DEF PrecommitTimerDue, Inv
    <3>3. te.height = height[n] /\ te.round = round[n] /\ te.step = "Precommit"
      BY DEF TimeoutEvent
    <3> HIDE DEF te
    <3>4. StaysInRound(n)
      BY <1>1, <2>1, <2>2, <3>1, <3>2, <3>3 DEF StaysInRound, KeepsLocks, Voted, Current
    <3> QED BY <2>1, <3>1, <3>4 DEF StepOf, OthersKeep, CastsVotes
  <2>4. CASE ~ (HasTwoThirdsAny(set) /\ step[n] = "Precommit")
    <3>1. StaysInRound(n)
      BY <1>1, <1>4, <2>1, <2>2, <2>4 DEF StaysInRound, KeepsLocks, Voted
    <3> QED BY <1>4, <2>1, <2>4, <3>1 DEF StepOf, OthersKeep, CastsVotes
  <2> QED BY <2>3, <2>4
<1> QED BY <1>3, <1>4 DEF ReceivePrecommit

LEMMA TimeoutFacts ==
    ASSUME Inv, NEW n \in Nodes, NEW te \in BagToSet(timers[n]), Timeout(n, te)
    PROVE  StepOf(n)
<1> DEFINE pending == timers[n] (-) SetToBag({te})
<1>1. /\ IsABag(pending) /\ BagToSet(pending) \subseteq BagToSet(timers[n])
      /\ BagToSet(timers[n]) \ {te} \subseteq BagToSet(pending)
  BY BagRemove DEF Inv, Types
<1>2. /\ UNCHANGED <<lockedValue, lockedRound, validValue, validRound>>
      /\ \/ Matches(n, te) /\ te.step = "Propose" /\ TimeoutPropose(n, pending)
         \/ Matches(n, te) /\ te.step = "Prevote" /\ TimeoutPrevote(n, pending)
         \/ Matches(n, te) /\ te.step = "Precommit" /\ TimeoutPrecommit(n, pending)
         \/ ~ Matches(n, te) /\ TimeoutStale(n, te, pending)
  BY DEF Timeout
<1> HIDE DEF pending
<1>3. step[n] # "NewRound"
  BY DEF Inv, NotStarted
<1>4. Matches(n, te) => te.step = step[n] /\ Current(n, te.height, te.round)
  BY DEF Matches, TimeoutEvent, Current
<1>5. Sound(n, "Prevote", prevotes[n]) /\ Sound(n, "Precommit", precommits[n])
  BY SetsSound DEF Inv
<1>6. CASE Matches(n, te) /\ te.step = "Propose" /\ TimeoutPropose(n, pending)
  <2> DEFINE now == TimeoutEvent(height[n], round[n], "Prevote")
             B == pending (+) SetToBag({now})
  <2>1. /\ timers' = [timers EXCEPT ![n] = B] /\ step[n] = "Propose"
        /\ step'[n] = "Prevote" /\ \A m \in Nodes \ {n} : step'[m] = step[m]
        /\ UNCHANGED <<height, round, votes, prevotes, precommits>>
    BY <1>4, <1>6 DEF TimeoutPropose, Inv, Types
  <2>2. now.height = height[n] /\ now.round = round[n] /\ now.step = "Prevote"
    BY DEF TimeoutEvent
  <2> HIDE DEF now
  <2>3. BagToSet(B) = BagToSet(pending) \cup {now}
    BY <1>1, BagAdd
  <2> HIDE DEF B
  <2>4. /\ BagToSet(timers'[n]) = BagToSet(pending) \cup {now}
        /\ \A m \in Nodes \ {n} : timers'[m] = timers[m]
    BY <2>1, <2>3 DEF Inv, Types
  <2>5. PrevoteTimerDue(n, height[n], round[n])
    <3>1. n # Proposer(height[n], round[n])
      BY <2>1 DEF Inv, ProposerPastPropose
    <3>2. ASSUME NEW w \in votes, w.voter = n, Current(n, w.height, w.round)
          PROVE  n \in Restarting
      <4>1. height[n] \in Int /\ round[n] \in Int
        BY DEF Inv, Types, Heights, Rounds
      <4> QED BY <2>1, <3>2, <4>1 DEF Inv, VotesBehind, Past, Current, Voted
    <3> QED BY <3>1, <3>2 DEF PrevoteTimerDue, Current
  <2>6. StaysInRound(n)
    BY <1>1, <1>2, <1>5, <2>1, <2>2, <2>4, <2>5 DEF StaysInRound, KeepsLocks, Voted, Current
  <2> QED BY <1>2, <2>1, <2>4, <2>6 DEF StepOf, OthersKeep, CastsVotes
<1>7. CASE Matches(n, te) /\ te.step = "Prevote" /\ TimeoutPrevote(n, pending)
  <2>1. /\ BagToSet(timers'[n]) = BagToSet(pending) /\ step[n] = "Prevote"
        /\ \A m \in Nodes \ {n} : timers'[m] = timers[m]
        /\ step'[n] = "Precommit" /\ \A m \in Nodes \ {n} : step'[m] = step[m]
        /\ UNCHANGED <<height, round, prevotes, precommits>>
    BY <1>4, <1>7 DEF TimeoutPrevote, Inv, Types
  <2>2. CastsVotes(n)
    BY <1>7, <2>1, CastVoteFacts DEF TimeoutPrevote, Inv
  <2>3. StaysInRound(n)
    BY <1>1, <1>2, <1>5, <2>1 DEF StaysInRound, KeepsLocks, Voted
  <2> QED BY <1>2, <2>1, <2>2, <2>3 DEF StepOf, OthersKeep
<1>8. CASE Matches(n, te) /\ te.step = "Precommit" /\ TimeoutPrecommit(n, pending)
  <2>1. EnterRound(n, height[n], round[n] + 1, proposedBlocks[n], pending) /\ votes' = votes
    BY <1>8 DEF TimeoutPrecommit
  <2>2. EntersRound(n)
    BY <1>1, <1>2, <2>1, EnterRoundFacts DEF Inv, EntersRound, KeepsLocks
  <2>3. OthersKeep(n)
    BY <1>1, <1>2, <2>1, EnterRoundFacts DEF Inv, OthersKeep
  <2> QED BY <2>1, <2>2, <2>3 DEF StepOf, CastsVotes
<1>9. CASE ~ Matches(n, te) /\ TimeoutStale(n, te, pending)
  <2>1. /\ BagToSet(timers'[n]) = BagToSet(pending)
        /\ \A m \in Nodes \ {n} : timers'[m] = timers[m]
        /\ UNCHANGED <<height, round, step, votes, prevotes, precommits>>
    BY <1>9 DEF TimeoutStale, Inv, Types
  <2>2. step[n] = "Propose" => te # TimeoutEvent(height[n], round[n], "Propose")
    BY <1>9 DEF Matches
  <2>3. StaysInRound(n)
    BY <1>1, <1>2, <1>3, <1>5, <2>1, <2>2 DEF StaysInRound, KeepsLocks, Voted
  <2> QED BY <1>2, <2>1, <2>3 DEF StepOf, OthersKeep, CastsVotes
<1> QED BY <1>2, <1>6, <1>7, <1>8, <1>9

LEMMA StepFacts ==
    ASSUME Inv, Next
    PROVE  \E n \in Nodes : StepOf(n)
BY StartFacts, RestartFacts, ProposalFacts, PrevoteFacts, PrecommitFacts, TimeoutFacts DEF Next

-----------------------------------------------------------------------------
(* The parts of Inv, one by one. *)

LEMMA Numbers ==
    ASSUME Types, NEW n \in Nodes
    PROVE  height[n] \in Nat /\ round[n] \in Nat /\ lockedRound[n] \in Int /\ validRound[n] \in Int
BY DEF Types, Heights, Rounds, NoRound

LEMMA KeepsSets ==
    ASSUME Inv, Types', NEW n \in Nodes, StepOf(n)
    PROVE  SetsByType' /\ CountsOnlyCurrentVotes'
<1> SUFFICES ASSUME NEW m \in Nodes
             PROVE  /\ \A v \in prevotes'[m] : v.type = "Prevote"
                    /\ \A v \in precommits'[m] : v.type = "Precommit"
                    /\ \A set \in {prevotes'[m], precommits'[m]} : \A v \in set :
                          /\ v \in votes' /\ v.voter # m
                          /\ v.height = height'[m] /\ v.round = round'[m]
                          /\ \A w \in set : w.voter = v.voter => w = v
  BY DEF SetsByType, CountsOnlyCurrentVotes
<1>1. votes \subseteq votes'
  BY DEF StepOf, CastsVotes
<1>2. CASE m = n /\ EntersRound(n)
  BY <1>2 DEF EntersRound
<1>3. CASE m = n /\ StaysInRound(n)
  BY <1>1, <1>3 DEF StaysInRound, Sound, Current
<1>4. CASE m # n
  BY <1>1, <1>4, SetsSound DEF StepOf, OthersKeep, Sound, Current, Inv
<1> QED BY <1>2, <1>3, <1>4 DEF StepOf

LEMMA KeepsNotStarted ==
    ASSUME Inv, Types', NEW n \in Nodes, StepOf(n)
    PROVE  NotStarted' /\ ProposerPastPropose' /\ ProposeTimed'
<1> SUFFICES ASSUME NEW m \in Nodes
             PROVE  /\ step'[m] = "NewRound" =>
                          height'[m] = 0 /\ round'[m] = 0 /\ BagToSet(timers'[m]) = {}
                    /\ step'[m] = "Propose" =>
                          /\ m # Proposer(height'[m], round'[m])
                          /\ TimeoutEvent(height'[m], round'[m], "Propose") \in BagToSet(timers'[m])
  BY DEF NotStarted, ProposerPastPropose, ProposeTimed, BagToSet, TimeoutEvent, Proposer
<1>1. CASE m = n /\ EntersRound(n)
  BY <1>1 DEF EntersRound
<1>2. CASE m = n /\ StaysInRound(n)
  BY <1>2 DEF StaysInRound, Inv, ProposerPastPropose, ProposeTimed
<1>3. CASE m # n
  BY <1>3 DEF StepOf, OthersKeep, Inv, NotStarted, ProposerPastPropose, ProposeTimed
<1> QED BY <1>1, <1>2, <1>3 DEF StepOf

LEMMA KeepsVotesBehind ==
    ASSUME Inv, Types', NEW n \in Nodes, StepOf(n)
    PROVE  VotesBehind'
<1> SUFFICES ASSUME NEW v \in votes', v.voter \notin Restarting
             PROVE  Past(v.voter, v.height, v.round)'
                    \/ (Current(v.voter, v.height, v.round) /\ Voted(v.voter))'
  BY DEF VotesBehind
<1>1. v.voter \in Nodes /\ v.height \in Nat /\ v.round \in Nat
  BY NodesAssumption DEF Types, Votes, Heights, Rounds
<1>2. /\ height[v.voter] \in Nat /\ round[v.voter] \in Nat
      /\ height'[v.voter] \in Nat /\ round'[v.voter] \in Nat
  BY <1>1 DEF Inv, Types, Heights, Rounds
<1>3. CASE v \notin votes
  <2>1. v.voter = n /\ Current(n, v.height, v.round) /\ step'[n] \in {"Prevote", "Precommit"}
    BY <1>3 DEF StepOf, CastsVotes
  <2>2. CASE StaysInRound(n)
    BY <2>1, <2>2 DEF StaysInRound, Current, Voted
  <2>3. CASE EntersRound(n)
    BY <1>3, <2>3 DEF EntersRound
  <2> QED BY <2>2, <2>3 DEF StepOf
<1>4. CASE v \in votes
  <2>1. Past(v.voter, v.height, v.round)
        \/ (Current(v.voter, v.height, v.round) /\ Voted(v.voter))
    BY <1>4 DEF Inv, VotesBehind
  <2>2. CASE v.voter # n
    BY <1>1, <2>1, <2>2 DEF StepOf, OthersKeep, Past, Current, Voted
  <2>3. CASE v.voter = n /\ StaysInRound(n)
    BY <2>1, <2>3 DEF StaysInRound, Past, Current, Voted
  <2>4. CASE v.voter = n /\ EntersRound(n)
    BY <1>1, <1>2, <2>1, <2>4 DEF EntersRound, Past, Current, Voted, Inv, NotStarted
  <2> QED BY <2>2, <2>3, <2>4 DEF StepOf
<1> QED BY <1>3, <1>4

LEMMA KeepsTimersBehind ==
    ASSUME Inv, Types', NEW n \in Nodes, StepOf(n)
    PROVE  TimersBehind'
<1> SUFFICES ASSUME NEW m \in Nodes, NEW te \in BagToSet(timers'[m])
             PROVE  Past(m, te.height, te.round)'
                    \/ (Current(m, te.height, te.round) /\ (te.step = "Prevote" => Voted(m)))'
  BY DEF TimersBehind, BagToSet
<1>1. te.height \in Nat /\ te.round \in Nat
  BY DEF Types, TimeoutEvents, Heights, Rounds, BagToSet
<1>2. /\ height[m] \in Nat /\ round[m] \in Nat /\ height'[m] \in Nat /\ round'[m] \in Nat
  BY DEF Inv, Types, Heights, Rounds
<1>3. te \in BagToSet(timers[m]) => Past(m, te.height, te.round)
        \/ (Current(m, te.height, te.round) /\ (te.step = "Prevote" => Voted(m)))
  BY DEF Inv, TimersBehind
<1>4. CASE m # n
  BY <1>3, <1>4 DEF StepOf, OthersKeep, Past, Current, Voted
<1>5. CASE m = n /\ StaysInRound(n)
  BY <1>3, <1>5 DEF StaysInRound, Past, Current, Voted
<1>6. CASE m = n /\ EntersRound(n)
  <2> DEFINE now == TimeoutEvent(height'[n], round'[n], "Propose")
  <2>1. now.height = height'[n] /\ now.round = round'[n] /\ now.step = "Propose"
    BY DEF TimeoutEvent
  <2>2. CASE te = now
    BY <1>6, <2>1, <2>2 DEF Current
  <2>3. CASE te # now
    <3>1. te \in BagToSet(timers[n]) /\ step[n] # "NewRound" /\ BagToSet(timers'[n]) # {now}
      BY <1>6, <2>3 DEF EntersRound, Inv, NotStarted
    <3> HIDE DEF now
    <3> QED BY <1>1, <1>2, <1>3, <1>6, <3>1 DEF EntersRound, Past, Current, now
  <2> QED BY <2>2, <2>3
<1> QED BY <1>4, <1>5, <1>6 DEF StepOf

(* Votes are never taken back, so quorums of voters stay. *)
LEMMA VotersStay ==
    ASSUME votes \subseteq votes', NEW n, NEW type, NEW h, NEW r, NEW b
    PROVE  /\ IsQuorum(Cardinality(OthersVoted(n, type, h, r))) =>
                IsQuorum(Cardinality(OthersVoted(n, type, h, r)'))
           /\ IsQuorum(Cardinality(PrevotersOf(h, r, b))) =>
                IsQuorum(Cardinality(PrevotersOf(h, r, b)'))
<1>1. /\ OthersVoted(n, type, h, r) \subseteq OthersVoted(n, type, h, r)'
      /\ OthersVoted(n, type, h, r)' \subseteq Keyed
  BY DEF OthersVoted
<1>2. /\ PrevotersOf(h, r, b) \subseteq PrevotersOf(h, r, b)'
      /\ PrevotersOf(h, r, b)' \subseteq Keyed
  BY DEF PrevotersOf, Vote
<1> HIDE DEF OthersVoted, PrevotersOf
<1> QED BY <1>1, <1>2, QuorumMonotone

LEMMA KeepsTimersDue ==
    ASSUME Inv, Types', NEW n \in Nodes, StepOf(n)
    PROVE  TimersDue'
<1> SUFFICES ASSUME NEW m \in Nodes, NEW te \in BagToSet(timers'[m])
             PROVE  /\ te.step = "Prevote" => PrevoteTimerDue(m, te.height, te.round)'
                    /\ te.step = "Precommit" => PrecommitTimerDue(m, te.height, te.round)'
  BY DEF TimersDue, BagToSet
<1>1. votes \subseteq votes'
  BY DEF StepOf, CastsVotes
<1>2. CASE te \in BagToSet(timers[m])
  <2>1. /\ te.step = "Prevote" => PrevoteTimerDue(m, te.height, te.round)
        /\ te.step = "Precommit" => PrecommitTimerDue(m, te.height, te.round)
    BY <1>2 DEF Inv, TimersDue
  <2>2. te.step = "Precommit" => PrecommitTimerDue(m, te.height, te.round)'
    BY <1>1, <2>1, VotersStay DEF PrecommitTimerDue
  <2>3. ASSUME te.step = "Prevote"
        PROVE  PrevoteTimerDue(m, te.height, te.round)'
    <3>1. ASSUME NEW w \in votes' \ votes, w.type = "Prevote", w.voter = m
          PROVE  ~ (w.height = te.height /\ w.round = te.round)
      <4>1. n = m /\ Current(m, w.height, w.round) /\ step[m] = "Propose"
        BY <3>1 DEF StepOf, CastsVotes
      <4>2. Past(m, te.height, te.round)
        BY <1>2, <2>3, <4>1 DEF Inv, TimersBehind, Voted
      <4>3. height[m] \in Nat /\ round[m] \in Nat
        BY Numbers DEF Inv
      <4> QED BY <4>1, <4>2, <4>3 DEF Current, Past
    <3>2. CASE IsQuorum(Cardinality(OthersVoted(m, "Prevote", te.height, te.round)))
      BY <1>1, <3>2, VotersStay DEF PrevoteTimerDue
    <3>3. CASE /\ m # Proposer(te.height, te.round)
               /\ \/ m \in Restarting
                  \/ ~ \E w \in votes : /\ w.type = "Prevote" /\ w.voter = m
                                        /\ w.height = te.height /\ w.round = te.round
      BY <3>1, <3>3 DEF PrevoteTimerDue, Proposer
    <3> QED BY <2>1, <2>3, <3>2, <3>3 DEF PrevoteTimerDue
  <2> QED BY <2>2, <2>3
<1>3. CASE te \notin BagToSet(timers[m])
  <2>1. m = n
    BY <1>3 DEF StepOf, OthersKeep
  <2>2. CASE EntersRound(n)
    <3>1. te.step = "Propose"
      BY <1>3, <2>1, <2>2 DEF EntersRound, TimeoutEvent
    <3> QED BY <3>1
  <2>3. CASE StaysInRound(n)
    <3>1. /\ te.step = "Prevote" => PrevoteTimerDue(n, te.height, te.round) /\ votes' = votes
          /\ te.step = "Precommit" => PrecommitTimerDue(n, te.height, te.round)
      BY <1>3, <2>1, <2>3 DEF StaysInRound
    <3>2. te.step = "Prevote" => PrevoteTimerDue(m, te.height, te.round)'
      BY <2>1, <3>1 DEF PrevoteTimerDue, OthersVoted, Proposer
    <3>3. te.step = "Precommit" => PrecommitTimerDue(m, te.height, te.round)'
      BY <1>1, <2>1, <3>1, VotersStay DEF PrecommitTimerDue
    <3> QED BY <3>2, <3>3
  <2> QED BY <2>2, <2>3 DEF StepOf
<1> QED BY <1>2, <1>3

(* The names of BftVoting, read through the refinement mapping. *)
LEMMA VotingCardinality == ASSUME NEW S PROVE Voting!Cardinality(S) = Cardinality(S)
BY DEF Cardinality, Voting!Cardinality

LEMMA PolkaIs ==
    ASSUME NEW h, NEW r, NEW b
    PROVE  Voting!Polka(h, r, b) <=> IsQuorum(Cardinality(PrevotersOf(h, r, b)))
BY VotingCardinality DEF Voting!Polka, Voting!VotersFor, Voting!IsQuorum, Voting!Vote,
      PrevotersOf, IsQuorum, Vote

LEMMA KeepsLocksSound ==
    ASSUME Inv, Types', NEW n \in Nodes, StepOf(n)
    PROVE  LockNotAhead' /\ ValidCoversLock'
<1> SUFFICES ASSUME NEW m \in Nodes
             PROVE  /\ lockedRound'[m] <= round'[m]
                    /\ lockedValue'[m] # Nil => validRound'[m] >= lockedRound'[m]
                    /\ validValue'[m] # Nil =>
                          IsQuorum(Cardinality(PrevotersOf(height[m], validRound[m], validValue[m])'))
  <2>1. \A h, r, b : Voting!Polka(h, r, b)' <=> IsQuorum(Cardinality(PrevotersOf(h, r, b)'))
    BY VotingCardinality DEF Voting!Polka, Voting!VotersFor, Voting!IsQuorum, Voting!Vote,
          PrevotersOf, IsQuorum, Vote
  <2> QED BY <2>1 DEF LockNotAhead, ValidCoversLock, PrevotersOf, Voting!Polka, Voting!VotersFor,
        Voting!Vote, Vote
<1>1. votes \subseteq votes'
  BY DEF StepOf, CastsVotes
<1>2. /\ lockedRound[m] <= round[m]
      /\ lockedValue[m] # Nil => validRound[m] >= lockedRound[m]
      /\ validValue[m] # Nil =>
            IsQuorum(Cardinality(PrevotersOf(height[m], validRound[m], validValue[m])))
  BY PolkaIs DEF Inv, LockNotAhead, ValidCoversLock
<1>3. /\ round[m] \in Nat /\ lockedRound[m] \in Int /\ validRound[m] \in Int
      /\ round'[m] \in Nat /\ lockedRound'[m] \in Int /\ validRound'[m] \in Int
  BY DEF Inv, Types, Heights, Rounds, NoRound
<1>4. ASSUME height'[m] = height[m], validRound'[m] = validRound[m], validValue'[m] = validValue[m]
      PROVE  validValue'[m] # Nil =>
               IsQuorum(Cardinality(PrevotersOf(height[m], validRound[m], validValue[m])'))
  <2>1. IsQuorum(Cardinality(PrevotersOf(height'[m], validRound'[m], validValue'[m]))) =>
          IsQuorum(Cardinality(PrevotersOf(height[m], validRound[m], validValue[m])'))
    <3>1. PrevotersOf(height'[m], validRound'[m], validValue'[m])
            \subseteq PrevotersOf(height[m], validRound[m], validValue[m])'
      BY <1>1 DEF PrevotersOf, Vote
    <3>2. PrevotersOf(height[m], validRound[m], validValue[m])' \subseteq Keyed
      BY DEF PrevotersOf
    <3> HIDE DEF PrevotersOf
    <3> QED BY <3>1, <3>2, QuorumMonotone
  <2> QED BY <1>2, <1>4, <2>1
<1>5. CASE m # n
  BY <1>2, <1>4, <1>5 DEF StepOf, OthersKeep
<1>6. CASE m = n /\ StaysInRound(n) /\ KeepsLocks(n)
  BY <1>2, <1>4, <1>6 DEF StaysInRound, KeepsLocks
<1>7. CASE m = n /\ StaysInRound(n) /\ TakesPolka(n)
  <2>1. IsQuorum(Cardinality(PrevotersOf(height'[m], validRound'[m], validValue'[m])))
    BY <1>7 DEF StaysInRound, TakesPolka
  <2>2. /\ PrevotersOf(height'[m], validRound'[m], validValue'[m])
              \subseteq PrevotersOf(height[m], validRound[m], validValue[m])'
        /\ PrevotersOf(height[m], validRound[m], validValue[m])' \subseteq Keyed
    BY <1>1 DEF PrevotersOf, Vote
  <2>3. IsQuorum(Cardinality(PrevotersOf(height[m], validRound[m], validValue[m])'))
    BY <2>1, <2>2, QuorumMonotone
  <2> QED BY <1>2, <1>3, <1>7, <2>3 DEF StaysInRound, TakesPolka
<1>8. CASE m = n /\ EntersRound(n) /\ ForgetsLocks(n)
  BY <1>3, <1>8 DEF ForgetsLocks, NoRound
<1>9. CASE m = n /\ EntersRound(n) /\ KeepsLocks(n)
  <2>1. \/ height'[n] = height[n] /\ round'[n] = round[n] + 1
        \/ height'[n] = height[n] /\ round'[n] = round[n]
        \/ ForgetsLocks(n)
    BY <1>9 DEF EntersRound, Inv, NotStarted
  <2>2. CASE height'[n] = height[n] /\ round'[n] >= round[n]
    BY <1>2, <1>3, <1>4, <1>9, <2>2 DEF KeepsLocks
  <2> QED BY <1>3, <1>8, <1>9, <2>1, <2>2
<1> QED BY <1>5, <1>6, <1>7, <1>8, <1>9 DEF StepOf, StaysInRound, EntersRound

LEMMA InvInit == Init => Inv
<1> SUFFICES ASSUME Init PROVE Inv
  OBVIOUS
<1>1. Types
  BY ZeroInRange, BagEmpty DEF Init, Types, RoundSteps, NewVoteSet
<1>2. SetsByType /\ CountsOnlyCurrentVotes
  BY DEF Init, SetsByType, CountsOnlyCurrentVotes, NewVoteSet
<1>3. NotStarted /\ ProposerPastPropose /\ ProposeTimed /\ TimersBehind /\ TimersDue
  BY BagEmpty DEF Init, NotStarted, ProposerPastPropose, ProposeTimed, TimersBehind, TimersDue
<1>4. VotesBehind /\ LockNotAhead /\ ValidCoversLock
  BY DEF Init, VotesBehind, LockNotAhead, ValidCoversLock, NoRound
<1> QED BY <1>1, <1>2, <1>3, <1>4 DEF Inv

LEMMA InvNext == Inv /\ [Next]_vars => Inv'
<1> SUFFICES ASSUME Inv, [Next]_vars PROVE Inv'
  OBVIOUS
<1>1. Types'
  BY TypesNext DEF Inv
<1>2. CASE UNCHANGED vars
  <2>1. /\ UNCHANGED <<height, round, step, lockedValue, lockedRound, votes>>
        /\ UNCHANGED <<validValue, validRound, prevotes, precommits, timers>>
    BY <1>2 DEF vars, votingVars, nodeVars
  <2>2. SetsByType' /\ CountsOnlyCurrentVotes'
    BY <2>1 DEF Inv, SetsByType, CountsOnlyCurrentVotes
  <2>3. NotStarted' /\ ProposerPastPropose' /\ ProposeTimed' /\ LockNotAhead'
    BY <2>1 DEF Inv, NotStarted, ProposerPastPropose, ProposeTimed, LockNotAhead
  <2>4. TimersBehind' /\ VotesBehind'
    BY <2>1 DEF Inv, TimersBehind, VotesBehind, Past, Current, Voted
  <2>5. TimersDue'
    BY <2>1 DEF Inv, TimersDue, PrevoteTimerDue, PrecommitTimerDue, OthersVoted
  <2>6. ValidCoversLock'
    BY <2>1 DEF Inv, ValidCoversLock, Voting!Polka, Voting!VotersFor
  <2> QED BY <1>1, <2>2, <2>3, <2>4, <2>5, <2>6 DEF Inv
<1>3. CASE Next
  <2>1. PICK n \in Nodes : StepOf(n)
    BY <1>3, StepFacts
  <2> QED BY <1>1, <2>1, KeepsSets, KeepsNotStarted, KeepsVotesBehind, KeepsTimersBehind,
             KeepsTimersDue, KeepsLocksSound DEF Inv
<1> QED BY <1>2, <1>3

-----------------------------------------------------------------------------
(* The refinement: every step of the node is one of BftVoting, or changes
   nothing that BftVoting has.                                               *)

LEMMA MapEnterRound ==
    ASSUME NEW n, NEW h, NEW r, NEW cached, NEW pending, EnterRound(n, h, r, cached, pending)
    PROVE  Voting!EnterRound(n, h, r)
BY DEF EnterRound, StartRound, Voting!EnterRound, Proposer, Voting!Proposer,
      NewProposal, Voting!NewProposal, NoRound, Voting!NoRound

LEMMA MapCastVote ==
    ASSUME NEW n, NEW type, NEW b, CastVote(n, type, b)
    PROVE  Voting!CastVote(n, type, b)
BY DEF CastVote, Voting!CastVote, Vote, Voting!Vote

LEMMA MapQuorum ==
    ASSUME NEW n, NEW type, NEW b, IsQuorum(Cardinality(OthersFor(n, type, b)))
    PROVE  Voting!SeesQuorum(n, type, b)
<1>1. Voting!VotersFor(type, height[n], round[n], b) \ {n} = OthersFor(n, type, b)
  BY DEF Voting!VotersFor, OthersFor, Vote, Voting!Vote
<1> QED BY <1>1, VotingCardinality DEF Voting!SeesQuorum, Voting!IsQuorum, IsQuorum

LEMMA MapTwoThirds ==
    ASSUME NEW n, NEW type, IsQuorum(Cardinality(OthersVoted(n, type, height[n], round[n])))
    PROVE  Voting!SeesTwoThirdsAny(n, type)
BY VotingCardinality DEF Voting!SeesTwoThirdsAny, OthersVoted, Voting!IsQuorum, IsQuorum

LEMMA MapPrevoteTimer ==
    ASSUME NEW n, PrevoteTimerDue(n, height[n], round[n])
    PROVE  Voting!ProposalMissed(n) \/ Voting!SeesTwoThirdsAny(n, "Prevote")
BY MapTwoThirds DEF PrevoteTimerDue, Voting!ProposalMissed, Proposer, Voting!Proposer

LEMMA MapProposal ==
    ASSUME NEW n \in Nodes, NEW p \in proposals, ReceiveProposal(n, p)
    PROVE  Voting!Next
<1>1. Voting!OnProposal(n, p)
  BY MapCastVote DEF ReceiveProposal, Voting!OnProposal, Active, Voting!Active,
        Proposer, Voting!Proposer, PrevoteFor, Voting!PrevoteFor, NoRound, Voting!NoRound
<1> QED BY <1>1 DEF Voting!Next

LEMMA MapPrevote ==
    ASSUME Inv, NEW n \in Nodes, NEW v \in votes, ReceivePrevote(n, v)
    PROVE  [Voting!Next]_(Voting!vars)
<1> DEFINE set == AddVote(prevotes[n], v)
<1>1. /\ UNCHANGED <<height, round, proposals, commits>> /\ Voting!Active(n)
      /\ v.type = "Prevote" /\ v.voter # n /\ Current(n, v.height, v.round)
      /\ \/ step[n] = "Prevote" /\ PrevoteInPrevote(n, set)
         \/ UNCHANGED <<step, votes, lockedValue, lockedRound>>
  BY DEF ReceivePrevote, PrevoteInPrecommit, Current, Active, Voting!Active
<1>2. Sound(n, "Prevote", set)
  BY <1>1, SetsSound, AddVoteSound DEF Inv
<1> HIDE DEF set
<1>3. CASE UNCHANGED <<step, votes, lockedValue, lockedRound>>
  BY <1>1, <1>3 DEF Voting!vars
<1>4. CASE step[n] = "Prevote" /\ PrevoteInPrevote(n, set)
  <2>1. ASSUME NEW b \in QuorumBlocks(set),
               lockedValue' = [lockedValue EXCEPT ![n] = b],
               lockedRound' = [lockedRound EXCEPT ![n] = round[n]],
               step' = [step EXCEPT ![n] = "Precommit"],
               CastVote(n, "Precommit", b)
        PROVE  Voting!Next
    <3>1. b \in Blocks /\ HasQuorumFor(set, b)
      BY DEF QuorumBlocks
    <3>2. IsQuorum(Cardinality(OthersFor(n, "Prevote", b))) /\ \E w \in votes : w.block = b
      BY <1>2, <3>1, SoundQuorum DEF Inv
    <3>3. Voting!SeesQuorum(n, "Prevote", b) /\ b \in Voting!VotedBlocks
      BY <3>1, <3>2, MapQuorum, NilAssumption DEF Voting!VotedBlocks
    <3>4. Voting!OnPolka(n, b)
      BY <1>1, <1>4, <2>1, <3>3, MapCastVote DEF Voting!OnPolka
    <3> QED BY <3>3, <3>4 DEF Voting!Next
  <2>2. ASSUME HasQuorumFor(set, Nil), step' = [step EXCEPT ![n] = "Precommit"],
               CastVote(n, "Precommit", Nil), UNCHANGED <<lockedValue, lockedRound>>
        PROVE  Voting!Next
    <3>1. Voting!SeesTwoThirdsAny(n, "Prevote")
      BY <1>2, <2>2, SoundQuorum, MapTwoThirds DEF Inv
    <3>2. Voting!PrecommitNil(n)
      BY <1>1, <1>4, <2>2, <3>1, MapCastVote DEF Voting!PrecommitNil
    <3> QED BY <3>2 DEF Voting!Next
  <2> QED BY <1>3, <1>4, <2>1, <2>2 DEF PrevoteInPrevote
<1> QED BY <1>1, <1>3, <1>4

LEMMA MapPrecommit ==
    ASSUME Inv, NEW n \in Nodes, NEW v \in votes, ReceivePrecommit(n, v)
    PROVE  [Voting!Next]_(Voting!vars)
<1> DEFINE set == AddVote(precommits[n], v)
<1>1. /\ Voting!Active(n) /\ step[n] # "NewRound"
      /\ v.type = "Precommit" /\ v.voter # n /\ Current(n, v.height, v.round)
      /\ \/ \E b \in QuorumBlocks(set) : CommitBlock(n, b)
         \/ UNCHANGED votingVars
  BY DEF ReceivePrecommit, Current, Active, Voting!Active
<1>2. Sound(n, "Precommit", set)
  BY <1>1, SetsSound, AddVoteSound DEF Inv
<1> HIDE DEF set
<1>3. CASE UNCHANGED votingVars
  BY <1>3 DEF votingVars, Voting!vars
<1>4. ASSUME NEW b \in QuorumBlocks(set), CommitBlock(n, b)
      PROVE  Voting!Next
  <2>1. b \in Blocks /\ HasQuorumFor(set, b)
    BY DEF QuorumBlocks
  <2>2. IsQuorum(Cardinality(OthersFor(n, "Precommit", b))) /\ \E w \in votes : w.block = b
    BY <1>2, <2>1, SoundQuorum DEF Inv
  <2>3. Voting!SeesQuorum(n, "Precommit", b) /\ b \in Voting!VotedBlocks
    BY <2>1, <2>2, MapQuorum, NilAssumption DEF Voting!VotedBlocks
  <2>4. Voting!EnterRound(n, height[n] + 1, 0)
    BY <1>4, MapEnterRound DEF CommitBlock, AdvanceHeight
  <2>5. Voting!Commit(n, b)
    BY <1>1, <1>4, <2>3, <2>4 DEF Voting!Commit, CommitBlock, AdvanceHeight,
          NoRound, Voting!NoRound
  <2> QED BY <2>3, <2>5 DEF Voting!Next
<1> QED BY <1>1, <1>3, <1>4

LEMMA MapTimeout ==
    ASSUME Inv, NEW n \in Nodes, NEW te \in BagToSet(timers[n]), Timeout(n, te)
    PROVE  Voting!Next
<1> DEFINE pending == timers[n] (-) SetToBag({te})
<1>1. /\ Voting!Active(n) /\ UNCHANGED <<lockedValue, lockedRound, commits>>
      /\ \/ Matches(n, te) /\ te.step = "Propose" /\ TimeoutPropose(n, pending)
         \/ Matches(n, te) /\ te.step = "Prevote" /\ TimeoutPrevote(n, pending)
         \/ Matches(n, te) /\ te.step = "Precommit" /\ TimeoutPrecommit(n, pending)
         \/ TimeoutStale(n, te, pending)
  BY DEF Timeout, Active, Voting!Active
<1> HIDE DEF pending
<1>2. step[n] # "NewRound"
  BY DEF Inv, NotStarted
<1>3. Matches(n, te) => te.step = step[n] /\ te.height = height[n] /\ te.round = round[n]
  BY DEF Matches, TimeoutEvent
<1>4. CASE Matches(n, te) /\ te.step = "Propose" /\ TimeoutPropose(n, pending)
  <2>1. Voting!ProposeTimeout(n)
    BY <1>1, <1>3, <1>4 DEF TimeoutPropose, Voting!ProposeTimeout
  <2> QED BY <2>1 DEF Voting!Next
<1>5. CASE Matches(n, te) /\ te.step = "Prevote" /\ TimeoutPrevote(n, pending)
  <2>1. PrevoteTimerDue(n, height[n], round[n])
    BY <1>3, <1>5 DEF Inv, TimersDue
  <2>2. Voting!PrecommitNil(n)
    BY <1>1, <1>3, <1>5, <2>1, MapPrevoteTimer, MapCastVote
       DEF TimeoutPrevote, Voting!PrecommitNil
  <2> QED BY <2>2 DEF Voting!Next
<1>6. CASE Matches(n, te) /\ te.step = "Precommit" /\ TimeoutPrecommit(n, pending)
  <2>1. Voting!SeesTwoThirdsAny(n, "Precommit")
    BY <1>3, <1>6, MapTwoThirds DEF Inv, TimersDue, PrecommitTimerDue
  <2>2. Voting!EnterRound(n, height[n], round[n] + 1)
    BY <1>6, MapEnterRound DEF TimeoutPrecommit
  <2>3. Voting!PrecommitTimeout(n)
    BY <1>1, <1>3, <1>6, <2>1, <2>2 DEF TimeoutPrecommit, Voting!PrecommitTimeout
  <2> QED BY <2>3 DEF Voting!Next
<1>7. CASE TimeoutStale(n, te, pending)
  <2>1. Voting!StaleTimeout(n)
    BY <1>1, <1>2, <1>7 DEF TimeoutStale, Voting!StaleTimeout, Proposer, Voting!Proposer,
          NewProposal, Voting!NewProposal, NoRound, Voting!NoRound
  <2> QED BY <2>1 DEF Voting!Next
<1> QED BY <1>1, <1>4, <1>5, <1>6, <1>7

LEMMA MapStart ==
    ASSUME NEW n \in Nodes, Start(n) \/ Restart(n)
    PROVE  Voting!Next
<1>1. CASE Start(n)
  <2>1. Voting!Start(n)
    BY <1>1, MapEnterRound DEF Start, Voting!Start, Active, Voting!Active
  <2> QED BY <2>1 DEF Voting!Next
<1>2. CASE Restart(n)
  <2>1. Voting!Restart(n)
    BY <1>2, MapEnterRound DEF Restart, Voting!Restart, NoRound, Voting!NoRound
  <2> QED BY <2>1 DEF Voting!Next
<1> QED BY <1>1, <1>2

LEMMA MapNext == Inv /\ [Next]_vars => [Voting!Next]_(Voting!vars)
<1> SUFFICES ASSUME Inv, [Next]_vars PROVE [Voting!Next]_(Voting!vars)
  OBVIOUS
<1>1. CASE UNCHANGED vars
  BY <1>1 DEF vars, votingVars, Voting!vars
<1>2. CASE Next
  BY <1>2, MapStart, MapProposal, MapPrevote, MapPrecommit, MapTimeout DEF Next
<1> QED BY <1>1, <1>2

-----------------------------------------------------------------------------
(* For any number of nodes and validators: whatever order events, timers,
   commits and restarts come in, the event loop votes, locks and commits only as
   BftVoting allows.                                                         *)
THEOREM NodeImplementsVoting == Spec => ImplementsVoting
<1>1. Init => Voting!Init
  BY DEF Init, Voting!Init, NoRound, Voting!NoRound
<1>2. Inv /\ [Next]_vars => [Voting!Next]_(Voting!vars)
  BY MapNext
<1> QED BY <1>1, <1>2, InvInit, InvNext, PTL DEF Spec, ImplementsVoting, Voting!Spec

(* The vote sets of a node never hold a vote of another height or round, one of
   its own, or two of one voter.                                             *)
THEOREM CountedVotesAreCurrent == Spec => []CountsOnlyCurrentVotes
<1>1. Inv => CountsOnlyCurrentVotes
  BY DEF Inv
<1> QED BY <1>1, InvInit, InvNext, PTL DEF Spec

(* A node in Propose always has the timeout of its round pending. *)
THEOREM ProposeAlwaysTimed == Spec => []ProposeIsTimed
<1>1. Inv => ProposeIsTimed
  BY DEF Inv, ProposeTimed, ProposeIsTimed, BagIn
<1> QED BY <1>1, InvInit, InvNext, PTL DEF Spec

(* For any validators, rounds and heights: valid_value has a polka in valid_round at
   the present height, and is never older than the lock.  Nothing in the code reads
   the two fields, so nothing follows from this for the proposals a node makes. *)
THEOREM ValidValueCoversLock == Spec => []ValidCoversLock
<1>1. Inv => ValidCoversLock
  BY DEF Inv
<1> QED BY <1>1, InvInit, InvNext, PTL DEF Spec

-----------------------------------------------------------------------------
(* What is proved of BftVoting, for the node. *)
VP == INSTANCE BftVotingProofs WITH
    height <- height, round <- round, step <- step,
    lockedValue <- lockedValue, lockedRound <- lockedRound,
    proposals <- proposals, votes <- votes, commits <- commits

(* The two instances of BftVoting have the same behaviours. *)
LEMMA SameVoting == Voting!Spec => VP!Spec
<1>1. Voting!Next <=> VP!Next
  BY DEF
      VP!Next, Voting!Next, VP!Start, Voting!Start, VP!OnProposal,
      Voting!OnProposal, VP!ProposeTimeout, Voting!ProposeTimeout, VP!OnPolka,
      Voting!OnPolka, VP!PrecommitNil, Voting!PrecommitNil,
      VP!PrecommitTimeout, Voting!PrecommitTimeout, VP!Commit, Voting!Commit,
      VP!StaleTimeout, Voting!StaleTimeout, VP!Restart, Voting!Restart,
      VP!Active, Voting!Active, VP!EnterRound, Voting!EnterRound, VP!CastVote,
      Voting!CastVote, VP!SeesQuorum, Voting!SeesQuorum, VP!SeesTwoThirdsAny,
      Voting!SeesTwoThirdsAny, VP!ProposalMissed, Voting!ProposalMissed,
      VP!VotedBlocks, Voting!VotedBlocks, VP!VotersFor, Voting!VotersFor,
      VP!Proposer, Voting!Proposer, VP!NewProposal, Voting!NewProposal,
      VP!NoRound, Voting!NoRound, VP!PrevoteFor, Voting!PrevoteFor, VP!Vote,
      Voting!Vote, VP!IsQuorum, Voting!IsQuorum, VP!Cardinality,
      Voting!Cardinality
<1>2. Voting!Init <=> VP!Init
  BY DEF Voting!Init, VP!Init, Voting!NoRound, VP!NoRound
<1>3. [Voting!Next]_(Voting!vars) <=> [VP!Next]_(VP!vars)
  BY <1>1 DEF Voting!vars, VP!vars
<1> QED BY <1>2, <1>3, PTL DEF Voting!Spec, VP!Spec

(* The assumptions of BftTypes carry over to the instance. *)
LEMMA SameSets == Blocks = VP!Blocks /\ \A S : IsFiniteSet(S) <=> VP!IsFiniteSet(S)
BY DEF Blocks, VP!Blocks, Heights, VP!Heights, IsFiniteSet, VP!IsFiniteSet

(* Consensus for the validator process: if any two quorums share a node that
   does not restart, apply_commit is never called with two different blocks for
   one height, on whatever nodes.                                            *)
THEOREM NodeAgreement == Voting!QuorumOverlap => (Spec => []Voting!Agreement)
<1>1. VP!QuorumOverlap => (VP!Spec => []VP!Agreement)
  BY VP!AgreementHolds, SameSets,
     NodesAssumption, ValidatorsAssumption, BoundsAssumption, NilAssumption
<1>2. Voting!QuorumOverlap <=> VP!QuorumOverlap
  BY DEF Voting!QuorumOverlap, VP!QuorumOverlap, Voting!Cardinality, VP!Cardinality
<1>3. Voting!Agreement <=> VP!Agreement
  BY DEF Voting!Agreement, VP!Agreement
<1> QED BY <1>1, <1>2, <1>3, NodeImplementsVoting, SameVoting, PTL DEF ImplementsVoting

(* In a network of up to six validators without other keys no node ever calls
   apply_commit, whatever is delivered.                                      *)
THEOREM SmallNetworkNodesStall == Spec => []Voting!SmallNetworkNeverCommits
<1>1. VP!Spec => []VP!SmallNetworkNeverCommits
  BY VP!SmallNetworkStalls, SameSets,
     NodesAssumption, ValidatorsAssumption, BoundsAssumption, NilAssumption
<1>2. Voting!SmallNetworkNeverCommits <=> VP!SmallNetworkNeverCommits
  BY DEF Voting!SmallNetworkNeverCommits, VP!SmallNetworkNeverCommits,
        Voting!SmallNetwork, VP!SmallNetwork, Voting!Cardinality, VP!Cardinality
<1> QED BY <1>1, <1>2, NodeImplementsVoting, SameVoting, PTL DEF ImplementsVoting

=============================================================================
