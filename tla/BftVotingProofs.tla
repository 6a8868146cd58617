-------------------------- MODULE BftVotingProofs --------------------------
(***************************************************************************)
(* Proofs about BftVoting, for every number of nodes, rounds and heights:  *)
(* type correctness, and that Agreement holds whenever any two quorums of  *)
(* the nodes that hold keys share one that does not restart.               *)
(*                                                                         *)
(* StepFacts says, action by action, what a step can do to votes, locks,   *)
(* commits and positions; the parts of IndInv are then shown preserved     *)
(* from these facts alone.                                                 *)
(***************************************************************************)
EXTENDS BftVoting, FiniteSetTheorems, TLAPS

-----------------------------------------------------------------------------
(* Keyed is finite: what cardinalities need. *)
LEMMA KeyedFinite == IsFiniteSet(Keyed) /\ Cardinality(Keyed) \in Nat
BY NodesAssumption, FS_Subset, FS_CardinalityType

(* The proposer of any height and round is a keyed node (proposer_index). *)
LEMMA ProposerKeyed ==
    ASSUME NEW h \in Nat, NEW r \in Nat
    PROVE  Proposer(h, r) \in Keyed
<1>1. (h + r) % NumValidators \in 0 .. NumValidators - 1
  BY ValidatorsAssumption
<1> QED BY <1>1, ValidatorsAssumption DEF Proposer

(* A superset of a quorum is a quorum (is_quorum is monotone). *)
LEMMA QuorumMonotone ==
    ASSUME NEW A, NEW B, A \subseteq B, B \subseteq Keyed, IsQuorum(Cardinality(A))
    PROVE  IsQuorum(Cardinality(B))
<1>1. IsFiniteSet(B) /\ IsFiniteSet(A)
  BY KeyedFinite, FS_Subset
<1>2. Cardinality(A) <= Cardinality(B) /\ Cardinality(A) \in Nat /\ Cardinality(B) \in Nat
  BY <1>1, FS_Subset, FS_CardinalityType
<1> QED BY <1>2, ValidatorsAssumption DEF IsQuorum

(* Two quorums of keyed nodes share a node that does not restart. *)
LEMMA QuorumsMeet ==
    ASSUME QuorumOverlap, NEW A, NEW B, A \subseteq Keyed, B \subseteq Keyed,
           IsQuorum(Cardinality(A)), IsQuorum(Cardinality(B))
    PROVE  \E v \in Keyed \ Restarting : v \in A /\ v \in B
<1> SUFFICES ASSUME A \cap B \subseteq Keyed \cap Restarting PROVE FALSE
  OBVIOUS
<1>1. IsFiniteSet(A) /\ IsFiniteSet(B) /\ IsFiniteSet(Keyed \cap Restarting)
  BY KeyedFinite, FS_Subset
<1>2. Cardinality(A \cup B)
        = Cardinality(A) + Cardinality(B) - Cardinality(A \cap B)
  BY <1>1, FS_Union
<1>3. Cardinality(A \cup B) <= Cardinality(Keyed)
  BY KeyedFinite, FS_Subset, A \cup B \subseteq Keyed
<1>4. /\ Cardinality(A \cap B) <= Cardinality(Keyed \cap Restarting)
      /\ IsFiniteSet(A \cap B)
  BY <1>1, FS_Subset
<1>5. /\ Cardinality(A) \in Nat /\ Cardinality(B) \in Nat
      /\ Cardinality(A \cap B) \in Nat /\ Cardinality(Keyed \cap Restarting) \in Nat
  BY <1>1, <1>4, FS_CardinalityType
<1> DEFINE q == (2 * NumValidators) \div 3
<1>6. q \in Nat /\ 3 * q <= 2 * NumValidators /\ 2 * NumValidators < 3 * q + 3
  BY ValidatorsAssumption
<1>7. Cardinality(A) >= q + 1 /\ Cardinality(B) >= q + 1
  BY <1>5, <1>6, ValidatorsAssumption DEF IsQuorum
<1>8. 2 * (q + 1) > Cardinality(Keyed) + Cardinality(Keyed \cap Restarting)
  BY DEF QuorumOverlap
<1> HIDE DEF q
<1> QED BY <1>2, <1>3, <1>4, <1>5, <1>6, <1>7, <1>8, KeyedFinite

(* With no key outside the genesis list (whose entries are distinct) quorums
   overlap as long as fewer than a third of the validators restart: in the
   deployment the testnet guide describes a restart costs what a faulty
   validator would.                                                          *)
LEMMA ValidatorsOnlyOverlap ==
    ASSUME Cardinality(Keyed) <= NumValidators,
           3 * Cardinality(Keyed \cap Restarting) < NumValidators
    PROVE  QuorumOverlap
<1>1. Cardinality(Keyed \cap Restarting) \in Nat
  BY KeyedFinite, FS_Subset, FS_CardinalityType
<1> QED BY <1>1, KeyedFinite, ValidatorsAssumption DEF QuorumOverlap

-----------------------------------------------------------------------------
(* The parts of EnterRound that the proofs use. *)
LEMMA EnterRoundType ==
    ASSUME TypeOK, NEW n \in Nodes, NEW h \in Heights, NEW r \in Rounds,
           EnterRound(n, h, r)
    PROVE  /\ height' \in [Nodes -> Heights] /\ height'[n] = h
           /\ round' \in [Nodes -> Rounds] /\ round'[n] = r
           /\ step' \in [Nodes -> RoundSteps] /\ step'[n] \in {"Propose", "Prevote"}
           /\ \A m \in Nodes \ {n} : /\ height'[m] = height[m]
                                     /\ round'[m] = round[m]
                                     /\ step'[m] = step[m]
           /\ proposals' \subseteq Proposals
           /\ \A p \in proposals' \ proposals : p.validRound = NoRound
<1>1. \A body \in Bodies : NewProposal(n, h, r, body) \in Proposals
                           /\ NewProposal(n, h, r, body).validRound = NoRound
  BY DEF NewProposal, Proposals, Blocks, NoRound
<1>2. /\ proposals' \subseteq Proposals
      /\ \A p \in proposals' \ proposals : p.validRound = NoRound
  BY <1>1 DEF EnterRound, TypeOK
<1> QED BY <1>2 DEF EnterRound, TypeOK, RoundSteps

(* CastVote adds at most the one vote it names, and only for a keyed node. *)
LEMMA CastVoteType ==
    ASSUME TypeOK, NEW n \in Nodes, NEW t \in VoteTypes, NEW b \in Blocks \cup {Nil},
           CastVote(n, t, b)
    PROVE  /\ votes' \subseteq Votes
           /\ votes \subseteq votes'
           /\ n \in Keyed => Vote(t, height[n], round[n], b, n) \in votes'
           /\ \A v \in votes' \ votes :
                 n \in Keyed /\ v = Vote(t, height[n], round[n], b, n)
<1>1. n \in Keyed => Vote(t, height[n], round[n], b, n) \in Votes
  BY DEF Vote, Votes, TypeOK
<1> QED BY <1>1 DEF CastVote, TypeOK

-----------------------------------------------------------------------------
(* What any step may do.  A node keeps its place or moves forward, unless it
   restarts.                                                                 *)
MovesForward ==
    \A n \in Nodes \ Restarting :
        \/ /\ height'[n] = height[n] /\ round'[n] = round[n]
           /\ \/ step'[n] = step[n]
              \/ step[n] = "NewRound" /\ step'[n] \in {"Propose", "Prevote"}
              \/ step[n] = "Propose" /\ step'[n] = "Prevote"
              \/ step[n] = "Prevote" /\ step'[n] = "Precommit"
        \/ height'[n] = height[n] /\ round'[n] = round[n] + 1
        \/ height'[n] = height[n] + 1

(* A new vote is for its voter's current round, respects the lock when it is a
   prevote, and when it is a precommit for a block it locks that block.       *)
NewVotes ==
    /\ votes \subseteq votes'
    /\ \A v, w \in votes' \ votes : v = w
    /\ \A v \in votes' \ votes :
          /\ v.height = height[v.voter] /\ v.round = round[v.voter]
          /\ height'[v.voter] = height[v.voter] /\ round'[v.voter] = round[v.voter]
          /\ \/ /\ v.type = "Prevote"
                /\ step[v.voter] = "Propose" /\ step'[v.voter] = "Prevote"
                /\ \/ v.block = Nil
                   \/ lockedValue[v.voter] = Nil
                   \/ v.block = lockedValue[v.voter]
             \/ /\ v.type = "Precommit"
                /\ step[v.voter] = "Prevote" /\ step'[v.voter] = "Precommit"
                /\ v.block # Nil => /\ SeesQuorum(v.voter, "Prevote", v.block)
                                    /\ lockedValue'[v.voter] = v.block
                                    /\ lockedRound'[v.voter] = round[v.voter]

(* A lock is kept, dropped with the height, or replaced by a precommit. *)
LockChanges ==
    \A n \in Nodes \ Restarting :
        \/ /\ lockedValue'[n] = lockedValue[n] /\ lockedRound'[n] = lockedRound[n]
           /\ height'[n] = height[n]
        \/ lockedValue'[n] = Nil /\ height'[n] = height[n] + 1
        \/ /\ height'[n] = height[n] /\ round'[n] = round[n]
           /\ lockedValue'[n] \in Blocks /\ lockedRound'[n] = round[n]
           /\ n \in Keyed => Vote("Precommit", height[n], round[n], lockedValue'[n], n)
                                \in votes'

(* A new commit is for its node's height, on a quorum that node sees. *)
NewCommits ==
    \A c \in commits' \ commits :
        c.height = height[c.node] /\ SeesQuorum(c.node, "Precommit", c.block)

(* Votes are for blocks or nil. *)
LEMMA VotedAreBlocks ==
    ASSUME TypeOK
    PROVE  VotedBlocks \subseteq Blocks
BY DEF VotedBlocks, TypeOK, Votes

(* A block with a quorum of votes is one that was voted for. *)
LEMMA QuorumIsVoted ==
    ASSUME NEW t, NEW h, NEW r, NEW b \in Blocks,
           IsQuorum(Cardinality(VotersFor(t, h, r, b)))
    PROVE  b \in VotedBlocks
<1>1. VotersFor(t, h, r, b) # {}
  <2> SUFFICES ASSUME VotersFor(t, h, r, b) = {} PROVE FALSE
    OBVIOUS
  <2>1. Cardinality(VotersFor(t, h, r, b)) = 0
    BY FS_EmptySet
  <2>2. ~ IsQuorum(0)
    BY ValidatorsAssumption DEF IsQuorum
  <2> QED BY <2>1, <2>2
<1>2. PICK v \in Keyed : Vote(t, h, r, b, v) \in votes
  BY <1>1 DEF VotersFor
<1>3. Vote(t, h, r, b, v).block = b
  BY DEF Vote
<1> QED BY <1>2, <1>3, NilAssumption DEF VotedBlocks

(* Every action of the state machine has the step facts above. *)
LEMMA StepFacts ==
    ASSUME TypeOK, NewRoundAtOrigin, NoValidRoundClaimed, Next
    PROVE  /\ TypeOK' /\ NewRoundAtOrigin' /\ NoValidRoundClaimed'
           /\ MovesForward /\ NewVotes /\ LockChanges /\ NewCommits
<1> PICK n \in Nodes :
        \/ Start(n)
        \/ \E p \in proposals : OnProposal(n, p)
        \/ ProposeTimeout(n)
        \/ \E b \in VotedBlocks : OnPolka(n, b)
        \/ PrecommitNil(n)
        \/ PrecommitTimeout(n)
        \/ \E b \in VotedBlocks : Commit(n, b)
        \/ StaleTimeout(n)
        \/ Restart(n)
  BY DEF Next
<1>0. VotedBlocks \subseteq Blocks
  BY VotedAreBlocks
<1> USE BoundsAssumption
<1>1. CASE Start(n)
  <2>1. EnterRound(n, 0, 0) /\ 0 \in Heights /\ 0 \in Rounds
    BY <1>1 DEF Start, Heights, Rounds
  <2>2. height[n] = 0 /\ round[n] = 0 /\ step[n] = "NewRound"
    BY <1>1 DEF Start, NewRoundAtOrigin
  <2>3. TypeOK' /\ NoValidRoundClaimed'
    BY <1>1, <2>1, EnterRoundType DEF Start, TypeOK, NoValidRoundClaimed
  <2>4. NewRoundAtOrigin'
    BY <1>1, <2>1, EnterRoundType DEF Start, NewRoundAtOrigin
  <2>5. MovesForward /\ LockChanges
    BY <1>1, <2>1, <2>2, EnterRoundType DEF Start, MovesForward, LockChanges
  <2> QED BY <1>1, <2>3, <2>4, <2>5 DEF Start, NewVotes, NewCommits
<1>2. ASSUME NEW p \in proposals, OnProposal(n, p)
      PROVE  /\ TypeOK' /\ NewRoundAtOrigin' /\ NoValidRoundClaimed'
             /\ MovesForward /\ NewVotes /\ LockChanges /\ NewCommits
  <2> DEFINE b == PrevoteFor(p, lockedValue[n], lockedRound[n])
  <2>1. b \in Blocks \cup {Nil}
    BY DEF TypeOK, Proposals, PrevoteFor
  <2>2. b = Nil \/ lockedValue[n] = Nil \/ b = lockedValue[n]
    BY DEF NoValidRoundClaimed, PrevoteFor
  <2>3. CastVote(n, "Prevote", b)
    BY <1>2 DEF OnProposal
  <2> HIDE DEF b
  <2>4. /\ votes' \subseteq Votes /\ votes \subseteq votes'
        /\ \A v \in votes' \ votes : v = Vote("Prevote", height[n], round[n], b, n)
    BY <2>1, <2>3, CastVoteType DEF VoteTypes
  <2>5. TypeOK' /\ NewRoundAtOrigin' /\ NoValidRoundClaimed'
    BY <1>2, <2>4 DEF OnProposal, TypeOK, RoundSteps, NewRoundAtOrigin, NoValidRoundClaimed
  <2>6. MovesForward /\ LockChanges /\ NewCommits
    BY <1>2 DEF OnProposal, TypeOK, MovesForward, LockChanges, NewCommits
  <2>7. NewVotes
    BY <1>2, <2>2, <2>4 DEF OnProposal, TypeOK, NewVotes, Vote
  <2> QED BY <2>5, <2>6, <2>7
<1>3. CASE ProposeTimeout(n)
  <2>1. TypeOK' /\ NewRoundAtOrigin' /\ NoValidRoundClaimed'
    BY <1>3 DEF ProposeTimeout, TypeOK, RoundSteps, NewRoundAtOrigin, NoValidRoundClaimed
  <2> QED BY <1>3, <2>1
       DEF ProposeTimeout, TypeOK, MovesForward, NewVotes, LockChanges, NewCommits
<1>4. ASSUME NEW b \in Blocks, OnPolka(n, b)
      PROVE  /\ TypeOK' /\ NewRoundAtOrigin' /\ NoValidRoundClaimed'
             /\ MovesForward /\ NewVotes /\ LockChanges /\ NewCommits
  <2>1. /\ votes' \subseteq Votes /\ votes \subseteq votes'
        /\ n \in Keyed => Vote("Precommit", height[n], round[n], b, n) \in votes'
        /\ \A v \in votes' \ votes : v = Vote("Precommit", height[n], round[n], b, n)
    BY <1>4, CastVoteType DEF OnPolka, VoteTypes
  <2>2. TypeOK' /\ NewRoundAtOrigin' /\ NoValidRoundClaimed'
    BY <1>4, <2>1 DEF OnPolka, TypeOK, RoundSteps, NewRoundAtOrigin, NoValidRoundClaimed
  <2>3. MovesForward /\ LockChanges /\ NewCommits
    BY <1>4, <2>1 DEF OnPolka, TypeOK, MovesForward, LockChanges, NewCommits
  <2>4. NewVotes
    BY <1>4, <2>1 DEF OnPolka, TypeOK, NewVotes, Vote
  <2> QED BY <2>2, <2>3, <2>4
<1>5. CASE PrecommitNil(n)
  <2>1. /\ votes' \subseteq Votes /\ votes \subseteq votes'
        /\ \A v \in votes' \ votes : v = Vote("Precommit", height[n], round[n], Nil, n)
    BY <1>5, CastVoteType DEF PrecommitNil, VoteTypes
  <2>2. TypeOK' /\ NewRoundAtOrigin' /\ NoValidRoundClaimed'
    BY <1>5, <2>1 DEF PrecommitNil, TypeOK, RoundSteps, NewRoundAtOrigin, NoValidRoundClaimed
  <2>3. MovesForward /\ LockChanges /\ NewCommits
    BY <1>5, <2>1 DEF PrecommitNil, TypeOK, MovesForward, LockChanges, NewCommits
  <2>4. NewVotes
    BY <1>5, <2>1 DEF PrecommitNil, TypeOK, NewVotes, Vote
  <2> QED BY <2>2, <2>3, <2>4
<1>6. CASE PrecommitTimeout(n)
  <2>1. EnterRound(n, height[n], round[n] + 1)
    BY <1>6 DEF PrecommitTimeout
  <2>2. height[n] \in Heights /\ round[n] + 1 \in Rounds /\ round[n] \in Nat
    BY <1>6 DEF PrecommitTimeout, Active, TypeOK, Heights, Rounds
  <2>3. TypeOK' /\ NoValidRoundClaimed'
    BY <1>6, <2>1, <2>2, EnterRoundType DEF PrecommitTimeout, TypeOK, NoValidRoundClaimed
  <2>4. NewRoundAtOrigin'
    BY <1>6, <2>1, <2>2, EnterRoundType DEF PrecommitTimeout, NewRoundAtOrigin
  <2>5. MovesForward /\ LockChanges
    BY <1>6, <2>1, <2>2, EnterRoundType DEF PrecommitTimeout, MovesForward, LockChanges
  <2> QED BY <1>6, <2>3, <2>4, <2>5 DEF PrecommitTimeout, NewVotes, NewCommits
<1>7. ASSUME NEW b \in Blocks, Commit(n, b)
      PROVE  /\ TypeOK' /\ NewRoundAtOrigin' /\ NoValidRoundClaimed'
             /\ MovesForward /\ NewVotes /\ LockChanges /\ NewCommits
  <2>1. EnterRound(n, height[n] + 1, 0)
    BY <1>7 DEF Commit
  <2>2. height[n] + 1 \in Heights /\ 0 \in Rounds /\ height[n] \in Heights
    BY <1>7 DEF Commit, Active, TypeOK, Heights, Rounds
  <2>3. TypeOK' /\ NoValidRoundClaimed'
    BY <1>7, <2>1, <2>2, EnterRoundType DEF Commit, TypeOK, NoValidRoundClaimed
  <2>4. NewRoundAtOrigin'
    BY <1>7, <2>1, <2>2, EnterRoundType DEF Commit, NewRoundAtOrigin
  <2>5. MovesForward /\ LockChanges
    BY <1>7, <2>1, <2>2, EnterRoundType DEF Commit, MovesForward, LockChanges, TypeOK
  <2>6. NewCommits
    BY <1>7 DEF Commit, NewCommits
  <2> QED BY <1>7, <2>3, <2>4, <2>5, <2>6 DEF Commit, NewVotes
<1>8. CASE StaleTimeout(n)
  <2>1. \A body \in Bodies :
          /\ NewProposal(n, height[n], round[n], body) \in Proposals
          /\ NewProposal(n, height[n], round[n], body).validRound = NoRound
    BY DEF NewProposal, Proposals, Blocks, NoRound, TypeOK
  <2>2. TypeOK' /\ NewRoundAtOrigin' /\ NoValidRoundClaimed'
    BY <1>8, <2>1 DEF StaleTimeout, TypeOK, NewRoundAtOrigin, NoValidRoundClaimed
  <2> QED BY <1>8, <2>2
       DEF StaleTimeout, TypeOK, MovesForward, NewVotes, LockChanges, NewCommits
<1>9. CASE Restart(n)
  <2>1. EnterRound(n, 0, 0) /\ 0 \in Heights /\ 0 \in Rounds
    BY <1>9 DEF Restart, Heights, Rounds
  <2>2. lockedValue' \in [Nodes -> Blocks \cup {Nil}]
        /\ lockedRound' \in [Nodes -> Rounds \cup {NoRound}]
    BY <1>9 DEF Restart, TypeOK
  <2>3. TypeOK' /\ NoValidRoundClaimed'
    BY <1>9, <2>1, <2>2, EnterRoundType DEF Restart, TypeOK, NoValidRoundClaimed
  <2>4. NewRoundAtOrigin'
    BY <1>9, <2>1, EnterRoundType DEF Restart, NewRoundAtOrigin
  <2>5. MovesForward /\ LockChanges
    BY <1>9, <2>1, EnterRoundType DEF Restart, MovesForward, LockChanges, TypeOK
  <2> QED BY <1>9, <2>3, <2>4, <2>5 DEF Restart, NewVotes, NewCommits
<1> QED BY <1>0, <1>1, <1>2, <1>3, <1>4, <1>5, <1>6, <1>7, <1>8, <1>9

-----------------------------------------------------------------------------
(* Consequences of a step that several parts of the invariant need. *)

(* A round once left is never re-entered without a restart. *)
LEMMA PastStays ==
    ASSUME TypeOK, TypeOK', MovesForward,
           NEW n \in Nodes \ Restarting, NEW h \in Heights, NEW r \in Rounds,
           Past(n, h, r)
    PROVE  Past(n, h, r)'
<1>1. /\ height[n] \in Nat /\ height'[n] \in Nat /\ round[n] \in Nat
      /\ round'[n] \in Nat /\ h \in Nat /\ r \in Nat
  BY BoundsAssumption DEF TypeOK, Heights, Rounds
<1> QED BY <1>1 DEF Past, MovesForward

(* A new vote is for a round its voter has not left. *)
LEMMA NewVoteIsCurrent ==
    ASSUME TypeOK, NewVotes, NEW v \in votes' \ votes, v \in Votes
    PROVE  ~ Past(v.voter, v.height, v.round)
<1>1. height[v.voter] \in Nat /\ round[v.voter] \in Nat
  BY BoundsAssumption, NodesAssumption DEF TypeOK, Votes, Heights, Rounds
<1> QED BY <1>1 DEF Past, NewVotes

(* Votes are never withdrawn, so quorums of them stay. *)
LEMMA VotersStay ==
    ASSUME NewVotes, NEW t, NEW h, NEW r, NEW b,
           IsQuorum(Cardinality(VotersFor(t, h, r, b)))
    PROVE  IsQuorum(Cardinality(VotersFor(t, h, r, b)'))
<1>1. VotersFor(t, h, r, b) \subseteq VotersFor(t, h, r, b)'
  BY DEF VotersFor, NewVotes
<1>2. VotersFor(t, h, r, b)' \subseteq Keyed
  BY DEF VotersFor
<1> QED BY <1>1, <1>2, QuorumMonotone

(* What a node sees is part of what was broadcast. *)
LEMMA SeenWasBroadcast ==
    ASSUME NEW n, NEW t, NEW b, SeesQuorum(n, t, b)
    PROVE  IsQuorum(Cardinality(VotersFor(t, height[n], round[n], b)))
<1> DEFINE W == VotersFor(t, height[n], round[n], b)
<1>1. W \ {n} \subseteq W /\ W \subseteq Keyed
  BY DEF VotersFor
<1>2. IsQuorum(Cardinality(W \ {n}))
  BY DEF SeesQuorum
<1> HIDE DEF W
<1>3. IsQuorum(Cardinality(W))
  BY <1>1, <1>2, QuorumMonotone
<1> QED BY <1>3 DEF W

(* Votes stay in rounds their voters have reached: on_* only sign for the
   current round, and step only moves on.                                    *)
LEMMA VotesFromThePastStep ==
    ASSUME TypeOK, TypeOK', VotesFromThePast, MovesForward, NewVotes
    PROVE  VotesFromThePast'
<1> SUFFICES ASSUME NEW v \in votes', v.voter \notin Restarting
             PROVE  \/ Past(v.voter, v.height, v.round)'
                    \/ /\ v.height = height'[v.voter] /\ v.round = round'[v.voter]
                       /\ \/ step'[v.voter] = "Precommit"
                          \/ v.type = "Prevote" /\ step'[v.voter] = "Prevote"
  BY DEF VotesFromThePast
<1>1. /\ v.voter \in Nodes /\ v.height \in Heights /\ v.round \in Rounds
      /\ height[v.voter] \in Nat /\ round[v.voter] \in Nat
  BY NodesAssumption, BoundsAssumption DEF TypeOK, Votes, Heights, Rounds
<1>2. CASE v \notin votes
  BY <1>2 DEF NewVotes
<1>3. CASE v \in votes /\ Past(v.voter, v.height, v.round)
  BY <1>1, <1>3, PastStays
<1>4. CASE v \in votes /\ ~ Past(v.voter, v.height, v.round)
  <2>1. /\ v.height = height[v.voter] /\ v.round = round[v.voter]
        /\ \/ step[v.voter] = "Precommit"
           \/ v.type = "Prevote" /\ step[v.voter] = "Prevote"
    BY <1>4 DEF VotesFromThePast
  <2> QED BY <1>1, <2>1 DEF MovesForward, Past
<1> QED BY <1>2, <1>3, <1>4

(* A second vote of a type would need the step its first one has left. *)
LEMMA NoEquivocationStep ==
    ASSUME TypeOK, TypeOK', VotesFromThePast, NoEquivocation, NewVotes
    PROVE  NoEquivocation'
<1>1. ASSUME NEW v \in votes' \ votes, NEW w \in votes,
             v.type = w.type, v.height = w.height, v.round = w.round,
             v.voter = w.voter, v.voter \notin Restarting
      PROVE  FALSE
  <2>1. ~ Past(w.voter, w.height, w.round)
    BY <1>1, NewVoteIsCurrent DEF TypeOK
  <2>2. \/ step[w.voter] = "Precommit"
        \/ w.type = "Prevote" /\ step[w.voter] = "Prevote"
    BY <1>1, <2>1 DEF VotesFromThePast
  <2> QED BY <1>1, <2>2 DEF NewVotes
<1> QED BY <1>1 DEF NoEquivocation, NewVotes

(* on_prevote precommits a block only on the quorum it has counted. *)
LEMMA PrecommitHasPolkaStep ==
    ASSUME TypeOK', PrecommitHasPolka, NewVotes
    PROVE  PrecommitHasPolka'
<1> SUFFICES ASSUME NEW v \in votes', v.type = "Precommit", v.block # Nil
             PROVE  Polka(v.height, v.round, v.block)'
  BY DEF PrecommitHasPolka
<1>1. Polka(v.height, v.round, v.block)
  <2>1. CASE v \in votes
    BY <2>1 DEF PrecommitHasPolka
  <2>2. CASE v \notin votes
    <3>1. /\ SeesQuorum(v.voter, "Prevote", v.block)
          /\ v.height = height[v.voter] /\ v.round = round[v.voter]
      BY <2>2 DEF NewVotes
    <3> QED BY <3>1, SeenWasBroadcast DEF Polka
  <2> QED BY <2>1, <2>2
<1> QED BY <1>1, VotersStay DEF Polka

(* on_precommit commits only on the quorum it has counted. *)
LEMMA CommitHasQuorumStep ==
    ASSUME TypeOK, TypeOK', CommitHasQuorum, NewVotes, NewCommits
    PROVE  CommitHasQuorum'
<1> SUFFICES ASSUME NEW c \in commits'
             PROVE  \E r \in Rounds :
                       IsQuorum(Cardinality(VotersFor("Precommit", c.height, r, c.block)'))
  BY DEF CommitHasQuorum
<1>1. \E r \in Rounds :
          IsQuorum(Cardinality(VotersFor("Precommit", c.height, r, c.block)))
  <2>1. CASE c \in commits
    BY <2>1 DEF CommitHasQuorum
  <2>2. CASE c \notin commits
    <3>1. c.height = height[c.node] /\ SeesQuorum(c.node, "Precommit", c.block)
      BY <2>2 DEF NewCommits
    <3>2. round[c.node] \in Rounds
      BY DEF TypeOK
    <3> QED BY <3>1, <3>2, SeenWasBroadcast
  <2> QED BY <2>1, <2>2
<1> QED BY <1>1, VotersStay

(* on_prevote locks exactly when it precommits a block; only advance_height
   drops a lock, and then the height is over.                                *)
LEMMA LockIsLatestPrecommitStep ==
    ASSUME TypeOK, TypeOK', VotesFromThePast, LockIsLatestPrecommit,
           MovesForward, NewVotes, LockChanges
    PROVE  LockIsLatestPrecommit'
<1> SUFFICES ASSUME NEW n \in Keyed \ Restarting
             PROVE  /\ lockedValue'[n] # Nil =>
                          Vote("Precommit", height'[n], lockedRound'[n],
                               lockedValue'[n], n) \in votes'
                    /\ \A v \in votes' :
                          (/\ v.voter = n /\ v.type = "Precommit"
                           /\ v.height = height'[n] /\ v.block # Nil)
                          => /\ lockedValue'[n] # Nil
                             /\ v.round <= lockedRound'[n]
  BY DEF LockIsLatestPrecommit
<1>0. n \in Nodes /\ height[n] \in Nat /\ round[n] \in Nat /\ Nil \notin Blocks
  BY NodesAssumption, BoundsAssumption, NilAssumption DEF TypeOK, Heights, Rounds
<1>1. lockedValue'[n] # Nil =>
          Vote("Precommit", height'[n], lockedRound'[n], lockedValue'[n], n) \in votes'
  BY <1>0 DEF LockChanges, LockIsLatestPrecommit, NewVotes
<1>2. ASSUME NEW v \in votes', v.voter = n, v.type = "Precommit",
             v.height = height'[n], v.block # Nil
      PROVE  lockedValue'[n] # Nil /\ v.round <= lockedRound'[n]
  <2>1. v.round \in Nat
    BY BoundsAssumption DEF TypeOK, Votes, Rounds
  <2>2. CASE v \notin votes
    BY <1>2, <2>1, <2>2 DEF NewVotes
  <2>3. CASE v \in votes
    <3>1. \/ v.height < height[n]
          \/ v.height = height[n] /\ v.round <= round[n]
      BY <1>0, <1>2, <2>1, <2>3 DEF VotesFromThePast, Past
    <3>2. height'[n] # height[n] + 1
      BY <1>0, <1>2, <3>1 DEF TypeOK
    <3>3. v.height = height[n] /\ v.round <= round[n]
      BY <1>0, <1>2, <3>1, <3>2 DEF LockChanges
    <3>4. lockedValue[n] # Nil /\ v.round <= lockedRound[n]
      BY <1>2, <2>3, <3>3 DEF LockIsLatestPrecommit
    <3> QED BY <1>0, <3>2, <3>3, <3>4 DEF LockChanges
  <2> QED BY <2>2, <2>3
<1> QED BY <1>1, <1>2

(* on_proposal prevotes against its lock only when shown a valid round, which
   no proposal ever claims.                                                  *)
LEMMA LockRespectedStep ==
    ASSUME TypeOK, TypeOK', VotesFromThePast, NoEquivocation, PrecommitHasPolka,
           LockIsLatestPrecommit, LockRespected, NewVotes
    PROVE  LockRespected'
<1> SUFFICES ASSUME NEW v \in votes', NEW w \in votes',
                    v.type = "Precommit", w.type = "Prevote",
                    v.voter = w.voter, v.voter \notin Restarting,
                    v.height = w.height, v.round < w.round,
                    v.block # Nil, w.block # Nil, v.block # w.block
             PROVE  \E r \in Rounds : /\ v.round < r /\ r < w.round
                                      /\ Polka(v.height, r, w.block)'
  BY DEF LockRespected
<1> DEFINE n == v.voter
<1>0. /\ n \in Keyed /\ height[n] \in Nat /\ round[n] \in Nat
      /\ v.round \in Nat /\ w.round \in Nat
  BY NodesAssumption, BoundsAssumption DEF TypeOK, Votes, Heights, Rounds
<1> SUFFICES \E r \in Rounds : /\ v.round < r /\ r < w.round
                              /\ Polka(v.height, r, w.block)
  BY VotersStay DEF Polka
<1>1. CASE v \in votes /\ w \in votes
  BY <1>1 DEF LockRespected
<1>2. CASE v \notin votes
  <2>1. /\ v.height = height[n] /\ v.round = round[n]
        /\ w \in votes
    BY <1>2 DEF NewVotes
  <2>2. w.voter = n /\ w.height = height[n] /\ round[n] < w.round
    BY <2>1
  <2>3. \/ Past(w.voter, w.height, w.round)
        \/ w.height = height[w.voter] /\ w.round = round[w.voter]
    BY <2>1 DEF VotesFromThePast
  <2> HIDE DEF n
  <2>4. FALSE
    BY <1>0, <2>2, <2>3 DEF Past
  <2> QED BY <2>4
<1>3. CASE v \in votes /\ w \notin votes
  <2>1. /\ w.height = height[n] /\ w.round = round[n] /\ step[n] = "Propose"
        /\ lockedValue[n] = Nil \/ w.block = lockedValue[n]
    BY <1>3 DEF NewVotes
  <2>2. lockedValue[n] # Nil /\ v.round <= lockedRound[n]
    BY <1>0, <1>3, <2>1 DEF LockIsLatestPrecommit
  <2> DEFINE lr == lockedRound[n]
             u  == Vote("Precommit", height[n], lr, w.block, n)
  <2>3. u \in votes /\ lr \in Rounds /\ lr \in Nat
    <3>1. u \in votes
      BY <1>0, <2>1, <2>2 DEF LockIsLatestPrecommit
    <3>2. u.round \in Rounds
      BY <3>1 DEF TypeOK, Votes
    <3> QED BY <3>1, <3>2, BoundsAssumption DEF Vote, Rounds
  <2>4. lr # v.round
    BY <1>3, <2>1, <2>3 DEF NoEquivocation, Vote
  <2>5. lr < round[n]
    BY <1>0, <2>1, <2>3 DEF VotesFromThePast, Past, Vote
  <2>6. Polka(height[n], lr, w.block)
    BY <2>3 DEF PrecommitHasPolka, Vote
  <2> QED BY <1>0, <2>1, <2>2, <2>3, <2>4, <2>5, <2>6
<1> QED BY <1>1, <1>2, <1>3

(* A polka that a new vote completes has a voter in every quorum that could
   still decide an earlier round, and that voter is locked.                  *)
LEMMA PolkaBlocksEarlierDecisionStep ==
    ASSUME QuorumOverlap, TypeOK, TypeOK', VotesFromThePast', LockRespected',
           PolkaBlocksEarlierDecision, MovesForward, NewVotes
    PROVE  PolkaBlocksEarlierDecision'
<1> SUFFICES ASSUME NEW h \in Heights, NEW r \in Rounds, NEW s \in Rounds,
                    NEW b \in Blocks, NEW c \in Blocks,
                    r < s, b # c, Polka(h, s, c)', CanDecide(h, r, b)'
             PROVE  FALSE
  <2>1. VotedBlocks' \subseteq Blocks
    BY DEF VotedBlocks, TypeOK, Votes
  <2> QED BY <2>1 DEF PolkaBlocksEarlierDecision
<1> DEFINE D == {v \in Keyed : \/ Vote("Precommit", h, r, b, v) \in votes
                               \/ ~ Past(v, h, r)
                               \/ v \in Restarting}
           E == {v \in Keyed : \/ Vote("Precommit", h, r, b, v) \in votes'
                               \/ ~ Past(v, h, r)'
                               \/ v \in Restarting}
           P == VotersFor("Prevote", h, s, c)'
<1>1. E \subseteq D
  <2> SUFFICES ASSUME NEW v \in Keyed \ Restarting, Past(v, h, r),
                      Vote("Precommit", h, r, b, v) \notin votes,
                      Vote("Precommit", h, r, b, v) \in votes' \/ ~ Past(v, h, r)'
               PROVE  FALSE
    OBVIOUS
  <2>1. Past(v, h, r)'
    BY PastStays, NodesAssumption
  <2>2. Vote("Precommit", h, r, b, v) \in votes' \ votes
    BY <2>1
  <2>3. Vote("Precommit", h, r, b, v) \in Votes
    BY <2>2 DEF TypeOK
  <2> QED BY <2>2, <2>3, NewVoteIsCurrent DEF Vote
<1>2. IsQuorum(Cardinality(E))
  BY DEF CanDecide
<1>3. CanDecide(h, r, b)
  <2>1. D \subseteq Keyed
    OBVIOUS
  <2>2. IsQuorum(Cardinality(D))
    <3> HIDE DEF D, E
    <3> QED BY <1>1, <1>2, <2>1, QuorumMonotone
  <2> QED BY <2>2 DEF CanDecide
<1>4. ~ Polka(h, s, c)
  BY <1>3, QuorumIsVoted DEF PolkaBlocksEarlierDecision, Polka
<1>5. PICK v \in Keyed \ Restarting : v \in E /\ v \in P
  <2>1. E \subseteq Keyed /\ P \subseteq Keyed
    BY DEF VotersFor
  <2>2. IsQuorum(Cardinality(P))
    BY DEF Polka
  <2> HIDE DEF E, P
  <2> QED BY <1>2, <2>1, <2>2, QuorumsMeet
<1>6. Vote("Prevote", h, s, c, v) \in votes'
  BY <1>5 DEF VotersFor
<1>7. Past(v, h, r)'
  <2>1. /\ v \in Nodes /\ r \in Nat /\ s \in Nat /\ round'[v] \in Nat
    BY NodesAssumption, BoundsAssumption DEF TypeOK, Rounds
  <2> QED BY <1>6, <2>1 DEF VotesFromThePast, Past, Vote
<1>8. Vote("Precommit", h, r, b, v) \in votes'
  BY <1>5, <1>7
<1>9. PICK t \in Rounds : r < t /\ t < s /\ Polka(h, t, c)'
  <2> DEFINE x == Vote("Precommit", h, r, b, v)
             y == Vote("Prevote", h, s, c, v)
  <2>1. /\ x.type = "Precommit" /\ y.type = "Prevote" /\ x.voter = y.voter
        /\ x.height = h /\ y.height = h /\ x.round = r /\ y.round = s
        /\ x.block = b /\ y.block = c /\ x.voter = v
    BY DEF Vote
  <2>2. b # Nil /\ c # Nil
    BY NilAssumption
  <2>3. x \in votes' /\ y \in votes'
    BY <1>6, <1>8
  <2> HIDE DEF x, y
  <2> QED BY <2>1, <2>2, <2>3 DEF LockRespected
<1>10. Polka(h, t, c)
  <2>1. PICK z \in votes' \ votes : z.round = s
    <3>1. VotersFor("Prevote", h, s, c) # P
      BY <1>4 DEF Polka
    <3>2. PICK u \in Keyed : /\ Vote("Prevote", h, s, c, u) \in votes'
                             /\ Vote("Prevote", h, s, c, u) \notin votes
      BY <3>1 DEF VotersFor, NewVotes
    <3> QED BY <3>2 DEF Vote
  <2>2. t # s
    BY <1>9, BoundsAssumption DEF Rounds
  <2>3. VotersFor("Prevote", h, t, c)' = VotersFor("Prevote", h, t, c)
    BY <2>1, <2>2 DEF VotersFor, NewVotes, Vote
  <2> QED BY <1>9, <2>3 DEF Polka
<1>11. c \in VotedBlocks
  BY <1>10, QuorumIsVoted DEF Polka
<1> QED BY <1>3, <1>9, <1>10, <1>11 DEF PolkaBlocksEarlierDecision

-----------------------------------------------------------------------------
(* The empty network satisfies the inductive invariant. *)
LEMMA InitIndInv == Init => IndInv
<1> SUFFICES ASSUME Init PROVE IndInv
  OBVIOUS
<1>1. TypeOK
  BY BoundsAssumption DEF Init, TypeOK, Heights, Rounds, RoundSteps
<1>2. \A h, r, b : VotersFor("Prevote", h, r, b) = {}
  BY DEF Init, VotersFor
<1>3. ~ IsQuorum(Cardinality({}))
  BY FS_EmptySet, ValidatorsAssumption DEF IsQuorum
<1>4. PolkaBlocksEarlierDecision
  BY <1>2, <1>3 DEF PolkaBlocksEarlierDecision, Polka
<1>5. NewRoundAtOrigin /\ NoValidRoundClaimed /\ CommitHasQuorum
  BY DEF Init, NewRoundAtOrigin, NoValidRoundClaimed, CommitHasQuorum
<1>6. VotesFromThePast /\ NoEquivocation /\ PrecommitHasPolka /\ LockRespected
  BY DEF Init, VotesFromThePast, NoEquivocation, PrecommitHasPolka, LockRespected
<1>7. LockIsLatestPrecommit
  BY NodesAssumption DEF Init, LockIsLatestPrecommit
<1> QED BY <1>1, <1>4, <1>5, <1>6, <1>7 DEF IndInv

(* Every step of overlapping quorums preserves the inductive invariant. *)
LEMMA NextIndInv ==
    ASSUME QuorumOverlap, IndInv, [Next]_vars
    PROVE  IndInv'
<1>1. CASE Next
  <2>1. /\ TypeOK' /\ NewRoundAtOrigin' /\ NoValidRoundClaimed'
        /\ MovesForward /\ NewVotes /\ LockChanges /\ NewCommits
    BY <1>1, StepFacts DEF IndInv
  <2>2. VotesFromThePast' /\ NoEquivocation'
    BY <2>1, VotesFromThePastStep, NoEquivocationStep DEF IndInv
  <2>3. PrecommitHasPolka' /\ CommitHasQuorum' /\ LockIsLatestPrecommit'
    BY <2>1, PrecommitHasPolkaStep, CommitHasQuorumStep, LockIsLatestPrecommitStep
       DEF IndInv
  <2>4. LockRespected'
    BY <2>1, LockRespectedStep DEF IndInv
  <2>5. PolkaBlocksEarlierDecision'
    BY <2>1, <2>2, <2>4, PolkaBlocksEarlierDecisionStep DEF IndInv
  <2> QED BY <2>1, <2>2, <2>3, <2>4, <2>5 DEF IndInv
<1>2. CASE UNCHANGED vars
  <2>1. TypeOK' /\ NewRoundAtOrigin' /\ NoValidRoundClaimed'
    BY <1>2 DEF vars, IndInv, TypeOK, NewRoundAtOrigin, NoValidRoundClaimed
  <2>2. VotesFromThePast' /\ NoEquivocation'
    BY <1>2 DEF vars, IndInv, VotesFromThePast, NoEquivocation, Past
  <2>3. PrecommitHasPolka' /\ CommitHasQuorum'
    BY <1>2 DEF vars, IndInv, PrecommitHasPolka, CommitHasQuorum, Polka, VotersFor
  <2>4. LockIsLatestPrecommit'
    BY <1>2 DEF vars, IndInv, LockIsLatestPrecommit
  <2>5. LockRespected'
    BY <1>2 DEF vars, IndInv, LockRespected, Polka, VotersFor
  <2>6. PolkaBlocksEarlierDecision'
    <3>1. \A h, r, b : /\ Polka(h, r, b)' = Polka(h, r, b)
                       /\ CanDecide(h, r, b)' = CanDecide(h, r, b)
      BY <1>2 DEF vars, Polka, CanDecide, VotersFor, Past
    <3> QED BY <1>2, <3>1 DEF vars, IndInv, PolkaBlocksEarlierDecision, VotedBlocks
  <2> QED BY <2>1, <2>2, <2>3, <2>4, <2>5, <2>6 DEF IndInv
<1> QED BY <1>1, <1>2

(* A round decides one block, and no round after it another. *)
LEMMA IndInvAgreement ==
    ASSUME QuorumOverlap, IndInv
    PROVE  Agreement
<1>1. ASSUME NEW h \in Heights, NEW r \in Rounds, NEW b \in Blocks, NEW c \in Blocks,
             IsQuorum(Cardinality(VotersFor("Precommit", h, r, b))),
             IsQuorum(Cardinality(VotersFor("Precommit", h, r, c)))
      PROVE  b = c
  <2>1. PICK v \in Keyed \ Restarting :
                           /\ Vote("Precommit", h, r, b, v) \in votes
                           /\ Vote("Precommit", h, r, c, v) \in votes
    BY <1>1, QuorumsMeet DEF VotersFor
  <2> QED BY <2>1 DEF IndInv, NoEquivocation, Vote
<1>2. ASSUME NEW h \in Heights, NEW r \in Rounds, NEW s \in Rounds,
             NEW b \in Blocks, NEW c \in Blocks, r < s, b # c,
             IsQuorum(Cardinality(VotersFor("Precommit", h, r, b))),
             IsQuorum(Cardinality(VotersFor("Precommit", h, s, c)))
      PROVE  FALSE
  <2>1. PICK v \in Keyed : Vote("Precommit", h, s, c, v) \in votes
    BY <1>2, QuorumsMeet DEF VotersFor
  <2>2. Polka(h, s, c)
    BY <2>1, NilAssumption DEF IndInv, PrecommitHasPolka, Vote
  <2>3. CanDecide(h, r, b)
    <3> DEFINE A == VotersFor("Precommit", h, r, b)
               B == {w \in Keyed : \/ Vote("Precommit", h, r, b, w) \in votes
                                   \/ ~ Past(w, h, r)
                                   \/ w \in Restarting}
    <3>1. A \subseteq B /\ B \subseteq Keyed
      BY DEF VotersFor
    <3>2. IsQuorum(Cardinality(A))
      BY <1>2
    <3>3. IsQuorum(Cardinality(B))
      <4> HIDE DEF A, B
      <4> QED BY <3>1, <3>2, QuorumMonotone
    <3> QED BY <3>3 DEF CanDecide
  <2>4. c \in VotedBlocks
    BY <1>2, QuorumIsVoted
  <2> QED BY <1>2, <2>2, <2>3, <2>4 DEF IndInv, PolkaBlocksEarlierDecision
<1> SUFFICES ASSUME NEW c \in commits, NEW d \in commits, c.height = d.height
             PROVE  c.block = d.block
  BY DEF Agreement
<1>3. c.height \in Heights /\ c.block \in Blocks /\ d.block \in Blocks
  BY DEF IndInv, TypeOK
<1>4. PICK r \in Rounds :
          IsQuorum(Cardinality(VotersFor("Precommit", c.height, r, c.block)))
  BY DEF IndInv, CommitHasQuorum
<1>5. PICK s \in Rounds :
          IsQuorum(Cardinality(VotersFor("Precommit", c.height, s, d.block)))
  BY DEF IndInv, CommitHasQuorum
<1>6. r < s \/ r = s \/ s < r
  BY BoundsAssumption DEF Rounds
<1> QED BY <1>1, <1>2, <1>3, <1>4, <1>5, <1>6

-----------------------------------------------------------------------------
(* The state of every node keeps its type, for any number of nodes. *)
THEOREM TypeCorrect == Spec => []TypeOK
<1> DEFINE T == TypeOK /\ NewRoundAtOrigin /\ NoValidRoundClaimed
<1>1. Init => T
  BY InitIndInv DEF IndInv
<1>2. T /\ [Next]_vars => T'
  <2> SUFFICES ASSUME T, [Next]_vars PROVE T'
    OBVIOUS
  <2>1. CASE Next
    BY <2>1, StepFacts
  <2>2. CASE UNCHANGED vars
    BY <2>2 DEF vars, TypeOK, NewRoundAtOrigin, NoValidRoundClaimed
  <2> QED BY <2>1, <2>2
<1> QED BY <1>1, <1>2, PTL DEF Spec

(* No node signs two different votes of one type in one round unless it restarts:
   the state machine's step guards suffice, whatever the proposer and the network
   do, and whoever holds keys.                                               *)
THEOREM NeverEquivocates == Spec => []NoEquivocation
<1> DEFINE T == /\ TypeOK /\ NewRoundAtOrigin /\ NoValidRoundClaimed
                /\ VotesFromThePast /\ NoEquivocation
<1>1. Init => T
  BY InitIndInv DEF IndInv
<1>2. T /\ [Next]_vars => T'
  <2> SUFFICES ASSUME T, [Next]_vars PROVE T'
    OBVIOUS
  <2>1. CASE Next
    BY <2>1, StepFacts, VotesFromThePastStep, NoEquivocationStep
  <2>2. CASE UNCHANGED vars
    BY <2>2 DEF vars, TypeOK, NewRoundAtOrigin, NoValidRoundClaimed,
       VotesFromThePast, NoEquivocation, Past
  <2> QED BY <2>1, <2>2
<1> QED BY <1>1, <1>2, PTL DEF Spec

(* Agreement: with quorums that overlap in a node that does not restart,
   apply_commit sees one block per height, on every node, in every round and
   after any number of restarts of the others, though main forgets locks and
   votes with each of them.                                                  *)
THEOREM AgreementHolds == QuorumOverlap => (Spec => []Agreement)
<1> SUFFICES ASSUME QuorumOverlap PROVE Spec => []Agreement
  OBVIOUS
<1>1. IndInv /\ [Next]_vars => IndInv'
  BY NextIndInv
<1>2. IndInv => Agreement
  BY IndInvAgreement
<1> QED BY <1>1, <1>2, InitIndInv, PTL DEF Spec

(* The lock in on_proposal works for every node by itself: whoever holds keys and
   whether or not quorums overlap, a node prevotes against a block it precommitted
   only after a polka for the other block in between.                        *)
THEOREM LocksAreRespected == Spec => []LockRespected
<1> DEFINE T == /\ TypeOK /\ NewRoundAtOrigin /\ NoValidRoundClaimed
                /\ VotesFromThePast /\ NoEquivocation
                /\ PrecommitHasPolka /\ LockIsLatestPrecommit /\ LockRespected
<1>1. Init => T
  BY InitIndInv DEF IndInv
<1>2. T /\ [Next]_vars => T'
  <2> SUFFICES ASSUME T, [Next]_vars PROVE T'
    OBVIOUS
  <2>1. CASE Next
    <3>1. /\ TypeOK' /\ NewRoundAtOrigin' /\ NoValidRoundClaimed'
          /\ MovesForward /\ NewVotes /\ LockChanges /\ NewCommits
      BY <2>1, StepFacts
    <3>2. VotesFromThePast' /\ NoEquivocation'
      BY <3>1, VotesFromThePastStep, NoEquivocationStep
    <3>3. PrecommitHasPolka' /\ LockIsLatestPrecommit' /\ LockRespected'
      BY <3>1, PrecommitHasPolkaStep, LockIsLatestPrecommitStep, LockRespectedStep
    <3> QED BY <3>1, <3>2, <3>3
  <2>2. CASE UNCHANGED vars
    <3>1. TypeOK' /\ NewRoundAtOrigin' /\ NoValidRoundClaimed'
      BY <2>2 DEF vars, TypeOK, NewRoundAtOrigin, NoValidRoundClaimed
    <3>2. VotesFromThePast' /\ NoEquivocation'
      BY <2>2 DEF vars, VotesFromThePast, NoEquivocation, Past
    <3>3. PrecommitHasPolka' /\ LockIsLatestPrecommit'
      BY <2>2 DEF vars, PrecommitHasPolka, LockIsLatestPrecommit, Polka, VotersFor
    <3>4. LockRespected'
      BY <2>2 DEF vars, LockRespected, Polka, VotersFor
    <3> QED BY <3>1, <3>2, <3>3, <3>4
  <2> QED BY <2>1, <2>2
<1> QED BY <1>1, <1>2, PTL DEF Spec

(* A polka in a later round of on_prevote closes every earlier round to other
   blocks: what keeps one height from committing twice when nodes commit in
   different rounds.                                                         *)
THEOREM PolkasBlockEarlierDecisions ==
    QuorumOverlap => (Spec => []PolkaBlocksEarlierDecision)
<1> SUFFICES ASSUME QuorumOverlap PROVE Spec => []PolkaBlocksEarlierDecision
  OBVIOUS
<1>1. IndInv /\ [Next]_vars => IndInv'
  BY NextIndInv
<1>2. IndInv => PolkaBlocksEarlierDecision
  BY DEF IndInv
<1> QED BY <1>1, <1>2, InitIndInv, PTL DEF Spec

-----------------------------------------------------------------------------
(* The proposer of a round is never in its Propose step. *)
LEMMA ProposerNeverWaitsStep ==
    ASSUME TypeOK, NewRoundAtOrigin, NoValidRoundClaimed, ProposerNeverWaits, Next
    PROVE  ProposerNeverWaits'
<1>1. ASSUME NEW n \in Nodes, NEW h \in Heights, NEW r \in Rounds, EnterRound(n, h, r)
      PROVE  ProposerNeverWaits'
  BY <1>1 DEF EnterRound, TypeOK, ProposerNeverWaits
<1>2. ASSUME NEW n \in Nodes, Start(n) PROVE ProposerNeverWaits'
  BY <1>1, <1>2, BoundsAssumption DEF Start, Heights, Rounds
<1>3. ASSUME NEW n \in Nodes, NEW p \in proposals, OnProposal(n, p)
      PROVE  ProposerNeverWaits'
  BY <1>3 DEF OnProposal, TypeOK, ProposerNeverWaits
<1>4. ASSUME NEW n \in Nodes, ProposeTimeout(n) PROVE ProposerNeverWaits'
  BY <1>4 DEF ProposeTimeout, TypeOK, ProposerNeverWaits
<1>5. ASSUME NEW n \in Nodes, NEW b \in Blocks, OnPolka(n, b)
      PROVE  ProposerNeverWaits'
  BY <1>5 DEF OnPolka, TypeOK, ProposerNeverWaits
<1>6. ASSUME NEW n \in Nodes, PrecommitNil(n) PROVE ProposerNeverWaits'
  BY <1>6 DEF PrecommitNil, TypeOK, ProposerNeverWaits
<1>7. ASSUME NEW n \in Nodes, PrecommitTimeout(n) PROVE ProposerNeverWaits'
  <2>1. height[n] \in Heights /\ round[n] + 1 \in Rounds
    BY <1>7, BoundsAssumption DEF PrecommitTimeout, Active, TypeOK, Heights, Rounds
  <2> QED BY <1>1, <1>7, <2>1 DEF PrecommitTimeout
<1>8. ASSUME NEW n \in Nodes, NEW b \in Blocks, Commit(n, b)
      PROVE  ProposerNeverWaits'
  <2>1. height[n] + 1 \in Heights /\ 0 \in Rounds
    BY <1>8, BoundsAssumption DEF Commit, Active, TypeOK, Heights, Rounds
  <2> QED BY <1>1, <1>8, <2>1 DEF Commit
<1>9. ASSUME NEW n \in Nodes, StaleTimeout(n) PROVE ProposerNeverWaits'
  BY <1>9 DEF StaleTimeout, ProposerNeverWaits
<1>10. ASSUME NEW n \in Nodes, Restart(n) PROVE ProposerNeverWaits'
  BY <1>1, <1>10, BoundsAssumption DEF Restart, Heights, Rounds
<1> QED BY <1>2, <1>3, <1>4, <1>5, <1>6, <1>7, <1>8, <1>9, <1>10, VotedAreBlocks DEF Next

(* In a small network no keyed node but the proposer ever sees a polka. *)
LEMMA OutsiderSeesNoPolka ==
    ASSUME SmallNetwork, TypeOK, ProposerCastsNoPrevote, NEW n \in Keyed, NEW b,
           n # Proposer(height[n], round[n])
    PROVE  ~ SeesQuorum(n, "Prevote", b)
<1> DEFINE p == Proposer(height[n], round[n])
           W == VotersFor("Prevote", height[n], round[n], b) \ {n}
<1>0. height[n] \in Nat /\ round[n] \in Nat
  BY NodesAssumption, BoundsAssumption DEF TypeOK, Heights, Rounds
<1>1. p \in Keyed
  BY <1>0, ProposerKeyed
<1>2. p \notin W
  BY DEF ProposerCastsNoPrevote, VotersFor, Vote
<1>3. W \subseteq (Keyed \ {n}) \ {p}
  BY <1>2 DEF VotersFor
<1> HIDE DEF p, W
<1>4. /\ IsFiniteSet(Keyed \ {n})
      /\ Cardinality(Keyed \ {n}) = Cardinality(Keyed) - 1
  BY KeyedFinite, FS_RemoveElement
<1>5. /\ IsFiniteSet((Keyed \ {n}) \ {p})
      /\ Cardinality((Keyed \ {n}) \ {p}) = Cardinality(Keyed \ {n}) - 1
  BY <1>1, <1>4, FS_RemoveElement, p # n DEF p
<1>6. /\ Cardinality(W) <= Cardinality((Keyed \ {n}) \ {p})
      /\ Cardinality(W) \in Nat
  BY <1>3, <1>5, FS_Subset, FS_CardinalityType
<1>7. ~ IsQuorum(Cardinality(W))
  BY <1>4, <1>5, <1>6, KeyedFinite, ValidatorsAssumption DEF SmallNetwork, IsQuorum
<1> QED BY <1>7 DEF SeesQuorum, W

(* A single precommitter is no quorum. *)
LEMMA LoneProposerDecidesNothing ==
    ASSUME SmallNetwork, TypeOK, OnlyProposerPrecommits, NEW n \in Nodes,
           NEW b \in Blocks
    PROVE  ~ SeesQuorum(n, "Precommit", b)
<1> DEFINE p == Proposer(height[n], round[n])
           W == VotersFor("Precommit", height[n], round[n], b) \ {n}
<1>1. W \subseteq {p}
  BY NilAssumption DEF OnlyProposerPrecommits, VotersFor, Vote
<1> HIDE DEF p, W
<1>2. IsFiniteSet({p}) /\ Cardinality({p}) = 1
  BY FS_Singleton
<1>3. Cardinality(W) <= 1 /\ Cardinality(W) \in Nat
  BY <1>1, <1>2, FS_Subset, FS_CardinalityType
<1>4. ~ IsQuorum(Cardinality(W))
  BY <1>3, ValidatorsAssumption DEF SmallNetwork, IsQuorum
<1> QED BY <1>4 DEF SeesQuorum, W

(* With at most six validators and no key outside the genesis list, no block is
   ever committed: four validators, all online and with a perfect network,
   included.  With three validators and two further keys blocks do commit.     *)
THEOREM SmallNetworkStalls == Spec => []SmallNetworkNeverCommits
<1> DEFINE T == /\ TypeOK /\ NewRoundAtOrigin /\ NoValidRoundClaimed
                /\ ProposerNeverWaits /\ ProposerCastsNoPrevote
                /\ OnlyProposerPrecommits /\ commits = {}
<1>1. CASE ~ SmallNetwork
  <2>1. SmallNetworkNeverCommits
    BY <1>1 DEF SmallNetworkNeverCommits
  <2> QED BY <2>1, PTL
<1>2. CASE SmallNetwork
  <2>1. Init => T
    <3> SUFFICES ASSUME Init PROVE T
      OBVIOUS
    <3>1. TypeOK /\ NewRoundAtOrigin /\ NoValidRoundClaimed
      BY InitIndInv DEF IndInv
    <3> QED BY <3>1 DEF Init, ProposerNeverWaits, ProposerCastsNoPrevote,
              OnlyProposerPrecommits
  <2>2. T /\ [Next]_vars => T'
    <3> SUFFICES ASSUME T, [Next]_vars PROVE T'
      OBVIOUS
    <3>1. CASE Next
      <4>1. /\ TypeOK' /\ NewRoundAtOrigin' /\ NoValidRoundClaimed'
            /\ MovesForward /\ NewVotes /\ LockChanges /\ NewCommits
        BY <3>1, StepFacts
      <4>2. ProposerNeverWaits'
        BY <3>1, ProposerNeverWaitsStep
      <4>3. \A v \in votes' : v.voter \in Keyed /\ v.voter \in Nodes
        BY <4>1, NodesAssumption DEF TypeOK, Votes
      <4>4. ProposerCastsNoPrevote'
        BY <4>1, <4>3 DEF ProposerCastsNoPrevote, ProposerNeverWaits, NewVotes
      <4>5. OnlyProposerPrecommits'
        <5> SUFFICES ASSUME NEW v \in votes', v.type = "Precommit", v.block # Nil
                     PROVE  v.voter = Proposer(v.height, v.round)
          BY DEF OnlyProposerPrecommits
        <5>1. CASE v \in votes
          BY <5>1 DEF OnlyProposerPrecommits
        <5>2. CASE v \notin votes
          <6>1. /\ SeesQuorum(v.voter, "Prevote", v.block)
                /\ v.height = height[v.voter] /\ v.round = round[v.voter]
            BY <4>1, <5>2 DEF NewVotes
          <6> QED BY <1>2, <4>3, <6>1, OutsiderSeesNoPolka
        <5> QED BY <5>1, <5>2
      <4>6. commits' = {}
        <5>1. ASSUME NEW c \in commits' PROVE FALSE
          <6>1. SeesQuorum(c.node, "Precommit", c.block)
            BY <4>1 DEF NewCommits
          <6>2. c.node \in Nodes /\ c.block \in Blocks
            BY <4>1 DEF TypeOK
          <6> QED BY <1>2, <6>1, <6>2, LoneProposerDecidesNothing
        <5> QED BY <5>1
      <4> QED BY <4>1, <4>2, <4>4, <4>5, <4>6
    <3>2. CASE UNCHANGED vars
      BY <3>2 DEF vars, TypeOK, NewRoundAtOrigin, NoValidRoundClaimed,
         ProposerNeverWaits, ProposerCastsNoPrevote, OnlyProposerPrecommits
    <3> QED BY <3>1, <3>2
  <2>3. T => SmallNetworkNeverCommits
    BY DEF SmallNetworkNeverCommits
  <2> QED BY <2>1, <2>2, <2>3, PTL DEF Spec
<1> QED BY <1>1, <1>2

=============================================================================
