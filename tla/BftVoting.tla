------------------------------ MODULE BftVoting ------------------------------
(***************************************************************************)
(* The voting discipline of the consensus, abstractly: every proposal and  *)
(* vote ever broadcast stays in a pool, a node acts on a quorum as soon as  *)
(* enough votes of OTHER nodes are in the pool, and a timeout may fire at   *)
(* any moment.  Which votes have reached a node, its timers and its block   *)
(* cache are in BftNode, which implements this module.                      *)
(*                                                                         *)
(* A node never counts its own vote: process_bft_output only broadcasts    *)
(* it, and gossipsub does not deliver a node's own messages to it.         *)
(***************************************************************************)
EXTENDS BftTypes

VARIABLES
    height,       \* height[n], round[n], step[n]: where n stands
    round,
    step,
    lockedValue,  \* lockedValue[n]: the block n last precommitted, or Nil
    lockedRound,  \* lockedRound[n]: the round it did so, or NoRound
    proposals,    \* every proposal broadcast
    votes,        \* every vote broadcast
    commits       \* what apply_commit was called with, per node and height

vars == <<height, round, step, lockedValue, lockedRound, proposals, votes, commits>>

-----------------------------------------------------------------------------
(* Those whose vote is in the pool. *)
VotersFor(type, h, r, b) == {v \in Keyed : Vote(type, h, r, b, v) \in votes}

(* Mutant of SeesQuorum: the node counts its own vote as well. *)
SeesQuorumWithOwn(n, type, b) ==
    IsQuorum(Cardinality(VotersFor(type, height[n], round[n], b)))

(* quorum_block over some of the votes n may have received in its round. *)
SeesQuorum(n, type, b) ==
    IsQuorum(Cardinality(VotersFor(type, height[n], round[n], b) \ {n}))

(* has_two_thirds_any: votes of a quorum of nodes, whatever they voted. *)
SeesTwoThirdsAny(n, type) ==
    IsQuorum(Cardinality({v \in Keyed \ {n} : \E w \in votes :
                             /\ w.type = type /\ w.voter = v
                             /\ w.height = height[n] /\ w.round = round[n]}))

(* n is in Prevote because the propose timeout fired: it is not the proposer
   and has cast no prevote in this round, at least not since it was started.  *)
ProposalMissed(n) ==
    /\ n # Proposer(height[n], round[n])
    /\ \/ n \in Restarting
       \/ ~ \E w \in votes : /\ w.type = "Prevote" /\ w.voter = n
                             /\ w.height = height[n] /\ w.round = round[n]

(* The blocks some vote is for: quorum_block looks at no others. *)
VotedBlocks == {v.block : v \in votes} \ {Nil}

(* The part of the system inside the bounds. *)
Active(n) == height[n] < MaxHeight /\ round[n] < MaxRound

(* process_bft_output signs a CastVote only when the node has a key. *)
CastVote(n, type, b) ==
    votes' = IF n \in Keyed
             THEN votes \cup {Vote(type, height[n], round[n], b, n)}
             ELSE votes

(* start_round, and, when n is the proposer, the proposal that the event loop
   builds in the same step.  The proposer hands its own proposal to on_proposal,
   which moves it to Prevote, and drops the prevote that call returns.        *)
EnterRound(n, h, r) ==
    /\ height' = [height EXCEPT ![n] = h]
    /\ round' = [round EXCEPT ![n] = r]
    /\ IF n = Proposer(h, r)
       THEN /\ step' = [step EXCEPT ![n] = "Prevote"]
            /\ \E body \in Bodies :
                  proposals' = proposals \cup {NewProposal(n, h, r, body)}
       ELSE /\ step' = [step EXCEPT ![n] = "Propose"]
            /\ UNCHANGED proposals

-----------------------------------------------------------------------------
Init ==
    /\ height = [n \in Nodes |-> 0]
    /\ round = [n \in Nodes |-> 0]
    /\ step = [n \in Nodes |-> "NewRound"]
    /\ lockedValue = [n \in Nodes |-> Nil]
    /\ lockedRound = [n \in Nodes |-> NoRound]
    /\ proposals = {}
    /\ votes = {}
    /\ commits = {}

(* The process starts: main calls start_round(0) at height 0. *)
Start(n) ==
    /\ Active(n)
    /\ step[n] = "NewRound"
    /\ EnterRound(n, 0, 0)
    /\ UNCHANGED <<lockedValue, lockedRound, votes, commits>>

(* on_proposal of a proposal for the node's own height and round. *)
OnProposal(n, p) ==
    /\ Active(n)
    /\ step[n] = "Propose"
    /\ p.height = height[n] /\ p.round = round[n]
    /\ p.proposer = Proposer(height[n], round[n])
    /\ step' = [step EXCEPT ![n] = "Prevote"]
    /\ CastVote(n, "Prevote", PrevoteFor(p, lockedValue[n], lockedRound[n]))
    /\ UNCHANGED <<height, round, lockedValue, lockedRound, proposals, commits>>

(* The propose timeout: on to Prevote, without casting a vote. *)
ProposeTimeout(n) ==
    /\ Active(n)
    /\ step[n] = "Propose"
    /\ step' = [step EXCEPT ![n] = "Prevote"]
    /\ UNCHANGED <<height, round, lockedValue, lockedRound, proposals, votes, commits>>

(* on_prevote completes a polka: lock the block and precommit it. *)
OnPolka(n, b) ==
    /\ Active(n)
    /\ step[n] = "Prevote"
    /\ SeesQuorum(n, "Prevote", b)
    /\ step' = [step EXCEPT ![n] = "Precommit"]
    /\ lockedValue' = [lockedValue EXCEPT ![n] = b]
    /\ lockedRound' = [lockedRound EXCEPT ![n] = round[n]]
    /\ CastVote(n, "Precommit", b)
    /\ UNCHANGED <<height, round, proposals, commits>>

(* Mutant of PrecommitNil: a late prevote timeout is not recognised as stale. *)
PrecommitNilLate(n) ==
    /\ Active(n)
    /\ step[n] \in {"Prevote", "Precommit"}
    /\ ProposalMissed(n) \/ SeesTwoThirdsAny(n, "Prevote")
    /\ step' = [step EXCEPT ![n] = "Precommit"]
    /\ CastVote(n, "Precommit", Nil)
    /\ UNCHANGED <<height, round, lockedValue, lockedRound, proposals, commits>>

(* A quorum of nil prevotes, or the prevote timeout: precommit nil.  The prevote
   timer runs only after a missed proposal or once 2/3 have prevoted.          *)
PrecommitNil(n) ==
    /\ Active(n)
    /\ step[n] = "Prevote"
    /\ ProposalMissed(n) \/ SeesTwoThirdsAny(n, "Prevote")
    /\ step' = [step EXCEPT ![n] = "Precommit"]
    /\ CastVote(n, "Precommit", Nil)
    /\ UNCHANGED <<height, round, lockedValue, lockedRound, proposals, commits>>

(* The precommit timeout starts the next round; the lock is kept.  Its timer
   runs only once 2/3 have precommitted.                                     *)
PrecommitTimeout(n) ==
    /\ Active(n)
    /\ step[n] = "Precommit"
    /\ SeesTwoThirdsAny(n, "Precommit")
    /\ EnterRound(n, height[n], round[n] + 1)
    /\ UNCHANGED <<lockedValue, lockedRound, votes, commits>>

(* on_precommit completes a quorum, whatever the step: apply_commit,
   advance_height, and the next proposal if it is this node's turn.          *)
Commit(n, b) ==
    /\ Active(n)
    /\ step[n] # "NewRound"
    /\ SeesQuorum(n, "Precommit", b)
    /\ commits' = commits \cup {[node |-> n, height |-> height[n], block |-> b]}
    /\ lockedValue' = [lockedValue EXCEPT ![n] = Nil]
    /\ lockedRound' = [lockedRound EXCEPT ![n] = NoRound]
    /\ EnterRound(n, height[n] + 1, 0)
    /\ UNCHANGED votes

(* A precommit timeout that on_timeout ignores (it is stale) still makes the
   event loop propose when the node is the proposer of its current round.     *)
StaleTimeout(n) ==
    /\ Active(n)
    /\ step[n] # "NewRound"
    /\ n = Proposer(height[n], round[n])
    /\ \E body \in Bodies :
          proposals' = proposals \cup {NewProposal(n, height[n], round[n], body)}
    /\ UNCHANGED <<height, round, step, lockedValue, lockedRound, votes, commits>>

(* The process stops and a new one takes its place, at height 0 and round 0 and
   without a lock: main keeps nothing of the consensus on disk.  It has the same
   key, so the votes of its predecessor do not reach it either.              *)
Restart(n) ==
    /\ n \in Restarting
    /\ step[n] # "NewRound"
    /\ lockedValue' = [lockedValue EXCEPT ![n] = Nil]
    /\ lockedRound' = [lockedRound EXCEPT ![n] = NoRound]
    /\ EnterRound(n, 0, 0)
    /\ UNCHANGED <<votes, commits>>

Next ==
    \E n \in Nodes :
        \/ Start(n)
        \/ \E p \in proposals : OnProposal(n, p)
        \/ ProposeTimeout(n)
        \/ \E b \in VotedBlocks : OnPolka(n, b)
        \/ PrecommitNil(n)
        \/ PrecommitTimeout(n)
        \/ \E b \in VotedBlocks : Commit(n, b)
        \/ StaleTimeout(n)
        \/ Restart(n)

Spec == Init /\ [][Next]_vars

-----------------------------------------------------------------------------
(* Every variable keeps the type its Rust counterpart has. *)
TypeOK ==
    /\ height \in [Nodes -> Heights]
    /\ round \in [Nodes -> Rounds]
    /\ step \in [Nodes -> RoundSteps]
    /\ lockedValue \in [Nodes -> Blocks \cup {Nil}]
    /\ lockedRound \in [Nodes -> Rounds \cup {NoRound}]
    /\ proposals \subseteq Proposals
    /\ votes \subseteq Votes
    /\ commits \subseteq [node : Nodes, height : Heights, block : Blocks]

(* Consensus: apply_commit is never called with two different blocks for one
   height, on whatever nodes and in whatever rounds the commits happen.      *)
Agreement ==
    \A c, d \in commits : c.height = d.height => c.block = d.block

(* No node equivocates unless it restarts: on_proposal, on_prevote and on_timeout
   together sign at most one prevote and one precommit per height and round,
   however often the proposer proposes and in whatever order events arrive.  *)
NoEquivocation ==
    \A v, w \in votes :
        (/\ v.type = w.type /\ v.height = w.height /\ v.round = w.round
         /\ v.voter = w.voter /\ v.voter \notin Restarting) => v.block = w.block

(* A quorum of prevotes for b at height h and round r was broadcast. *)
Polka(h, r, b) == IsQuorum(Cardinality(VotersFor("Prevote", h, r, b)))

(* A node that does not restart and moves its vote away from a block it
   precommitted must have been shown why: a prevote for another block in a later
   round of the height comes only after a polka for that other block in a round
   in between.                                                               *)
LockRespected ==
    \A v, w \in votes :
        (/\ v.type = "Precommit" /\ w.type = "Prevote"
         /\ v.voter = w.voter /\ v.voter \notin Restarting
         /\ v.height = w.height /\ v.round < w.round
         /\ v.block # Nil /\ w.block # Nil /\ v.block # w.block)
        => \E r \in Rounds : /\ v.round < r /\ r < w.round
                             /\ Polka(v.height, r, w.block)

-----------------------------------------------------------------------------
(* The inductive invariant behind Agreement.  Its parts are state predicates
   of this module so that TLC checks them before they are proved.            *)

(* n has left round r of height h, for good unless it restarts. *)
Past(n, h, r) ==
    \/ h < height[n]
    \/ h = height[n] /\ r < round[n]

(* A node that has not started stands at height 0, round 0. *)
NewRoundAtOrigin ==
    \A n \in Nodes : step[n] = "NewRound" => height[n] = 0 /\ round[n] = 0

(* A vote is only ever cast for the round its voter is in, on entering the
   step the vote belongs to.                                                 *)
VotesFromThePast ==
    \A v \in votes : v.voter \notin Restarting =>
        \/ Past(v.voter, v.height, v.round)
        \/ /\ v.height = height[v.voter] /\ v.round = round[v.voter]
           /\ \/ step[v.voter] = "Precommit"
              \/ v.type = "Prevote" /\ step[v.voter] = "Prevote"

(* A precommit for a block is backed by a polka of its own round. *)
PrecommitHasPolka ==
    \A v \in votes :
        v.type = "Precommit" /\ v.block # Nil => Polka(v.height, v.round, v.block)

(* A committed block has a quorum of precommits in a single round. *)
CommitHasQuorum ==
    \A c \in commits : \E r \in Rounds :
        IsQuorum(Cardinality(VotersFor("Precommit", c.height, r, c.block)))

(* The lock of a keyed node is its latest precommit for a block at its height. *)
LockIsLatestPrecommit ==
    \A n \in Keyed \ Restarting :
        /\ lockedValue[n] # Nil =>
              Vote("Precommit", height[n], lockedRound[n], lockedValue[n], n) \in votes
        /\ \A v \in votes :
              (/\ v.voter = n /\ v.type = "Precommit"
               /\ v.height = height[n] /\ v.block # Nil)
              => /\ lockedValue[n] # Nil
                 /\ v.round <= lockedRound[n]

(* sign_proposal never claims a valid round. *)
NoValidRoundClaimed == \A p \in proposals : p.validRound = NoRound

(* A quorum of precommits for b in round r of height h exists or can still
   come about: every node in it has precommitted b, is not past the round or may
   come back to it.                                                          *)
CanDecide(h, r, b) ==
    IsQuorum(Cardinality({v \in Keyed : \/ Vote("Precommit", h, r, b, v) \in votes
                                       \/ ~ Past(v, h, r)
                                       \/ v \in Restarting}))

(* Once a later round has a polka for another block, an earlier round can no
   longer decide: this is what the lock is for.                              *)
PolkaBlocksEarlierDecision ==
    \A h \in Heights : \A s \in Rounds : \A c \in VotedBlocks : Polka(h, s, c) =>
        \A r \in Rounds : \A b \in Blocks : r < s /\ b # c => ~ CanDecide(h, r, b)

IndInv ==
    /\ TypeOK
    /\ NewRoundAtOrigin
    /\ NoValidRoundClaimed
    /\ VotesFromThePast
    /\ NoEquivocation
    /\ PrecommitHasPolka
    /\ CommitHasQuorum
    /\ LockIsLatestPrecommit
    /\ LockRespected
    /\ PolkaBlocksEarlierDecision

(* Any two quorums share a node that does not restart.  It holds when the genesis
   validators alone hold keys and fewer than a third of them restart, and fails
   when too many other nodes hold keys.                                      *)
QuorumOverlap ==
    2 * ((2 * NumValidators) \div 3 + 1) > Cardinality(Keyed) + Cardinality(Keyed \cap Restarting)

-----------------------------------------------------------------------------
(* Why small networks stand still.  A proposer drops its own prevote and no
   node counts its own vote, so a node other than the proposer can count at
   most Cardinality(Keyed) - 2 prevotes.                                     *)
SmallNetwork ==
    /\ NumValidators > 1
    /\ 3 * (Cardinality(Keyed) - 2) <= 2 * NumValidators

ProposerNeverWaits ==
    \A n \in Nodes : step[n] = "Propose" => n # Proposer(height[n], round[n])

ProposerCastsNoPrevote ==
    \A v \in votes : v.type = "Prevote" => v.voter # Proposer(v.height, v.round)

OnlyProposerPrecommits ==
    \A v \in votes : v.type = "Precommit" /\ v.block # Nil
                        => v.voter = Proposer(v.height, v.round)

(* In a small network (up to six validators, no other keys) on_precommit never
   finds a quorum: no block is ever committed, whatever the network delivers. *)
SmallNetworkNeverCommits == SmallNetwork => commits = {}

=============================================================================
