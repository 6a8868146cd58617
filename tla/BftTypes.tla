------------------------------ MODULE BftTypes ------------------------------
(***************************************************************************)
(* The vocabulary the consensus modules share: who takes part, who may     *)
(* propose, what a vote and a proposal are, and what counts as a quorum.   *)
(*                                                                         *)
(* A node is a validator process.  Every node runs the state machine of    *)
(* consensus/bft; only a node started with --validator-key signs votes     *)
(* (Keyed), and process_bft_output signs them whether or not the key is in *)
(* the genesis validator list.  VoteSet counts every validly signed vote   *)
(* against the length of that list.                                        *)
(***************************************************************************)
EXTENDS Integers, FiniteSets

CONSTANTS
    Nodes,          \* the validator processes of the network
    Keyed,          \* the nodes that hold a signing key
    Restarting,     \* the nodes that may stop and be started again
    NumValidators,  \* length of the genesis validator list (total_validators)
    Validators,     \* that list: position |-> node, positions counted from 0
    Bodies,         \* what two blocks of one proposer and height may differ in
    Nil,            \* None: the value of a nil vote, and of a missing lock
    MaxRound,       \* bound: rounds 0 .. MaxRound-1 are explored
    MaxHeight       \* bound: heights 0 .. MaxHeight-1 are explored

ASSUME NodesAssumption ==
    /\ IsFiniteSet(Nodes)
    /\ Keyed \subseteq Nodes
    /\ Restarting \subseteq Nodes

ASSUME ValidatorsAssumption ==
    /\ NumValidators \in Nat \ {0}
    /\ Validators \in [0 .. NumValidators - 1 -> Keyed]

ASSUME BoundsAssumption ==
    /\ MaxRound \in Nat
    /\ MaxHeight \in Nat

-----------------------------------------------------------------------------
(* The counter ranges include the bound itself: a node that reaches it has
   left the explored part of the system and takes no further step.           *)
Rounds  == 0 .. MaxRound
Heights == 0 .. MaxHeight

(* None for locked_round, valid_round and Proposal::valid_round. *)
NoRound == -1

(* A block stands for its SHA-256 hash.  The header holds height, proposer,
   timestamp, parent, state root and transaction root, so two hashes differ
   when height or proposer do; body abstracts the other fields.  The round is
   not in the header.                                                        *)
Blocks == [height : Heights, proposer : Nodes, body : Bodies]

ASSUME NilAssumption == Nil \notin Blocks

RoundSteps == {"NewRound", "Propose", "Prevote", "Precommit"}
VoteTypes  == {"Prevote", "Precommit"}

Votes == [type : VoteTypes, height : Heights, round : Rounds,
          block : Blocks \cup {Nil}, voter : Keyed]

Proposals == [height : Heights, round : Rounds, block : Blocks,
              proposer : Nodes, validRound : Rounds \cup {NoRound}]

Vote(type, h, r, b, n) ==
    [type |-> type, height |-> h, round |-> r, block |-> b, voter |-> n]

(* sign_proposal over the block build_block has just made: valid_round is
   always None.                                                              *)
NewProposal(n, h, r, body) ==
    [height |-> h, round |-> r, proposer |-> n, validRound |-> NoRound,
     block |-> [height |-> h, proposer |-> n, body |-> body]]

(* proposer_index: plain rotation over the genesis list. *)
Proposer(h, r) == Validators[(h + r) % NumValidators]

(* VoteSet::is_quorum *)
IsQuorum(count) == count * 3 > NumValidators * 2

(* Mutant of PrevoteFor: on_proposal forgets to look at the lock. *)
PrevoteIgnoringLock(p, lockedVal, lockedRnd) == p.block

(* What on_proposal prevotes, given the lock it finds. *)
PrevoteFor(p, lockedVal, lockedRnd) ==
    IF \/ lockedVal = Nil
       \/ p.block = lockedVal
       \/ /\ p.validRound # NoRound
          /\ lockedRnd # NoRound
          /\ p.validRound >= lockedRnd
    THEN p.block
    ELSE Nil

=============================================================================
