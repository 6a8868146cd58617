------------------------------- MODULE BftNode -------------------------------
(***************************************************************************)
(* The consensus as the validator process runs it: the state machine of    *)
(* consensus/bft/src/state_machine.rs driven by the event loop of          *)
(* validator/src/main.rs, one action per event the loop takes up.          *)
(*                                                                         *)
(* The loop handles one event at a time, so a whole arm (state machine     *)
(* call, signing, timers, commit, next proposal) is one action.  The       *)
(* network (libp2p gossipsub, external) hands a broadcast message to every *)
(* other node at most once, in any order and after any delay, or loses it. *)
(* A message that arrives when its height, round or step do not match is   *)
(* dropped by the handler, so it is not delivered here at all.             *)
(***************************************************************************)
EXTENDS BftTypes, Bags

VARIABLES
    height, round, step,        \* as in BftVoting
    lockedValue, lockedRound,
    proposals, votes, commits,
    validValue, validRound,     \* the last polka seen at this height
    prevotes, precommits,       \* round_state: the votes received in this round
    proposedBlocks,             \* the cached blocks of this height
    timers,                     \* timers[n]: bag of spawned timeout tasks
    applied                     \* whose transactions apply_commit executed: a
                                \* block's, or (Nil) those in the node's mempool

votingVars == <<height, round, step, lockedValue, lockedRound, proposals, votes, commits>>
nodeVars   == <<validValue, validRound, prevotes, precommits, proposedBlocks, timers, applied>>
vars       == <<votingVars, nodeVars>>

(* The refinement mapping: the voting discipline is read off the variables of the
   same name, and what it leaves out is exactly nodeVars.                    *)
Voting == INSTANCE BftVoting WITH
    height <- height, round <- round, step <- step,
    lockedValue <- lockedValue, lockedRound <- lockedRound,
    proposals <- proposals, votes <- votes, commits <- commits

-----------------------------------------------------------------------------
(* VoteSet: votes indexed by voter; the first vote of a voter counts. *)
NewVoteSet == {}
AddVote(set, v) == IF \E w \in set : w.voter = v.voter THEN set ELSE set \cup {v}

HasQuorumFor(set, b) == IsQuorum(Cardinality({v \in set : v.block = b}))
QuorumBlocks(set)    == {b \in Blocks : HasQuorumFor(set, b)}
HasTwoThirdsAny(set) == IsQuorum(Cardinality(set))

Active(n) == height[n] < MaxHeight /\ round[n] < MaxRound

TimeoutEvent(h, r, s) == [height |-> h, round |-> r, step |-> s]

(* ScheduleTimeout spawns one more task, even if one like it is running. *)
Schedule(n, h, r, s) ==
    timers' = [timers EXCEPT ![n] = @ (+) SetToBag({TimeoutEvent(h, r, s)})]

CastVote(n, type, b) ==
    votes' = IF n \in Keyed
             THEN votes \cup {Vote(type, height[n], round[n], b, n)}
             ELSE votes

(* RoundState::new: no votes of either type. *)
NewRoundState(n) ==
    /\ prevotes' = [prevotes EXCEPT ![n] = NewVoteSet]
    /\ precommits' = [precommits EXCEPT ![n] = NewVoteSet]

(* Mutant of StartRound: the votes of the old round are kept. *)
StartRoundKeepingVotes(n, h, r, pending) ==
    /\ height' = [height EXCEPT ![n] = h]
    /\ round' = [round EXCEPT ![n] = r]
    /\ UNCHANGED <<prevotes, precommits>>
    /\ timers' = [timers EXCEPT ![n] =
                     pending (+) SetToBag({TimeoutEvent(h, r, "Propose")})]

(* Mutant of StartRound: no propose timeout is scheduled. *)
StartRoundUntimed(n, h, r, pending) ==
    /\ height' = [height EXCEPT ![n] = h]
    /\ round' = [round EXCEPT ![n] = r]
    /\ NewRoundState(n)
    /\ timers' = [timers EXCEPT ![n] = pending]

(* start_round: a fresh round_state and a propose timeout; pending is what is
   left of n's timers.                                                       *)
StartRound(n, h, r, pending) ==
    /\ height' = [height EXCEPT ![n] = h]
    /\ round' = [round EXCEPT ![n] = r]
    /\ NewRoundState(n)
    /\ timers' = [timers EXCEPT ![n] =
                     pending (+) SetToBag({TimeoutEvent(h, r, "Propose")})]

(* start_round and the proposal the event loop makes right after it when the
   round is n's to propose.  The local on_proposal caches the block and enters
   Prevote; its prevote is discarded.                                        *)
EnterRound(n, h, r, cached, pending) ==
    /\ StartRound(n, h, r, pending)
    /\ IF n = Proposer(h, r)
       THEN \E body \in Bodies :
              LET p == NewProposal(n, h, r, body) IN
              /\ step' = [step EXCEPT ![n] = "Prevote"]
              /\ proposals' = proposals \cup {p}
              /\ proposedBlocks' = [proposedBlocks EXCEPT ![n] = cached \cup {p.block}]
       ELSE /\ step' = [step EXCEPT ![n] = "Propose"]
            /\ proposedBlocks' = [proposedBlocks EXCEPT ![n] = cached]
            /\ UNCHANGED proposals

-----------------------------------------------------------------------------
Init ==
    /\ height = [n \in Nodes |-> 0]
    /\ round = [n \in Nodes |-> 0]
    /\ step = [n \in Nodes |-> "NewRound"]
    /\ lockedValue = [n \in Nodes |-> Nil]
    /\ lockedRound = [n \in Nodes |-> NoRound]
    /\ proposals = {} /\ votes = {} /\ commits = {}
    /\ validValue = [n \in Nodes |-> Nil]
    /\ validRound = [n \in Nodes |-> NoRound]
    /\ prevotes = [n \in Nodes |-> NewVoteSet]
    /\ precommits = [n \in Nodes |-> NewVoteSet]
    /\ proposedBlocks = [n \in Nodes |-> {}]
    /\ timers = [n \in Nodes |-> EmptyBag]
    /\ applied = {}

(* main: start_round(0) and, for the proposer, the first proposal. *)
Start(n) ==
    /\ Active(n)
    /\ step[n] = "NewRound"
    /\ EnterRound(n, 0, 0, {}, timers[n])
    /\ UNCHANGED <<lockedValue, lockedRound, votes, commits,
                   validValue, validRound, applied>>

(* A proposal from another node reaches on_proposal and passes its checks. *)
ReceiveProposal(n, p) ==
    /\ Active(n)
    /\ p.proposer # n
    /\ p.height = height[n] /\ p.round = round[n]
    /\ step[n] = "Propose"
    /\ p.proposer = Proposer(height[n], round[n])
    /\ proposedBlocks' = [proposedBlocks EXCEPT ![n] = @ \cup {p.block}]
    /\ step' = [step EXCEPT ![n] = "Prevote"]
    /\ CastVote(n, "Prevote", PrevoteFor(p, lockedValue[n], lockedRound[n]))
    /\ UNCHANGED <<height, round, lockedValue, lockedRound, proposals, commits,
                   validValue, validRound, prevotes, precommits, timers, applied>>

(* Mutant of SeePolka: the valid value is not recorded. *)
SeePolkaUnrecorded(n, b) == UNCHANGED <<validValue, validRound>>

(* on_prevote once the vote is in the set, by what the set then holds. *)
SeePolka(n, b) ==
    /\ validValue' = [validValue EXCEPT ![n] = b]
    /\ validRound' = [validRound EXCEPT ![n] = round[n]]

PrevoteInPrevote(n, set) ==
    \/ \E b \in QuorumBlocks(set) :
          /\ SeePolka(n, b)
          /\ lockedValue' = [lockedValue EXCEPT ![n] = b]
          /\ lockedRound' = [lockedRound EXCEPT ![n] = round[n]]
          /\ step' = [step EXCEPT ![n] = "Precommit"]
          /\ CastVote(n, "Precommit", b)
          /\ UNCHANGED timers
    \/ /\ QuorumBlocks(set) = {}
       /\ HasQuorumFor(set, Nil)
       /\ step' = [step EXCEPT ![n] = "Precommit"]
       /\ CastVote(n, "Precommit", Nil)
       /\ UNCHANGED <<lockedValue, lockedRound, validValue, validRound, timers>>
    \/ /\ QuorumBlocks(set) = {} /\ ~ HasQuorumFor(set, Nil)
       /\ IF HasTwoThirdsAny(set)
          THEN Schedule(n, height[n], round[n], "Prevote")
          ELSE UNCHANGED timers
       /\ UNCHANGED <<step, votes, lockedValue, lockedRound, validValue, validRound>>

PrevoteInPrecommit(n, set) ==
    /\ IF QuorumBlocks(set) = {}
       THEN UNCHANGED <<validValue, validRound>>
       ELSE \E b \in QuorumBlocks(set) : SeePolka(n, b)
    /\ UNCHANGED <<step, votes, lockedValue, lockedRound, timers>>

(* A prevote for the node's round reaches on_prevote.  In Propose it is only
   kept: nothing looks at it again until another prevote arrives.            *)
ReceivePrevote(n, v) ==
    /\ Active(n)
    /\ v.type = "Prevote" /\ v.voter # n
    /\ v.height = height[n] /\ v.round = round[n]
    /\ v \notin prevotes[n]
    /\ LET set == AddVote(prevotes[n], v) IN
       /\ prevotes' = [prevotes EXCEPT ![n] = set]
       /\ \/ step[n] = "Prevote" /\ PrevoteInPrevote(n, set)
          \/ step[n] = "Precommit" /\ PrevoteInPrecommit(n, set)
          \/ /\ step[n] = "Propose"
             /\ UNCHANGED <<step, votes, lockedValue, lockedRound,
                            validValue, validRound, timers>>
    /\ UNCHANGED <<height, round, proposals, commits, precommits,
                   proposedBlocks, applied>>

(* get_committed_block: the block, if the node has it in its cache. *)
GetCommittedBlock(n, b) == IF b \in proposedBlocks[n] THEN b ELSE Nil

(* advance_height forgets locks, valid value and cached blocks and starts round 0;
   the event loop proposes if that is n's to do.                             *)
AdvanceHeight(n) ==
    /\ lockedValue' = [lockedValue EXCEPT ![n] = Nil]
    /\ lockedRound' = [lockedRound EXCEPT ![n] = NoRound]
    /\ validValue' = [validValue EXCEPT ![n] = Nil]
    /\ validRound' = [validRound EXCEPT ![n] = NoRound]
    /\ EnterRound(n, height[n] + 1, 0, {}, timers[n])

(* CommitBlock in the event loop: apply_commit executes the cached block's
   transactions, or the mempool's (Nil) when the block is not cached.        *)
CommitBlock(n, b) ==
    /\ commits' = commits \cup {[node |-> n, height |-> height[n], block |-> b]}
    /\ applied' = applied \cup
          {[node |-> n, height |-> height[n], txs |-> GetCommittedBlock(n, b)]}
    /\ AdvanceHeight(n)
    /\ UNCHANGED votes

(* A precommit for the node's round reaches on_precommit. *)
ReceivePrecommit(n, v) ==
    /\ Active(n)
    /\ step[n] # "NewRound"
    /\ v.type = "Precommit" /\ v.voter # n
    /\ v.height = height[n] /\ v.round = round[n]
    /\ v \notin precommits[n]
    /\ LET set == AddVote(precommits[n], v) IN
       \/ \E b \in QuorumBlocks(set) : CommitBlock(n, b)
       \/ /\ QuorumBlocks(set) = {}
          /\ precommits' = [precommits EXCEPT ![n] = set]
          /\ IF HasTwoThirdsAny(set) /\ step[n] = "Precommit"
             THEN Schedule(n, height[n], round[n], "Precommit")
             ELSE UNCHANGED timers
          /\ UNCHANGED <<votingVars, validValue, validRound, prevotes,
                         proposedBlocks, applied>>

(* Mutant of Matches: the step of the event is not compared. *)
MatchesRoundOnly(n, te) == te.height = height[n] /\ te.round = round[n]

(* on_timeout takes an event only if its height, round and step are the
   node's current ones.                                                      *)
Matches(n, te) == te = TimeoutEvent(height[n], round[n], step[n])

TimeoutPropose(n, pending) ==
    /\ step' = [step EXCEPT ![n] = "Prevote"]
    /\ timers' = [timers EXCEPT ![n] =
           pending (+) SetToBag({TimeoutEvent(height[n], round[n], "Prevote")})]
    /\ UNCHANGED <<height, round, proposals, votes, prevotes, precommits, proposedBlocks>>

TimeoutPrevote(n, pending) ==
    /\ step' = [step EXCEPT ![n] = "Precommit"]
    /\ CastVote(n, "Precommit", Nil)
    /\ timers' = [timers EXCEPT ![n] = pending]
    /\ UNCHANGED <<height, round, proposals, prevotes, precommits, proposedBlocks>>

TimeoutPrecommit(n, pending) ==
    /\ EnterRound(n, height[n], round[n] + 1, proposedBlocks[n], pending)
    /\ UNCHANGED votes

(* An event on_timeout ignores.  After a Precommit event the loop proposes all
   the same if the current round is n's; a proposer is past Propose, so its own
   on_proposal ignores that block and does not cache it.  Any other ignored
   event changes nothing: its task stays in the bag, as if it were still due.  *)
TimeoutStale(n, te, pending) ==
    /\ te.step = "Precommit"
    /\ n = Proposer(height[n], round[n])
    /\ \E body \in Bodies :
          proposals' = proposals \cup {NewProposal(n, height[n], round[n], body)}
    /\ timers' = [timers EXCEPT ![n] = pending]
    /\ UNCHANGED <<height, round, step, votes, prevotes, precommits, proposedBlocks>>

(* A timeout task wakes up and the loop handles its event. *)
Timeout(n, te) ==
    /\ Active(n)
    /\ BagIn(te, timers[n])
    /\ LET pending == timers[n] (-) SetToBag({te}) IN
       \/ Matches(n, te) /\ te.step = "Propose" /\ TimeoutPropose(n, pending)
       \/ Matches(n, te) /\ te.step = "Prevote" /\ TimeoutPrevote(n, pending)
       \/ Matches(n, te) /\ te.step = "Precommit" /\ TimeoutPrecommit(n, pending)
       \/ ~ Matches(n, te) /\ TimeoutStale(n, te, pending)
    /\ UNCHANGED <<lockedValue, lockedRound, commits, validValue, validRound, applied>>

(* The process stops, its tasks with it, and a new one starts: no part of the old
   state machine was written to disk.                                        *)
Restart(n) ==
    /\ n \in Restarting
    /\ step[n] # "NewRound"
    /\ lockedValue' = [lockedValue EXCEPT ![n] = Nil]
    /\ lockedRound' = [lockedRound EXCEPT ![n] = NoRound]
    /\ validValue' = [validValue EXCEPT ![n] = Nil]
    /\ validRound' = [validRound EXCEPT ![n] = NoRound]
    /\ EnterRound(n, 0, 0, {}, EmptyBag)
    /\ UNCHANGED <<votes, commits, applied>>

Next ==
    \E n \in Nodes :
        \/ Start(n)
        \/ \E p \in proposals : ReceiveProposal(n, p)
        \/ \E v \in votes : ReceivePrevote(n, v) \/ ReceivePrecommit(n, v)
        \/ \E te \in BagToSet(timers[n]) : Timeout(n, te)
        \/ Restart(n)

Spec == Init /\ [][Next]_vars

(* Timers fire: the tokio runtime wakes every task whose sleep is over, and the
   loop takes its event up.                                                  *)
TimersFire == \A n \in Nodes : WF_vars(\E te \in BagToSet(timers[n]) : Timeout(n, te))

(* A network that loses nothing besides: every node starts, and keeps taking up
   the messages it can still use.                                            *)
NetworkDelivers ==
    \A n \in Nodes :
        /\ WF_vars(Start(n))
        /\ WF_vars(\E p \in proposals : ReceiveProposal(n, p))
        /\ WF_vars(\E v \in votes : ReceivePrevote(n, v))
        /\ WF_vars(\E v \in votes : ReceivePrecommit(n, v))

TimedSpec == Spec /\ TimersFire
FairSpec  == TimedSpec /\ NetworkDelivers

-----------------------------------------------------------------------------
(* The node implements the voting discipline: no interleaving of deliveries,
   timers and commits makes it vote, lock or commit where BftVoting may not. *)
ImplementsVoting == Voting!Spec

(* No node waits for a proposal for ever: while it is in Propose, the timeout
   task that start_round asked for is still pending.                         *)
ProposeIsTimed ==
    \A n \in Nodes :
        Active(n) /\ step[n] = "Propose" =>
            BagIn(TimeoutEvent(height[n], round[n], "Propose"), timers[n])

(* The votes a node counts are votes of other nodes for its own height and
   round, one per voter: none survives a round or height change.             *)
CountsOnlyCurrentVotes ==
    \A n \in Nodes : \A set \in {prevotes[n], precommits[n]} : \A v \in set :
        /\ v \in votes /\ v.voter # n
        /\ v.height = height[n] /\ v.round = round[n]
        /\ \A w \in set : w.voter = v.voter => w = v

(* A valid value has a polka in its round at the node's present height, and is
   never older than the lock, through later polkas, new rounds, commits and restarts.
   The code only records it: sign_proposal always sends None as valid round. *)
ValidCoversLock ==
    \A n \in Nodes :
        /\ lockedValue[n] # Nil => validRound[n] >= lockedRound[n]
        /\ validValue[n] # Nil => Voting!Polka(height[n], validRound[n], validValue[n])

(* Every node leaves the Propose phase of every round it enters, even if the
   network delivers nothing: a silent proposer costs a timeout.  A node that is
   in Propose again has moved to another round or was restarted.             *)
ProposePhaseEnds ==
    \A n \in Nodes :
        (Active(n) /\ step[n] = "Propose") ~> (step[n] # "Propose" \/ ~ Active(n))

-----------------------------------------------------------------------------
(* What the repository's documents and comments say of this code. *)

(* docs/testnet-guide.md: four validators, of which three are online, make
   progress.  Reaching the round bound counts as progress here.              *)
EventuallyCommits == <>(commits # {} \/ \E n \in Nodes : round[n] = MaxRound)

(* main.rs, apply_commit: the transactions executed are those of the committed
   block.                                                                    *)
ExecutesTheCommittedBlock == \A a \in applied : a.txs # Nil

=============================================================================
