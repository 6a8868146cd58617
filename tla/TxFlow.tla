-------------------------------- MODULE TxFlow --------------------------------
(***************************************************************************)
(* A transaction's way through one validator process: the RPC threads and  *)
(* gossip put it into the mempool, a proposer takes it into a block,       *)
(* apply_commit executes the committed block and prunes the mempool, and   *)
(* the accounts are saved when the process ends (validator/src/main.rs).   *)
(*                                                                         *)
(* apply_commit takes the locks of the database and the mempool one after  *)
(* the other; RPC threads run in between, so it is three steps.  Which     *)
(* block is committed is decided by consensus (BftNode).                   *)
(***************************************************************************)
EXTENDS Ledger, Mempool

CONSTANTS
    PeerBlocks,     \* bodies of the blocks other validators propose
    MaxBlockTxs,    \* get_pending_ordered(100)
    MaxHeight       \* bound: heights 0 .. MaxHeight-1 are committed

ASSUME TxsAssumption ==
    \A tx \in Txs : /\ {tx.from, tx.to} \subseteq Accounts
                     /\ {tx.amount, tx.nonce} \subseteq Nat

ASSUME BlocksAssumption == PeerBlocks \subseteq Seq(Txs) /\ MaxBlockTxs \in Nat

VARIABLES
    up,             \* the process is running
    proposed,       \* proposed_blocks: cached block bodies of this height
    committing,     \* <<>>, or the step apply_commit is at and its transactions
    height,         \* the height consensus is working on
    confirmed,      \* history: how often each transaction succeeded in accounts
    disk            \* state.json

vars == <<accounts, poolVars, up, proposed, committing, height, confirmed, disk>>

Idle == committing = <<>>

NoneConfirmed == [tx \in Txs |-> 0]

(* A state file is <<accounts with their history>>; NoFile stands for none at all
   and for one that does not parse because its writing was cut short.        *)
NoFile == <<>>

SaveToFile == <<[accts |-> accounts, confirmed |-> confirmed]>>

(* load_from_file, and the fall-back to the genesis accounts. *)
LoadFromFile(file) ==
    IF file = NoFile THEN [accts |-> GenesisState, confirmed |-> NoneConfirmed] ELSE file[1]

-----------------------------------------------------------------------------
Init ==
    /\ accounts = GenesisState
    /\ PoolInit
    /\ up = TRUE
    /\ proposed = {}
    /\ committing = <<>>
    /\ height = 0
    /\ confirmed = NoneConfirmed
    /\ disk = NoFile

(* submit_transaction on an RPC thread, or a gossiped transaction. *)
Submit(tx) ==
    /\ up
    /\ AddTransaction(tx)
    /\ UNCHANGED <<accounts, up, proposed, committing, height, confirmed, disk>>

(* propose_block: the pool's best transactions, cached by the local on_proposal. *)
ProposeBlock ==
    /\ up /\ Idle /\ height < MaxHeight
    /\ \E txs \in GetPendingOrdered(MaxBlockTxs) : proposed' = proposed \cup {txs}
    /\ UNCHANGED <<accounts, poolVars, up, committing, height, confirmed, disk>>

(* on_proposal of another validator's block: cached without looking inside. *)
CachePeerBlock(txs) ==
    /\ up /\ Idle /\ height < MaxHeight
    /\ proposed' = proposed \cup {txs}
    /\ UNCHANGED <<accounts, poolVars, up, committing, height, confirmed, disk>>

(* apply_commit up to apply_block: the committed block if it is cached,
   otherwise (its proposal never arrived) what the mempool holds.            *)
ExecuteBlock(txs) ==
    LET result == ApplyBlock(accounts, txs) IN
    /\ up /\ Idle /\ height < MaxHeight
    /\ accounts' = result.accts
    /\ confirmed' = [tx \in Txs |-> confirmed[tx] +
                        Cardinality({i \in DOMAIN txs : txs[i] = tx /\ result.receipts[i]})]
    /\ committing' = <<"executed", txs>>
    /\ UNCHANGED <<poolVars, up, proposed, height, disk>>

CommitCached   == \E txs \in proposed : ExecuteBlock(txs)
CommitUncached == \E txs \in GetPendingOrdered(MaxBlockTxs) : ExecuteBlock(txs)

(* remove_committed, with the hash of block::Transaction. *)
PruneMempool ==
    /\ up /\ ~ Idle /\ committing[1] = "executed"
    /\ RemoveCommitted({TransactionHash(tx) : tx \in Range(committing[2])})
    /\ committing' = <<"pruned", committing[2]>>
    /\ UNCHANGED <<accounts, up, proposed, height, confirmed, disk>>

(* The rest of apply_commit, and advance_height. *)
FinishCommit ==
    /\ up /\ ~ Idle /\ committing[1] = "pruned"
    /\ committing' = <<>>
    /\ height' = height + 1
    /\ proposed' = {}
    /\ UNCHANGED <<accounts, poolVars, up, confirmed, disk>>

(* ctrl_c drops the event loop at an await, never inside apply_commit, and the
   accounts are written out.  The process may die while it writes.           *)
Shutdown ==
    /\ up /\ Idle
    /\ disk' \in {SaveToFile, NoFile}
    /\ up' = FALSE
    /\ UNCHANGED <<accounts, poolVars, proposed, committing, height, confirmed>>

(* The process dies at any point: nothing is written. *)
Crash ==
    /\ up
    /\ up' = FALSE
    /\ UNCHANGED <<accounts, poolVars, proposed, committing, height, confirmed, disk>>

(* Startup: the accounts come from state.json or, if there is none or it does
   not parse, from genesis.  Mempool and consensus start from nothing.       *)
Boot ==
    /\ ~ up
    /\ accounts' = LoadFromFile(disk).accts
    /\ confirmed' = LoadFromFile(disk).confirmed
    /\ Clear
    /\ up' = TRUE
    /\ proposed' = {} /\ committing' = <<>> /\ height' = 0
    /\ UNCHANGED disk

Next ==
    \/ \E tx \in Txs : Submit(tx)
    \/ ProposeBlock
    \/ \E txs \in PeerBlocks : CachePeerBlock(txs)
    \/ CommitCached
    \/ CommitUncached
    \/ PruneMempool
    \/ FinishCommit
    \/ Shutdown
    \/ Crash
    \/ Boot

Spec == Init /\ [][Next]_vars

-----------------------------------------------------------------------------
(* The accounts are those of known keys and every balance fits its u64: no debit
   goes below zero.                                                          *)
TypeOK ==
    /\ DOMAIN accounts \subseteq Accounts
    /\ \A a \in DOMAIN accounts : /\ accounts[a].balance \in 0 .. MaxU64
                                   /\ accounts[a].nonce \in Nat

(* Money is neither made nor lost: through transfers to oneself, to new
   accounts, failing transactions, blocks executed twice and restarts the
   balances add up to the genesis supply, provided that fits a u64.          *)
SupplyConserved ==
    GenesisSupply <= MaxU64 => TotalSupply(accounts) = GenesisSupply

(* No replay: a transaction succeeds at most once in the history the accounts
   come from, although committed transactions are proposed again, peers'
   blocks repeat them, and a restarted node re-runs from height 0.           *)
NoReplay == \A tx \in Txs : confirmed[tx] <= 1

(* docs/rpc-reference.md: an account's nonce is the number of its confirmed
   transactions, with the successes numbered 0, 1, 2, ... without a gap.     *)
NonceCountsConfirmed ==
    \A a \in DOMAIN accounts :
        LET done == {tx \in Txs : tx.from = a /\ confirmed[tx] > 0} IN
        GenesisSupply <= MaxU64 =>
            /\ accounts[a].nonce = Cardinality(done)
            /\ {tx.nonce : tx \in done} = 0 .. accounts[a].nonce - 1

-----------------------------------------------------------------------------
(* main.rs, apply_commit: "Remove committed transactions from mempool". *)
CommittedLeaveMempool ==
    [][PruneMempool => Range(committing[2]) \cap PendingTxs' = {}]_vars

=============================================================================
