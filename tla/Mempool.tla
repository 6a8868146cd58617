------------------------------- MODULE Mempool -------------------------------
(***************************************************************************)
(* TransactionPool of mempool/src/pool.rs.  The pool sits behind one       *)
(* parking_lot::RwLock, so each method is one step.                        *)
(*                                                                         *)
(* A transaction is a record with the fields of block::Transaction, its    *)
(* signature standing for the key that made it (NoSigner if it is empty).  *)
(***************************************************************************)
EXTENDS Lists, SequencesExt, FiniteSetsExt

CONSTANTS
    Txs,              \* the transactions clients make: [from, to, amount, nonce, signer]
    MaxSize,          \* MempoolConfig::max_size
    MaxTxPerAccount   \* MempoolConfig::max_tx_per_account

ASSUME LimitsAssumption == MaxSize \in Nat /\ MaxTxPerAccount \in Nat

VARIABLES
    bySender,     \* by_sender: sender |-> sequence of [tx, addedAt]
    knownHashes,  \* known_hashes
    totalCount    \* total_count

poolVars == <<bySender, knownHashes, totalCount>>

Senders == {tx.from : tx \in Txs}

ZeroAddress == "zero"
NoSigner    == "nobody"

(* validate_transaction and verify_signature *)
ValidateTransaction(tx) == tx.from # ZeroAddress /\ tx.signer # NoSigner
VerifySignature(tx)     == tx.signer = tx.from

(* compute_tx_hash: SHA-256 over the JSON encoding. *)
ComputeTxHash(tx) == <<"json", tx>>

(* block::Transaction::hash: SHA-256 over the bincode encoding. *)
TransactionHash(tx) == <<"bincode", tx>>

PendingOf(s) == Range(bySender[s])
Pending      == UNION {PendingOf(s) : s \in Senders}
PendingTxs   == {p.tx : p \in Pending}

Size(queues) == SumFunction([s \in Senders |-> Len(queues[s])])

(* PendingTransaction::fee_priority is the amount. *)
Precedes(p, q) ==
    \/ p.tx.amount > q.tx.amount
    \/ p.tx.amount = q.tx.amount /\ p.addedAt < q.addedAt

(* get_pending_ordered: highest amount first, then oldest; what still ties is in
   the iteration order of a HashMap, except that the sort is stable within one
   sender.                                                                   *)
PendingOrders ==
    {s \in SetToSeqs(Pending) :
        \A i, j \in DOMAIN s : i < j =>
            /\ ~ Precedes(s[j], s[i])
            /\ (s[i].tx.from = s[j].tx.from /\ ~ Precedes(s[i], s[j])) =>
                  \E k, l \in DOMAIN bySender[s[i].tx.from] :
                      /\ k < l
                      /\ bySender[s[i].tx.from][k] = s[i]
                      /\ bySender[s[i].tx.from][l] = s[j]}

GetPendingOrdered(max) ==
    {[i \in 1 .. Min({max, Len(s)}) |-> s[i].tx] : s \in PendingOrders}

-----------------------------------------------------------------------------
PoolInit ==
    /\ bySender = [s \in Senders |-> <<>>]
    /\ knownHashes = {}
    /\ totalCount = 0

(* Mutant of AddTransaction: known_hashes is not consulted. *)
AddTransactionTwice(tx) ==
    /\ ValidateTransaction(tx) /\ VerifySignature(tx)
    /\ totalCount < MaxSize
    /\ Len(bySender[tx.from]) < MaxTxPerAccount
    /\ bySender' = [bySender EXCEPT ![tx.from] =
                       Append(@, [tx |-> tx, addedAt |-> totalCount])]
    /\ knownHashes' = knownHashes \cup {ComputeTxHash(tx)}
    /\ totalCount' = totalCount + 1

(* add_transaction, when it returns Ok. *)
AddTransaction(tx) ==
    /\ ValidateTransaction(tx) /\ VerifySignature(tx)
    /\ totalCount < MaxSize
    /\ ComputeTxHash(tx) \notin knownHashes
    /\ Len(bySender[tx.from]) < MaxTxPerAccount
    /\ bySender' = [bySender EXCEPT ![tx.from] =
                       Append(@, [tx |-> tx, addedAt |-> totalCount])]
    /\ knownHashes' = knownHashes \cup {ComputeTxHash(tx)}
    /\ totalCount' = totalCount + 1

(* remove_committed: drop what hashes to a member of the argument. *)
RemoveCommitted(hashes) ==
    LET others == {p \in Pending : ComputeTxHash(p.tx) \notin hashes}
        kept   == [s \in Senders |-> Retain(bySender[s], others)]
    IN
    /\ bySender' = kept
    /\ totalCount' = totalCount - (Size(bySender) - Size(kept))
    /\ knownHashes' = knownHashes \ hashes

Clear ==
    /\ bySender' = [s \in Senders |-> <<>>]
    /\ knownHashes' = {}
    /\ totalCount' = 0

-----------------------------------------------------------------------------
(* The three fields tell one story: the count is what is pending, every pending
   transaction and no other is known for deduplication, none is pending twice,
   and neither limit of MempoolConfig is passed, although remove_committed is
   called with hashes the pool does not know.                                *)
PoolConsistent ==
    /\ totalCount = Size(bySender)
    /\ knownHashes = {ComputeTxHash(p.tx) : p \in Pending}
    /\ Cardinality(PendingTxs) = totalCount
    /\ totalCount <= MaxSize
    /\ \A s \in Senders : Len(bySender[s]) <= MaxTxPerAccount

=============================================================================
