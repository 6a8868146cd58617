-------------------------------- MODULE Ledger --------------------------------
(***************************************************************************)
(* StateDB of runtime/state/src/state_db.rs: the accounts and what         *)
(* executing a transaction or a block does to them.  A block is applied    *)
(* under the write lock of the database, in one step.                      *)
(***************************************************************************)
EXTENDS Integers, SequencesExt, FiniteSetsExt, Functions

CONSTANTS
    Accounts,         \* public keys
    MaxU64,           \* u64::MAX
    GenesisAccounts   \* the genesis accounts: key |-> balance

ASSUME AccountsAssumption == IsFiniteSet(Accounts) /\ MaxU64 \in Nat

ASSUME GenesisAssumption ==
    /\ DOMAIN GenesisAccounts \subseteq Accounts
    /\ \A a \in DOMAIN GenesisAccounts : GenesisAccounts[a] \in 0 .. MaxU64

VARIABLE accounts     \* accounts: key |-> [balance, nonce], for existing accounts

(* AccountState *)
NewAccount(balance)   == [balance |-> balance, nonce |-> 0]
Debit(acct, amount)   == [acct EXCEPT !.balance = @ - amount]
CanCredit(acct, amount) == acct.balance + amount <= MaxU64
Credit(acct, amount)  == [acct EXCEPT !.balance = @ + amount]
IncrementNonce(acct)  == [acct EXCEPT !.nonce = @ + 1]

(* set_account for every genesis account. *)
GenesisState == [a \in DOMAIN GenesisAccounts |-> NewAccount(GenesisAccounts[a])]

(* total_supply, over an account map. *)
TotalSupply(accts) ==
    SumFunction([a \in DOMAIN accts |-> accts[a].balance])

GenesisSupply == TotalSupply(GenesisState)

(* get_or_create_account *)
GetOrCreate(accts, a) ==
    [b \in DOMAIN accts \cup {a} |->
        IF b \in DOMAIN accts THEN accts[b] ELSE NewAccount(0)]

(* Mutant of Transfer: a transfer to oneself does not use up the nonce. *)
TransferSelfFree(accts, tx) ==
    IF tx.from = tx.to
    THEN [accts |-> accts, ok |-> TRUE]
    ELSE LET debited == [accts EXCEPT ![tx.from] = IncrementNonce(Debit(@, tx.amount))]
             both    == GetOrCreate(debited, tx.to)
         IN  [accts |-> [both EXCEPT ![tx.to] = Credit(@, tx.amount)], ok |-> TRUE]

(* Mutant of Transfer: the receiver is credited on the balance read before the
   debit, which for a transfer to oneself makes money.                       *)
TransferStale(accts, tx) ==
    LET before == GetOrCreate(accts, tx.to)
    IN  [accts |-> [before EXCEPT ![tx.from] = IncrementNonce(Debit(@, tx.amount)),
                                  ![tx.to].balance = before[tx.to].balance + tx.amount],
         ok |-> TRUE]

(* apply_transfer after its checks: a transfer to oneself only uses up the
   nonce.  The debit stays when the credit overflows.                        *)
Transfer(accts, tx) ==
    IF tx.from = tx.to
    THEN [accts |-> [accts EXCEPT ![tx.from] = IncrementNonce(@)], ok |-> TRUE]
    ELSE LET debited == [accts EXCEPT ![tx.from] = IncrementNonce(Debit(@, tx.amount))]
             both    == GetOrCreate(debited, tx.to)
         IN  IF CanCredit(both[tx.to], tx.amount)
             THEN [accts |-> [both EXCEPT ![tx.to] = Credit(@, tx.amount)], ok |-> TRUE]
             ELSE [accts |-> both, ok |-> FALSE]

(* Mutant of Executable: the nonce may be any that is not in the future. *)
ExecutableOldNonce(accts, tx) ==
    /\ tx.from \in DOMAIN accts
    /\ accts[tx.from].nonce >= tx.nonce
    /\ accts[tx.from].balance >= tx.amount

(* Mutant of Executable: the balance is not checked. *)
ExecutableOverdrawn(accts, tx) ==
    /\ tx.from \in DOMAIN accts
    /\ accts[tx.from].nonce = tx.nonce

(* The checks of apply_transfer: AccountNotFound, InvalidNonce and
   InsufficientBalance leave the accounts alone.                             *)
Executable(accts, tx) ==
    /\ tx.from \in DOMAIN accts
    /\ accts[tx.from].nonce = tx.nonce
    /\ accts[tx.from].balance >= tx.amount

ApplyTransfer(accts, tx) ==
    IF Executable(accts, tx) THEN Transfer(accts, tx) ELSE [accts |-> accts, ok |-> FALSE]

(* apply_block: every transaction in order, one receipt each. *)
ApplyBlock(accts, txs) ==
    LET after[i \in 0 .. Len(txs)] ==
            IF i = 0 THEN [accts |-> accts, receipts |-> <<>>]
            ELSE LET before == after[i - 1]
                     r      == ApplyTransfer(before.accts, txs[i])
                 IN  [accts |-> r.accts, receipts |-> Append(before.receipts, r.ok)]
    IN  after[Len(txs)]

=============================================================================
