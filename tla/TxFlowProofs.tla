----------------------------- MODULE TxFlowProofs -----------------------------
(***************************************************************************)
(* The ledger and the mempool for every set of accounts, transactions and  *)
(* blocks and every limit.  Sound says what the accounts owe to the        *)
(* history of confirmed transactions; each transfer keeps it, therefore a  *)
(* block does, however long, and therefore every run of the process does,  *)
(* since the saved file holds a sound ledger as well.                      *)
(***************************************************************************)
EXTENDS TxFlow, DataTheorems

Account == [balance : 0 .. MaxU64, nonce : Nat]

Balances(accts) == [a \in DOMAIN accts |-> accts[a].balance]

Done(conf, a) == {tx \in Txs : tx.from = a /\ conf[tx] > 0}

(* The confirmed transactions of a carry the nonces below its own, each once. *)
Numbered(accts, conf, a) ==
    /\ IsFiniteSet(Done(conf, a))
    /\ accts[a].nonce = Cardinality(Done(conf, a))
    /\ {tx.nonce : tx \in Done(conf, a)} = 0 .. accts[a].nonce - 1

LedgerTyped(accts) == DOMAIN accts \subseteq Accounts /\ accts \in [DOMAIN accts -> Account]

(* A confirmed transaction's nonce is used up. *)
UsedUp(accts, conf) ==
    \A tx \in Txs : conf[tx] > 0 =>
        tx.from \in DOMAIN accts /\ tx.nonce < accts[tx.from].nonce

Sound(accts, conf) ==
    /\ LedgerTyped(accts)
    /\ conf \in [Txs -> 0 .. 1]
    /\ UsedUp(accts, conf)
    /\ GenesisSupply <= MaxU64 =>
          /\ TotalSupply(accts) = GenesisSupply
          /\ \A a \in DOMAIN accts : Numbered(accts, conf, a)

Confirm(conf, tx, ok) == IF ok THEN [conf EXCEPT ![tx] = @ + 1] ELSE conf

-----------------------------------------------------------------------------
LEMMA SupplyIsSum ==
    ASSUME NEW accts
    PROVE  TotalSupply(accts) = SumFunctionOnSet(Balances(accts), DOMAIN accts)
BY DEF TotalSupply, SumFunction, FoldFunction, SumFunctionOnSet, Balances

LEMMA SupplyFacts ==
    ASSUME NEW accts, LedgerTyped(accts)
    PROVE  /\ IsFiniteSet(DOMAIN accts)
           /\ \A a \in DOMAIN accts : Balances(accts)[a] \in Nat /\ Balances(accts)[a] = accts[a].balance
           /\ TotalSupply(accts) \in Nat
<1>1. IsFiniteSet(DOMAIN accts)
  BY AccountsAssumption, FS_Subset DEF LedgerTyped
<1>2. \A a \in DOMAIN accts : Balances(accts)[a] \in Nat /\ Balances(accts)[a] = accts[a].balance
  BY AccountsAssumption DEF LedgerTyped, Account, Balances
<1>3. SumFunctionOnSet(Balances(accts), DOMAIN accts) \in Nat
  BY <1>1, <1>2, SumNat
<1> QED BY <1>1, <1>2, <1>3, SupplyIsSum

(* get_or_create_account changes no balance and no supply. *)
LEMMA GetOrCreateFacts ==
    ASSUME NEW accts, LedgerTyped(accts), NEW a \in Accounts
    PROVE  LET both == GetOrCreate(accts, a) IN
           /\ LedgerTyped(both) /\ DOMAIN both = DOMAIN accts \cup {a}
           /\ \A b \in DOMAIN accts : both[b] = accts[b]
           /\ a \notin DOMAIN accts => both[a] = [balance |-> 0, nonce |-> 0]
           /\ TotalSupply(both) = TotalSupply(accts)
<1> DEFINE both == GetOrCreate(accts, a)
<1>1. /\ DOMAIN both = DOMAIN accts \cup {a}
      /\ \A b \in DOMAIN accts : both[b] = accts[b]
      /\ a \notin DOMAIN accts => both[a] = [balance |-> 0, nonce |-> 0]
  BY DEF GetOrCreate, NewAccount
<1>2. LedgerTyped(both)
  <2>1. [balance |-> 0, nonce |-> 0] \in Account
    BY AccountsAssumption DEF Account
  <2> QED BY <2>1 DEF GetOrCreate, NewAccount, LedgerTyped
<1> HIDE DEF both
<1>3. TotalSupply(both) = TotalSupply(accts)
  <2>1. CASE a \in DOMAIN accts
    <3>1. DOMAIN both = DOMAIN accts
      BY <1>1, <2>1
    <3>2. Balances(both) = Balances(accts)
      BY <1>1, <3>1 DEF Balances
    <3> QED BY <3>1, <3>2, SupplyIsSum
  <2>2. CASE a \notin DOMAIN accts
    <3>1. /\ \A b \in DOMAIN accts : Balances(accts)[b] \in Int /\ Balances(accts)[b] = Balances(both)[b]
          /\ \A b \in DOMAIN accts \cup {a} : Balances(both)[b] \in Int
          /\ Balances(both)[a] = 0
      BY <1>1, <1>2, <2>2, AccountsAssumption DEF LedgerTyped, Account, Balances
    <3>2. IsFiniteSet(DOMAIN accts)
      BY SupplyFacts
    <3>3. SumFunctionOnSet(Balances(both), DOMAIN accts \cup {a})
            = Balances(both)[a] + SumFunctionOnSet(Balances(both), DOMAIN accts)
      BY <2>2, <3>1, <3>2, SumAdd
    <3>4. SumFunctionOnSet(Balances(accts), DOMAIN accts) = SumFunctionOnSet(Balances(both), DOMAIN accts)
      BY <3>1, <3>2, SumSame
    <3>5. TotalSupply(accts) \in Nat
      BY SupplyFacts
    <3> QED BY <1>1, <3>1, <3>3, <3>4, <3>5, SupplyIsSum
  <2> QED BY <2>1, <2>2
<1> QED BY <1>1, <1>2, <1>3 DEF both

(* The balance of one account is set. *)
LEMMA BalanceSet ==
    ASSUME NEW accts, LedgerTyped(accts), NEW next, LedgerTyped(next),
           DOMAIN next = DOMAIN accts, NEW a \in DOMAIN accts,
           \A b \in DOMAIN accts \ {a} : next[b].balance = accts[b].balance
    PROVE  TotalSupply(next) = TotalSupply(accts) - accts[a].balance + next[a].balance
<1>1. /\ IsFiniteSet(DOMAIN accts)
      /\ \A b \in DOMAIN accts : Balances(accts)[b] \in Int /\ Balances(next)[b] \in Int
      /\ \A b \in DOMAIN accts : Balances(accts)[b] = accts[b].balance /\ Balances(next)[b] = next[b].balance
  BY SupplyFacts
<1>2. \A b \in DOMAIN accts \ {a} : Balances(next)[b] = Balances(accts)[b]
  BY <1>1
<1>3. SumFunctionOnSet(Balances(next), DOMAIN accts)
        = SumFunctionOnSet(Balances(accts), DOMAIN accts) - Balances(accts)[a] + Balances(next)[a]
  BY <1>1, <1>2, SumChange
<1> QED BY <1>1, <1>3, SupplyIsSum

-----------------------------------------------------------------------------
(* What a transfer that passed its checks does to the accounts: it uses up the
   sender's nonce, keeps the other nonces, and moves the amount, unless the
   receiver's balance would overflow.                                        *)
LEMMA TransferFacts ==
    ASSUME NEW accts, LedgerTyped(accts), NEW tx \in Txs, Executable(accts, tx)
    PROVE  LET r == Transfer(accts, tx) IN
           /\ r.ok \in BOOLEAN /\ LedgerTyped(r.accts)
           /\ DOMAIN r.accts = DOMAIN accts \cup {tx.to}
           /\ r.accts[tx.from].nonce = accts[tx.from].nonce + 1
           /\ \A a \in DOMAIN accts \ {tx.from} : r.accts[a].nonce = accts[a].nonce
           /\ tx.to \notin DOMAIN accts => r.accts[tx.to].nonce = 0
           /\ r.ok => TotalSupply(r.accts) = TotalSupply(accts)
           /\ TotalSupply(accts) <= MaxU64 => r.ok
<1> DEFINE r == Transfer(accts, tx)
           f == tx.from
           t == tx.to
<1>1. /\ f \in DOMAIN accts /\ f \in Accounts /\ t \in Accounts /\ tx.amount \in Nat
      /\ accts[f] \in Account /\ accts[f].balance >= tx.amount /\ accts[f].nonce = tx.nonce
      /\ MaxU64 \in Nat
  BY TxsAssumption, AccountsAssumption DEF Executable, LedgerTyped
<1>2. CASE f = t
  <2> DEFINE next == [accts EXCEPT ![f] = IncrementNonce(@)]
  <2>1. r.accts = next /\ r.ok = TRUE
    BY <1>2 DEF Transfer
  <2>2. IncrementNonce(accts[f]) = [balance |-> accts[f].balance, nonce |-> accts[f].nonce + 1]
    BY <1>1 DEF IncrementNonce, Account
  <2>3. IncrementNonce(accts[f]) \in Account
    BY <1>1, <2>2 DEF Account
  <2>4. /\ DOMAIN next = DOMAIN accts /\ next[f] = IncrementNonce(accts[f])
        /\ \A a \in DOMAIN accts \ {f} : next[a] = accts[a]
        /\ LedgerTyped(next)
    BY <1>1, <2>3 DEF LedgerTyped
  <2>5. Balances(next) = Balances(accts)
    BY <2>2, <2>4 DEF Balances
  <2>6. TotalSupply(next) = TotalSupply(accts)
    BY <2>4, <2>5, SupplyIsSum
  <2>7. DOMAIN next = DOMAIN accts \cup {t} /\ next[f].nonce = accts[f].nonce + 1
    BY <1>1, <1>2, <2>2, <2>4
  <2> HIDE DEF next, r
  <2> QED BY <1>1, <1>2, <2>1, <2>4, <2>6, <2>7 DEF r
<1>3. CASE f # t
  <2> DEFINE debited == [accts EXCEPT ![f] = IncrementNonce(Debit(@, tx.amount))]
             both    == GetOrCreate(debited, t)
             paid    == [both EXCEPT ![t] = Credit(@, tx.amount)]
             fits    == CanCredit(both[t], tx.amount)
  <2>1. r = IF fits THEN [accts |-> paid, ok |-> TRUE] ELSE [accts |-> both, ok |-> FALSE]
    BY <1>3 DEF Transfer
  <2>2. IncrementNonce(Debit(accts[f], tx.amount))
          = [balance |-> accts[f].balance - tx.amount, nonce |-> accts[f].nonce + 1]
    <3>1. accts[f] = [balance |-> accts[f].balance, nonce |-> accts[f].nonce]
      BY <1>1 DEF Account
    <3>2. Debit(accts[f], tx.amount)
            = [balance |-> accts[f].balance - tx.amount, nonce |-> accts[f].nonce]
      BY <3>1 DEF Debit
    <3> QED BY <3>2 DEF IncrementNonce
  <2>3. [balance |-> accts[f].balance - tx.amount, nonce |-> accts[f].nonce + 1] \in Account
    BY <1>1 DEF Account
  <2>4. /\ DOMAIN debited = DOMAIN accts /\ LedgerTyped(debited)
        /\ debited[f] = [balance |-> accts[f].balance - tx.amount, nonce |-> accts[f].nonce + 1]
        /\ \A a \in DOMAIN accts \ {f} : debited[a] = accts[a]
    BY <1>1, <2>2, <2>3 DEF LedgerTyped
  <2> HIDE DEF debited
  <2>5. /\ LedgerTyped(both) /\ DOMAIN both = DOMAIN accts \cup {t}
        /\ \A b \in DOMAIN accts : both[b] = debited[b]
        /\ t \notin DOMAIN accts => both[t] = [balance |-> 0, nonce |-> 0]
        /\ TotalSupply(both) = TotalSupply(debited)
    <3>1. /\ LedgerTyped(both) /\ DOMAIN both = DOMAIN debited \cup {t}
          /\ \A b \in DOMAIN debited : both[b] = debited[b]
          /\ t \notin DOMAIN debited => both[t] = [balance |-> 0, nonce |-> 0]
          /\ TotalSupply(both) = TotalSupply(debited)
      BY <1>1, <2>4, GetOrCreateFacts
    <3> QED BY <2>4, <3>1
  <2> HIDE DEF both
  <2>6. both[t] \in Account /\ t \in DOMAIN both
    BY <2>5 DEF LedgerTyped
  <2>7. TotalSupply(debited) = TotalSupply(accts) - tx.amount
    <3>1. TotalSupply(debited) = TotalSupply(accts) - accts[f].balance + debited[f].balance
      <4>1. \A b \in DOMAIN accts \ {f} : debited[b].balance = accts[b].balance
        BY <2>4
      <4> QED BY <1>1, <2>4, <4>1, BalanceSet
    <3>2. TotalSupply(accts) \in Nat /\ accts[f].balance \in Nat
      BY <1>1, SupplyFacts DEF Account
    <3> QED BY <1>1, <2>4, <3>1, <3>2
  <2>8. CASE fits
    <3>1. /\ Credit(both[t], tx.amount) = [balance |-> both[t].balance + tx.amount, nonce |-> both[t].nonce]
          /\ Credit(both[t], tx.amount) \in Account
      BY <1>1, <2>6, <2>8 DEF Credit, CanCredit, Account
    <3>2. /\ DOMAIN paid = DOMAIN both /\ LedgerTyped(paid)
          /\ paid[t] = Credit(both[t], tx.amount)
          /\ \A a \in DOMAIN both \ {t} : paid[a] = both[a]
      BY <2>5, <2>6, <3>1 DEF LedgerTyped
    <3> HIDE DEF paid
    <3>3. TotalSupply(paid) = TotalSupply(both) - both[t].balance + paid[t].balance
      <4>1. \A b \in DOMAIN both \ {t} : paid[b].balance = both[b].balance
        BY <3>2
      <4> QED BY <2>5, <2>6, <3>2, <4>1, BalanceSet
    <3>4. TotalSupply(both) \in Nat /\ both[t].balance \in Nat /\ TotalSupply(accts) \in Nat
      BY <2>5, <2>6, SupplyFacts DEF Account
    <3>5. TotalSupply(paid) = TotalSupply(accts)
      BY <1>1, <2>5, <2>7, <3>1, <3>2, <3>3, <3>4
    <3>6. r.accts = paid /\ r.ok = TRUE
      BY <2>1, <2>8
    <3>7. paid[f].nonce = accts[f].nonce + 1
      BY <1>1, <1>3, <2>4, <2>5, <3>2
    <3>8. \A a \in DOMAIN accts \ {f} : paid[a].nonce = accts[a].nonce
      BY <2>4, <2>5, <3>1, <3>2
    <3>9. t \notin DOMAIN accts => paid[t].nonce = 0
      BY <2>5, <3>1, <3>2
    <3> HIDE DEF r
    <3> QED BY <2>5, <3>2, <3>5, <3>6, <3>7, <3>8, <3>9 DEF r
  <2>9. CASE ~ fits
    <3>1. r.accts = both /\ r.ok = FALSE
      BY <2>1, <2>9
    <3>2. both[f].nonce = accts[f].nonce + 1
      BY <1>1, <2>4, <2>5
    <3>3. /\ \A a \in DOMAIN accts \ {f} : both[a].nonce = accts[a].nonce
          /\ t \notin DOMAIN accts => both[t].nonce = 0
      BY <2>4, <2>5
    <3>4. ASSUME TotalSupply(accts) <= MaxU64 PROVE FALSE
      <4>1. both[f].balance = accts[f].balance - tx.amount /\ f \in DOMAIN both
        BY <1>1, <2>4, <2>5
      <4>2. /\ IsFiniteSet(DOMAIN both)
            /\ \A a \in DOMAIN both : Balances(both)[a] \in Nat /\ Balances(both)[a] = both[a].balance
        BY <2>5, SupplyFacts
      <4>3. both[t].balance <= TotalSupply(both)
        BY <2>6, <4>2, SumBoundsTerm, SupplyIsSum
      <4>4. both[t].balance \in Nat /\ TotalSupply(both) \in Nat /\ TotalSupply(accts) \in Nat
        BY <2>5, <2>6, <4>2, SupplyFacts
      <4>5. both[t].balance + tx.amount <= MaxU64
        BY <1>1, <2>5, <2>7, <3>4, <4>3, <4>4
      <4> QED BY <2>9, <4>5 DEF CanCredit
    <3> HIDE DEF r
    <3> QED BY <2>5, <3>1, <3>2, <3>3, <3>4 DEF r
  <2> QED BY <2>8, <2>9
<1> QED BY <1>2, <1>3

(* A receipt goes with exactly one use of a nonce. *)
LEMMA NumberedStep ==
    ASSUME NEW accts, NEW conf, Sound(accts, conf), GenesisSupply <= MaxU64,
           NEW tx \in Txs, tx.from \in DOMAIN accts, accts[tx.from].nonce = tx.nonce,
           NEW next, next[tx.from].nonce = accts[tx.from].nonce + 1
    PROVE  Numbered(next, Confirm(conf, tx, TRUE), tx.from)
<1> DEFINE a     == tx.from
           n     == accts[a].nonce
           done  == Done(conf, a)
           conf2 == Confirm(conf, tx, TRUE)
<1>1. /\ IsFiniteSet(done) /\ n = Cardinality(done)
      /\ {x.nonce : x \in done} = 0 .. n - 1
      /\ n \in Nat /\ n = tx.nonce /\ conf \in [Txs -> 0 .. 1]
  BY DEF Sound, Numbered, LedgerTyped, Account
<1>2. Done(conf2, a) = done \cup {tx}
  BY <1>1 DEF Done, Confirm
<1> HIDE DEF done, conf2, n
<1>3. tx \notin done
  <2>1. n \notin 0 .. n - 1
    BY <1>1
  <2> QED BY <1>1, <2>1
<1>4. IsFiniteSet(done \cup {tx}) /\ Cardinality(done \cup {tx}) = n + 1
  BY <1>1, <1>3, FS_AddElement
<1>5. {x.nonce : x \in done \cup {tx}} = {x.nonce : x \in done} \cup {tx.nonce}
  OBVIOUS
<1>6. {x.nonce : x \in done \cup {tx}} = 0 .. (n + 1) - 1
  <2>1. (0 .. n - 1) \cup {n} = 0 .. (n + 1) - 1
    BY <1>1
  <2> QED BY <1>1, <1>5, <2>1
<1>7. next[a].nonce = n + 1
  BY DEF n
<1> QED BY <1>2, <1>4, <1>6, <1>7 DEF Numbered, conf2

(* apply_transfer keeps the ledger sound, successful or not. *)
LEMMA TransferSound ==
    ASSUME NEW accts, NEW conf, Sound(accts, conf), NEW tx \in Txs
    PROVE  LET r == ApplyTransfer(accts, tx) IN
           r.ok \in BOOLEAN /\ Sound(r.accts, Confirm(conf, tx, r.ok))
<1> DEFINE r == ApplyTransfer(accts, tx)
           next == r.accts
           conf2 == Confirm(conf, tx, r.ok)
<1>1. CASE ~ Executable(accts, tx)
  BY <1>1 DEF ApplyTransfer, Confirm
<1>2. CASE Executable(accts, tx)
  <2>1. /\ tx.from \in DOMAIN accts /\ accts[tx.from].nonce = tx.nonce /\ LedgerTyped(accts)
        /\ conf \in [Txs -> 0 .. 1] /\ UsedUp(accts, conf)
    BY <1>2 DEF Executable, Sound
  <2>2. /\ r.ok \in BOOLEAN /\ LedgerTyped(next)
        /\ DOMAIN next = DOMAIN accts \cup {tx.to}
        /\ next[tx.from].nonce = accts[tx.from].nonce + 1
        /\ \A a \in DOMAIN accts \ {tx.from} : next[a].nonce = accts[a].nonce
        /\ tx.to \notin DOMAIN accts => next[tx.to].nonce = 0
        /\ r.ok => TotalSupply(next) = TotalSupply(accts)
        /\ TotalSupply(accts) <= MaxU64 => r.ok
    BY <1>2, <2>1, TransferFacts DEF ApplyTransfer
  <2> HIDE DEF r
  <2>3. \A a \in DOMAIN accts : accts[a].nonce \in Nat
    BY <2>1 DEF LedgerTyped, Account
  <2>4. conf[tx] = 0
    BY <2>1, <2>3 DEF UsedUp
  <2>5. conf2 \in [Txs -> 0 .. 1]
    BY <2>1, <2>2, <2>4 DEF Confirm
  <2>6. \A x \in Txs : conf2[x] > 0 => conf[x] > 0 \/ x = tx
    BY <2>1, <2>4 DEF Confirm
  <2>7. UsedUp(next, conf2)
    <3> SUFFICES ASSUME NEW x \in Txs, conf2[x] > 0
                 PROVE  x.from \in DOMAIN next /\ x.nonce < next[x.from].nonce
      BY DEF UsedUp
    <3> HIDE DEF next, conf2
    <3>1. x.nonce \in Nat
      BY TxsAssumption
    <3>2. x = tx \/ (x.from \in DOMAIN accts /\ x.nonce < accts[x.from].nonce)
      BY <2>1, <2>6 DEF UsedUp
    <3>3. x.from \in DOMAIN accts /\ x.nonce <= accts[x.from].nonce
      BY <2>1, <2>3, <3>1, <3>2
    <3>4. CASE x.from = tx.from
      BY <2>2, <2>3, <3>1, <3>3, <3>4
    <3>5. CASE x.from # tx.from
      BY <2>2, <3>2, <3>3, <3>5
    <3> QED BY <3>4, <3>5
  <2>8. ASSUME GenesisSupply <= MaxU64
        PROVE  /\ TotalSupply(next) = GenesisSupply
               /\ \A a \in DOMAIN next : Numbered(next, conf2, a)
    <3>1. TotalSupply(accts) = GenesisSupply /\ r.ok = TRUE
      BY <2>2, <2>8 DEF Sound
    <3>2. Numbered(next, conf2, tx.from)
      BY <2>1, <2>2, <2>8, <3>1, NumberedStep
    <3>3. ASSUME NEW a \in DOMAIN next \ {tx.from} PROVE Numbered(next, conf2, a)
      <4>1. Done(conf2, a) = Done(conf, a)
        BY <2>1, <3>1 DEF Done, Confirm
      <4>2. CASE a \in DOMAIN accts
        <5>1. Numbered(accts, conf, a) /\ next[a].nonce = accts[a].nonce
          BY <2>2, <2>8, <4>2 DEF Sound
        <5> QED BY <4>1, <5>1 DEF Numbered
      <4>3. CASE a \notin DOMAIN accts
        <5>1. a = tx.to /\ next[a].nonce = 0
          BY <2>2, <4>3
        <5>2. Done(conf, a) = {}
          BY <2>1, <4>3 DEF UsedUp, Done
        <5>3. 0 .. 0 - 1 = {}
          OBVIOUS
        <5> QED BY <4>1, <5>1, <5>2, <5>3, FS_EmptySet DEF Numbered
      <4> QED BY <4>2, <4>3
    <3> QED BY <2>2, <3>1, <3>2, <3>3
  <2> HIDE DEF next, conf2
  <2>9. Sound(next, conf2)
    BY <2>2, <2>5, <2>7, <2>8 DEF Sound
  <2> QED BY <2>2, <2>9 DEF r, next, conf2
<1> QED BY <1>1, <1>2

-----------------------------------------------------------------------------
(* apply_block, transaction by transaction: what the first i leave. *)
After(accts, txs, n, k) ==
    k = [i \in 0 .. n |->
            IF i = 0 THEN [accts |-> accts, receipts |-> <<>>]
            ELSE LET before == k[i - 1]
                     r      == ApplyTransfer(before.accts, txs[i])
                 IN  [accts |-> r.accts, receipts |-> Append(before.receipts, r.ok)]]

LEMMA AfterExists ==
    ASSUME NEW accts, NEW txs, NEW n \in Nat
    PROVE  \E k : After(accts, txs, n, k)
<1> DEFINE Step(st, i) == [accts |-> ApplyTransfer(st.accts, txs[i]).accts,
                           receipts |-> Append(st.receipts, ApplyTransfer(st.accts, txs[i]).ok)]
           first == [accts |-> accts, receipts |-> <<>>]
           Runs(m, k) == k = [i \in 0 .. m |-> IF i = 0 THEN first ELSE Step(k[i - 1], i)]
           N == {m \in Nat : \E k : Runs(m, k)}
<1>1. ASSUME NEW m, NEW k PROVE Runs(m, k) <=> After(accts, txs, m, k)
  BY DEF After
<1> HIDE DEF Step, first
<1>2. 0 \in N
  <2> DEFINE k == [i \in 0 .. 0 |-> first]
  <2>1. Runs(0, k)
    OBVIOUS
  <2> HIDE DEF k
  <2> QED BY <2>1
<1>3. ASSUME NEW m \in N PROVE m + 1 \in N
  <2> m \in Nat
    OBVIOUS
  <2>1. PICK k : Runs(m, k)
    OBVIOUS
  <2> DEFINE h == [i \in 0 .. m + 1 |-> IF i = 0 THEN first ELSE Step(k[i - 1], i)]
  <2>2. ASSUME NEW i \in 0 .. m PROVE h[i] = k[i]
    <3>1. i \in 0 .. m + 1
      OBVIOUS
    <3>2. k[i] = IF i = 0 THEN first ELSE Step(k[i - 1], i)
      BY <2>1
    <3> QED BY <3>1, <3>2
  <2>3. ASSUME NEW i \in 0 .. m + 1, i # 0 PROVE h[i - 1] = k[i - 1]
    <3>1. i - 1 \in 0 .. m
      BY <2>3
    <3> HIDE DEF h
    <3> QED BY <2>2, <3>1
  <2>4. Runs(m + 1, h)
    BY <2>3
  <2> HIDE DEF h
  <2> QED BY <2>4
<1>4. N = Nat
  <2> HIDE DEF N
  <2>1. N \in SUBSET Nat
    BY DEF N
  <2> QED BY <1>2, <1>3, <2>1, NatInductive
<1>5. \E k : Runs(n, k)
  BY <1>4
<1> HIDE DEF Runs
<1> QED BY <1>1, <1>5

LEMMA BlockSteps ==
    ASSUME NEW accts, NEW txs \in Seq(Txs)
    PROVE  \E k : /\ k[0] = [accts |-> accts, receipts |-> <<>>]
                  /\ \A i \in 1 .. Len(txs) :
                        LET r == ApplyTransfer(k[i - 1].accts, txs[i]) IN
                        k[i] = [accts |-> r.accts, receipts |-> Append(k[i - 1].receipts, r.ok)]
                  /\ ApplyBlock(accts, txs) = k[Len(txs)]
<1> DEFINE k == CHOOSE kk : After(accts, txs, Len(txs), kk)
<1>1. ApplyBlock(accts, txs) = k[Len(txs)]
  BY DEF ApplyBlock, After
<1>2. After(accts, txs, Len(txs), k)
  BY AfterExists
<1> HIDE DEF k
<1>3. k[0] = [accts |-> accts, receipts |-> <<>>]
  BY <1>2 DEF After
<1>4. ASSUME NEW i \in 1 .. Len(txs)
      PROVE  LET r == ApplyTransfer(k[i - 1].accts, txs[i]) IN
             k[i] = [accts |-> r.accts, receipts |-> Append(k[i - 1].receipts, r.ok)]
  <2>1. i \in 0 .. Len(txs) /\ i # 0
    OBVIOUS
  <2> QED BY <1>2, <2>1 DEF After
<1> QED BY <1>1, <1>3, <1>4

(* How often each transaction has succeeded among the first i of txs. *)
Successes(txs, rec, i, tx) == {j \in 1 .. i : txs[j] = tx /\ rec[j]}
Counted(conf, txs, rec, i) == [tx \in Txs |-> conf[tx] + Cardinality(Successes(txs, rec, i, tx))]

LEMMA CountedStep ==
    ASSUME NEW conf \in [Txs -> Int], NEW txs \in Seq(Txs), NEW i \in Nat, i + 1 <= Len(txs),
           NEW rec \in Seq(BOOLEAN), Len(rec) = i, NEW ok \in BOOLEAN
    PROVE  Counted(conf, txs, Append(rec, ok), i + 1)
             = Confirm(Counted(conf, txs, rec, i), txs[i + 1], ok)
<1> DEFINE rec2 == Append(rec, ok)
<1>1. /\ rec2[i + 1] = ok /\ \A j \in 1 .. i : rec2[j] = rec[j]
      /\ \A j \in 1 .. i : j \in 1 .. i + 1 /\ j # i + 1
      /\ \A j \in 1 .. i + 1 : j = i + 1 \/ j \in 1 .. i
      /\ i + 1 \in 1 .. i + 1 /\ txs[i + 1] \in Txs
  OBVIOUS
<1> HIDE DEF rec2
<1>2. ASSUME NEW tx \in Txs
      PROVE  LET old == Successes(txs, rec, i, tx) IN
             /\ IsFiniteSet(old) /\ Cardinality(old) \in Nat /\ i + 1 \notin old
             /\ Successes(txs, rec2, i + 1, tx) = IF tx = txs[i + 1] /\ ok THEN old \cup {i + 1} ELSE old
  <2>1. IsFiniteSet(1 .. i)
    BY FS_Interval
  <2>2. IsFiniteSet(Successes(txs, rec, i, tx))
    BY <2>1, FS_Subset DEF Successes
  <2>3. Cardinality(Successes(txs, rec, i, tx)) \in Nat
    BY <2>2, FS_CardinalityType
  <2>4. i + 1 \notin Successes(txs, rec, i, tx)
    BY DEF Successes
  <2>5. Successes(txs, rec2, i + 1, tx)
          = IF tx = txs[i + 1] /\ ok THEN Successes(txs, rec, i, tx) \cup {i + 1}
            ELSE Successes(txs, rec, i, tx)
    BY <1>1 DEF Successes
  <2> QED BY <2>2, <2>3, <2>4, <2>5
<1>3. ASSUME NEW tx \in Txs
      PROVE  Counted(conf, txs, rec2, i + 1)[tx]
               = IF tx = txs[i + 1] /\ ok THEN Counted(conf, txs, rec, i)[tx] + 1
                 ELSE Counted(conf, txs, rec, i)[tx]
  <2> DEFINE old == Successes(txs, rec, i, tx)
             new == Successes(txs, rec2, i + 1, tx)
  <2>1. /\ IsFiniteSet(old) /\ Cardinality(old) \in Nat /\ i + 1 \notin old
        /\ new = IF tx = txs[i + 1] /\ ok THEN old \cup {i + 1} ELSE old
    BY <1>2
  <2>2. /\ Counted(conf, txs, rec2, i + 1)[tx] = conf[tx] + Cardinality(new)
        /\ Counted(conf, txs, rec, i)[tx] = conf[tx] + Cardinality(old) /\ conf[tx] \in Int
    BY DEF Counted
  <2> HIDE DEF old, new
  <2>3. CASE tx = txs[i + 1] /\ ok
    <3>1. Cardinality(new) = Cardinality(old) + 1
      BY <2>1, <2>3, FS_AddElement
    <3> QED BY <2>1, <2>2, <2>3, <3>1
  <2>4. CASE ~ (tx = txs[i + 1] /\ ok)
    BY <2>1, <2>2, <2>4
  <2> QED BY <2>3, <2>4
<1>4. /\ DOMAIN Counted(conf, txs, rec, i) = Txs
      /\ Counted(conf, txs, rec2, i + 1) = [tx \in Txs |-> Counted(conf, txs, rec2, i + 1)[tx]]
      /\ Counted(conf, txs, rec, i) = [tx \in Txs |-> Counted(conf, txs, rec, i)[tx]]
  BY DEF Counted
<1>5. Counted(conf, txs, rec2, i + 1) = Confirm(Counted(conf, txs, rec, i), txs[i + 1], ok)
  <2> DEFINE c == Counted(conf, txs, rec, i)
             d == Counted(conf, txs, rec2, i + 1)
  <2>1. /\ c = [tx \in Txs |-> c[tx]] /\ d = [tx \in Txs |-> d[tx]]
        /\ \A tx \in Txs : d[tx] = IF tx = txs[i + 1] /\ ok THEN c[tx] + 1 ELSE c[tx]
    BY <1>3, <1>4
  <2> HIDE DEF c, d
  <2>2. d = Confirm(c, txs[i + 1], ok)
    <3>1. CASE ok
      <4>1. Confirm(c, txs[i + 1], ok) = [tx \in Txs |-> IF tx = txs[i + 1] THEN c[tx] + 1 ELSE c[tx]]
        BY <1>1, <2>1, <3>1 DEF Confirm
      <4>2. \A tx \in Txs : d[tx] = IF tx = txs[i + 1] THEN c[tx] + 1 ELSE c[tx]
        BY <2>1, <3>1
      <4> QED BY <2>1, <4>1, <4>2
    <3>2. CASE ~ ok
      <4>1. \A tx \in Txs : d[tx] = c[tx]
        BY <2>1, <3>2
      <4>2. d = c
        BY <2>1, <4>1
      <4> QED BY <3>2, <4>2 DEF Confirm
    <3> QED BY <3>1, <3>2
  <2> QED BY <2>2 DEF c, d
<1> QED BY <1>5 DEF rec2

(* A block of any length keeps the ledger sound, with one count per receipt. *)
LEMMA BlockSound ==
    ASSUME NEW accts, NEW conf, Sound(accts, conf), NEW txs \in Seq(Txs)
    PROVE  LET result == ApplyBlock(accts, txs) IN
           Sound(result.accts, [tx \in Txs |-> conf[tx] +
                   Cardinality({i \in DOMAIN txs : txs[i] = tx /\ result.receipts[i]})])
<1>1. PICK k : /\ k[0] = [accts |-> accts, receipts |-> <<>>]
               /\ \A i \in 1 .. Len(txs) :
                     LET r == ApplyTransfer(k[i - 1].accts, txs[i]) IN
                     k[i] = [accts |-> r.accts, receipts |-> Append(k[i - 1].receipts, r.ok)]
               /\ ApplyBlock(accts, txs) = k[Len(txs)]
  BY BlockSteps
<1> DEFINE Good(st, i) == /\ st.receipts \in Seq(BOOLEAN) /\ Len(st.receipts) = i
                          /\ Sound(st.accts, Counted(conf, txs, st.receipts, i))
           N == {i \in Nat : i <= Len(txs) => Good(k[i], i)}
<1>2. conf \in [Txs -> Int]
  BY DEF Sound
<1>3. 0 \in N
  <2>1. \A tx \in Txs : Successes(txs, <<>>, 0, tx) = {}
    BY DEF Successes
  <2>2. Counted(conf, txs, <<>>, 0) = conf
    <3>1. Cardinality({}) = 0
      BY FS_EmptySet
    <3>2. \A tx \in Txs : conf[tx] + Cardinality(Successes(txs, <<>>, 0, tx)) = conf[tx]
      <4> SUFFICES ASSUME NEW tx \in Txs
                   PROVE  conf[tx] + Cardinality(Successes(txs, <<>>, 0, tx)) = conf[tx]
        OBVIOUS
      <4>1. Cardinality(Successes(txs, <<>>, 0, tx)) = 0 /\ conf[tx] \in Int
        BY <1>2, <2>1, <3>1
      <4> QED BY <4>1
    <3>3. Counted(conf, txs, <<>>, 0) = [tx \in Txs |-> conf[tx]]
      BY <3>2 DEF Counted
    <3> QED BY <1>2, <3>3
  <2>3. k[0].receipts = <<>> /\ k[0].accts = accts
    BY <1>1
  <2>4. Good(k[0], 0)
    BY <2>2, <2>3
  <2> HIDE DEF Good
  <2> QED BY <2>4
<1>4. ASSUME NEW i \in N PROVE i + 1 \in N
  <2> SUFFICES ASSUME i + 1 <= Len(txs) PROVE Good(k[i + 1], i + 1)
    OBVIOUS
  <2> DEFINE st == k[i]
             tx == txs[i + 1]
             r  == ApplyTransfer(st.accts, tx)
  <2>1. i \in Nat /\ i + 1 \in 1 .. Len(txs) /\ tx \in Txs /\ Good(st, i)
    OBVIOUS
  <2>2. k[i + 1] = [accts |-> r.accts, receipts |-> Append(st.receipts, r.ok)]
    <3>1. (i + 1) - 1 = i
      BY <2>1
    <3> QED BY <1>1, <2>1, <3>1
  <2> HIDE DEF st, tx
  <2>3. /\ r.ok \in BOOLEAN
        /\ Sound(r.accts, Confirm(Counted(conf, txs, st.receipts, i), tx, r.ok))
    BY <2>1, TransferSound
  <2> HIDE DEF r
  <2>4. Counted(conf, txs, Append(st.receipts, r.ok), i + 1)
          = Confirm(Counted(conf, txs, st.receipts, i), tx, r.ok)
    BY <1>2, <2>1, <2>3, CountedStep DEF tx
  <2>5. Append(st.receipts, r.ok) \in Seq(BOOLEAN) /\ Len(Append(st.receipts, r.ok)) = i + 1
    BY <2>1, <2>3
  <2> QED BY <2>2, <2>3, <2>4, <2>5
<1>5. N = Nat
  <2> HIDE DEF N
  <2>1. N \in SUBSET Nat
    BY DEF N
  <2> QED BY <1>3, <1>4, <2>1, NatInductive
<1> DEFINE result == ApplyBlock(accts, txs)
<1>6. Len(txs) \in Nat /\ DOMAIN txs = 1 .. Len(txs)
  OBVIOUS
<1>7. Good(result, Len(txs))
  <2>1. Good(k[Len(txs)], Len(txs))
    BY <1>5, <1>6
  <2> HIDE DEF Good, result
  <2> QED BY <1>1, <2>1 DEF result
<1>8. Counted(conf, txs, result.receipts, Len(txs))
        = [tx \in Txs |-> conf[tx] +
             Cardinality({i \in DOMAIN txs : txs[i] = tx /\ result.receipts[i]})]
  BY <1>6 DEF Counted, Successes
<1> HIDE DEF result
<1>9. Sound(result.accts, [tx \in Txs |-> conf[tx] +
             Cardinality({i \in DOMAIN txs : txs[i] = tx /\ result.receipts[i]})])
  BY <1>7, <1>8
<1> QED BY <1>9 DEF result

-----------------------------------------------------------------------------
(* The mempool. *)
Entries == [tx : Txs, addedAt : Nat]

PoolInv ==
    /\ bySender \in [Senders -> Seq(Entries)]
    /\ IsFiniteSet(PendingTxs)
    /\ PoolConsistent

Lens(queues) == [s \in Senders |-> Len(queues[s])]

LEMMA SizeIsSum ==
    ASSUME NEW queues
    PROVE  Size(queues) = SumFunctionOnSet(Lens(queues), Senders)
BY DEF Size, SumFunction, FoldFunction, SumFunctionOnSet, Lens

LEMMA SendersFinite == IsFiniteSet(Senders)
<1>1. Senders \subseteq Accounts
  BY TxsAssumption DEF Senders
<1> QED BY <1>1, AccountsAssumption, FS_Subset

(* The pool is empty at the start and after a restart. *)
LEMMA PoolEmpty ==
    ASSUME NEW queues, queues = [s \in Senders |-> <<>>]
    PROVE  Size(queues) = 0
<1> DEFINE zero == Lens(queues)
<1>1. \A s \in Senders : zero[s] = 0
  BY DEF Lens
<1> HIDE DEF zero
<1>2. SumFunctionOnSet(zero, Senders) = 0
  BY <1>1, SendersFinite, SumZero
<1> QED BY <1>2, SizeIsSum DEF zero

LEMMA PoolCleared ==
    ASSUME Clear
    PROVE  PoolInv'
<1>1. bySender' = [s \in Senders |-> <<>>] /\ knownHashes' = {} /\ totalCount' = 0
  BY DEF Clear
<1>2. Size(bySender') = 0
  BY <1>1, PoolEmpty
<1>3. Pending' = {}
  BY <1>1 DEF Pending, PendingOf, Range
<1>4. PendingTxs' = {}
  BY <1>3 DEF PendingTxs
<1>5. Cardinality({}) = 0 /\ IsFiniteSet({})
  BY FS_EmptySet
<1>6. PoolConsistent'
  BY <1>1, <1>2, <1>3, <1>4, <1>5, LimitsAssumption DEF PoolConsistent
<1> QED BY <1>1, <1>4, <1>5, <1>6 DEF PoolInv

LEMMA PoolStarts == PoolInit => PoolInv
<1> SUFFICES ASSUME PoolInit PROVE PoolInv
  OBVIOUS
<1>1. bySender = [s \in Senders |-> <<>>] /\ knownHashes = {} /\ totalCount = 0
  BY DEF PoolInit
<1>2. Size(bySender) = 0
  BY <1>1, PoolEmpty
<1>3. Pending = {}
  BY <1>1 DEF Pending, PendingOf, Range
<1>4. PendingTxs = {}
  BY <1>3 DEF PendingTxs
<1>5. Cardinality({}) = 0 /\ IsFiniteSet({})
  BY FS_EmptySet
<1>6. PoolConsistent
  BY <1>1, <1>2, <1>3, <1>4, <1>5, LimitsAssumption DEF PoolConsistent
<1> QED BY <1>1, <1>4, <1>5, <1>6 DEF PoolInv

(* add_transaction: one entry more everywhere. *)
LEMMA PoolAdds ==
    ASSUME PoolInv, NEW tx \in Txs, AddTransaction(tx)
    PROVE  PoolInv'
<1> DEFINE f == tx.from
           e == [tx |-> tx, addedAt |-> totalCount]
<1>1. /\ f \in Senders /\ bySender \in [Senders -> Seq(Entries)]
      /\ bySender' = [bySender EXCEPT ![f] = Append(@, e)]
      /\ knownHashes' = knownHashes \cup {ComputeTxHash(tx)}
      /\ totalCount' = totalCount + 1 /\ totalCount < MaxSize
      /\ ComputeTxHash(tx) \notin knownHashes /\ Len(bySender[f]) < MaxTxPerAccount
  BY DEF AddTransaction, PoolInv, Senders
<1>2. /\ totalCount = Size(bySender) /\ knownHashes = {ComputeTxHash(p.tx) : p \in Pending}
      /\ IsFiniteSet(PendingTxs) /\ Cardinality(PendingTxs) = totalCount
      /\ \A s \in Senders : Len(bySender[s]) <= MaxTxPerAccount
  BY DEF PoolInv, PoolConsistent
<1>3. totalCount \in Nat
  BY <1>2, FS_CardinalityType
<1>4. e \in Entries
  BY <1>3 DEF Entries
<1>5. /\ Append(bySender[f], e) \in Seq(Entries) /\ Len(Append(bySender[f], e)) = Len(bySender[f]) + 1
      /\ Range(Append(bySender[f], e)) = Range(bySender[f]) \cup {e}
  <2>1. bySender[f] \in Seq(Entries)
    BY <1>1
  <2> HIDE DEF e
  <2> QED BY <1>4, <2>1, AppendFacts
<1> HIDE DEF e
<1>6. bySender' \in [Senders -> Seq(Entries)]
  BY <1>1, <1>5
<1>7. bySender'[f] = Append(bySender[f], e) /\ \A s \in Senders \ {f} : bySender'[s] = bySender[s]
  BY <1>1
<1>8. Pending' = Pending \cup {e}
  <2>1. PendingOf(f)' = PendingOf(f) \cup {e} /\ \A s \in Senders \ {f} : PendingOf(s)' = PendingOf(s)
    BY <1>5, <1>7 DEF PendingOf
  <2> QED BY <1>1, <2>1 DEF Pending
<1>9. e.tx = tx
  BY DEF e
<1>10. PendingTxs' = PendingTxs \cup {tx}
  BY <1>8, <1>9 DEF PendingTxs
<1>11. tx \notin PendingTxs
  BY <1>1, <1>2 DEF PendingTxs
<1>12. IsFiniteSet(PendingTxs') /\ Cardinality(PendingTxs') = totalCount + 1
  BY <1>2, <1>10, <1>11, FS_AddElement
<1>13. knownHashes' = {ComputeTxHash(p.tx) : p \in Pending'}
  BY <1>1, <1>2, <1>8, <1>9
<1>14. Size(bySender') = Size(bySender) + 1
  <2> DEFINE g == Lens(bySender)
             h == Lens(bySender')
  <2>1. \A s \in Senders : g[s] = Len(bySender[s]) /\ h[s] = Len(bySender'[s])
    BY DEF Lens
  <2>2. \A s \in Senders : Len(bySender[s]) \in Nat /\ Len(bySender'[s]) \in Nat
    BY <1>1, <1>6
  <2>3. h[f] = g[f] + 1 /\ \A s \in Senders \ {f} : h[s] = g[s]
    BY <1>1, <1>5, <1>7, <2>1
  <2> HIDE DEF g, h
  <2>4. /\ \A s \in Senders : g[s] \in Int /\ h[s] \in Int
        /\ \A s \in Senders : g[s] \in Nat
    BY <2>1, <2>2
  <2>5. SumFunctionOnSet(h, Senders) = SumFunctionOnSet(g, Senders) - g[f] + h[f]
    <3>1. /\ f \in Senders /\ \A y \in Senders : g[y] \in Int /\ h[y] \in Int
          /\ \A y \in Senders \ {f} : h[y] = g[y]
      BY <1>1, <2>3, <2>4
    <3> HIDE DEF f
    <3> QED BY <3>1, SendersFinite, SumChange
  <2>6. SumFunctionOnSet(g, Senders) \in Nat /\ g[f] \in Nat
    BY <1>1, <2>4, SendersFinite, SumNat
  <2>7. SumFunctionOnSet(h, Senders) = SumFunctionOnSet(g, Senders) + 1
    BY <2>3, <2>5, <2>6
  <2> QED BY <2>7, SizeIsSum DEF g, h
<1>15. \A s \in Senders : Len(bySender'[s]) <= MaxTxPerAccount
  <2>1. Len(bySender[f]) \in Nat
    BY <1>1
  <2>2. Len(bySender'[f]) <= MaxTxPerAccount
    BY <1>1, <1>5, <1>7, <2>1, LimitsAssumption
  <2> QED BY <1>2, <1>7, <2>2
<1>16. totalCount' <= MaxSize
  BY <1>1, <1>3, LimitsAssumption
<1>17. PoolConsistent'
  BY <1>1, <1>2, <1>12, <1>13, <1>14, <1>15, <1>16 DEF PoolConsistent
<1> QED BY <1>6, <1>12, <1>17 DEF PoolInv

(* remove_committed called with hashes of the other kind, as apply_commit does. *)
LEMMA PoolPrunes ==
    ASSUME PoolInv, NEW S, RemoveCommitted({TransactionHash(tx) : tx \in S})
    PROVE  UNCHANGED poolVars
<1> DEFINE hashes == {TransactionHash(tx) : tx \in S}
           others == {p \in Pending : ComputeTxHash(p.tx) \notin hashes}
           kept   == [s \in Senders |-> Retain(bySender[s], others)]
<1>1. \A x : ComputeTxHash(x) \notin hashes
  BY DEF ComputeTxHash, TransactionHash
<1>2. others = Pending
  BY <1>1
<1>3. bySender \in [Senders -> Seq(Entries)]
  BY DEF PoolInv
<1>4. ASSUME NEW s \in Senders PROVE Retain(bySender[s], Pending) = bySender[s]
  <2>1. Range(bySender[s]) \subseteq Pending
    BY DEF Pending, PendingOf
  <2> QED BY <1>3, <2>1, RetainFacts
<1>5. kept = bySender
  BY <1>2, <1>3, <1>4
<1>6. bySender' = kept /\ totalCount' = totalCount - (Size(bySender) - Size(kept))
      /\ knownHashes' = knownHashes \ hashes
  BY DEF RemoveCommitted
<1>7. Size(bySender) \in Nat
  <2>1. totalCount = Size(bySender) /\ totalCount = Cardinality(PendingTxs) /\ IsFiniteSet(PendingTxs)
    BY DEF PoolInv, PoolConsistent
  <2> QED BY <2>1, FS_CardinalityType
<1>8. totalCount' = totalCount
  <2>1. totalCount \in Nat
    BY <1>7 DEF PoolInv, PoolConsistent
  <2> HIDE DEF kept
  <2> QED BY <1>5, <1>6, <1>7, <2>1
<1>9. knownHashes' = knownHashes
  <2>1. knownHashes = {ComputeTxHash(p.tx) : p \in Pending}
    BY DEF PoolInv, PoolConsistent
  <2>2. knownHashes \cap hashes = {}
    BY <1>1, <2>1
  <2> HIDE DEF hashes
  <2> QED BY <1>6, <2>2
<1> HIDE DEF kept
<1> QED BY <1>5, <1>6, <1>8, <1>9 DEF poolVars

(* What get_pending_ordered returns are transactions of the pool. *)
LEMMA PendingBlocks ==
    ASSUME PoolInv
    PROVE  GetPendingOrdered(MaxBlockTxs) \subseteq Seq(Txs)
<1> SUFFICES ASSUME NEW s \in PendingOrders
             PROVE  [i \in 1 .. Min({MaxBlockTxs, Len(s)}) |-> s[i].tx] \in Seq(Txs)
  BY DEF GetPendingOrdered
<1>1. Pending \subseteq Entries
  <2> SUFFICES ASSUME NEW q \in Senders, NEW p \in Range(bySender[q]) PROVE p \in Entries
    BY DEF Pending, PendingOf
  <2> QED BY DEF PoolInv, Range
<1>2. s \in [1 .. Cardinality(Pending) -> Pending]
  BY DEF PendingOrders, SetToSeqs
<1>3. IsFiniteSet(Pending) /\ Cardinality(Pending) \in Nat
  <2>1. ASSUME NEW q \in Senders PROVE IsFiniteSet(PendingOf(q))
    <3>1. bySender[q] \in Seq(Entries)
      BY DEF PoolInv
    <3>2. IsFiniteSet(1 .. Len(bySender[q])) /\ DOMAIN bySender[q] = 1 .. Len(bySender[q])
      BY <3>1, FS_Interval
    <3>3. bySender[q] \in Surjection(1 .. Len(bySender[q]), Range(bySender[q]))
      BY <3>1, <3>2 DEF Surjection, Range
    <3> QED BY <3>2, <3>3, FS_Surjection DEF PendingOf, ExistsSurjection
  <2> DEFINE SS == {PendingOf(q) : q \in Senders}
  <2>2. IsFiniteSet(SS)
    <3> DEFINE f == [q \in Senders |-> PendingOf(q)]
    <3>1. f \in Surjection(Senders, SS)
      BY DEF Surjection
    <3> QED BY <3>1, SendersFinite, FS_Surjection DEF ExistsSurjection
  <2>3. \A S \in SS : IsFiniteSet(S)
    BY <2>1
  <2> HIDE DEF SS
  <2>4. IsFiniteSet(UNION SS)
    BY <2>2, <2>3, FS_UNION
  <2>5. IsFiniteSet(Pending)
    BY <2>4 DEF Pending, SS
  <2> QED BY <2>5, FS_CardinalityType
<1> DEFINE m == Min({MaxBlockTxs, Len(s)})
<1>4. Len(s) = Cardinality(Pending) /\ s \in Seq(Pending)
  BY <1>2, <1>3
<1>5. m \in Nat /\ m <= Len(s)
  BY <1>3, <1>4, BlocksAssumption DEF Min
<1> HIDE DEF m
<1>6. \A i \in 1 .. m : s[i].tx \in Txs
  BY <1>1, <1>2, <1>3, <1>4, <1>5 DEF Entries
<1>7. [i \in 1 .. m |-> s[i].tx] \in Seq(Txs)
  BY <1>5, <1>6
<1> QED BY <1>7 DEF m

-----------------------------------------------------------------------------
Inv ==
    /\ Sound(accounts, confirmed)
    /\ disk # NoFile => Sound(disk[1].accts, disk[1].confirmed)
    /\ proposed \subseteq Seq(Txs)
    /\ PoolInv

(* Genesis is sound. *)
LEMMA GenesisSound == Sound(GenesisState, NoneConfirmed)
<1>1. LedgerTyped(GenesisState)
  BY GenesisAssumption, AccountsAssumption DEF LedgerTyped, GenesisState, NewAccount, Account
<1>2. NoneConfirmed \in [Txs -> 0 .. 1] /\ \A tx \in Txs : ~ (NoneConfirmed[tx] > 0)
  BY DEF NoneConfirmed
<1>3. UsedUp(GenesisState, NoneConfirmed)
  BY <1>2 DEF UsedUp
<1>4. TotalSupply(GenesisState) = GenesisSupply
  BY DEF GenesisSupply
<1>5. ASSUME NEW a \in DOMAIN GenesisState PROVE Numbered(GenesisState, NoneConfirmed, a)
  <2>1. Done(NoneConfirmed, a) = {}
    BY <1>2 DEF Done
  <2>2. GenesisState[a].nonce = 0
    BY DEF GenesisState, NewAccount
  <2>3. 0 .. 0 - 1 = {}
    OBVIOUS
  <2> QED BY <2>1, <2>2, <2>3, FS_EmptySet DEF Numbered
<1> QED BY <1>1, <1>2, <1>3, <1>4, <1>5 DEF Sound

LEMMA InvInit == Init => Inv
BY GenesisSound, PoolStarts DEF Init, Inv

LEMMA PoolSame == ASSUME PoolInv, UNCHANGED poolVars PROVE PoolInv'
BY DEF poolVars, PoolInv, PoolConsistent, PendingTxs, Pending, PendingOf, Size

LEMMA ExecuteSound ==
    ASSUME Inv, NEW txs \in Seq(Txs), ExecuteBlock(txs)
    PROVE  Inv'
<1>1. Sound(accounts', confirmed')
  BY BlockSound DEF Inv, ExecuteBlock
<1> QED BY <1>1, PoolSame DEF Inv, ExecuteBlock

LEMMA InvNext == Inv /\ [Next]_vars => Inv'
<1> SUFFICES ASSUME Inv, [Next]_vars PROVE Inv'
  OBVIOUS
<1>1. ASSUME NEW tx \in Txs, Submit(tx) PROVE Inv'
  BY <1>1, PoolAdds DEF Submit, Inv
<1>2. CASE ProposeBlock
  BY <1>2, PendingBlocks, PoolSame DEF ProposeBlock, Inv
<1>3. ASSUME NEW txs \in PeerBlocks, CachePeerBlock(txs) PROVE Inv'
  BY <1>3, PoolSame, BlocksAssumption DEF CachePeerBlock, Inv
<1>4. CASE CommitCached
  BY <1>4, ExecuteSound DEF CommitCached, Inv
<1>5. CASE CommitUncached
  BY <1>5, ExecuteSound, PendingBlocks DEF CommitUncached, Inv
<1>6. CASE PruneMempool
  <2>1. UNCHANGED poolVars
    BY <1>6, PoolPrunes DEF PruneMempool, Inv
  <2> QED BY <1>6, <2>1, PoolSame DEF PruneMempool, Inv
<1>7. CASE FinishCommit
  BY <1>7, PoolSame DEF FinishCommit, Inv
<1>8. CASE Shutdown
  <2>1. SaveToFile[1] = [accts |-> accounts, confirmed |-> confirmed]
    BY DEF SaveToFile
  <2>2. disk' = NoFile \/ disk' = SaveToFile
    BY <1>8 DEF Shutdown
  <2>3. disk' # NoFile => Sound(disk'[1].accts, disk'[1].confirmed)
    BY <2>1, <2>2 DEF Inv
  <2> QED BY <1>8, <2>3, PoolSame DEF Shutdown, Inv
<1>9. CASE Crash
  BY <1>9, PoolSame DEF Crash, Inv
<1>10. CASE Boot
  <2>1. Sound(LoadFromFile(disk).accts, LoadFromFile(disk).confirmed)
    BY GenesisSound DEF LoadFromFile, Inv
  <2> QED BY <1>10, <2>1, PoolCleared DEF Boot, Inv
<1>11. CASE UNCHANGED vars
  BY <1>11, PoolSame DEF vars, Inv
<1> QED BY <1>1, <1>2, <1>3, <1>4, <1>5, <1>6, <1>7, <1>8, <1>9, <1>10, <1>11 DEF Next

LEMMA SpecInv == Spec => []Inv
BY InvInit, InvNext, PTL DEF Spec

-----------------------------------------------------------------------------
(* state_db.rs: no sequence of blocks, restarts and crashes makes a balance leave
   its u64, for any genesis and any transactions.                            *)
THEOREM BalancesFit == Spec => []TypeOK
<1>1. Inv => TypeOK
  BY DEF Inv, Sound, LedgerTyped, Account, TypeOK
<1> QED BY <1>1, SpecInv, PTL

(* apply_transfer and apply_block keep the supply, provided that genesis fits a
   u64: then no credit can overflow and leave its debit behind.              *)
THEOREM SupplyIsConserved == Spec => []SupplyConserved
<1>1. Inv => SupplyConserved
  BY DEF Inv, Sound, SupplyConserved
<1> QED BY <1>1, SpecInv, PTL

(* A transaction succeeds at most once in the history the accounts come from:
   the nonce that a success uses up never comes back.                        *)
THEOREM TransactionsNeverReplayed == Spec => []NoReplay
<1>1. Inv => NoReplay
  BY DEF Inv, Sound, NoReplay
<1> QED BY <1>1, SpecInv, PTL

(* docs/rpc-reference.md on nonces, for every history. *)
THEOREM NonceIsCount == Spec => []NonceCountsConfirmed
<1>1. Inv => NonceCountsConfirmed
  BY DEF Inv, Sound, Numbered, Done, NonceCountsConfirmed
<1> QED BY <1>1, SpecInv, PTL

(* The mempool's queues, hashes and counter agree within both limits, although
   remove_committed is called with hashes the pool does not know.            *)
THEOREM PoolStaysConsistent == Spec => []PoolConsistent
<1>1. Inv => PoolConsistent
  BY DEF Inv, PoolInv
<1> QED BY <1>1, SpecInv, PTL

=============================================================================
