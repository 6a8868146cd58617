------------------------------ MODULE MCTxFlow ------------------------------
(* Instances of TxFlow for TLC. *)
EXTENDS TxFlow

CONSTANTS alice, bob, carol

Tx(from, to, amount, nonce) ==
    [from |-> from, to |-> to, amount |-> amount, nonce |-> nonce, signer |-> from]

a0 == Tx(alice, bob, 1, 0)
a1 == Tx(alice, carol, 2, 1)
a2 == Tx(alice, alice, 1, 0)
b0 == Tx(bob, alice, 2, 0)
forged == [Tx(bob, carol, 1, 0) EXCEPT !.signer = carol]

\* A nonce chain, a second transaction for its first nonce (to oneself), one
\* that only becomes affordable, and one that somebody else signed.
MCTxs == {a0, a1, a2, b0, forged}

\* carol has no account until someone pays her.
MCGenesis == [a \in {alice, bob} |-> IF a = alice THEN 3 ELSE 1]

\* Blocks of other validators repeat transactions and put a1 before a0.
MCPeerBlocks == {<<a0, b0>>, <<a1, a0>>}
=============================================================================
