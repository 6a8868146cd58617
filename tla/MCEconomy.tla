------------------------------ MODULE MCEconomy ------------------------------
(* Instance of Economy for TLC. *)
EXTENDS Economy

CONSTANTS s, c1, c2, dev

\* One developer deploys both contracts.
MCDeployer == [c \in Contracts |-> dev]

Ratios(b, v, t, d) == [burn |-> b, validator |-> v, treasury |-> t, developer |-> d]

\* Contracts of one developer are interchangeable.
ContractSymmetry == Permutations(Contracts)

\* The default split in per cent, and three whose shares do not divide evenly.
MCSplitConfigs ==
    {[launch |-> Ratios(10, 0, 45, 45), maturity |-> Ratios(25, 25, 25, 25), transition |-> 2],
     [launch |-> Ratios(2, 49, 49, 0),  maturity |-> Ratios(2, 48, 48, 2),   transition |-> 2],
     [launch |-> Ratios(2, 0, 49, 49),  maturity |-> Ratios(2, 2, 48, 48),   transition |-> 3],
     [launch |-> Ratios(2, 96, 1, 1),   maturity |-> Ratios(97, 1, 1, 1),    transition |-> 0]}
=============================================================================
