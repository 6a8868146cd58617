------------------------------ MODULE MCSlashing ------------------------------
(* Instances of Slashing for TLC. *)
EXTENDS Slashing

\* Key 3 delegates to validator 1.
MCDelegations == {<<3, 1>>}

Ev(k, offense, h, data) ==
    [offender |-> k, offense |-> offense, height |-> h, data |-> data]

\* Two offences, and one of them sent with other data and without.
MCEvidence ==
    {Ev(1, "DoubleSign", 0, "votes"), Ev(1, "InvalidBlock", 1, "block"),
     Ev(1, "DoubleSign", 0, "other votes"), Ev(1, "DoubleSign", 0, NoData)}
=============================================================================
