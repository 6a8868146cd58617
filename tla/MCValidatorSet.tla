--------------------------- MODULE MCValidatorSet ---------------------------
(* Instance of Genesis, and with it of ValidatorSet, for TLC. *)
EXTENDS Genesis

Config(vs) == [validators |-> vs, params |-> DefaultParams]

V(k, stake) == [key |-> k, stake |-> stake, commission |-> 500]

\* The default testnet, which is over the cap; two validators, within it; one of
\* three, or of two, with a stake below the minimum, the three with a key that is no
\* curve point; and the ones validate refuses: repeated,
\* unstaked, over commission, empty, no epochs, a split that does not add up.
MCGenesisFiles ==
    {Unreadable,
     <<Config(<<V(2, 1000000), V(1, 3000000)>>)>>,
     <<Config(<<V(3, 999999), V(4, 2000000), V(1, 2000000)>>)>>,
     <<Config(<<V(3, 999999), V(2, 1000000)>>)>>,
     <<Config(<<V(1, 2000000), V(1, 2000000)>>)>>,
     <<Config(<<V(1, 0)>>)>>,
     <<Config(<<[V(1, 2000000) EXCEPT !.commission = 10001]>>)>>,
     <<Config(<<>>)>>,
     <<[Config(<<V(1, 2000000)>>) EXCEPT !.params.epochLength = 0]>>,
     <<[Config(<<V(1, 2000000)>>) EXCEPT !.params.maturityTotal = 9999]>>}
=============================================================================
