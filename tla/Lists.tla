-------------------------------- MODULE Lists --------------------------------
(***************************************************************************)
(* Vec::retain, as a recursive function: the proofs need its definition,   *)
(* which they do not have for SelectSeq.                                   *)
(***************************************************************************)
EXTENDS Integers, Sequences

(* The members of S that s lists, in the order of s. *)
Retain(s, S) ==
    LET kept[i \in 0 .. Len(s)] ==
            IF i = 0 THEN <<>>
            ELSE IF s[i] \in S THEN Append(kept[i - 1], s[i]) ELSE kept[i - 1]
    IN  kept[Len(s)]

=============================================================================
