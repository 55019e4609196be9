--------------------------------- MODULE Lists ---------------------------------
(****************************************************************************)
(* Subsequences chosen by membership, as a loop over a list with an `if`    *)
(* makes them.  The recursion is that of a function over the positions, and *)
(* not SelectSeq, for the sake of the proofs (ListLemmas).                  *)
(****************************************************************************)
EXTENDS Naturals, Sequences

(* The elements of s that are in S, in their order. *)
Only(s, S) ==
    LET upto[i \in 0..Len(s)] ==
            IF i = 0 THEN << >>
            ELSE IF s[i] \in S THEN Append(upto[i - 1], s[i]) ELSE upto[i - 1]
    IN  upto[Len(s)]
==============================================================================
