----------------------------- MODULE Subsequence -----------------------------
(***************************************************************************)
(* The part of a sequence that lies in a set, in its order: some of the    *)
(* messages of a channel (src/buffer.rs).  SelectSeq says the same with an *)
(* operator where this has a set; a recursive function over a set can be   *)
(* reasoned about.                                                         *)
(***************************************************************************)
EXTENDS Integers, Sequences

Only(seq, S) ==
    LET only[n \in 0..Len(seq)] ==
          IF n = 0 THEN <<>>
          ELSE IF seq[n] \in S THEN Append(only[n - 1], seq[n]) ELSE only[n - 1]
    IN  IF seq = <<>> THEN <<>> ELSE only[Len(seq)]
=============================================================================
