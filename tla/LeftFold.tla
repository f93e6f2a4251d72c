------------------------------ MODULE LeftFold ------------------------------
(* FoldLeft() of the community modules searches the largest remaining index  *)
(* at each element; the texts and hierarchies here are too long for that.     *)
LOCAL INSTANCE Naturals
LOCAL INSTANCE Sequences

\* FoldLeft(op, base, seq), one element after the other.
FoldAlong(op(_, _), base, seq) ==
    LET upTo[i \in 0 .. Len(seq)] == IF i = 0 THEN base ELSE op(upTo[i - 1], seq[i])
    IN  upTo[Len(seq)]
=============================================================================
