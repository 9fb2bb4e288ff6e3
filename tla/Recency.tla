-------------------------------- MODULE Recency --------------------------------
(***************************************************************************)
(* What the caches keep by last use: a sequence, from the least recently   *)
(* used on, which is cut down to what stays.  The pages of PageService and *)
(* the patches of PatchCache.                                              *)
(***************************************************************************)
EXTENDS Integers, Sequences

\* Those of a sequence that are in the set kept, in their order.
Only(seq, kept) ==
  LET of[n \in 0 .. Len(seq)] ==
        IF n = 0 THEN <<>>
        ELSE IF seq[n] \in kept THEN Append(of[n - 1], seq[n]) ELSE of[n - 1]
  IN of[Len(seq)]
=============================================================================
