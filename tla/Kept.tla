-------------------------------- MODULE Kept --------------------------------
(* The elements of a sequence that are in a set, in their order, and the sequences
   of a sequence, run together: SelectSeq and FlattenSeq as recursive functions,
   which proofs can expand. *)
EXTENDS Naturals, Sequences

Keep(s, T) ==
  LET kept[i \in 0..Len(s)] ==
        IF i = 0 THEN <<>>
        ELSE IF s[i] \in T THEN Append(kept[i - 1], s[i]) ELSE kept[i - 1]
  IN  kept[Len(s)]

\* The sequences of a sequence, one after the other.
Joined(s) ==
  LET joined[i \in 0..Len(s)] == IF i = 0 THEN <<>> ELSE joined[i - 1] \o s[i]
  IN  joined[Len(s)]
=============================================================================
