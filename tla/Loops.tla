------------------------------- MODULE Loops -------------------------------
(* The loops of the code over the elements of a list or a table, in their     *)
(* order, as a fold of what one turn does to the state.                       *)
EXTENDS Integers, Sequences, FiniteSetsExt, Folds

\* the state after a turn for every element of seq, from the first to the last
ForEach(turn(_, _), base, seq) ==
    MapThenFoldSet(LAMBDA x, s : turn(s, x), base, LAMBDA i : seq[i],
                   LAMBDA left : Max(left), DOMAIN seq)

\* seq without its i-th element
Without(seq, i) == SubSeq(seq, 1, i - 1) \o SubSeq(seq, i + 1, Len(seq))
=============================================================================
