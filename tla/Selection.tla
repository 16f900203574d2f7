------------------------------ MODULE Selection ------------------------------
(***************************************************************************)
(* The elements of a sequence at chosen places, in order.  SelectSeq of    *)
(* the Sequences module chooses by a test on the elements and is not       *)
(* defined for the proof system; this is defined by a recursive function.  *)
(***************************************************************************)
EXTENDS Integers, Sequences

\* KeptUpTo(s, places)[i] is what is kept of the first i elements of s.
KeptUpTo(s, places) ==
    LET kept[i \in 0..Len(s)] ==
            IF i = 0 THEN <<>>
            ELSE IF i \in places THEN Append(kept[i - 1], s[i])
            ELSE kept[i - 1]
    IN  kept

Kept(s, places) == KeptUpTo(s, places)[Len(s)]
=============================================================================
