------------------------------- MODULE Sorting -------------------------------
(***************************************************************************)
(* The sort of Rust's slices, sort_by and sort_by_key, as insertion: each  *)
(* element goes behind the last one that it does not precede, so that      *)
(* equal ones keep their order.  `before' is a relation, a set of pairs.   *)
(* This is the sort of any slice of up to twenty elements, and of longer   *)
(* ones if `before' is a weak order.  If it is not, the sort of a longer   *)
(* slice leaves any order or panics: whoever sorts by such a relation has  *)
(* to say so.                                                              *)
(***************************************************************************)
EXTENDS Naturals, Sequences, FiniteSetsExt, SequencesExt

\* One more element of those that are sorted by now.
Place(done, e, before) ==
    LET k == Max({0} \cup {j \in DOMAIN done : <<e, done[j]>> \notin before})
    IN InsertAt(done, k + 1, e)

StableSort(s, before) ==
    LET done[i \in 0..Len(s)] ==
            IF i = 0 THEN <<>> ELSE Place(done[i - 1], s[i], before)
    IN done[Len(s)]
=============================================================================
