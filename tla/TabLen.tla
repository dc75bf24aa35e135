------------------------------- MODULE TabLen -------------------------------
(***************************************************************************)
(* The length of a table (src/luajit-2.1/src/lj_tab.c, lj_tab_len), on     *)
(* which luaL_ref relies to extend the registry.  A table with holes has   *)
(* several borders, and the search may answer any.  A table is the set of  *)
(* its positive integer keys that have a value, and the size of its array  *)
(* part (slot 0 included); the keys from there on are in the hash part.    *)
(* The bounds between which the search goes on are lo and hi; a loop that  *)
(* has ended leaves them alone.                                            *)
(***************************************************************************)
EXTENDS Naturals

\* Faulty variant: the search goes on above an empty slot.
HalveUpwards(filled, b) ==
    IF b.hi - b.lo <= 1 THEN b ELSE [b EXCEPT !.lo = (b.lo + b.hi) \div 2]

\* One turn of the binary search, the same in the array and in the hash part.
Halve(filled, b) ==
    LET mid == (b.lo + b.hi) \div 2
    IN IF b.hi - b.lo <= 1 THEN b
       ELSE IF mid \in filled THEN [b EXCEPT !.lo = mid] ELSE [b EXCEPT !.hi = mid]

\* The border that the binary search finds: every turn brings the bounds closer.
Search(filled, b) ==
    LET after[n \in 0..b.hi] == IF n = 0 THEN b ELSE Halve(filled, after[n - 1])
    IN after[b.hi].lo

\* One turn of tab_len_slow: the upper bound is doubled while it is filled.
Widen(filled, b) ==
    IF b.hi \in filled THEN [lo |-> b.hi, hi |-> 2 * b.hi] ELSE b

LastKey(filled) == CHOOSE k \in filled \cup {0} : \A j \in filled : j <= k

\* tab_len_slow, which gets past the last key.
Widened(filled, b) ==
    LET after[n \in 0..LastKey(filled)] == IF n = 0 THEN b ELSE Widen(filled, after[n - 1])
    IN after[LastKey(filled)]

\* lj_tab_len.  With an empty hash part the slow search answers the last
\* index of the array as well.
TabLen(filled, asize) ==
    LET last == asize - 1
    IN IF last \notin filled THEN Search(filled, [lo |-> 0, hi |-> last])
       ELSE Search(filled, Widened(filled, [lo |-> last, hi |-> last + 1]))
=============================================================================
