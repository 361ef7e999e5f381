---------------------------- MODULE PositionSet ----------------------------
(***************************************************************************)
(* std::set<position_t> as the program gets it: libstdc++'s red-black tree *)
(* ordered by the program's own operator< on positions.  That operator     *)
(* compares first.x with second.y, so it is no strict weak ordering, and   *)
(* what a lookup, an insertion or an erasure does depends on the shape of  *)
(* the tree.  A set is modelled by the sequence of its elements in tree    *)
(* order; every operation returns the set of outcomes that some shape of a *)
(* search tree over that sequence yields.  A descent ends at a gap between *)
(* two neighbours, and both neighbours have been compared on the way: the  *)
(* gaps whose two neighbours agree with the descent are the outcomes.      *)
(* Under a correct ordering there would be exactly one.                    *)
(***************************************************************************)
EXTENDS Integers, Sequences

\* operator<: the first comparison reads second.y.
Less(first, second) ==
    \/ first.x < second.y
    \/ first.x = second.x /\ first.y < second.y

Equivalent(first, second) == ~Less(first, second) /\ ~Less(second, first)

\* Gaps where _M_lower_bound(k) may end; gap b lies before element b.
LowerBounds(s, k) ==
    {b \in 1 .. Len(s) + 1 :
        /\ b > 1 => Less(s[b - 1], k)
        /\ b <= Len(s) => ~Less(s[b], k)}

\* Gaps where the descent of an insertion of k, or _M_upper_bound(k), may end.
UpperBounds(s, k) ==
    {b \in 1 .. Len(s) + 1 :
        /\ b > 1 => ~Less(k, s[b - 1])
        /\ b <= Len(s) => Less(k, s[b])}

\* set::count(k) is find(k) # end: the values it may return.
count(s, k) ==
    {IF b <= Len(s) /\ ~Less(k, s[b]) THEN 1 ELSE 0 : b \in LowerBounds(s, k)}

\* set::insert(k): k goes into the gap unless the element before is not less.
insert(s, k) ==
    {IF b = 1 \/ Less(s[b - 1], k)
     THEN SubSeq(s, 1, b - 1) \o <<k>> \o SubSeq(s, b, Len(s))
     ELSE s : b \in UpperBounds(s, k)}

\* Ranges [l, u) that equal_range(k) may return once the descent has met an
\* element equivalent to k.
EqualRanges(s, k) ==
    {r \in LowerBounds(s, k) \X UpperBounds(s, k) :
        \E e \in r[1] .. r[2] - 1 : Equivalent(s[e], k)}

\* The descent of equal_range(k) may meet no element equivalent to k.
MayMiss(s, k) ==
    \E b \in LowerBounds(s, k) : b <= Len(s) => Less(k, s[b])

\* set::erase(k) removes the whole range equal_range(k) returns.
erase(s, k) ==
    {SubSeq(s, 1, r[1] - 1) \o SubSeq(s, r[2], Len(s)) : r \in EqualRanges(s, k)}
        \cup {t \in {s} : MayMiss(s, k)}

\* The sets of positions of P that lookups in one tree may report present.
Found(s, P) ==
    {H \in SUBSET P :
        \A p \in P : (IF p \in H THEN 1 ELSE 0) \in count(s, p)}
=============================================================================
