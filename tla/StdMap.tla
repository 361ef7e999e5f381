------------------------------- MODULE StdMap -------------------------------
(***************************************************************************)
(* std::map as the program uses it: a function from the keys present to    *)
(* their values.                                                           *)
(***************************************************************************)

Map(m, K, V) == DOMAIN m \subseteq K /\ m \in [DOMAIN m -> V]

\* insert leaves a key that is present alone.
map_insert(m, k, v) ==
    IF k \in DOMAIN m THEN m
    ELSE [j \in DOMAIN m \cup {k} |-> IF j = k THEN v ELSE m[j]]

\* Slip: insert where the code has insert_or_assign.
insert_or_assign_keeps(m, k, v) == map_insert(m, k, v)

insert_or_assign(m, k, v) ==
    [j \in DOMAIN m \cup {k} |-> IF j = k THEN v ELSE m[j]]

\* insert_or_assign of every entry of n.
assign_all(m, n) ==
    [j \in DOMAIN m \cup DOMAIN n |-> IF j \in DOMAIN n THEN n[j] ELSE m[j]]

\* erase of every key of K; a key that is absent is no error.
erase_keys(m, K) == [j \in DOMAIN m \ K |-> m[j]]
=============================================================================
