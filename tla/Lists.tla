--------------------------------- MODULE Lists ---------------------------------
(* The list comprehensions with a condition that the Python code is full of. *)
EXTENDS Integers, FiniteSets, Sequences

(* The elements of s at the places in kept, in order. *)
Rows(s, kept) ==
    LET places == kept \cap DOMAIN s
        Nth(k) == CHOOSE i \in places : Cardinality({j \in places : j <= i}) = k
    IN  [k \in 1..Cardinality(places) |-> s[Nth(k)]]

(* The elements of s that are in set, in order. *)
Only(s, set) == Rows(s, {i \in DOMAIN s : s[i] \in set})
================================================================================
