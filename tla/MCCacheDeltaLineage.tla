-------------------------- MODULE MCCacheDeltaLineage --------------------------
(* TLC instance of CacheDeltaLineage. *)
EXTENDS CacheDeltaLineage

OneToken == <<"a">>

(* Two contents, and a segment that jumps over a position.                 *)
SomeSegments == {<<"a">>, <<"b", "b">>}

LineageSymmetry == Permutations(Branches) \cup Permutations(Compactors)

================================================================================
