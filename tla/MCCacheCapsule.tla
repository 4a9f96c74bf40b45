----------------------------- MODULE MCCacheCapsule -----------------------------
(* TLC instance of CacheCapsule. *)
EXTENDS CacheCapsule, TLC

CapsuleSymmetry == Permutations(Tickets) \cup Permutations(Leases)

================================================================================
