----------------------------- MODULE MCPrefixCache -----------------------------
(* TLC instance of PrefixCache. *)
EXTENDS PrefixCache

Item(path, type, trim, marks, sidecar, size, stable) ==
    [path |-> path, type |-> type, trim |-> trim, marks |-> marks,
     sidecar |-> sidecar, size |-> size, stable |-> stable]

(* A prefix and two continuations of it, one of them a hybrid that can only *)
(* be put to positions 1 and 3 and cannot be frozen, and the same prefix with a    *)
(* sidecar.                                                                 *)
FewStores == {Item(<<1, 2>>, "user", TRUE, {}, FALSE, 1, TRUE),
              Item(<<1, 2>>, "system", FALSE, {}, TRUE, 1, TRUE),
              Item(<<1, 2, 1, 1>>, "assistant", TRUE, {}, FALSE, 2, TRUE),
              Item(<<1, 2, 2, 1>>, "assistant", FALSE, {1, 3}, FALSE, 2, FALSE)}
FewQueries == {<<1>>, <<1, 2, 1>>, <<1, 2, 1, 1>>, <<1, 2, 2, 2>>}
FewTrims == {[sequences |-> 1, bytes |-> 9], [sequences |-> 9, bytes |-> 1]}

BranchSymmetry == Permutations(Branches)
================================================================================
