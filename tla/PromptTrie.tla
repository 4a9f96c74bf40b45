------------------------------ MODULE PromptTrie ------------------------------
(* The trie of src/mlx_lm/models/cache.py (PromptTrie) for the prompts of  *)
(* one model key.  A node is the token sequence that leads to it; a trie   *)
(* is the set of its nodes with the entries stored at some of them.  What  *)
(* the Python code finds by walking dictionaries is stated over that set.  *)
EXTENDS Lists, FiniteSetsExt, SequencesExt, TLC

NoPath == <<>>
Root == <<>>
EmptyTrie == [nodes |-> {Root}, entry |-> <<>>]
Stored(t) == DOMAIN t.entry
With(f, p, e) == [x \in DOMAIN f \cup {p} |-> IF x = p THEN e ELSE f[x]]
Without(f, p) == [x \in DOMAIN f \ {p} |-> f[x]]

TrieAdd(t, p, e) == [nodes |-> t.nodes \cup Prefixes(p), entry |-> With(t.entry, p, e)]

(* Mutant: pop forgets the value and leaves its path standing. *)
TriePopUnpruned(t, p) == [t EXCEPT !.entry = Without(t.entry, p)]

(* Taking a value out prunes the nodes of its path that lead nowhere else, *)
(* from the end of the path up to the first that still has a use.          *)
TriePop(t, p) ==
    LET kept == Without(t.entry, p)
        bare == {n \in Prefixes(p) \ {Root} :
                   \A m \in t.nodes :
                     IsPrefix(n, m) => m \in Prefixes(p) /\ m \notin DOMAIN kept}
    IN  [nodes |-> t.nodes \ bare, entry |-> kept]

(* The entries stored at the strict prefixes of p; their nodes stay, they  *)
(* are on the way to p.                                                    *)
CoveredBy(t, p) == {x \in Stored(t) : IsStrictPrefix(x, p)}

(* How far the tokens of q lead. *)
Walked(t, q) == Max({i \in 0..Len(q) : SubSeq(q, 1, i) \in t.nodes})

(* The shortest entries at or below the node where q leaves the trie.      *)
(* Which of them the search meets first depends on the order in which      *)
(* dictionaries list their children: favour stands for that order.         *)
NearestBelow(t, node, favour) ==
    LET below == {p \in Stored(t) : IsPrefix(node, p)}
        least == {p \in below : \A x \in below : Len(p) <= Len(x)}
        liked == {p \in least : Len(p) > Len(node) /\ p[Len(node) + 1] = favour}
    IN  CHOOSE p \in least : liked = {} \/ p \in liked

(* search: an exact match is reported alone.  A stored prefix of a single  *)
(* token is never reported as the shorter one (last_index > 0).            *)
TrieSearch(t, q, favour) ==
    LET index == Walked(t, q)
        valued == {i \in 1..index : SubSeq(q, 1, i) \in Stored(t)}
        last == Max(valued \cup {0})
    IN  IF q \in Stored(t)
        THEN [exact |-> q, longer |-> NoPath, shorter |-> NoPath, common |-> 0]
        ELSE [exact |-> NoPath,
              longer |-> IF index > 0
                         THEN NearestBelow(t, SubSeq(q, 1, index), favour)
                         ELSE NoPath,
              shorter |-> IF last > 1 THEN SubSeq(q, 1, last) ELSE NoPath,
              common |-> index]
===============================================================================
