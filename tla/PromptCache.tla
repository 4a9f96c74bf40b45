------------------------------ MODULE PromptCache ------------------------------
(* LRUPromptCache of src/mlx_lm/models/cache.py as operators on a record   *)
(* c: the trie, the recency lists by cache type (order), the resident      *)
(* bytes in all and by type.  The record of AutomaticPrefixCache has more  *)
(* fields; the operators here leave them alone.                            *)
(* An entry has its path's length as position, its size, its type, whether *)
(* it can be trimmed anywhere (trim) or only at recorded marks, and whether *)
(* a speculative sidecar came with it.  Entries of other model keys only   *)
(* take part in the recency lists and are not modelled.                    *)
EXTENDS PromptTrie

CONSTANTS MaxSize,   \* entries kept
          MaxBytes,  \* resident bytes kept
          MaxTokens  \* longest prompt kept

ASSUME LimitsAssumption ==
    /\ MaxSize \in Nat
    /\ MaxBytes \in Nat
    /\ MaxTokens \in Nat \ {0}

CacheTypes == {"assistant", "user", "system"}

(* An entry that was spilled has an empty list of caches and counts for 0. *)
Nbytes(e) == IF e.resident THEN e.size ELSE 0
Count(c, e) == [c EXCEPT !.bytes = @ + Nbytes(e), !.bytesOf[e.type] = @ + Nbytes(e)]
Uncount(c, e) == [c EXCEPT !.bytes = @ - Nbytes(e), !.bytesOf[e.type] = @ - Nbytes(e)]

(* Step as long as Guard holds; no loop of this code takes out more than   *)
(* the entries there are.                                                  *)
Repeat(c, n, Guard(_), Step(_)) ==
    FoldLeft(LAMBDA d, i : IF Guard(d) THEN Step(d) ELSE d, c, [i \in 1..n |-> i])

--------------------------------------------------------------------------------
(* CacheOrder *)

OrderLen(o) == Len(o["assistant"]) + Len(o["user"]) + Len(o["system"])

(* The first list, in this order, that is not shorter than the next one.   *)
OrderVictim(o) ==
    IF o["assistant"] # <<>> /\ Len(o["assistant"]) >= Len(o["user"]) THEN "assistant"
    ELSE IF o["user"] # <<>> /\ Len(o["user"]) >= Len(o["system"]) THEN "user"
    ELSE "system"

(* Mutant: only the list of answers is searched. *)
OrderRemoveFromAnswers(o, p) == [o EXCEPT !["assistant"] = Only(@, ToSet(@) \ {p})]
OrderRemove(o, p) == [t \in CacheTypes |-> Only(o[t], ToSet(o[t]) \ {p})]

(* Mutant: the evicted entry keeps its bytes in the account. *)
EvictUncounted(c) ==
    LET type == OrderVictim(c.order)
    IN  [c EXCEPT !.order[type] = Tail(@), !.trie = TriePop(@, Head(c.order[type]))]

Evict(c) ==
    LET type == OrderVictim(c.order)
        p == Head(c.order[type])
    IN  [Uncount(c, c.trie.entry[p]) EXCEPT !.order[type] = Tail(@), !.trie = TriePop(@, p)]

EvictToBytes(c, limit) ==
    Repeat(c, OrderLen(c.order), LAMBDA d : d.bytes > limit, Evict)
EvictToSize(c, n) ==
    Repeat(c, OrderLen(c.order), LAMBDA d : OrderLen(d.order) > n, Evict)

TrimTo(c, sequences, bytes) == EvictToBytes(EvictToSize(c, sequences), bytes)

--------------------------------------------------------------------------------
(* insert_cache *)

(* pop_prefixes and its loop: the entries at strict prefixes of p. *)
DropCovered(c, p) ==
    FoldSet(LAMBDA x, d : [Uncount(d, d.trie.entry[x]) EXCEPT
                             !.order = OrderRemove(@, x),
                             !.trie.entry = Without(@, x)],
            c, CoveredBy(c.trie, p))

(* The entry that was stored at p before, if any, leaves account and list. *)
Replaced(c, p) ==
    IF p \in Stored(c.trie)
    THEN [Uncount(c, c.trie.entry[p]) EXCEPT !.order = OrderRemove(@, p)]
    ELSE c

(* A cache that can be trimmed anywhere makes its prefixes superfluous; one *)
(* that carries a sidecar does not.  Then at most one entry goes for their  *)
(* number, and as many as it takes for their bytes.                         *)
Insert(c, p, e, limit) ==
    LET added == [Count(Replaced(c, p), e) EXCEPT
                    !.trie = TrieAdd(@, p, e), !.order[e.type] = Append(@, p)]
        covering == IF e.trim /\ ~e.sidecar THEN DropCovered(added, p) ELSE added
        sized == IF OrderLen(covering.order) > MaxSize THEN Evict(covering) ELSE covering
    IN  EvictToBytes(sized, limit)

--------------------------------------------------------------------------------
(* fetch_nearest_cache.  An answer is the path of the entry it copies, the *)
(* position the copy was trimmed to, and how many tokens of the prompt are *)
(* left to process.  A miss has no path.                                   *)

Miss(q) == [path |-> NoPath, at |-> 0, rest |-> Len(q)]

(* is_trimmable of every cache of an empty list is true. *)
CanTrim(e) == e.trim \/ ~e.resident

(* The deepest recorded position that does not exceed pos. *)
Snap(e, pos) == Max({0} \cup {m \in e.marks : m <= pos})

(* Mutant: an exact hit leaves no token to compute the next logits from. *)
ExactAnswerWhole(e, q) == [path |-> q, at |-> Len(q), rest |-> 0]

(* An entry for the whole prompt gives its last token back. *)
ExactAnswer(e, q) ==
    LET land == Snap(e, Len(q) - 1)
    IN  IF CanTrim(e)
        THEN [path |-> q, at |-> IF e.resident THEN Len(q) - 1 ELSE 0, rest |-> 1]
        ELSE IF land > 0 THEN [path |-> q, at |-> land, rest |-> Len(q) - land]
        ELSE Miss(q)

(* An entry beyond the prompt is cut back to what they share. *)
LongerAnswer(e, q, s) ==
    LET prefix == Min({Len(q) - 1, s.common})
        land == Snap(e, prefix)
    IN  IF CanTrim(e)
        THEN [path |-> s.longer, at |-> IF e.resident THEN prefix ELSE 0,
              rest |-> Len(q) - prefix]
        ELSE IF land > Len(s.shorter)
        THEN [path |-> s.longer, at |-> land, rest |-> Len(q) - land]
        ELSE Miss(q)

ShorterAnswer(e, q, s) ==
    [path |-> s.shorter, at |-> IF e.resident THEN Len(s.shorter) ELSE 0,
     rest |-> Len(q) - Len(s.shorter)]

FetchNearest(t, q, s) ==
    LET longer == IF s.longer # NoPath /\ s.common > Len(s.shorter)
                  THEN LongerAnswer(t.entry[s.longer], q, s)
                  ELSE Miss(q)
    IN  IF s.exact # NoPath THEN ExactAnswer(t.entry[q], q)
        ELSE IF longer.path # NoPath THEN longer
        ELSE IF s.shorter # NoPath THEN ShorterAnswer(t.entry[s.shorter], q, s)
        ELSE Miss(q)
================================================================================
