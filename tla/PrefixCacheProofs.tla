--------------------------- MODULE PrefixCacheProofs ---------------------------
(***************************************************************************)
(* Proofs about PromptTrie, PromptCache and PrefixCache, for any prompts,  *)
(* sizes, limits and branches, and any disk operations that fail.          *)
(*                                                                         *)
(* PrefixInv is inductive.  Its heart is Whole: the shelf (trie, recency   *)
(* lists, byte counts) describes the stored entries, and their backing     *)
(* (files, disk bytes, owners) is that of the same entries.  Every         *)
(* operation is a loop, a fold, of steps on one entry: the first half says *)
(* what each step does to each part, the second takes the loops together   *)
(* with FoldTheorems and follows the operations, then the steps.           *)
(***************************************************************************)
EXTENDS PrefixCache, ListTheorems

(* The prompts that have an entry. *)
Paths == Seq(Tokens) \ {NoPath}

(* Induction on the natural numbers, as FoldTheorems wants it.             *)
LEMMA SetOfNumbers == \A N : 0 \in N /\ (\A n \in Nat : n \in N => n + 1 \in N) => Nat \subseteq N
  BY NatSet

(* Taking elements out of a finite set comes to an end.                    *)
LEMMA SetEnds ==
    ASSUME NEW S, IsFiniteSet(S), NEW T \in SUBSET S
    PROVE  /\ Cardinality(T) \in Nat /\ Cardinality(T) <= Cardinality(S)
           /\ \A x \in T : Cardinality(T \ {x}) < Cardinality(T)
           /\ T # {} => Taken(T) \in T
<1>1. IsFiniteSet(T) /\ Cardinality(T) <= Cardinality(S)
  BY FS_Subset
<1>2. Cardinality(T) \in Nat
  BY <1>1, FS_CardinalityType
<1>3. ASSUME NEW x \in T PROVE Cardinality(T \ {x}) < Cardinality(T)
  <2>1. Cardinality(T \ {x}) = Cardinality(T) - 1
    BY <1>1, FS_RemoveElement
  <2>2. QED
    BY <1>2, <2>1
<1>4. QED
  BY <1>1, <1>2, <1>3, TakenIn

(* The places of a list are taken out from its end.                        *)
LEMMA PlacesEnd ==
    \A n \in Nat : \A T \in SUBSET (1..n) :
       /\ Cardinality(T) \in Nat /\ Cardinality(T) <= Cardinality(1..n)
       /\ T # {} => Max(T) \in T /\ Cardinality(T \ {Max(T)}) < Cardinality(T)
       /\ \A j \in T : Max(T) >= j
<1> TAKE n \in Nat
<1> TAKE T \in SUBSET (1..n)
<1>1. PICK D : D = 1..n
  OBVIOUS
<1>2. IsFiniteSet(D) /\ D \subseteq Int /\ T \in SUBSET D
  BY <1>1, FS_Interval
<1>3. IsFiniteSet(T) /\ T \subseteq Int
  BY <1>2, FS_Subset
<1>4. Cardinality(T) \in Nat /\ Cardinality(T) <= Cardinality(D) /\ \A x \in T : Cardinality(T \ {x}) < Cardinality(T)
  BY <1>2, SetEnds
<1>5. T # {} => Max(T) \in T /\ \A j \in T : Max(T) >= j
  BY <1>3, MaxIn
<1>6. QED
  BY <1>1, <1>4, <1>5

(***************************************************************************)
(* Prefixes of prompts                                                     *)
(***************************************************************************)

(* The first tokens of a prompt.                                           *)
LEMMA FirstTokens ==
    ASSUME NEW R, NEW p \in Seq(R), NEW n \in 0..Len(p)
    PROVE  /\ SubSeq(p, 1, n) \in Seq(R) /\ Len(SubSeq(p, 1, n)) = n
           /\ \A m \in 0..n : SubSeq(SubSeq(p, 1, n), 1, m) = SubSeq(p, 1, m)
           /\ SubSeq(p, 1, Len(p)) = p
           /\ SubSeq(p, 1, 0) = Root
  BY DEF Root

(* Prefixes are what IsPrefix says.                                        *)
LEMMA PrefixesAre ==
    ASSUME NEW R, NEW p \in Seq(R)
    PROVE  \A x : x \in Prefixes(p) <=> x \in Seq(R) /\ IsPrefix(x, p)
<1> TAKE x
<1>1. ASSUME x \in Prefixes(p) PROVE x \in Seq(R) /\ IsPrefix(x, p)
  <2>1. PICK n \in 0..Len(p) : x = SubSeq(p, 1, n)
    BY <1>1 DEF Prefixes
  <2>2. x \in Seq(R) /\ Len(x) = n /\ SubSeq(x, 1, n) = SubSeq(p, 1, n) /\ Len(p) \in Nat
    BY <2>1, FirstTokens
  <2>3. QED
    BY <2>2 DEF IsPrefix
<1>2. ASSUME x \in Seq(R), IsPrefix(x, p) PROVE x \in Prefixes(p)
  <2>1. Len(x) \in 0..Len(p) /\ SubSeq(x, 1, Len(x)) = SubSeq(p, 1, Len(x))
    BY <1>2 DEF IsPrefix
  <2>2. SubSeq(x, 1, Len(x)) = x
    BY <1>2, FirstTokens
  <2>3. QED
    BY <2>1, <2>2 DEF Prefixes
<1>3. QED
  BY <1>1, <1>2

(* A prompt and Root are prefixes of it, and prefixes of prefixes are      *)
(* prefixes.                                                               *)
LEMMA PrefixesNest ==
    ASSUME NEW R, NEW p \in Seq(R)
    PROVE  /\ p \in Prefixes(p) /\ Root \in Prefixes(p) /\ Prefixes(p) \subseteq Seq(R)
           /\ \A x \in Prefixes(p) : Prefixes(x) \subseteq Prefixes(p)
<1>0. Len(p) \in 0..Len(p) /\ 0 \in 0..Len(p)
  OBVIOUS
<1>1. p = SubSeq(p, 1, Len(p)) /\ Root = SubSeq(p, 1, 0)
  BY <1>0, FirstTokens
<1>2. p \in Prefixes(p) /\ Root \in Prefixes(p)
  BY <1>0, <1>1 DEF Prefixes
<1>3. Prefixes(p) \subseteq Seq(R)
  BY PrefixesAre
<1>4. ASSUME NEW x \in Prefixes(p), NEW y \in Prefixes(x) PROVE y \in Prefixes(p)
  <2>1. PICK n \in 0..Len(p) : x = SubSeq(p, 1, n)
    BY <1>4 DEF Prefixes
  <2>2. PICK m \in 0..Len(x) : y = SubSeq(x, 1, m)
    BY <1>4 DEF Prefixes
  <2>3. Len(x) = n /\ SubSeq(x, 1, m) = SubSeq(p, 1, m) /\ m \in 0..Len(p)
    BY <2>1, <2>2, FirstTokens
  <2>4. QED
    BY <2>2, <2>3 DEF Prefixes
<1>5. QED
  BY <1>2, <1>3, <1>4

(***************************************************************************)
(* Functions with a place more or less                                     *)
(***************************************************************************)

(* What an EXCEPT puts at p is With.                                       *)
LEMMA WithIsMade ==
    ASSUME NEW f, f = [x \in DOMAIN f |-> f[x]], NEW p, NEW e
    PROVE  /\ p \in DOMAIN f => [f EXCEPT ![p] = e] = With(f, p, e)
           /\ With(Without(f, p), p, e) = With(f, p, e)
<1>2. p \in DOMAIN f => [f EXCEPT ![p] = e] = With(f, p, e)
  BY DEF With
<1>3. With(Without(f, p), p, e) = With(f, p, e)
  BY DEF With, Without
<1>4. QED
  BY <1>2, <1>3

--------------------------------------------------------------------------------
(* An entry that belongs at p. *)
FitsAt(e, p) == e \in EntryType /\ e.id[1] = p /\ (e.resident \/ e.filed)

(* The entries are in place, and the nodes are those on the way to them. *)
Planted(t) ==
    /\ t = [nodes |-> t.nodes, entry |-> t.entry]
    /\ t.entry = [p \in DOMAIN t.entry |-> t.entry[p]]
    /\ IsFiniteSet(DOMAIN t.entry) /\ DOMAIN t.entry \subseteq Paths
    /\ \A p \in DOMAIN t.entry : FitsAt(t.entry[p], p)
    /\ t.nodes = {Root} \cup UNION {Prefixes(p) : p \in DOMAIN t.entry}

(* pop prunes what leads nowhere and nothing else.                         *)
LEMMA PopKeepsPlanted ==
    ASSUME NEW t, Planted(t), NEW p \in DOMAIN t.entry
    PROVE  /\ Planted(TriePop(t, p)) /\ TriePop(t, p).entry = Without(t.entry, p)
<1> DEFINE kept == Without(t.entry, p)
           bare == {n \in Prefixes(p) \ {Root} :
                      \A m \in t.nodes :
                        IsPrefix(n, m) => m \in Prefixes(p) /\ m \notin DOMAIN kept}
           u == [nodes |-> t.nodes \ bare, entry |-> kept]
           S == DOMAIN t.entry
<1>1. TriePop(t, p) = u
  BY DEF TriePop
<1>2. DOMAIN kept = S \ {p} /\ \A x \in DOMAIN kept : kept[x] = t.entry[x]
  BY DEF Without
<1>3. S \subseteq Paths /\ \A x \in S : x \in Seq(Tokens)
  BY DEF Planted, Paths
<1>4. \A n, m : n \in t.nodes /\ m \in t.nodes => n \in Seq(Tokens) /\ (IsPrefix(n, m) <=> n \in Prefixes(m))
  <2>1. \A n \in t.nodes : n \in Seq(Tokens)
    BY <1>3, PrefixesNest DEF Planted, Root
  <2>2. QED
    BY <2>1, PrefixesAre
<1>5. \A x \in S : x \in t.nodes /\ Root \in Prefixes(x) /\ x \in Prefixes(x)
                   /\ \A n \in Prefixes(x) : n \in t.nodes /\ Prefixes(n) \subseteq Prefixes(x)
  BY <1>3, PrefixesNest DEF Planted
<1>6. \A n \in t.nodes : n = Root \/ \E x \in S : n \in Prefixes(x)
  BY DEF Planted
<1>7. \A n \in bare : n \in t.nodes /\ n \in Prefixes(p) /\ n # Root
  BY <1>5
<1>8. ASSUME NEW n \in t.nodes \ bare, n # Root
      PROVE  \E x \in DOMAIN kept : n \in Prefixes(x)
  <2>1. CASE n \notin Prefixes(p)
    BY <2>1, <1>8, <1>6, <1>2
  <2>2. CASE n \in Prefixes(p)
    <3>1. PICK m \in t.nodes : IsPrefix(n, m) /\ (m \notin Prefixes(p) \/ m \in DOMAIN kept)
      BY <2>2, <1>8
    <3>2. n \in Prefixes(m)
      BY <3>1, <1>4
    <3>3. CASE m \in DOMAIN kept
      BY <3>2, <3>3
    <3>4. CASE m \notin Prefixes(p)
      <4>1. m # Root
        BY <3>4, <1>5
      <4>2. PICK x \in S : m \in Prefixes(x)
        BY <4>1, <1>6
      <4>3. x \in DOMAIN kept /\ n \in Prefixes(x)
        BY <4>2, <3>4, <3>2, <1>2, <1>5
      <4>4. QED
        BY <4>3
    <3>5. QED
      BY <3>1, <3>3, <3>4
  <2>3. QED
    BY <2>1, <2>2
<1>9. ASSUME NEW x \in DOMAIN kept, NEW n \in Prefixes(x) PROVE n \in t.nodes \ bare
  <2>1. n \in t.nodes /\ x \in t.nodes
    BY <1>9, <1>2, <1>5
  <2>2. IsPrefix(n, x)
    BY <2>1, <1>9, <1>4
  <2>3. n \notin bare
    BY <2>1, <2>2, <1>9
  <2>4. QED
    BY <2>1, <2>3
<1>10. Root \in t.nodes \ bare
  BY DEF Planted
<1>11. u.nodes = {Root} \cup UNION {Prefixes(x) : x \in DOMAIN kept}
  <2> HIDE DEF bare, kept
  <2>1. \A n : n \in t.nodes \ bare <=> n = Root \/ \E x \in DOMAIN kept : n \in Prefixes(x)
    BY <1>8, <1>9, <1>10
  <2>2. QED
    BY <2>1
<1>12. IsFiniteSet(DOMAIN kept) /\ DOMAIN kept \subseteq Paths
  <2>1. IsFiniteSet(S) /\ S \ {p} \subseteq S
    BY DEF Planted
  <2>2. QED
    BY <2>1, <1>2, <1>3, FS_Subset
<1>13. \A x \in DOMAIN kept : FitsAt(kept[x], x)
  BY <1>2 DEF Planted
<1>14. kept = [x \in DOMAIN kept |-> kept[x]]
  BY DEF Without
<1>15. u.entry = kept /\ u = [nodes |-> u.nodes, entry |-> u.entry]
  OBVIOUS
<1>16. Planted(u)
  <2> HIDE DEF u, kept, bare
  <2>1. QED
    BY <1>11, <1>12, <1>13, <1>14, <1>15 DEF Planted
<1>17. QED
  BY <1>1, <1>15, <1>16

(* add puts an entry at the end of its path.                               *)
LEMMA AddKeepsPlanted ==
    ASSUME NEW t, Planted(t), NEW p \in Paths, NEW e, FitsAt(e, p)
    PROVE  /\ Planted(TrieAdd(t, p, e)) /\ TrieAdd(t, p, e).entry = With(t.entry, p, e)
<1> DEFINE u == TrieAdd(t, p, e)
           f == With(t.entry, p, e)
<1>1. u = [nodes |-> t.nodes \cup Prefixes(p), entry |-> f]
  BY DEF TrieAdd
<1>2. DOMAIN f = DOMAIN t.entry \cup {p} /\ \A x \in DOMAIN f : f[x] = IF x = p THEN e ELSE t.entry[x]
  BY DEF With
<1>3. f = [x \in DOMAIN f |-> f[x]]
  BY DEF With
<1>4. IsFiniteSet(DOMAIN f)
  BY <1>2, FS_AddElement DEF Planted
<1>5. DOMAIN f \subseteq Paths /\ \A x \in DOMAIN f : FitsAt(f[x], x)
  BY <1>2 DEF Planted
<1> HIDE DEF f
<1>6. u.nodes = {Root} \cup UNION {Prefixes(x) : x \in DOMAIN f}
  BY <1>1, <1>2 DEF Planted
<1>7. u.entry = f /\ u = [nodes |-> u.nodes, entry |-> u.entry]
  BY <1>1
<1>8. QED
  BY <1>3, <1>4, <1>5, <1>6, <1>7 DEF Planted, f

(* Another entry at the same place.                                        *)
LEMMA SwapKeepsPlanted ==
    ASSUME NEW t, Planted(t), NEW p \in DOMAIN t.entry, NEW e, FitsAt(e, p)
    PROVE  /\ Planted([t EXCEPT !.entry[p] = e])
           /\ [t EXCEPT !.entry[p] = e].entry = With(t.entry, p, e)
<1> DEFINE f == With(t.entry, p, e)
           u == [nodes |-> t.nodes, entry |-> f]
<1>0. t = [nodes |-> t.nodes, entry |-> t.entry]
  BY DEF Planted
<1>1. [t EXCEPT !.entry[p] = e] = u
  <2>1. [t.entry EXCEPT ![p] = e] = f
    BY WithIsMade DEF Planted
  <2>2. [t EXCEPT !.entry[p] = e] = [t EXCEPT !.entry = [t.entry EXCEPT ![p] = e]]
    OBVIOUS
  <2> HIDE DEF f
  <2>3. [t EXCEPT !.entry = f] = [nodes |-> t.nodes, entry |-> f]
    BY <1>0
  <2>4. QED
    BY <2>1, <2>2, <2>3
<1>2. DOMAIN f = DOMAIN t.entry /\ \A x \in DOMAIN f : f[x] = IF x = p THEN e ELSE t.entry[x]
  BY DEF With
<1>3. f = [x \in DOMAIN f |-> f[x]]
  BY DEF With
<1>5. \A x \in DOMAIN f : FitsAt(f[x], x)
  BY <1>2 DEF Planted
<1>6. u.nodes = t.nodes /\ u.entry = f /\ u = [nodes |-> u.nodes, entry |-> u.entry]
  OBVIOUS
<1> HIDE DEF f, u
<1>8. QED
  BY <1>1, <1>2, <1>3, <1>5, <1>6 DEF Planted, f

(* An entry on the way to another one goes, and no node with it.           *)
LEMMA CoveredKeepsPlanted ==
    ASSUME NEW t, Planted(t), NEW p \in DOMAIN t.entry,
           NEW x \in CoveredBy(t, p)
    PROVE  /\ Planted([t EXCEPT !.entry = Without(@, x)]) /\ x \in DOMAIN t.entry /\ x # p
           /\ [t EXCEPT !.entry = Without(@, x)].entry = Without(t.entry, x)
<1> DEFINE f == Without(t.entry, x)
           u == [nodes |-> t.nodes, entry |-> f]
<1>1. [t EXCEPT !.entry = Without(@, x)] = u
  BY DEF Planted
<1>2. DOMAIN f = DOMAIN t.entry \ {x} /\ \A y \in DOMAIN f : f[y] = t.entry[y]
  BY DEF Without
<1>3. f = [y \in DOMAIN f |-> f[y]]
  BY DEF Without
<1>4. x \in DOMAIN t.entry /\ x # p /\ IsPrefix(x, p)
  BY DEF CoveredBy, Stored, IsStrictPrefix
<1>5. \A y \in DOMAIN f : FitsAt(f[y], y)
  BY <1>2 DEF Planted
<1>6. u.nodes = t.nodes /\ u.entry = f /\ u = [nodes |-> u.nodes, entry |-> u.entry]
  OBVIOUS
<1>7. Prefixes(x) \subseteq Prefixes(p)
  <2>1. x \in Seq(Tokens) /\ p \in Seq(Tokens)
    BY <1>4 DEF Planted, Paths
  <2>2. QED
    BY <2>1, <1>4, PrefixesAre, PrefixesNest
<1>8. IsFiniteSet(DOMAIN f)
  <2>1. IsFiniteSet(DOMAIN t.entry) /\ DOMAIN f \subseteq DOMAIN t.entry
    BY <1>2 DEF Planted
  <2>2. QED
    BY <2>1, FS_Subset
<1>9. p \in DOMAIN f /\ DOMAIN f \subseteq Paths
  BY <1>2, <1>4 DEF Planted
<1> HIDE DEF f, u
<1>10. u.nodes = {Root} \cup UNION {Prefixes(y) : y \in DOMAIN f}
  <2>1. \A n : n \in t.nodes <=> n = Root \/ \E y \in DOMAIN t.entry : n \in Prefixes(y)
    BY DEF Planted
  <2>2. \A n : n \in t.nodes <=> n = Root \/ \E y \in DOMAIN f : n \in Prefixes(y)
    BY <2>1, <1>2, <1>7, <1>9
  <2>3. QED
    BY <2>2, <1>6
<1>11. QED
  BY <1>1, <1>3, <1>4, <1>5, <1>6, <1>8, <1>9, <1>10 DEF Planted, f

(***************************************************************************)
(* The recency lists and the accounts                                      *)
(***************************************************************************)

(* A sum of naturals is one, and is what a place adds to the sum of the    *)
(* others.                                                                 *)
LEMMA TotalSplits ==
    ASSUME NEW S, IsFiniteSet(S), NEW h \in [S -> Nat]
    PROVE  /\ SumFunction(h) \in Nat
           /\ S = {} => SumFunction(h) = 0
           /\ \A p \in S : /\ SumFunction(h) = h[p] + SumFunction([x \in S \ {p} |-> h[x]])
                           /\ SumFunction([x \in S \ {p} |-> h[x]]) \in Nat
<1>1. DOMAIN h = S /\ \A x \in S : h[x] \in Nat /\ h[x] \in Int
  OBVIOUS
<1>2. SumFunction(h) = SumFunctionOnSet(h, S)
  BY <1>1 DEF SumFunction
<1>3. \A T \in SUBSET S : SumFunctionOnSet(h, T) \in Nat
  BY <1>1, SumSubset
<1>4. S = {} => SumFunction(h) = 0
  BY <1>2, SumEmpty
<1>5. ASSUME NEW p \in S
      PROVE  /\ SumFunction(h) = h[p] + SumFunction([x \in S \ {p} |-> h[x]])
             /\ SumFunction([x \in S \ {p} |-> h[x]]) \in Nat
  <2> DEFINE T == S \ {p}
             g == [x \in T |-> h[x]]
  <2>1. SumFunctionOnSet(h, S) = h[p] + SumFunctionOnSet(h, S \ {p})
    BY <1>1, SumRemove
  <2>2. IsFiniteSet(T) /\ T \subseteq S
    BY FS_Subset
  <2>3. SumFunction(g) = SumFunctionOnSet(g, T)
    BY DEF SumFunction
  <2>4. \A x \in T : h[x] \in Int /\ g[x] = h[x]
    BY <1>1
  <2> HIDE DEF g
  <2>5. SumFunctionOnSet(h, T) = SumFunctionOnSet(g, T)
    BY <2>2, <2>4, SumAgree
  <2>6. QED
    BY <1>2, <1>3, <2>1, <2>2, <2>3, <2>5 DEF g
<1>6. QED
  BY <1>2, <1>3, <1>4, <1>5

(* The paths of a type. *)
Typed(f, t) == {p \in DOMAIN f : f[p].type = t}

(* Every list has the paths of its type, each once. *)
Listed(f, o) ==
    /\ o = [t \in CacheTypes |-> o[t]]
    /\ \A t \in CacheTypes : o[t] \in Seq(Paths) /\ Once(o[t]) /\ ToSet(o[t]) = Typed(f, t)

(* The bytes of the entries at S. *)
Weight(f, S) == SumFunction([p \in S |-> Nbytes(f[p])])

(* The accounts have the bytes of all entries, and of those of a type. *)
Weighed(f, b, bo) ==
    /\ b = Weight(f, DOMAIN f)
    /\ bo = [t \in CacheTypes |-> Weight(f, Typed(f, t))]

(* The entries are in place, whatever the nodes are. *)
Placed(f) ==
    /\ f = [p \in DOMAIN f |-> f[p]]
    /\ IsFiniteSet(DOMAIN f) /\ DOMAIN f \subseteq Paths
    /\ \A p \in DOMAIN f : FitsAt(f[p], p)

(* In a trie they are.                                                     *)
LEMMA PlantedIsPlaced == ASSUME NEW t, Planted(t) PROVE Placed(t.entry)
  BY DEF Planted, Placed

(* Without a place, the others are as they were.                           *)
LEMMA WithoutIs ==
    \A f, p : /\ DOMAIN Without(f, p) = DOMAIN f \ {p}
              /\ \A x \in DOMAIN f : x # p => Without(f, p)[x] = f[x]
              /\ Without(f, p) = [x \in DOMAIN Without(f, p) |-> Without(f, p)[x]]
  BY DEF Without

(* Both keep the entries in their places.                                  *)
LEMMA WithKeepsPlaced ==
    ASSUME NEW f, Placed(f), NEW p \in Paths, NEW e, FitsAt(e, p)
    PROVE  Placed(With(f, p, e))
<1>1. /\ DOMAIN With(f, p, e) = DOMAIN f \cup {p}
      /\ With(f, p, e)[p] = e
      /\ \A x \in DOMAIN f : x # p => With(f, p, e)[x] = f[x]
      /\ With(f, p, e) = [x \in DOMAIN With(f, p, e) |-> With(f, p, e)[x]]
  BY DEF With
<1>2. IsFiniteSet(DOMAIN f \cup {p})
  BY FS_AddElement DEF Placed
<1>3. QED
  BY <1>1, <1>2 DEF Placed

(* and taking one out.                                                     *)
LEMMA WithoutKeepsPlaced ==
    ASSUME NEW f, Placed(f), NEW p
    PROVE  Placed(Without(f, p))
<1>1. /\ DOMAIN Without(f, p) = DOMAIN f \ {p}
      /\ \A x \in DOMAIN f : x # p => Without(f, p)[x] = f[x]
      /\ Without(f, p) = [x \in DOMAIN Without(f, p) |-> Without(f, p)[x]]
  BY WithoutIs
<1>2. IsFiniteSet(DOMAIN f \ {p})
  BY FS_Subset DEF Placed
<1>3. QED
  BY <1>1, <1>2 DEF Placed

(* CacheOrder.remove takes the path out of the list of its type.           *)
LEMMA RemoveKeepsListed ==
    ASSUME NEW f, Placed(f), NEW o, Listed(f, o), NEW p
    PROVE  Listed(Without(f, p), OrderRemove(o, p))
<1> DEFINE g == Without(f, p)
           r == OrderRemove(o, p)
<1>1. r = [t \in CacheTypes |-> r[t]] /\ \A t \in CacheTypes : r[t] = Only(o[t], ToSet(o[t]) \ {p})
  BY DEF OrderRemove
<1>0. DOMAIN g = DOMAIN f \ {p} /\ \A x \in DOMAIN f : x # p => g[x] = f[x]
  BY WithoutIs
<1>2. \A t \in CacheTypes : Typed(g, t) = Typed(f, t) \ {p}
  BY <1>0 DEF Typed
<1> HIDE DEF r, g
<1>3. ASSUME NEW t \in CacheTypes
      PROVE  r[t] \in Seq(Paths) /\ Once(r[t]) /\ ToSet(r[t]) = Typed(g, t)
  <2>1. o[t] \in Seq(Paths) /\ Once(o[t]) /\ ToSet(o[t]) = Typed(f, t)
    BY DEF Listed
  <2>2. /\ Only(o[t], ToSet(o[t]) \ {p}) \in Seq(Paths) /\ Once(Only(o[t], ToSet(o[t]) \ {p}))
        /\ ToSet(Only(o[t], ToSet(o[t]) \ {p})) = ToSet(o[t]) \cap (ToSet(o[t]) \ {p})
    BY <2>1, OnlyEffect
  <2>3. ToSet(o[t]) \cap (ToSet(o[t]) \ {p}) = Typed(g, t)
    BY <1>2, <2>1
  <2>4. QED
    BY <1>1, <2>2, <2>3
<1>4. QED
  BY <1>1, <1>3 DEF Listed, r, g

(* Taking the first path of a list takes out its entry.                    *)
LEMMA TailKeepsListed ==
    ASSUME NEW f, Placed(f), NEW o, Listed(f, o), NEW type \in CacheTypes, o[type] # <<>>
    PROVE  /\ Head(o[type]) \in DOMAIN f /\ f[Head(o[type])].type = type
           /\ Listed(Without(f, Head(o[type])), [o EXCEPT ![type] = Tail(@)])
<1> DEFINE p == Head(o[type])
           g == Without(f, p)
           r == [o EXCEPT ![type] = Tail(@)]
<1>0. o = [t \in CacheTypes |-> o[t]] /\ o[type] \in Seq(Paths) /\ Once(o[type]) /\ ToSet(o[type]) = Typed(f, type)
  BY DEF Listed
<1>1. /\ p \in Typed(f, type) /\ Tail(o[type]) \in Seq(Paths) /\ Once(Tail(o[type]))
      /\ ToSet(Tail(o[type])) = Typed(f, type) \ {p}
  BY <1>0, TailOnce
<1>2. r = [t \in CacheTypes |-> r[t]]
      /\ \A t \in CacheTypes : r[t] = IF t = type THEN Tail(o[t]) ELSE o[t]
  BY <1>0
<1> HIDE DEF r, p
<1>3. p \in DOMAIN f /\ f[p].type = type
  BY <1>1 DEF Typed
<1>8. DOMAIN g = DOMAIN f \ {p} /\ \A x \in DOMAIN f : x # p => g[x] = f[x]
  BY WithoutIs
<1> HIDE DEF g
<1>4. \A t \in CacheTypes : Typed(g, t) = IF t = type THEN Typed(f, t) \ {p} ELSE Typed(f, t)
  <2>1. Typed(g, type) = Typed(f, type) \ {p}
    BY <1>3, <1>8 DEF Typed
  <2>2. \A t \in CacheTypes : t # type => Typed(g, t) = Typed(f, t)
    BY <1>3, <1>8 DEF Typed
  <2>3. QED
    BY <2>1, <2>2
<1> HIDE DEF g
<1>5. \A t \in CacheTypes : r[t] \in Seq(Paths) /\ Once(r[t]) /\ ToSet(r[t]) = Typed(g, t)
  BY <1>1, <1>2, <1>4 DEF Listed
<1>6. QED
  BY <1>2, <1>3, <1>5 DEF Listed, p, g, r

(* A new path is appended to the list of its type.                         *)
LEMMA AppendKeepsListed ==
    ASSUME NEW f, Placed(f), NEW o, Listed(f, o), NEW p \in Paths, p \notin DOMAIN f,
           NEW e, FitsAt(e, p)
    PROVE  Listed(With(f, p, e), [o EXCEPT ![e.type] = Append(@, p)])
<1> DEFINE g == With(f, p, e)
           r == [o EXCEPT ![e.type] = Append(@, p)]
<1>0. o = [t \in CacheTypes |-> o[t]] /\ e.type \in CacheTypes
  BY DEF Listed, FitsAt, EntryType
<1>1. o[e.type] \in Seq(Paths) /\ Once(o[e.type]) /\ ToSet(o[e.type]) = Typed(f, e.type)
  BY <1>0 DEF Listed
<1>2. /\ Append(o[e.type], p) \in Seq(Paths) /\ Once(Append(o[e.type], p))
      /\ ToSet(Append(o[e.type], p)) = Typed(f, e.type) \cup {p}
  <2>1. p \notin Typed(f, e.type)
    BY DEF Typed
  <2>2. QED
    BY <2>1, <1>1, AppendOnce
<1>3. r = [t \in CacheTypes |-> r[t]]
      /\ \A t \in CacheTypes : r[t] = IF t = e.type THEN Append(o[t], p) ELSE o[t]
  BY <1>0
<1> HIDE DEF r
<1>8. DOMAIN g = DOMAIN f \cup {p} /\ g[p] = e /\ (\A x \in DOMAIN f : x # p => g[x] = f[x])
  BY DEF With
<1> HIDE DEF g
<1>4. \A t \in CacheTypes : Typed(g, t) = IF t = e.type THEN Typed(f, t) \cup {p} ELSE Typed(f, t)
  <2>1. Typed(g, e.type) = Typed(f, e.type) \cup {p}
    BY <1>8 DEF Typed
  <2>2. \A t \in CacheTypes : t # e.type => Typed(g, t) = Typed(f, t)
    BY <1>8 DEF Typed
  <2>3. QED
    BY <2>1, <2>2
<1> HIDE DEF g
<1>5. \A t \in CacheTypes : r[t] \in Seq(Paths) /\ Once(r[t]) /\ ToSet(r[t]) = Typed(g, t)
  BY <1>2, <1>3, <1>4 DEF Listed
<1>6. QED
  BY <1>3, <1>5 DEF Listed, g, r

(* An entry of the same type in the same place leaves the lists alone.     *)
LEMMA SwapKeepsListed ==
    ASSUME NEW f, Placed(f), NEW o, Listed(f, o), NEW p \in DOMAIN f,
           NEW e, FitsAt(e, p), e.type = f[p].type
    PROVE  Listed(With(f, p, e), o)
<1> DEFINE g == With(f, p, e)
<1>1. DOMAIN g = DOMAIN f /\ g[p] = e /\ (\A x \in DOMAIN f : x # p => g[x] = f[x])
  BY DEF With
<1> HIDE DEF g
<1>2. \A t \in CacheTypes : Typed(g, t) = Typed(f, t)
  BY <1>1 DEF Typed
<1>3. QED
  BY <1>2 DEF Listed, g

(* Sets that share nothing add up.                                         *)
LEMMA DisjointUnion ==
    ASSUME NEW S, NEW T, IsFiniteSet(S), IsFiniteSet(T), S \cap T = {}
    PROVE  IsFiniteSet(S \cup T) /\ Cardinality(S \cup T) = Cardinality(S) + Cardinality(T)
<1>1. Cardinality(S \cap T) = 0
  BY FS_EmptySet
<1>2. IsFiniteSet(S \cup T) /\ Cardinality(S \cup T) = Cardinality(S) + Cardinality(T) - Cardinality(S \cap T)
  BY FS_Union
<1>3. Cardinality(S) \in Nat /\ Cardinality(T) \in Nat
  BY FS_CardinalityType
<1>4. QED
  BY <1>1, <1>2, <1>3

(* The number of listed paths is the number of entries.                    *)
LEMMA ListedCount ==
    ASSUME NEW f, Placed(f), NEW o, Listed(f, o)
    PROVE  /\ OrderLen(o) = Cardinality(DOMAIN f) /\ OrderLen(o) \in Nat
           /\ \A t \in CacheTypes : Len(o[t]) \in Nat /\ (Len(o[t]) = 0 <=> o[t] = <<>>)
<1> DEFINE S(t) == ToSet(o[t])
<1>1. \A t \in CacheTypes : /\ IsFiniteSet(S(t)) /\ Cardinality(S(t)) = Len(o[t]) /\ Len(o[t]) \in Nat
                            /\ S(t) = Typed(f, t)
                            /\ (Len(o[t]) = 0 <=> o[t] = <<>>)
  <2> TAKE t \in CacheTypes
  <2>1. o[t] \in Seq(Paths) /\ Once(o[t]) /\ ToSet(o[t]) = Typed(f, t)
    BY DEF Listed
  <2>2. QED
    BY <2>1, OnceCount
<1> DEFINE A == S("assistant")
           U == S("user")
           Y == S("system")
<1>2. CacheTypes = {"assistant", "user", "system"}
  BY DEF CacheTypes
<1>3. \A p \in DOMAIN f : f[p].type \in CacheTypes
  BY DEF Placed, FitsAt, EntryType
<1>4. A = Typed(f, "assistant") /\ U = Typed(f, "user") /\ Y = Typed(f, "system")
  BY <1>1, <1>2
<1>5. /\ IsFiniteSet(A) /\ IsFiniteSet(U) /\ IsFiniteSet(Y)
      /\ Cardinality(A) = Len(o["assistant"]) /\ Len(o["assistant"]) \in Nat
      /\ Cardinality(U) = Len(o["user"]) /\ Len(o["user"]) \in Nat
      /\ Cardinality(Y) = Len(o["system"]) /\ Len(o["system"]) \in Nat
  BY <1>1, <1>2
<1> HIDE DEF A, U, Y
<1>6. DOMAIN f = A \cup (U \cup Y) /\ U \cap Y = {} /\ A \cap (U \cup Y) = {}
  <2>1. \A p \in DOMAIN f : f[p].type = "assistant" \/ f[p].type = "user" \/ f[p].type = "system"
    BY <1>2, <1>3
  <2>2. \A p : /\ p \in A <=> p \in DOMAIN f /\ f[p].type = "assistant"
               /\ p \in U <=> p \in DOMAIN f /\ f[p].type = "user"
               /\ p \in Y <=> p \in DOMAIN f /\ f[p].type = "system"
    BY <1>4 DEF Typed
  <2>3. \A p : ~(p \in U /\ p \in Y) /\ ~(p \in A /\ (p \in U \/ p \in Y))
    BY <2>2
  <2>4. DOMAIN f = A \cup (U \cup Y)
    BY <2>1, <2>2
  <2>5. QED
    BY <2>3, <2>4
<1>7. IsFiniteSet(U \cup Y) /\ Cardinality(U \cup Y) = Cardinality(U) + Cardinality(Y)
  BY <1>5, <1>6, DisjointUnion
<1>11. Cardinality(A \cup (U \cup Y)) = Cardinality(A) + Cardinality(U \cup Y)
  <2>1. PICK W : W = U \cup Y
    OBVIOUS
  <2>2. IsFiniteSet(A) /\ IsFiniteSet(W) /\ A \cap W = {}
    BY <2>1, <1>5, <1>6, <1>7
  <2>3. Cardinality(A \cup W) = Cardinality(A) + Cardinality(W)
    BY <2>2, DisjointUnion
  <2>4. QED
    BY <2>1, <2>3
<1>12. Cardinality(DOMAIN f) = Cardinality(A) + (Cardinality(U) + Cardinality(Y))
  <2>1. Cardinality(DOMAIN f) = Cardinality(A \cup (U \cup Y))
    BY <1>6, Zenon
  <2>2. QED
    BY <2>1, <1>7, <1>11
<1>14. Cardinality(A) \in Nat /\ Cardinality(U) \in Nat /\ Cardinality(Y) \in Nat
  BY <1>5
<1>13. OrderLen(o) = Cardinality(A) + (Cardinality(U) + Cardinality(Y))
  <2>2. OrderLen(o) = Cardinality(A) + Cardinality(U) + Cardinality(Y)
    BY <1>5, Zenon DEF OrderLen
  <2>3. QED
    BY <1>14, <2>2
<1>8. Cardinality(DOMAIN f) = OrderLen(o)
  BY <1>12, <1>13
<1>9. OrderLen(o) \in Nat
  BY <1>13, <1>14
<1>10. QED
  BY <1>1, <1>8, <1>9

--------------------------------------------------------------------------------
(* An entry weighs its bytes.                                              *)
LEMMA EntryWeighs == ASSUME NEW e \in EntryType PROVE Nbytes(e) \in Nat /\ e.size \in Nat /\ e.type \in CacheTypes
  BY DEF EntryType, Nbytes

(* The bytes at some of the places.                                        *)
LEMMA WeightSplits ==
    ASSUME NEW f, Placed(f), NEW S, S \subseteq DOMAIN f
    PROVE  /\ IsFiniteSet(S) /\ Weight(f, S) \in Nat
           /\ S = {} => Weight(f, S) = 0
           /\ \A p \in S : Weight(f, S) = Nbytes(f[p]) + Weight(f, S \ {p}) /\ Weight(f, S \ {p}) \in Nat
<1> DEFINE h == [p \in S |-> Nbytes(f[p])]
<1>1. IsFiniteSet(S)
  BY FS_Subset DEF Placed
<1>2. h \in [S -> Nat]
  <2>1. \A p \in S : Nbytes(f[p]) \in Nat
    BY EntryWeighs DEF Placed, FitsAt
  <2>2. QED
    BY <2>1
<1>3. Weight(f, S) = SumFunction(h)
  BY DEF Weight
<1>4. \A p \in S : [x \in S \ {p} |-> h[x]] = [x \in S \ {p} |-> Nbytes(f[x])] /\ h[p] = Nbytes(f[p])
  OBVIOUS
<1>5. \A p \in S : Weight(f, S \ {p}) = SumFunction([x \in S \ {p} |-> h[x]])
  BY <1>4 DEF Weight
<1> HIDE DEF h
<1>6. /\ SumFunction(h) \in Nat
      /\ S = {} => SumFunction(h) = 0
      /\ \A p \in S : /\ SumFunction(h) = h[p] + SumFunction([x \in S \ {p} |-> h[x]])
                      /\ SumFunction([x \in S \ {p} |-> h[x]]) \in Nat
  BY <1>1, <1>2, TotalSplits
<1>7. QED
  BY <1>1, <1>3, <1>4, <1>5, <1>6

(* They depend on the entries there and on no other.                       *)
LEMMA WeightAgrees ==
    ASSUME NEW f, NEW g, NEW S, \A p \in S : g[p] = f[p]
    PROVE  Weight(g, S) = Weight(f, S)
<1>1. [p \in S |-> Nbytes(g[p])] = [p \in S |-> Nbytes(f[p])]
  OBVIOUS
<1>2. QED
  BY <1>1 DEF Weight

(* The accounts, with an entry less                                        *)
LEMMA UncountKeepsWeighed ==
    ASSUME NEW f, Placed(f), NEW b, NEW bo, Weighed(f, b, bo), NEW p \in DOMAIN f
    PROVE  /\ Weighed(Without(f, p), b - Nbytes(f[p]),
                      [bo EXCEPT ![f[p].type] = @ - Nbytes(f[p])])
           /\ b \in Nat /\ b - Nbytes(f[p]) \in Nat
<1> DEFINE g == Without(f, p)
           n == Nbytes(f[p])
           ty == f[p].type
<1>1. n \in Nat /\ ty \in CacheTypes
  BY EntryWeighs DEF Placed, FitsAt
<1>2. DOMAIN g = DOMAIN f \ {p} /\ \A x \in DOMAIN f : x # p => g[x] = f[x]
  BY WithoutIs
<1>3. Typed(g, ty) = Typed(f, ty) \ {p} /\ p \in Typed(f, ty)
  BY <1>2 DEF Typed
<1>4. \A t \in CacheTypes : t # ty => Typed(g, t) = Typed(f, t)
  BY <1>2 DEF Typed
<1>5. \A t \in CacheTypes : Typed(f, t) \subseteq DOMAIN f /\ \A x \in Typed(g, t) : g[x] = f[x]
  BY <1>2 DEF Typed
<1> HIDE DEF g, n, ty
<1>6. /\ Weight(f, DOMAIN f) = n + Weight(f, DOMAIN g) /\ Weight(f, DOMAIN g) \in Nat
      /\ Weight(g, DOMAIN g) = Weight(f, DOMAIN g)
      /\ Weight(f, DOMAIN f) \in Nat
  <2>1. \A x \in DOMAIN g : g[x] = f[x]
    BY <1>2
  <2>2. Weight(g, DOMAIN g) = Weight(f, DOMAIN g)
    BY <2>1, WeightAgrees
  <2>3. QED
    BY <2>2, <1>2, WeightSplits DEF n
<1>7. /\ Weight(f, Typed(f, ty)) = n + Weight(f, Typed(g, ty)) /\ Weight(f, Typed(g, ty)) \in Nat
      /\ Weight(g, Typed(g, ty)) = Weight(f, Typed(g, ty))
  <2>1. Weight(g, Typed(g, ty)) = Weight(f, Typed(g, ty))
    BY <1>1, <1>5, WeightAgrees
  <2>2. QED
    BY <2>1, <1>1, <1>3, <1>5, WeightSplits DEF n
<1>8. \A t \in CacheTypes : t # ty => Weight(g, Typed(g, t)) = Weight(f, Typed(f, t))
  BY <1>4, <1>5, WeightAgrees
<1>9. b = Weight(f, DOMAIN f) /\ bo = [t \in CacheTypes |-> Weight(f, Typed(f, t))]
  BY DEF Weighed
<1>10. [bo EXCEPT ![ty] = @ - n] = [t \in CacheTypes |-> Weight(g, Typed(g, t))]
  <2>1. [bo EXCEPT ![ty] = @ - n] = [t \in CacheTypes |-> IF t = ty THEN bo[t] - n ELSE bo[t]]
    BY <1>1, <1>9
  <2>2. \A t \in CacheTypes : (IF t = ty THEN bo[t] - n ELSE bo[t]) = Weight(g, Typed(g, t))
    BY <1>1, <1>7, <1>8, <1>9
  <2>3. QED
    BY <2>1, <2>2
<1>11. b - n = Weight(g, DOMAIN g) /\ b - n \in Nat /\ b \in Nat
  BY <1>1, <1>6, <1>9
<1>12. QED
  BY <1>10, <1>11 DEF Weighed, g, n, ty

(* and with one more.                                                      *)
LEMMA CountKeepsWeighed ==
    ASSUME NEW f, Placed(f), NEW b, NEW bo, Weighed(f, b, bo), NEW p \in Paths, p \notin DOMAIN f,
           NEW e, FitsAt(e, p)
    PROVE  /\ Weighed(With(f, p, e), b + Nbytes(e), [bo EXCEPT ![e.type] = @ + Nbytes(e)])
           /\ b \in Nat
<1> DEFINE g == With(f, p, e)
           n == Nbytes(e)
           ty == e.type
<1>1. n \in Nat /\ ty \in CacheTypes
  BY EntryWeighs DEF FitsAt
<1>0. Placed(g)
  BY WithKeepsPlaced
<1>2. DOMAIN g = DOMAIN f \cup {p} /\ g[p] = e /\ (\A x \in DOMAIN f : x # p => g[x] = f[x]) /\ Placed(g)
  BY <1>0 DEF With
<1>3. Typed(g, ty) = Typed(f, ty) \cup {p} /\ Typed(g, ty) \ {p} = Typed(f, ty)
  BY <1>2 DEF Typed
<1>4. \A t \in CacheTypes : t # ty => Typed(g, t) = Typed(f, t)
  BY <1>2 DEF Typed
<1>5. \A t \in CacheTypes : Typed(g, t) \subseteq DOMAIN g /\ \A x \in Typed(f, t) : g[x] = f[x]
  BY <1>2 DEF Typed
<1> HIDE DEF g, n, ty
<1>6. /\ Weight(g, DOMAIN g) = n + Weight(g, DOMAIN f) /\ Weight(g, DOMAIN f) \in Nat
      /\ Weight(g, DOMAIN f) = Weight(f, DOMAIN f)
  <2>1. \A x \in DOMAIN f : g[x] = f[x]
    BY <1>2
  <2>2. Weight(g, DOMAIN f) = Weight(f, DOMAIN f)
    BY <2>1, WeightAgrees
  <2>3. p \in DOMAIN g /\ DOMAIN g \ {p} = DOMAIN f
    BY <1>2
  <2>4. QED
    BY <2>2, <2>3, <1>2, WeightSplits DEF n
<1>7. /\ Weight(g, Typed(g, ty)) = n + Weight(g, Typed(f, ty)) /\ Weight(g, Typed(f, ty)) \in Nat
      /\ Weight(g, Typed(f, ty)) = Weight(f, Typed(f, ty))
  <2>1. Weight(g, Typed(f, ty)) = Weight(f, Typed(f, ty))
    BY <1>1, <1>5, WeightAgrees
  <2>2. p \in Typed(g, ty) /\ Typed(g, ty) \subseteq DOMAIN g
    BY <1>1, <1>3, <1>5
  <2>3. QED
    BY <2>1, <2>2, <1>2, <1>3, WeightSplits DEF n
<1>8. \A t \in CacheTypes : t # ty => Weight(g, Typed(g, t)) = Weight(f, Typed(f, t))
  BY <1>4, <1>5, WeightAgrees
<1>9. b = Weight(f, DOMAIN f) /\ bo = [t \in CacheTypes |-> Weight(f, Typed(f, t))]
  BY DEF Weighed
<1>10. [bo EXCEPT ![ty] = @ + n] = [t \in CacheTypes |-> Weight(g, Typed(g, t))]
  <2>1. [bo EXCEPT ![ty] = @ + n] = [t \in CacheTypes |-> IF t = ty THEN bo[t] + n ELSE bo[t]]
    BY <1>1, <1>9
  <2>2. \A t \in CacheTypes : (IF t = ty THEN bo[t] + n ELSE bo[t]) = Weight(g, Typed(g, t))
    BY <1>1, <1>7, <1>8, <1>9
  <2>3. QED
    BY <2>1, <2>2
<1>11. b + n = Weight(g, DOMAIN g) /\ b \in Nat
  BY <1>1, <1>6, <1>9
<1>12. QED
  BY <1>10, <1>11 DEF Weighed, g, n, ty

(***************************************************************************)
(* Files and owners                                                        *)
(***************************************************************************)

(* Entries that are told apart by their names. *)
Apart(all) ==
    /\ IsFiniteSet(all) /\ all \subseteq EntryType
    /\ \A e, f \in all : e.id = f.id => e = f

Filed(all) == {e \in all : e.filed}

(* The tier has the files of the entries that are filed, and counts them. *)
Stocked(files, disk, all) ==
    /\ files = {e.id : e \in Filed(all)}
    /\ disk = SumFunction([e \in Filed(all) |-> e.size])

Live(e) == e.resident /\ e.frozen
OwnerType == [valid : BOOLEAN, pins : Nat, held : BOOLEAN]

(* A source is valid while a live entry has it, held while it is valid or  *)
(* pinned, and pinned before the entry leaves the device only.             *)
Owned(owner, all) ==
    /\ owner \in [Ids -> OwnerType]
    /\ \A i \in Ids : /\ owner[i].held <=> owner[i].valid \/ owner[i].pins > 0
                      /\ owner[i].valid <=> \E e \in all : e.id = i /\ Live(e)
    /\ \A e \in all : ~Live(e) => owner[e.id].pins = 0

(* Entries less one, and with another one.                                 *)
LEMMA ApartLess == ASSUME NEW all, Apart(all), NEW e PROVE Apart(all \ {e})
<1>1. IsFiniteSet(all \ {e})
  BY FS_Subset DEF Apart
<1>2. QED
  BY <1>1 DEF Apart

(* One more entry with a new name.                                         *)
LEMMA ApartMore ==
    ASSUME NEW all, Apart(all), NEW f \in EntryType, \A e \in all : e.id # f.id
    PROVE  Apart(all \cup {f})
<1>1. IsFiniteSet(all \cup {f})
  BY FS_AddElement DEF Apart
<1>2. all \cup {f} \subseteq EntryType
  BY DEF Apart
<1>3. \A a, b \in all \cup {f} : a.id = b.id => a = b
  BY DEF Apart
<1>4. QED
  BY <1>1, <1>2, <1>3 DEF Apart

(* A sum over files splits at one of them.                                 *)
LEMMA FilesSplit ==
    ASSUME NEW all, Apart(all), NEW e \in all, e.filed
    PROVE  /\ SumFunction([x \in Filed(all) |-> x.size]) =
                e.size + SumFunction([x \in Filed(all \ {e}) |-> x.size])
           /\ SumFunction([x \in Filed(all \ {e}) |-> x.size]) \in Nat /\ e.size \in Nat
<1> DEFINE S == Filed(all)
           h == [x \in S |-> x.size]
           g == [x \in S \ {e} |-> h[x]]
<1>1. IsFiniteSet(S) /\ S \subseteq all
  BY FS_Subset DEF Filed, Apart
<1>2. h \in [S -> Nat] /\ e \in S
  <2>1. \A x \in S : x.size \in Nat
    BY DEF Filed, Apart, EntryType
  <2>2. QED
    BY <2>1 DEF Filed
<1>3. S \ {e} = Filed(all \ {e})
  BY DEF Filed
<1>4. g = [x \in Filed(all \ {e}) |-> x.size]
  <2>1. g = [x \in S \ {e} |-> x.size]
    OBVIOUS
  <2>2. QED
    BY <2>1, <1>3
<1>5. h[e] = e.size /\ h[e] \in Nat
  BY <1>2
<1> HIDE DEF g
<1>6. SumFunction(h) = h[e] + SumFunction(g) /\ SumFunction(g) \in Nat
  <2> HIDE DEF h
  <2>1. QED
    BY <1>1, <1>2, TotalSplits DEF g
<1>7. QED
  BY <1>4, <1>5, <1>6

(* An entry gone with its files                                            *)
LEMMA StockLess ==
    ASSUME NEW all, Apart(all), NEW F, NEW D, Stocked(F, D, all), NEW e \in all
    PROVE  /\ Stocked(IF e.filed THEN F \ {e.id} ELSE F,
                      IF e.filed THEN Max({0, D - e.size}) ELSE D, all \ {e})
           /\ D \in Nat /\ (e.filed => D >= e.size /\ Max({0, D - e.size}) = D - e.size)
           /\ e.size \in Nat
<1> DEFINE rest == all \ {e}
           E == SumFunction([x \in Filed(rest) |-> x.size])
<1>0. e.size \in Nat /\ D \in Nat
  <2>1. IsFiniteSet(Filed(all))
    BY FS_Subset DEF Filed, Apart
  <2>2. [x \in Filed(all) |-> x.size] \in [Filed(all) -> Nat]
    <3>1. \A x \in Filed(all) : x.size \in Nat
      BY DEF Filed, Apart, EntryType
    <3>2. QED
      BY <3>1
  <2>3. D \in Nat
    BY <2>1, <2>2, TotalSplits DEF Stocked
  <2>4. QED
    BY <2>3 DEF Apart, EntryType
<1>1. CASE e.filed
  <2>1. D = e.size + E /\ E \in Nat
    BY <1>1, FilesSplit DEF Stocked
  <2> HIDE DEF E
  <2>2. Max({0, D - e.size}) = D - e.size
    <3> DEFINE a == D - e.size
    <3>1. a \in Nat
      BY <2>1, <1>0
    <3> HIDE DEF a
    <3>5. IsFiniteSet({0, a})
      BY PairIsFinite, Zenon
    <3>2. {0, a} \subseteq Int /\ {0, a} # {}
      BY <3>1
    <3>3. Max({0, a}) \in {0, a} /\ \A y \in {0, a} : Max({0, a}) >= y
      BY <3>2, <3>5, MaxIn
    <3>4. Max({0, a}) = a
      BY <3>1, <3>3
    <3>6. QED
      BY <3>4 DEF a
  <2>3. {x.id : x \in Filed(rest)} = F \ {e.id}
    <3>1. F = {x.id : x \in Filed(all)}
      BY DEF Stocked
    <3>2. \A x \in Filed(all) : x.id = e.id => x = e
      BY DEF Filed, Apart
    <3>3. \A x : x \in Filed(rest) <=> x \in Filed(all) /\ x # e
      BY DEF Filed
    <3>4. \A i : i \in {x.id : x \in Filed(rest)} <=> i \in F \ {e.id}
      BY <3>1, <3>2, <3>3
    <3>5. QED
      BY <3>4
  <2>4. Stocked(F \ {e.id}, D - e.size, rest)
    <3>1. D - e.size = E
      BY <2>1, <1>0
    <3>2. QED
      BY <2>3, <3>1 DEF Stocked, E
  <2>5. QED
    BY <1>1, <2>1, <2>2, <2>4, <1>0
<1>2. CASE ~e.filed
  <2>1. Filed(rest) = Filed(all)
    BY <1>2 DEF Filed
  <2>2. QED
    BY <1>0, <1>2, <2>1 DEF Stocked
<1>3. QED
  BY <1>1, <1>2

(* and an entry more, with its files.                                      *)
LEMMA StockMore ==
    ASSUME NEW all, Apart(all), NEW F, NEW D, Stocked(F, D, all),
           NEW f \in EntryType, \A e \in all : e.id # f.id,
           NEW F2, F2 = (IF f.filed THEN F \cup {f.id} ELSE F),
           NEW D2, D2 = (IF f.filed THEN D + f.size ELSE D)
    PROVE  Stocked(F2, D2, all \cup {f})
<1> DEFINE more == all \cup {f}
<1>0. Apart(more) /\ f \notin all /\ more \ {f} = all
  BY ApartMore
<1>1. CASE f.filed
  <2>1. SumFunction([x \in Filed(more) |-> x.size]) =
                f.size + SumFunction([x \in Filed(all) |-> x.size])
        /\ SumFunction([x \in Filed(all) |-> x.size]) \in Nat /\ f.size \in Nat
    <3>1. \A r : r = more \ {f} =>
               /\ SumFunction([x \in Filed(more) |-> x.size]) = f.size + SumFunction([x \in Filed(r) |-> x.size])
               /\ SumFunction([x \in Filed(r) |-> x.size]) \in Nat /\ f.size \in Nat
      BY <1>0, <1>1, FilesSplit
    <3>2. QED
      BY <3>1, <1>0
  <2>2. D = SumFunction([x \in Filed(all) |-> x.size])
    BY DEF Stocked
  <2>3. {x.id : x \in Filed(more)} = F \cup {f.id}
    <3>1. F = {x.id : x \in Filed(all)}
      BY DEF Stocked
    <3>2. \A x : x \in Filed(more) <=> x \in Filed(all) \/ x = f
      BY <1>1 DEF Filed
    <3>3. \A i : i \in {x.id : x \in Filed(more)} <=> i \in F \cup {f.id}
      BY <3>1, <3>2
    <3>4. QED
      BY <3>3
  <2>4. D + f.size = SumFunction([x \in Filed(more) |-> x.size])
    BY <2>1, <2>2
  <2>5. QED
    BY <1>1, <2>3, <2>4 DEF Stocked
<1>2. CASE ~f.filed
  <2>1. Filed(more) = Filed(all)
    BY <1>2 DEF Filed
  <2>2. QED
    BY <1>2, <2>1 DEF Stocked
<1>3. QED
  BY <1>1, <1>2

(* What invalidate leaves of an owner. *)
Revoked(o) == [valid |-> FALSE, pins |-> o.pins, held |-> o.held /\ o.pins > 0]

(* A live entry that goes revokes its source                               *)
LEMMA OwnLess ==
    ASSUME NEW all, Apart(all), NEW O, Owned(O, all), NEW e \in all,
           NEW R, R = (IF Live(e) THEN [O EXCEPT ![e.id] = Revoked(O[e.id])] ELSE O)
    PROVE  Owned(R, all \ {e}) /\ \A i \in Ids : R[i].pins = O[i].pins
<1> DEFINE k == e.id
           rest == all \ {e}
<1>0. k \in Ids /\ O \in [Ids -> OwnerType] /\ \A x \in all : x.id \in Ids /\ (x.id = k => x = e)
  BY DEF Apart, EntryType, Owned
<1>1. /\ O[k] \in OwnerType /\ O[k].pins \in Nat
      /\ O[k].held <=> O[k].valid \/ O[k].pins > 0
      /\ O[k].valid <=> \E x \in all : x.id = k /\ Live(x)
  BY <1>0 DEF Owned, OwnerType
<1>2. /\ \A i \in Ids : i # k => O[i].held <=> O[i].valid \/ O[i].pins > 0
      /\ \A i \in Ids : i # k => O[i].valid <=> \E x \in rest : x.id = i /\ Live(x)
  BY <1>0 DEF Owned
<1>3. CASE Live(e)
  <2>1. R = [O EXCEPT ![k] = Revoked(O[k])]
    BY <1>3
  <2>2. Revoked(O[k]) \in OwnerType
    BY <1>1 DEF Revoked, OwnerType
  <2>3. O[k].valid
    BY <1>1, <1>3
  <2>4. R \in [Ids -> OwnerType] /\ R[k] = Revoked(O[k]) /\ \A i \in Ids : i # k => R[i] = O[i]
    BY <1>0, <2>1, <2>2
  <2>5. R[k].pins = O[k].pins /\ ~R[k].valid /\ (R[k].held <=> R[k].valid \/ R[k].pins > 0)
    <3>1. O[k].held
      BY <1>1, <2>3
    <3>2. \A o : Revoked(o).pins = o.pins /\ ~Revoked(o).valid /\ (Revoked(o).held <=> o.held /\ o.pins > 0)
      BY DEF Revoked
    <3>3. R[k].pins = O[k].pins /\ ~R[k].valid /\ (R[k].held <=> O[k].pins > 0)
      BY <2>4, <3>1, <3>2
    <3>4. QED
      BY <3>3
  <2>6. ~\E x \in rest : x.id = k
    BY <1>0
  <2>7. \A i \in Ids : /\ R[i].held <=> R[i].valid \/ R[i].pins > 0
                       /\ R[i].valid <=> \E x \in rest : x.id = i /\ Live(x)
                       /\ R[i].pins = O[i].pins
    <3> TAKE i \in Ids
    <3>1. CASE i = k
      BY <3>1, <2>5, <2>6
    <3>2. CASE i # k
      BY <3>2, <2>4, <1>2
    <3>3. QED
      BY <3>1, <3>2
  <2>8. \A x \in rest : ~Live(x) => R[x.id].pins = 0
    BY <2>7, <1>0 DEF Owned
  <2>9. Owned(R, rest)
    BY <2>4, <2>7, <2>8 DEF Owned
  <2>10. QED
    BY <2>7, <2>9
<1>4. CASE ~Live(e)
  <2>1. R = O
    BY <1>4
  <2>2. \A i \in Ids : (\E x \in all : x.id = i /\ Live(x)) <=> (\E x \in rest : x.id = i /\ Live(x))
    BY <1>4
  <2>3. Owned(O, rest)
    BY <2>2 DEF Owned
  <2>4. QED
    BY <2>1, <2>3
<1>5. QED
  BY <1>3, <1>4

(* and one that comes gets one that nobody has pinned.                     *)
LEMMA OwnMore ==
    ASSUME NEW all, Apart(all), NEW O, Owned(O, all),
           NEW f \in EntryType, \A e \in all : e.id # f.id, O[f.id].pins = 0,
           NEW R, R = (IF Live(f) THEN [O EXCEPT ![f.id] = [valid |-> TRUE, pins |-> 0, held |-> TRUE]]
                       ELSE O)
    PROVE  Owned(R, all \cup {f}) /\ \A i \in Ids : R[i].pins = O[i].pins
<1> DEFINE k == f.id
           more == all \cup {f}
<1>0. k \in Ids /\ O \in [Ids -> OwnerType] /\ \A x \in all : x.id \in Ids /\ x.id # k
  BY DEF Apart, EntryType, Owned
<1>2. /\ \A i \in Ids : O[i].held <=> O[i].valid \/ O[i].pins > 0
      /\ \A i \in Ids : i # k => O[i].valid <=> \E x \in more : x.id = i /\ Live(x)
  BY <1>0 DEF Owned
<1>6. ~O[k].valid
  BY <1>0 DEF Owned
<1>3. CASE Live(f)
  <2>1. R = [O EXCEPT ![k] = [valid |-> TRUE, pins |-> 0, held |-> TRUE]]
    BY <1>3
  <2>2. [valid |-> TRUE, pins |-> 0, held |-> TRUE] \in OwnerType
    BY DEF OwnerType
  <2>4. /\ R \in [Ids -> OwnerType]
        /\ R[k] = [valid |-> TRUE, pins |-> 0, held |-> TRUE] /\ \A i \in Ids : i # k => R[i] = O[i]
    BY <1>0, <2>1, <2>2
  <2>5. R[k].pins = O[k].pins /\ R[k].valid /\ R[k].held
    BY <2>4
  <2>6. \E x \in more : x.id = k /\ Live(x)
    BY <1>3
  <2>7. \A i \in Ids : /\ R[i].held <=> R[i].valid \/ R[i].pins > 0
                       /\ R[i].valid <=> \E x \in more : x.id = i /\ Live(x)
                       /\ R[i].pins = O[i].pins
    <3> TAKE i \in Ids
    <3>1. CASE i = k
      BY <3>1, <2>5, <2>6
    <3>2. CASE i # k
      BY <3>2, <2>4, <1>2
    <3>3. QED
      BY <3>1, <3>2
  <2>8. \A x \in more : ~Live(x) => R[x.id].pins = 0
    <3>1. \A x \in all : ~Live(x) => O[x.id].pins = 0
      BY DEF Owned
    <3>2. QED
      BY <3>1, <2>7, <1>0, <1>3
  <2>9. Owned(R, more)
    BY <2>4, <2>7, <2>8 DEF Owned
  <2>10. QED
    BY <2>7, <2>9
<1>4. CASE ~Live(f)
  <2>1. R = O
    BY <1>4
  <2>2. \A i \in Ids : (\E x \in all : x.id = i /\ Live(x)) <=> (\E x \in more : x.id = i /\ Live(x))
    BY <1>4
  <2>3. Owned(O, more)
    BY <2>2 DEF Owned
  <2>4. QED
    BY <2>1, <2>3
<1>5. QED
  BY <1>3, <1>4

(* Another entry of the same name and as live changes no owner.            *)
LEMMA OwnSame ==
    ASSUME NEW all, Apart(all), NEW O, Owned(O, all), NEW e \in all,
           NEW f, f.id = e.id, Live(f) <=> Live(e)
    PROVE  Owned(O, (all \ {e}) \cup {f})
<1>1. \A i \in Ids : (\E x \in all : x.id = i /\ Live(x))
                       <=> (\E x \in (all \ {e}) \cup {f} : x.id = i /\ Live(x))
  OBVIOUS
<1>2. \A x \in (all \ {e}) \cup {f} : ~Live(x) => O[x.id].pins = 0
  BY DEF Owned
<1>3. QED
  BY <1>1, <1>2 DEF Owned

(* Who is neither live nor pinned owns nothing.                            *)
LEMMA OwnsNothing ==
    ASSUME NEW all, Apart(all), NEW O, Owned(O, all), NEW e \in all, ~Live(e)
    PROVE  O[e.id] = NoOwner /\ e.id \in Ids
<1>1. e.id \in Ids /\ O[e.id] \in OwnerType /\ O[e.id].pins = 0
  BY DEF Owned, Apart, EntryType
<1>2. ~O[e.id].valid
  BY <1>1 DEF Owned, Apart
<1>3. ~O[e.id].held
  BY <1>1, <1>2 DEF Owned
<1>4. QED
  BY <1>1, <1>2, <1>3 DEF NoOwner, OwnerType

(* What the tier has for the entries. *)
Backed(files, disk, owner, all) == Apart(all) /\ Stocked(files, disk, all) /\ Owned(owner, all)

(* What becomes of an entry that is spilled, or loses its files. *)
Gone(e) == [e EXCEPT !.resident = FALSE, !.filed = TRUE]
Unfiled(e) == [e EXCEPT !.filed = FALSE]

(* An entry is spilled: its source goes, its files stay or come.           *)
LEMMA SpillKeepsBacked ==
    ASSUME NEW all, NEW F, NEW D, NEW O, Backed(F, D, O, all), NEW e \in all, e.resident,
           e.frozen => O[e.id].pins = 0,
           NEW g, g = Gone(e),
           NEW R, R = (IF e.frozen THEN [O EXCEPT ![e.id] = Revoked(O[e.id])] ELSE O)
    PROVE  /\ Backed(IF e.filed THEN F ELSE F \cup {e.id}, IF e.filed THEN D ELSE D + e.size,
                     R, (all \ {e}) \cup {g})
           /\ \A i \in Ids : R[i].pins = O[i].pins
           /\ g.id = e.id /\ g \in EntryType /\ ~g.resident /\ g.filed /\ g.type = e.type
<1> DEFINE rest == all \ {e}
           F1 == IF e.filed THEN F \ {e.id} ELSE F
           D1 == IF e.filed THEN Max({0, D - e.size}) ELSE D
<1>1. Apart(all) /\ Stocked(F, D, all) /\ Owned(O, all)
  BY DEF Backed
<1>2. Apart(rest)
  BY <1>1, ApartLess
<1>3. Stocked(F1, D1, rest) /\ D \in Nat /\ (e.filed => D >= e.size /\ D1 = D - e.size) /\ e.size \in Nat
  BY <1>1, StockLess
<1>4. e \in EntryType
  BY <1>1 DEF Apart
<1>5. g \in EntryType /\ g.id = e.id /\ g.size = e.size /\ g.filed /\ ~g.resident /\ g.type = e.type
  BY <1>4 DEF EntryType, Gone
<1>6. \A x \in rest : x.id # g.id
  BY <1>1, <1>5 DEF Apart
<1>7. Stocked(F1 \cup {e.id}, D1 + e.size, rest \cup {g})
  BY <1>2, <1>3, <1>5, <1>6, StockMore
<1>8. e.filed => e.id \in F
  BY <1>1 DEF Stocked, Filed
<1>9. Stocked(IF e.filed THEN F ELSE F \cup {e.id}, IF e.filed THEN D ELSE D + e.size, rest \cup {g})
  <2>1. CASE e.filed
    <3>1. F1 \cup {e.id} = F /\ D1 + e.size = D
      BY <2>1, <1>3, <1>8
    <3>2. QED
      BY <2>1, <3>1, <1>7
  <2>2. CASE ~e.filed
    <3>1. F1 = F /\ D1 = D
      BY <2>2
    <3>2. QED
      BY <2>2, <3>1, <1>7
  <2>3. QED
    BY <2>1, <2>2
<1>10. R = (IF Live(e) THEN [O EXCEPT ![e.id] = Revoked(O[e.id])] ELSE O)
  BY DEF Live
<1>11. Owned(R, rest) /\ \A i \in Ids : R[i].pins = O[i].pins
  BY <1>1, <1>10, OwnLess
<1>12. e.id \in Ids /\ O[e.id].pins = 0
  <2>1. ~Live(e) => O[e.id].pins = 0
    BY <1>1 DEF Owned
  <2>2. QED
    BY <2>1, <1>4 DEF Live, EntryType
<1>13. ~Live(g)
  BY <1>5 DEF Live
<1>14. Owned(R, rest \cup {g})
  <2>1. R[g.id].pins = 0
    BY <1>5, <1>11, <1>12
  <2>2. QED
    BY <1>2, <1>5, <1>6, <1>11, <1>13, <2>1, OwnMore
<1>15. Apart(rest \cup {g})
  BY <1>2, <1>5, <1>6, ApartMore
<1>16. QED
  BY <1>5, <1>9, <1>11, <1>14, <1>15 DEF Backed

(* An entry loses its files.                                               *)
LEMMA UnfileKeepsBacked ==
    ASSUME NEW all, NEW F, NEW D, NEW O, Backed(F, D, O, all), NEW e \in all, e.filed,
           NEW g, g = Unfiled(e)
    PROVE  /\ Backed(F \ {e.id}, Max({0, D - e.size}), O, (all \ {e}) \cup {g})
           /\ Max({0, D - e.size}) <= D
           /\ g.id = e.id /\ g \in EntryType /\ g.resident = e.resident /\ ~g.filed /\ g.type = e.type
<1> DEFINE rest == all \ {e}
           F1 == F \ {e.id}
           D1 == Max({0, D - e.size})
<1>1. Apart(all) /\ Stocked(F, D, all) /\ Owned(O, all)
  BY DEF Backed
<1>2. Apart(rest)
  BY <1>1, ApartLess
<1>3. Stocked(F1, D1, rest) /\ D \in Nat /\ D >= e.size /\ D1 = D - e.size /\ e.size \in Nat
  BY <1>1, StockLess
<1>4. e \in EntryType
  BY <1>1 DEF Apart
<1>5. g \in EntryType /\ g.id = e.id /\ ~g.filed /\ g.resident = e.resident /\ g.frozen = e.frozen /\ g.type = e.type
  BY <1>4 DEF EntryType, Unfiled
<1>6. \A x \in rest : x.id # g.id
  BY <1>1, <1>5 DEF Apart
<1>7. Stocked(F1, D1, rest \cup {g})
  BY <1>2, <1>3, <1>5, <1>6, StockMore
<1>8. Live(g) <=> Live(e)
  BY <1>5 DEF Live
<1>9. Owned(O, rest \cup {g})
  BY <1>1, <1>5, <1>8, OwnSame
<1>10. Apart(rest \cup {g})
  BY <1>2, <1>5, <1>6, ApartMore
<1>11. QED
  BY <1>3, <1>5, <1>7, <1>9, <1>10 DEF Backed

(* An entry that was not live is replaced by one that may be.              *)
LEMMA SwapKeepsBacked ==
    ASSUME NEW all, NEW F, NEW D, NEW O, Backed(F, D, O, all), NEW e \in all, ~Live(e),
           NEW g \in EntryType, g.id = e.id, g.size = e.size, g.filed = e.filed,
           NEW R, R = (IF Live(g) THEN [O EXCEPT ![g.id] = [valid |-> TRUE, pins |-> 0, held |-> TRUE]]
                       ELSE O)
    PROVE  /\ Backed(F, D, R, (all \ {e}) \cup {g})
           /\ \A i \in Ids : R[i].pins = O[i].pins
<1> DEFINE rest == all \ {e}
           F1 == IF e.filed THEN F \ {e.id} ELSE F
           D1 == IF e.filed THEN Max({0, D - e.size}) ELSE D
<1>1. Apart(all) /\ Stocked(F, D, all) /\ Owned(O, all)
  BY DEF Backed
<1>2. Apart(rest)
  BY <1>1, ApartLess
<1>3. Stocked(F1, D1, rest) /\ D \in Nat /\ (e.filed => D >= e.size /\ D1 = D - e.size) /\ e.size \in Nat
  BY <1>1, StockLess
<1>4. \A x \in rest : x.id # g.id
  BY <1>1 DEF Apart
<1>5. e.filed => e.id \in F
  BY <1>1 DEF Stocked, Filed
<1>6. Stocked(F, D, rest \cup {g})
  <2>1. CASE e.filed
    <3>1. F = F1 \cup {g.id} /\ D = D1 + g.size /\ g.filed
      BY <2>1, <1>3, <1>5
    <3> HIDE DEF rest, F1, D1
    <3>2. QED
      BY <3>1, <1>2, <1>3, <1>4, StockMore
  <2>2. CASE ~e.filed
    <3>1. F = F1 /\ D = D1 /\ ~g.filed
      BY <2>2
    <3> HIDE DEF rest, F1, D1
    <3>2. QED
      BY <3>1, <1>2, <1>3, <1>4, StockMore
  <2>3. QED
    BY <2>1, <2>2
<1>7. Owned(O, rest)
  <2>1. O = (IF Live(e) THEN [O EXCEPT ![e.id] = Revoked(O[e.id])] ELSE O)
    OBVIOUS
  <2>2. QED
    BY <2>1, <1>1, OwnLess
<1>8. O[g.id].pins = 0
  BY <1>1, OwnsNothing DEF NoOwner
<1> HIDE DEF rest
<1>9. Owned(R, rest \cup {g})
  BY <1>2, <1>4, <1>7, <1>8, OwnMore
<1>12. \A i \in Ids : R[i].pins = O[i].pins
  BY <1>2, <1>4, <1>7, <1>8, OwnMore
<1>10. Apart(rest \cup {g})
  BY <1>2, <1>4, ApartMore
<1>11. QED
  BY <1>6, <1>9, <1>10, <1>12 DEF Backed, rest

(* What a restore makes of an entry and of its owner. *)
Back(e, w) == [e EXCEPT !.resident = TRUE, !.frozen = w]
Regained(O, i, w) ==
    [O EXCEPT ![i] = IF w THEN [valid |-> TRUE, pins |-> 0, held |-> TRUE] ELSE NoOwner]

(* An entry is back on the device, frozen anew or not at all.              *)
LEMMA RestoreKeepsBacked ==
    ASSUME NEW all, NEW F, NEW D, NEW O, Backed(F, D, O, all), NEW e \in all, ~e.resident,
           NEW w \in BOOLEAN,
           NEW g, g = Back(e, w), NEW R, R = Regained(O, e.id, w)
    PROVE  /\ Backed(F, D, R, (all \ {e}) \cup {g})
           /\ \A i \in Ids : R[i].pins = O[i].pins
           /\ g.id = e.id /\ g \in EntryType /\ g.resident /\ g.filed = e.filed /\ g.type = e.type
<1>1. Apart(all) /\ Owned(O, all)
  BY DEF Backed
<1>2. e \in EntryType
  BY <1>1 DEF Apart
<1>3. g \in EntryType /\ g.id = e.id /\ g.size = e.size /\ g.filed = e.filed /\ g.resident
      /\ g.frozen = w /\ g.type = e.type
  BY <1>2 DEF EntryType, Back
<1>4. ~Live(e)
  BY DEF Live
<1>5. O[e.id] = NoOwner /\ e.id \in Ids
  BY <1>1, <1>4, OwnsNothing
<1>6. Live(g) <=> w
  BY <1>3 DEF Live
<1>7. R = (IF Live(g) THEN [O EXCEPT ![g.id] = [valid |-> TRUE, pins |-> 0, held |-> TRUE]] ELSE O)
  <2>1. CASE w
    BY <2>1, <1>3, <1>6 DEF Regained
  <2>2. CASE ~w
    <3>1. R = [O EXCEPT ![e.id] = O[e.id]]
      BY <2>2, <1>5 DEF Regained
    <3>2. R = O
      BY <3>1, <1>1 DEF Owned
    <3>3. QED
      BY <3>2, <2>2, <1>6
  <2>3. QED
    BY <2>1, <2>2
<1>8. Backed(F, D, R, (all \ {e}) \cup {g})
  BY <1>3, <1>4, <1>7, SwapKeepsBacked
<1>10. \A i \in Ids : R[i].pins = O[i].pins
  BY <1>3, <1>4, <1>7, <1>8, SwapKeepsBacked
<1>9. QED
  BY <1>3, <1>8, <1>10

(***************************************************************************)
(* The cache as a record: what the operations on single entries change     *)
(***************************************************************************)

Formed(c) ==
    c = [trie |-> c.trie, order |-> c.order, bytes |-> c.bytes, bytesOf |-> c.bytesOf,
         recent |-> c.recent, files |-> c.files, disk |-> c.disk, owner |-> c.owner,
         moved |-> c.moved]

(* The trie, the lists and the accounts of d are those of c. *)
SameShelf(c, d) ==
    d.trie = c.trie /\ d.order = c.order /\ d.bytes = c.bytes /\ d.bytesOf = c.bytesOf

SameTier(c, d) == d.files = c.files /\ d.disk = c.disk /\ d.owner = c.owner

(* What invalidating does to an owner.                                     *)
LEMMA RevokedIs ==
    ASSUME NEW o, o \in OwnerType, NEW r, r = [o EXCEPT !.valid = FALSE, !.held = o.held /\ o.pins > 0]
    PROVE  r = Revoked(o)
  BY DEF OwnerType, Revoked

(* Invalidating a source changes its owner.                                *)
LEMMA InvalidateFields ==
    ASSUME NEW c, Formed(c), c.owner \in [Ids -> OwnerType], NEW i \in Ids,
           NEW d, d = Invalidate(c, i)
    PROVE  /\ Formed(d) /\ SameShelf(c, d) /\ d.recent = c.recent /\ d.moved = c.moved
           /\ d.files = c.files /\ d.disk = c.disk
           /\ d.owner = [c.owner EXCEPT ![i] = Revoked(c.owner[i])]
<1> DEFINE o == c.owner[i]
<1>1. Formed(d)
  BY DEF Formed, Invalidate
<1>2. SameShelf(c, d) /\ d.recent = c.recent /\ d.moved = c.moved /\ d.files = c.files /\ d.disk = c.disk
  BY DEF Formed, Invalidate, SameShelf
<1>3. d.owner = [c.owner EXCEPT ![i] = [o EXCEPT !.valid = FALSE, !.held = o.held /\ o.pins > 0]]
  BY DEF Formed, Invalidate, OwnerType
<1>4. o \in OwnerType
  OBVIOUS
<1>5. [o EXCEPT !.valid = FALSE, !.held = o.held /\ o.pins > 0] = Revoked(o)
  BY <1>4, RevokedIs
<1>6. QED
  BY <1>1, <1>2, <1>3, <1>5

(* Closing the source of an entry that is live, or doing nothing.          *)
LEMMA CloseFields ==
    ASSUME NEW c, Formed(c), NEW e, e.id \in Ids, c.owner \in [Ids -> OwnerType],
           NEW d, d = CloseSource(c, e)
    PROVE  /\ Formed(d) /\ SameShelf(c, d) /\ d.recent = c.recent /\ d.moved = c.moved
           /\ d.files = c.files /\ d.disk = c.disk
           /\ d.owner = IF Live(e) THEN [c.owner EXCEPT ![e.id] = Revoked(c.owner[e.id])] ELSE c.owner
<1>1. CASE Live(e)
  <2>1. d = Invalidate(c, e.id)
    BY <1>1 DEF CloseSource, Live
  <2>2. QED
    BY <1>1, <2>1, InvalidateFields
<1>2. CASE ~Live(e)
  <2>1. d = c
    BY <1>2 DEF CloseSource, Live
  <2>2. QED
    BY <1>2, <2>1 DEF SameShelf
<1>3. QED
  BY <1>1, <1>2

(* Retiring an entry changes what the tier has and nothing else.           *)
LEMMA RetireFields ==
    ASSUME NEW c, Formed(c), NEW e, e.id \in Ids, c.owner \in [Ids -> OwnerType],
           NEW d, d = Retire(c, e)
    PROVE  /\ Formed(d) /\ SameShelf(c, d) /\ d.recent = c.recent /\ d.moved = c.moved
           /\ d.files = IF e.filed THEN c.files \ {e.id} ELSE c.files
           /\ d.disk = IF e.filed THEN Max({0, c.disk - e.size}) ELSE c.disk
           /\ d.owner = IF Live(e) THEN [c.owner EXCEPT ![e.id] = Revoked(c.owner[e.id])] ELSE c.owner
<1> DEFINE a == CloseSource(c, e)
<1>1. /\ Formed(a) /\ SameShelf(c, a) /\ a.recent = c.recent /\ a.moved = c.moved
      /\ a.files = c.files /\ a.disk = c.disk
      /\ a.owner = IF Live(e) THEN [c.owner EXCEPT ![e.id] = Revoked(c.owner[e.id])] ELSE c.owner
  BY CloseFields
<1>2. d = RemoveFiles(a, e)
  BY DEF Retire
<1> HIDE DEF a
<1>3. /\ Formed(d) /\ SameShelf(a, d) /\ d.recent = a.recent /\ d.moved = a.moved /\ d.owner = a.owner
      /\ d.files = IF e.filed THEN a.files \ {e.id} ELSE a.files
      /\ d.disk = IF e.filed THEN Max({0, a.disk - e.size}) ELSE a.disk
  BY <1>1, <1>2 DEF RemoveFiles, Formed, SameShelf
<1>4. QED
  BY <1>1, <1>3 DEF SameShelf

(* Counting an entry and discounting it.                                   *)
LEMMA UncountFields ==
    ASSUME NEW c, Formed(c), NEW e, NEW d, d = Uncount(c, e)
    PROVE  /\ Formed(d) /\ d.trie = c.trie /\ d.order = c.order /\ d.recent = c.recent
           /\ d.moved = c.moved /\ SameTier(c, d)
           /\ d.bytes = c.bytes - Nbytes(e)
           /\ d.bytesOf = [c.bytesOf EXCEPT ![e.type] = @ - Nbytes(e)]
<1>1. PICK n : n = Nbytes(e)
  OBVIOUS
<1>2. d = [c EXCEPT !.bytes = @ - n, !.bytesOf[e.type] = @ - n]
  BY <1>1 DEF Uncount
<1>3. QED
  BY <1>1, <1>2 DEF Formed, SameTier

(* and counting one in.                                                    *)
LEMMA CountFields ==
    ASSUME NEW c, Formed(c), NEW e, NEW d, d = Count(c, e)
    PROVE  /\ Formed(d) /\ d.trie = c.trie /\ d.order = c.order /\ d.recent = c.recent
           /\ d.moved = c.moved /\ SameTier(c, d)
           /\ d.bytes = c.bytes + Nbytes(e)
           /\ d.bytesOf = [c.bytesOf EXCEPT ![e.type] = @ + Nbytes(e)]
<1>1. PICK n : n = Nbytes(e)
  OBVIOUS
<1>2. d = [c EXCEPT !.bytes = @ + n, !.bytesOf[e.type] = @ + n]
  BY <1>1 DEF Count
<1>3. QED
  BY <1>1, <1>2 DEF Formed, SameTier

(* Only that the generation moves.                                         *)
LEMMA AdvanceFields ==
    ASSUME NEW c, Formed(c), NEW d, d = Advance(c)
    PROVE  /\ Formed(d) /\ SameShelf(c, d) /\ SameTier(c, d) /\ d.recent = c.recent /\ d.moved
  BY DEF Advance, Formed, SameShelf, SameTier

(* A dropped entry leaves trie, list and account, and is retired.          *)
LEMMA DropFields ==
    ASSUME NEW c, Formed(c), c.owner \in [Ids -> OwnerType], NEW p, NEW e, e = Entry(c, p), e.id \in Ids,
           NEW d, d = Drop(c, p)
    PROVE  /\ Formed(d) /\ d.recent = c.recent /\ d.moved
           /\ d.trie = TriePop(c.trie, p) /\ d.order = OrderRemove(c.order, p)
           /\ d.bytes = c.bytes - Nbytes(e)
           /\ d.bytesOf = [c.bytesOf EXCEPT ![e.type] = @ - Nbytes(e)]
           /\ d.files = IF e.filed THEN c.files \ {e.id} ELSE c.files
           /\ d.disk = IF e.filed THEN Max({0, c.disk - e.size}) ELSE c.disk
           /\ d.owner = IF Live(e) THEN [c.owner EXCEPT ![e.id] = Revoked(c.owner[e.id])] ELSE c.owner
<1>1. PICK a : a = Uncount(c, e)
  OBVIOUS
<1>2. /\ Formed(a) /\ a.trie = c.trie /\ a.order = c.order /\ a.recent = c.recent
      /\ a.moved = c.moved /\ SameTier(c, a)
      /\ a.bytes = c.bytes - Nbytes(e)
      /\ a.bytesOf = [c.bytesOf EXCEPT ![e.type] = @ - Nbytes(e)]
  BY <1>1, UncountFields
<1>3. PICK t, o : t = TriePop(c.trie, p) /\ o = OrderRemove(c.order, p)
  OBVIOUS
<1>4. PICK b : b = [a EXCEPT !.trie = t, !.order = o]
  OBVIOUS
<1>5. d = Advance(Retire(b, e))
  BY <1>1, <1>2, <1>3, <1>4 DEF Drop
<1>6. /\ Formed(b) /\ b.trie = t /\ b.order = o /\ b.recent = c.recent
      /\ b.bytes = a.bytes /\ b.bytesOf = a.bytesOf /\ SameTier(c, b)
  BY <1>2, <1>4 DEF Formed, SameTier
<1>7. PICK r : r = Retire(b, e)
  OBVIOUS
<1>8. b.owner = c.owner /\ b.files = c.files /\ b.disk = c.disk
  BY <1>6 DEF SameTier
<1>9. /\ Formed(r) /\ SameShelf(b, r) /\ r.recent = b.recent
      /\ r.files = IF e.filed THEN b.files \ {e.id} ELSE b.files
      /\ r.disk = IF e.filed THEN Max({0, b.disk - e.size}) ELSE b.disk
      /\ r.owner = IF Live(e) THEN [b.owner EXCEPT ![e.id] = Revoked(b.owner[e.id])] ELSE b.owner
  BY <1>6, <1>7, <1>8, RetireFields
<1>10. Formed(d) /\ SameShelf(r, d) /\ SameTier(r, d) /\ d.recent = r.recent /\ d.moved
  BY <1>5, <1>7, <1>9, AdvanceFields
<1>11. QED
  BY <1>2, <1>3, <1>6, <1>8, <1>9, <1>10 DEF SameShelf, SameTier

(* d is c after its entry e at p was spilled. *)
Spilled(c, d, p, e) ==
    /\ Formed(d) /\ d.recent = c.recent /\ d.moved /\ d.order = c.order
    /\ d.trie = [c.trie EXCEPT !.entry[p] = Gone(e)]
    /\ d.bytes = c.bytes - Nbytes(e)
    /\ d.bytesOf = [c.bytesOf EXCEPT ![e.type] = @ - Nbytes(e)]
    /\ d.files = IF e.filed THEN c.files ELSE c.files \cup {e.id}
    /\ d.disk = IF e.filed THEN c.disk ELSE c.disk + e.size
    /\ d.owner = IF e.frozen THEN [c.owner EXCEPT ![e.id] = Revoked(c.owner[e.id])] ELSE c.owner

(* A spilled entry keeps its place and loses its bytes.                    *)
LEMMA SpillFields ==
    ASSUME NEW c, Formed(c), c.owner \in [Ids -> OwnerType], Planted(c.trie), NEW p \in DOMAIN c.trie.entry,
           NEW e, e = Entry(c, p), e.id \in Ids, e.resident, NEW d, d = Spill(c, p)
    PROVE  Spilled(c, d, p, e)
<1>1. PICK f : f = IF e.filed THEN c
                   ELSE [c EXCEPT !.files = @ \cup {e.id}, !.disk = @ + e.size]
  OBVIOUS
<1>2. /\ Formed(f) /\ SameShelf(c, f) /\ f.recent = c.recent /\ f.moved = c.moved /\ f.owner = c.owner
      /\ f.files = IF e.filed THEN c.files ELSE c.files \cup {e.id}
      /\ f.disk = IF e.filed THEN c.disk ELSE c.disk + e.size
  BY <1>1 DEF Formed, SameShelf
<1>3. PICK a : a = Uncount(f, e)
  OBVIOUS
<1>4. /\ Formed(a) /\ a.trie = f.trie /\ a.order = f.order /\ a.recent = f.recent
      /\ a.moved = f.moved /\ SameTier(f, a)
      /\ a.bytes = f.bytes - Nbytes(e)
      /\ a.bytesOf = [f.bytesOf EXCEPT ![e.type] = @ - Nbytes(e)]
  BY <1>2, <1>3, UncountFields
<1>5. PICK b : b = CloseSource(a, e)
  OBVIOUS
<1>6. a.owner = c.owner /\ a.files = f.files /\ a.disk = f.disk
  BY <1>2, <1>4 DEF SameTier
<1>7. /\ Formed(b) /\ SameShelf(a, b) /\ b.recent = a.recent /\ b.moved = a.moved
      /\ b.files = a.files /\ b.disk = a.disk
      /\ b.owner = IF Live(e) THEN [a.owner EXCEPT ![e.id] = Revoked(a.owner[e.id])] ELSE a.owner
  BY <1>4, <1>5, <1>6, CloseFields
<1>8. PICK g : g = Gone(e)
  OBVIOUS
<1>9. PICK s : s = [b EXCEPT !.trie.entry[p] = g]
  OBVIOUS
<1>10. d = Advance(s)
  BY <1>1, <1>3, <1>5, <1>8, <1>9 DEF Spill, SpillQuietly, Gone
<1>11. b.trie = c.trie
  BY <1>2, <1>4, <1>7 DEF SameShelf
<1>12. s = [b EXCEPT !.trie = [c.trie EXCEPT !.entry[p] = g]]
  <2>1. s = [b EXCEPT !.trie = [b.trie EXCEPT !.entry[p] = g]]
    BY <1>9
  <2>2. QED
    BY <2>1, <1>11
<1>13. PICK t : t = [c.trie EXCEPT !.entry[p] = g]
  OBVIOUS
<1>14. Formed(s) /\ s.trie = t /\ s.order = b.order /\ s.bytes = b.bytes /\ s.bytesOf = b.bytesOf
       /\ SameTier(b, s) /\ s.recent = b.recent
  <2>1. s = [b EXCEPT !.trie = t]
    BY <1>12, <1>13
  <2>2. QED
    BY <2>1, <1>7 DEF Formed, SameTier
<1>15. Formed(d) /\ SameShelf(s, d) /\ SameTier(s, d) /\ d.recent = s.recent /\ d.moved
  BY <1>10, <1>14, AdvanceFields
<1>16. d.trie = t /\ d.order = c.order /\ d.bytes = a.bytes /\ d.bytesOf = a.bytesOf /\ d.recent = c.recent
       /\ d.files = f.files /\ d.disk = f.disk /\ d.owner = b.owner
  BY <1>2, <1>4, <1>6, <1>7, <1>14, <1>15 DEF SameShelf, SameTier
<1>17. b.owner = IF e.frozen THEN [c.owner EXCEPT ![e.id] = Revoked(c.owner[e.id])] ELSE c.owner
  BY <1>6, <1>7 DEF Live
<1>18. a.bytes = c.bytes - Nbytes(e) /\ a.bytesOf = [c.bytesOf EXCEPT ![e.type] = @ - Nbytes(e)]
  BY <1>2, <1>4 DEF SameShelf
<1>19. d.trie = [c.trie EXCEPT !.entry[p] = Gone(e)]
  BY <1>8, <1>13, <1>16
<1>20. QED
  BY <1>2, <1>15, <1>16, <1>17, <1>18, <1>19 DEF Spilled

(* An entry that loses its files keeps its place.                          *)
LEMMA UnfileFields ==
    ASSUME NEW c, Formed(c), Planted(c.trie), NEW p \in DOMAIN c.trie.entry,
           NEW e, e = Entry(c, p), e.filed, NEW d, d = Unfile(c, p)
    PROVE  /\ Formed(d) /\ d.recent = c.recent /\ d.moved = c.moved /\ d.order = c.order
           /\ d.trie = [c.trie EXCEPT !.entry[p] = Unfiled(e)]
           /\ d.bytes = c.bytes /\ d.bytesOf = c.bytesOf /\ d.owner = c.owner
           /\ d.files = c.files \ {e.id} /\ d.disk = Max({0, c.disk - e.size})
<1>1. PICK a : a = RemoveFiles(c, e)
  OBVIOUS
<1>2. /\ Formed(a) /\ SameShelf(c, a) /\ a.recent = c.recent /\ a.moved = c.moved /\ a.owner = c.owner
      /\ a.files = c.files \ {e.id} /\ a.disk = Max({0, c.disk - e.size})
  BY <1>1 DEF RemoveFiles, Formed, SameShelf
<1>3. d = [a EXCEPT !.trie.entry[p].filed = FALSE]
  BY <1>1 DEF Unfile
<1>4. a.trie = c.trie /\ a.trie.entry[p] = e
  BY <1>2 DEF SameShelf, Entry
<1>5. PICK t : t = [c.trie EXCEPT !.entry[p] = Unfiled(e)]
  OBVIOUS
<1>6. d = [a EXCEPT !.trie = t]
  <2>1. d = [a EXCEPT !.trie = [a.trie EXCEPT !.entry = [a.trie.entry EXCEPT ![p] = [a.trie.entry[p] EXCEPT !.filed = FALSE]]]]
    BY <1>3
  <2>2. [a.trie EXCEPT !.entry = [a.trie.entry EXCEPT ![p] = [a.trie.entry[p] EXCEPT !.filed = FALSE]]] = t
    BY <1>4, <1>5 DEF Unfiled
  <2>3. QED
    BY <2>1, <2>2
<1>7. Formed(d) /\ d.trie = t /\ d.order = a.order /\ d.bytes = a.bytes /\ d.bytesOf = a.bytesOf
      /\ SameTier(a, d) /\ d.recent = a.recent /\ d.moved = a.moved
  BY <1>2, <1>6 DEF Formed, SameTier
<1>8. QED
  BY <1>2, <1>5, <1>7 DEF SameShelf, SameTier

(* What Restore does when it has the room.                                 *)
Regain(c, p, w) ==
    LET e == Entry(c, p)
        back == [e EXCEPT !.resident = TRUE, !.frozen = w]
    IN  [Count(c, back) EXCEPT
           !.trie.entry[p] = back,
           !.owner[e.id] = IF w THEN [valid |-> TRUE, pins |-> 0, held |-> TRUE] ELSE NoOwner]

(* A restored entry keeps its place and regains its bytes and a source.    *)
LEMMA RegainFields ==
    ASSUME NEW c, Formed(c), c.owner \in [Ids -> OwnerType], Planted(c.trie), NEW p \in DOMAIN c.trie.entry,
           NEW e, e = Entry(c, p), e.id \in Ids, NEW w \in BOOLEAN, NEW g, g = Back(e, w),
           NEW d, d = Regain(c, p, w)
    PROVE  /\ Formed(d) /\ d.recent = c.recent /\ d.moved = c.moved /\ d.order = c.order
           /\ d.trie = [c.trie EXCEPT !.entry[p] = g]
           /\ d.bytes = c.bytes + Nbytes(g)
           /\ d.bytesOf = [c.bytesOf EXCEPT ![g.type] = @ + Nbytes(g)]
           /\ d.files = c.files /\ d.disk = c.disk /\ d.owner = Regained(c.owner, e.id, w)
<1>1. PICK a : a = Count(c, g)
  OBVIOUS
<1>2. /\ Formed(a) /\ a.trie = c.trie /\ a.order = c.order /\ a.recent = c.recent
      /\ a.moved = c.moved /\ SameTier(c, a)
      /\ a.bytes = c.bytes + Nbytes(g)
      /\ a.bytesOf = [c.bytesOf EXCEPT ![g.type] = @ + Nbytes(g)]
  BY <1>1, CountFields
<1>3. PICK o : o = IF w THEN [valid |-> TRUE, pins |-> 0, held |-> TRUE] ELSE NoOwner
  OBVIOUS
<1>4. d = [a EXCEPT !.trie.entry[p] = g, !.owner[e.id] = o]
  BY <1>1, <1>3 DEF Regain, Back
<1>5. PICK t, r : t = [c.trie EXCEPT !.entry[p] = g] /\ r = [c.owner EXCEPT ![e.id] = o]
  OBVIOUS
<1>6. a.trie = c.trie /\ a.owner = c.owner
  BY <1>2 DEF SameTier
<1>7. d = [a EXCEPT !.trie = t, !.owner = r]
  <2>1. d = [a EXCEPT !.trie = [a.trie EXCEPT !.entry[p] = g], !.owner = [a.owner EXCEPT ![e.id] = o]]
    BY <1>2, <1>4 DEF Formed
  <2>2. [a.trie EXCEPT !.entry[p] = g] = t /\ [a.owner EXCEPT ![e.id] = o] = r
    BY <1>5, <1>6
  <2>3. QED
    BY <2>1, <2>2
<1>8. Formed(d) /\ d.trie = t /\ d.order = a.order /\ d.bytes = a.bytes /\ d.bytesOf = a.bytesOf
      /\ d.files = a.files /\ d.disk = a.disk /\ d.owner = r /\ d.recent = a.recent /\ d.moved = a.moved
  BY <1>2, <1>7 DEF Formed
<1>9. r = Regained(c.owner, e.id, w)
  BY <1>3, <1>5 DEF Regained
<1>10. QED
  BY <1>2, <1>5, <1>8, <1>9 DEF SameTier

(* Only the access times.                                                  *)
LEMMA TouchFields ==
    ASSUME NEW c, Formed(c), NEW p, NEW d, d = Touch(c, p)
    PROVE  /\ Formed(d) /\ SameShelf(c, d) /\ SameTier(c, d) /\ d.moved = c.moved
           /\ d.recent = Append(Only(c.recent, ToSet(c.recent) \ {p}), p)
<1>1. PICK r : r = Append(Only(c.recent, ToSet(c.recent) \ {p}), p)
  OBVIOUS
<1>2. d = [c EXCEPT !.recent = r]
  BY <1>1 DEF Touch
<1>3. QED
  BY <1>1, <1>2 DEF Formed, SameShelf, SameTier

(***************************************************************************)
(* The cache as a whole                                                    *)
(***************************************************************************)

(* The entries of a trie, whatever their places. *)
All(f) == {f[p] : p \in DOMAIN f}

(* An entry less, another one in its place, and one more.                  *)
LEMMA AllWithout ==
    ASSUME NEW f, Placed(f), NEW p \in DOMAIN f
    PROVE  f[p] \in All(f) /\ All(Without(f, p)) = All(f) \ {f[p]}
<1>1. \A x \in DOMAIN f : f[x].id[1] = x
  BY DEF Placed, FitsAt
<1>2. DOMAIN Without(f, p) = DOMAIN f \ {p} /\ \A x \in DOMAIN f : x # p => Without(f, p)[x] = f[x]
  BY WithoutIs
<1>3. \A e : e \in All(Without(f, p)) <=> e \in All(f) /\ e # f[p]
  BY <1>1, <1>2 DEF All
<1>4. f[p] \in All(f)
  BY DEF All
<1>5. QED
  BY <1>3, <1>4

(* The entries after one of them was changed,                              *)
LEMMA AllSwap ==
    ASSUME NEW f, Placed(f), NEW p \in DOMAIN f, NEW e
    PROVE  All(With(f, p, e)) = (All(f) \ {f[p]}) \cup {e}
<1>1. \A x \in DOMAIN f : f[x].id[1] = x
  BY DEF Placed, FitsAt
<1>2. DOMAIN With(f, p, e) = DOMAIN f /\ \A x \in DOMAIN f : With(f, p, e)[x] = IF x = p THEN e ELSE f[x]
  BY DEF With
<1>3. \A x : x \in All(With(f, p, e)) <=> (x \in All(f) /\ x # f[p]) \/ x = e
  BY <1>1, <1>2 DEF All
<1>4. QED
  BY <1>3

(* and with a new one.                                                     *)
LEMMA AllMore ==
    ASSUME NEW f, NEW p, p \notin DOMAIN f, NEW e
    PROVE  All(With(f, p, e)) = All(f) \cup {e}
<1>2. /\ DOMAIN With(f, p, e) = DOMAIN f \cup {p}
      /\ \A x \in DOMAIN f \cup {p} : With(f, p, e)[x] = IF x = p THEN e ELSE f[x]
  BY DEF With
<1>3. \A x : x \in All(With(f, p, e)) <=> x \in All(f) \/ x = e
  BY <1>2 DEF All
<1>4. QED
  BY <1>3

(* Trie, lists and accounts describe the same entries. *)
Shelf(c) ==
    /\ Formed(c) /\ Planted(c.trie) /\ Listed(c.trie.entry, c.order)
    /\ Weighed(c.trie.entry, c.bytes, c.bytesOf)

(* And so do files and owners. *)
Whole(c) == Shelf(c) /\ Backed(c.files, c.disk, c.owner, All(c.trie.entry))

Loaded(c) == {Entry(c, p).id : p \in Resident(c)}

(* What an operation of the cache may do to c: entries go, no pin changes, *)
(* and the generation moves when a loaded entry goes.                      *)
Follows(c, d) ==
    /\ Stored(d.trie) \subseteq Stored(c.trie)
    /\ \A i \in Ids : d.owner[i].pins = c.owner[i].pins
    /\ c.moved => d.moved
    /\ d.moved \/ Loaded(c) \subseteq Loaded(d)

(* What making room may do: nothing is loaded or touched by it. *)
Kept(c, d) ==
    /\ Follows(c, d)
    /\ d.recent = c.recent
    /\ \A p \in Stored(d.trie) : ~Entry(c, p).resident => Entry(d, p) = Entry(c, p)

(* Both go on from step to step.                                           *)
LEMMA FollowsOn == \A c, d, e : Follows(c, d) /\ Follows(d, e) => Follows(c, e)
  BY DEF Follows

(* So do the operations that keep entries.                                 *)
LEMMA KeptOn == \A c, d, e : Kept(c, d) /\ Kept(d, e) => Kept(c, e)
<1> TAKE c, d, e
<1> HAVE Kept(c, d) /\ Kept(d, e)
<1>1. Follows(c, e)
  BY FollowsOn DEF Kept
<1>2. Stored(e.trie) \subseteq Stored(d.trie)
  BY DEF Kept, Follows
<1>3. QED
  BY <1>1, <1>2 DEF Kept

(* Doing nothing keeps them.                                               *)
LEMMA KeptSame == \A c : Kept(c, c)
  BY DEF Kept, Follows

(* What is known of the entry at p.                                        *)
LEMMA WholeEntry ==
    ASSUME NEW c, Whole(c), NEW p \in Stored(c.trie)
    PROVE  /\ FitsAt(Entry(c, p), p) /\ Entry(c, p) \in EntryType /\ Entry(c, p).id \in Ids
           /\ Entry(c, p) \in All(c.trie.entry) /\ p \in Paths /\ p \in DOMAIN c.trie.entry
           /\ Placed(c.trie.entry) /\ c.owner \in [Ids -> OwnerType]
  BY PlantedIsPlaced DEF Whole, Shelf, Planted, Stored, Entry, FitsAt, EntryType, All, Backed, Owned

(* A dropped entry is gone and the rest is whole.                          *)
LEMMA DropKeepsWhole ==
    ASSUME NEW c, Whole(c), NEW p \in Stored(c.trie), NEW d, d = Drop(c, p)
    PROVE  /\ Whole(d) /\ Kept(c, d) /\ Stored(d.trie) = Stored(c.trie) \ {p}
           /\ \A x \in Stored(d.trie) : Entry(d, x) = Entry(c, x)
           /\ d.disk <= c.disk /\ d.bytes <= c.bytes
<1> DEFINE f == c.trie.entry
           all == All(f)
<1>1. PICK e : e = Entry(c, p)
  OBVIOUS
<1>2. /\ FitsAt(e, p) /\ e \in EntryType /\ e.id \in Ids /\ e \in all /\ p \in Paths /\ p \in DOMAIN f
      /\ Placed(f) /\ c.owner \in [Ids -> OwnerType] /\ Formed(c) /\ f[p] = e
  BY <1>1, WholeEntry DEF Whole, Shelf, Entry
<1>3. /\ Formed(d) /\ d.recent = c.recent /\ d.moved
      /\ d.trie = TriePop(c.trie, p) /\ d.order = OrderRemove(c.order, p)
      /\ d.bytes = c.bytes - Nbytes(e)
      /\ d.bytesOf = [c.bytesOf EXCEPT ![e.type] = @ - Nbytes(e)]
      /\ d.files = IF e.filed THEN c.files \ {e.id} ELSE c.files
      /\ d.disk = IF e.filed THEN Max({0, c.disk - e.size}) ELSE c.disk
      /\ d.owner = IF Live(e) THEN [c.owner EXCEPT ![e.id] = Revoked(c.owner[e.id])] ELSE c.owner
  BY <1>1, <1>2, DropFields
<1>4. Planted(d.trie) /\ d.trie.entry = Without(f, p)
  BY <1>2, <1>3, PopKeepsPlanted DEF Whole, Shelf
<1>5. Listed(d.trie.entry, d.order)
  BY <1>2, <1>3, <1>4, RemoveKeepsListed DEF Whole, Shelf
<1>6. Weighed(d.trie.entry, d.bytes, d.bytesOf) /\ c.bytes \in Nat
  <2>1. Weighed(f, c.bytes, c.bytesOf)
    BY DEF Whole, Shelf
  <2>2. /\ Weighed(Without(f, p), c.bytes - Nbytes(f[p]), [c.bytesOf EXCEPT ![f[p].type] = @ - Nbytes(f[p])])
        /\ c.bytes \in Nat
    BY <2>1, <1>2, UncountKeepsWeighed
  <2>3. QED
    BY <2>2, <1>2, <1>3, <1>4
<1>7. DOMAIN Without(f, p) = DOMAIN f \ {p} /\ \A x \in DOMAIN f : x # p => Without(f, p)[x] = f[x]
  BY WithoutIs
<1>8. All(d.trie.entry) = all \ {e}
  BY <1>2, <1>4, AllWithout
<1>9. Apart(all) /\ Stocked(c.files, c.disk, all) /\ Owned(c.owner, all)
  BY DEF Whole, Backed
<1>10. Apart(all \ {e})
  BY <1>9, ApartLess
<1>11. Stocked(d.files, d.disk, all \ {e}) /\ d.disk <= c.disk
  <2>1. /\ Stocked(IF e.filed THEN c.files \ {e.id} ELSE c.files,
                   IF e.filed THEN Max({0, c.disk - e.size}) ELSE c.disk, all \ {e})
        /\ c.disk \in Nat /\ (e.filed => c.disk >= e.size /\ Max({0, c.disk - e.size}) = c.disk - e.size)
        /\ e.size \in Nat
    BY <1>2, <1>9, StockLess
  <2>2. QED
    BY <2>1, <1>3
<1>18. Owned(d.owner, all \ {e})
  BY <1>2, <1>3, <1>9, OwnLess
<1>12. \A i \in Ids : d.owner[i].pins = c.owner[i].pins
  <2>1. d.owner = IF Live(e) THEN [c.owner EXCEPT ![e.id] = Revoked(c.owner[e.id])] ELSE c.owner
    BY <1>3
  <2>2. QED
    BY <2>1, <1>2, <1>9, <1>18, OwnLess
<1>13. Whole(d)
  BY <1>3, <1>4, <1>5, <1>6, <1>8, <1>10, <1>11, <1>18 DEF Whole, Shelf, Backed
<1>14. Stored(d.trie) = Stored(c.trie) \ {p} /\ \A x \in Stored(d.trie) : Entry(d, x) = Entry(c, x)
  BY <1>4, <1>7 DEF Stored, Entry
<1>15. Kept(c, d)
  BY <1>3, <1>12, <1>14 DEF Kept, Follows
<1>16. d.bytes <= c.bytes
  BY <1>2, <1>3, <1>6, EntryWeighs
<1>17. QED
  BY <1>11, <1>13, <1>14, <1>15, <1>16

(* d has g where c has another entry at p. *)
Swapped(c, d, p, g) ==
    /\ Stored(d.trie) = Stored(c.trie)
    /\ Entry(d, p) = g /\ \A x \in Stored(c.trie) : x # p => Entry(d, x) = Entry(c, x)
    /\ All(d.trie.entry) = (All(c.trie.entry) \ {Entry(c, p)}) \cup {g}

(* An entry replaced by one of the same place and type.                    *)
LEMMA SwapKeepsShelf ==
    ASSUME NEW c, Shelf(c), NEW p \in Stored(c.trie), NEW g, FitsAt(g, p), g.type = Entry(c, p).type,
           NEW d, Formed(d), d.trie = [c.trie EXCEPT !.entry[p] = g], d.order = c.order,
           Weighed(With(c.trie.entry, p, g), d.bytes, d.bytesOf)
    PROVE  Shelf(d) /\ Swapped(c, d, p, g)
<1> DEFINE f == c.trie.entry
<1>1. Planted(c.trie) /\ Placed(f) /\ p \in DOMAIN f /\ f[p] = Entry(c, p) /\ Listed(f, c.order)
  BY PlantedIsPlaced DEF Shelf, Stored, Entry
<1>2. Planted(d.trie) /\ d.trie.entry = With(f, p, g)
  BY <1>1, SwapKeepsPlanted
<1>3. Listed(d.trie.entry, d.order)
  BY <1>1, <1>2, SwapKeepsListed
<1>4. DOMAIN With(f, p, g) = DOMAIN f /\ \A x \in DOMAIN f : With(f, p, g)[x] = IF x = p THEN g ELSE f[x]
  BY <1>1 DEF With
<1>5. All(d.trie.entry) = (All(f) \ {f[p]}) \cup {g}
  BY <1>1, <1>2, AllSwap
<1>6. QED
  BY <1>1, <1>2, <1>3, <1>4, <1>5 DEF Shelf, Stored, Entry, Swapped

(* The accounts, with another entry of the same type in the place of one.  *)
LEMMA SwapKeepsWeighed ==
    ASSUME NEW f, Placed(f), NEW b, NEW bo, Weighed(f, b, bo), NEW p \in DOMAIN f,
           NEW g, FitsAt(g, p), g.type = f[p].type,
           NEW r, r = b - Nbytes(f[p]) + Nbytes(g),
           NEW ro, ro = [bo EXCEPT ![g.type] = @ - Nbytes(f[p]) + Nbytes(g)]
    PROVE  Weighed(With(f, p, g), r, ro)
<1> DEFINE n == Nbytes(f[p])
           m == Nbytes(g)
           ty == g.type
           h == Without(f, p)
<1>1. n \in Nat /\ m \in Nat /\ ty \in CacheTypes
  BY EntryWeighs DEF Placed, FitsAt
<1>2. PICK a, ao : a = b - n /\ ao = [bo EXCEPT ![ty] = @ - n]
  OBVIOUS
<1>3. Weighed(h, a, ao)
  BY <1>2, UncountKeepsWeighed
<1>4. Placed(h) /\ p \notin DOMAIN h /\ p \in Paths
  <2>1. Placed(h)
    BY WithoutKeepsPlaced
  <2>2. p \notin DOMAIN h
    BY DEF Without
  <2>3. QED
    BY <2>1, <2>2 DEF Placed
<1> HIDE DEF h
<1>5. Weighed(With(h, p, g), a + m, [ao EXCEPT ![ty] = @ + m])
  BY <1>3, <1>4, CountKeepsWeighed
<1>6. With(h, p, g) = With(f, p, g)
  BY WithIsMade DEF h, Placed
<1>7. bo = [t \in CacheTypes |-> bo[t]]
  BY DEF Weighed
<1>8. [ao EXCEPT ![ty] = @ + m] = ro
  <2> HIDE DEF n, m, ty
  <2>0. ro = [bo EXCEPT ![ty] = @ - n + m]
    BY DEF n, m, ty
  <2>1. ao = [t \in CacheTypes |-> IF t = ty THEN bo[t] - n ELSE bo[t]]
    BY <1>2, <1>7
  <2>2. [ao EXCEPT ![ty] = @ + m] = [t \in CacheTypes |-> IF t = ty THEN bo[t] - n + m ELSE bo[t]]
    BY <2>1, <1>1
  <2>3. ro = [t \in CacheTypes |-> IF t = ty THEN bo[t] - n + m ELSE bo[t]]
    BY <1>7, <2>0, <1>1
  <2>4. QED
    BY <2>2, <2>3
<1>9. a + m = r
  BY <1>2
<1>10. QED
  BY <1>5, <1>6, <1>8, <1>9

(* The accounts are numbers.                                               *)
LEMMA WeighedNat ==
    ASSUME NEW f, Placed(f), NEW b, NEW bo, Weighed(f, b, bo)
    PROVE  b \in Nat /\ bo \in [CacheTypes -> Nat] /\ (DOMAIN f = {} => b = 0)
<1>1. \A t \in CacheTypes : Typed(f, t) \subseteq DOMAIN f
  BY DEF Typed
<1>2. \A t \in CacheTypes : Weight(f, Typed(f, t)) \in Nat
  BY <1>1, WeightSplits
<1>3. Weight(f, DOMAIN f) \in Nat /\ (DOMAIN f = {} => Weight(f, DOMAIN f) = 0)
  BY WeightSplits
<1>4. QED
  BY <1>2, <1>3 DEF Weighed

(* An entry that is resident loses its files.                              *)
LEMMA UnfileKeepsWhole ==
    ASSUME NEW c, Whole(c), NEW p \in Stored(c.trie), Entry(c, p).filed, Entry(c, p).resident,
           NEW d, d = Unfile(c, p)
    PROVE  /\ Whole(d) /\ Kept(c, d) /\ Stored(d.trie) = Stored(c.trie)
           /\ \A x \in Stored(d.trie) : x # p => Entry(d, x) = Entry(c, x)
           /\ ~Entry(d, p).filed /\ Entry(d, p).resident
           /\ d.disk <= c.disk /\ d.bytes = c.bytes
<1> DEFINE f == c.trie.entry
           all == All(f)
<1>1. PICK e, g : e = Entry(c, p) /\ g = Unfiled(e)
  OBVIOUS
<1>2. /\ FitsAt(e, p) /\ e \in EntryType /\ e.id \in Ids /\ e \in all /\ p \in Paths /\ p \in DOMAIN f
      /\ Placed(f) /\ c.owner \in [Ids -> OwnerType] /\ Formed(c) /\ f[p] = e /\ Planted(c.trie)
      /\ Shelf(c) /\ Backed(c.files, c.disk, c.owner, all) /\ Weighed(f, c.bytes, c.bytesOf)
  BY <1>1, WholeEntry DEF Whole, Shelf, Entry
<1>3. /\ Formed(d) /\ d.recent = c.recent /\ d.moved = c.moved /\ d.order = c.order
      /\ d.trie = [c.trie EXCEPT !.entry[p] = g]
      /\ d.bytes = c.bytes /\ d.bytesOf = c.bytesOf /\ d.owner = c.owner
      /\ d.files = c.files \ {e.id} /\ d.disk = Max({0, c.disk - e.size})
  BY <1>1, <1>2, UnfileFields
<1>4. /\ Backed(d.files, d.disk, d.owner, (all \ {e}) \cup {g}) /\ d.disk <= c.disk
      /\ g.id = e.id /\ g \in EntryType /\ g.resident = e.resident /\ ~g.filed /\ g.type = e.type
  <2>1. e.filed
    BY <1>1
  <2>2. Backed(c.files \ {e.id}, Max({0, c.disk - e.size}), c.owner, (all \ {e}) \cup {g})
    BY <1>1, <1>2, <2>1, UnfileKeepsBacked
  <2>4. Max({0, c.disk - e.size}) <= c.disk
    BY <1>1, <1>2, <2>1, UnfileKeepsBacked
  <2>5. g.id = e.id /\ g \in EntryType /\ g.resident = e.resident /\ ~g.filed /\ g.type = e.type
    BY <1>1, <1>2, <2>1, <2>2, UnfileKeepsBacked
  <2>3. QED
    BY <2>2, <2>4, <2>5, <1>3
<1>5. FitsAt(g, p) /\ Nbytes(g) = Nbytes(e)
  <2>1. g.resident /\ g.size = e.size /\ e.resident
    BY <1>1, <1>2, <1>4 DEF EntryType, Unfiled
  <2>2. QED
    BY <2>1, <1>2, <1>4 DEF FitsAt, Nbytes
<1>6. Weighed(With(f, p, g), d.bytes, d.bytesOf)
  <2>1. c.bytes \in Nat /\ c.bytesOf \in [CacheTypes -> Nat]
    BY <1>2, WeighedNat
  <2>2. PICK n : n = Nbytes(e) /\ n \in Nat
    BY <1>2, EntryWeighs
  <2>3. g.type \in CacheTypes
    BY <1>4, EntryWeighs
  <2>4. c.bytes = c.bytes - n + n /\ c.bytesOf = [c.bytesOf EXCEPT ![g.type] = @ - n + n]
    BY <2>1, <2>2, <2>3
  <2>5. Weighed(With(f, p, g), c.bytes, c.bytesOf)
    BY <2>2, <2>4, <1>2, <1>4, <1>5, SwapKeepsWeighed
  <2>6. QED
    BY <2>5, <1>3
<1>7. /\ Shelf(d) /\ Stored(d.trie) = Stored(c.trie)
      /\ Entry(d, p) = g /\ \A x \in Stored(c.trie) : x # p => Entry(d, x) = Entry(c, x)
      /\ All(d.trie.entry) = (all \ {e}) \cup {g}
  <2>1. p \in Stored(c.trie) /\ g.type = Entry(c, p).type /\ Entry(c, p) = e
    BY <1>1, <1>2, <1>3, <1>4, <1>5, <1>6
  <2> HIDE DEF f
  <2>2. Shelf(d)
    BY <1>1, <1>2, <1>3, <1>4, <1>5, <1>6, <2>1, SwapKeepsShelf DEF f
  <2>3. Swapped(c, d, p, g)
    BY <1>1, <1>2, <1>3, <1>4, <1>5, <1>6, <2>1, <2>2, SwapKeepsShelf DEF f
  <2>4. QED
    BY <2>1, <2>2, <2>3 DEF Swapped, f
<1>8. Whole(d)
  BY <1>4, <1>7 DEF Whole
<1>9. Loaded(c) \subseteq Loaded(d)
  <2>1. \A x \in Stored(c.trie) : Entry(d, x).id = Entry(c, x).id /\ (Entry(d, x).resident <=> Entry(c, x).resident)
    BY <1>1, <1>4, <1>7
  <2>2. QED
    BY <2>1, <1>7 DEF Loaded, Resident
<1>10. Kept(c, d)
  BY <1>3, <1>7, <1>9 DEF Kept, Follows
<1>11. QED
  BY <1>1, <1>3, <1>4, <1>7, <1>8, <1>10

(* An entry is spilled.                                                    *)
LEMMA SpillKeepsWhole ==
    ASSUME NEW c, Whole(c), NEW p \in Stored(c.trie), Entry(c, p).resident, ~Pinned(c, Entry(c, p)),
           NEW d, d = Spill(c, p)
    PROVE  /\ Whole(d) /\ Kept(c, d) /\ Stored(d.trie) = Stored(c.trie)
           /\ \A x \in Stored(d.trie) : x # p => Entry(d, x) = Entry(c, x)
<1> DEFINE f == c.trie.entry
           all == All(f)
<1>1. PICK e, g : e = Entry(c, p) /\ g = Gone(e)
  OBVIOUS
<1>2. /\ FitsAt(e, p) /\ e \in EntryType /\ e.id \in Ids /\ e \in all /\ p \in Paths /\ p \in DOMAIN f
      /\ Placed(f) /\ c.owner \in [Ids -> OwnerType] /\ Formed(c) /\ f[p] = e /\ Planted(c.trie)
      /\ Shelf(c) /\ Backed(c.files, c.disk, c.owner, all) /\ Weighed(f, c.bytes, c.bytesOf)
  BY <1>1, WholeEntry DEF Whole, Shelf, Entry
<1>3. /\ Formed(d) /\ d.recent = c.recent /\ d.moved /\ d.order = c.order
      /\ d.trie = [c.trie EXCEPT !.entry[p] = g]
      /\ d.bytes = c.bytes - Nbytes(e)
      /\ d.bytesOf = [c.bytesOf EXCEPT ![e.type] = @ - Nbytes(e)]
      /\ d.files = IF e.filed THEN c.files ELSE c.files \cup {e.id}
      /\ d.disk = IF e.filed THEN c.disk ELSE c.disk + e.size
      /\ d.owner = IF e.frozen THEN [c.owner EXCEPT ![e.id] = Revoked(c.owner[e.id])] ELSE c.owner
  <2>1. /\ Formed(c) /\ c.owner \in [Ids -> OwnerType] /\ Planted(c.trie)
        /\ p \in DOMAIN c.trie.entry /\ e = Entry(c, p) /\ e.id \in Ids /\ e.resident
    BY <1>1, <1>2
  <2>2. Spilled(c, d, p, e)
    BY <2>1, SpillFields
  <2>3. QED
    BY <1>1, <2>2 DEF Spilled
<1>4. e.frozen => c.owner[e.id].pins = 0
  <2>1. c.owner[e.id] \in OwnerType
    BY <1>2
  <2>2. ~(e.frozen /\ c.owner[e.id].pins > 0)
    BY <1>1 DEF Pinned
  <2>3. QED
    BY <2>1, <2>2 DEF OwnerType
<1>5. /\ g.id = e.id /\ g \in EntryType /\ ~g.resident /\ g.filed /\ g.type = e.type
      /\ Backed(d.files, d.disk, d.owner, (all \ {e}) \cup {g})
  <2>1. PICK R : R = IF e.frozen THEN [c.owner EXCEPT ![e.id] = Revoked(c.owner[e.id])] ELSE c.owner
    OBVIOUS
  <2> HIDE DEF all
  <2>0. e.resident
    BY <1>1
  <2>2. Backed(IF e.filed THEN c.files ELSE c.files \cup {e.id}, IF e.filed THEN c.disk ELSE c.disk + e.size,
               R, (all \ {e}) \cup {g})
    BY <1>1, <1>2, <1>4, <2>0, <2>1, SpillKeepsBacked
  <2>4. g.id = e.id /\ g \in EntryType /\ ~g.resident /\ g.filed /\ g.type = e.type
    <3>1. g = Gone(e) /\ e \in EntryType
      BY <1>1, <1>2
    <3>2. QED
      BY <3>1 DEF EntryType, Gone
  <2>3. QED
    BY <2>1, <2>2, <2>4, <1>3
<1>6. \A i \in Ids : d.owner[i].pins = c.owner[i].pins
  <2>1. d.owner = IF e.frozen THEN [c.owner EXCEPT ![e.id] = Revoked(c.owner[e.id])] ELSE c.owner
    BY <1>3
  <2>2. Revoked(c.owner[e.id]).pins = c.owner[e.id].pins
    BY DEF Revoked
  <2>3. QED
    BY <2>1, <2>2, <1>2
<1>7. FitsAt(g, p) /\ Nbytes(g) = 0
  BY <1>2, <1>5 DEF FitsAt, Nbytes
<1>8. Weighed(With(f, p, g), d.bytes, d.bytesOf)
  <2>1. c.bytes \in Nat /\ c.bytesOf \in [CacheTypes -> Nat]
    BY <1>2, WeighedNat
  <2>2. PICK n : n = Nbytes(e) /\ n \in Nat
    BY <1>2, EntryWeighs
  <2>3. g.type \in CacheTypes /\ g.type = e.type
    BY <1>5, EntryWeighs
  <2>4. d.bytes = c.bytes - n + 0 /\ d.bytesOf = [c.bytesOf EXCEPT ![g.type] = @ - n + 0]
    <3>1. d.bytes = c.bytes - n /\ d.bytesOf = [c.bytesOf EXCEPT ![g.type] = @ - n]
      BY <2>2, <2>3, <1>3
    <3>2. QED
      BY <3>1, <2>1, <2>2, <2>3
  <2>5. QED
    BY <2>2, <2>4, <1>2, <1>5, <1>7, SwapKeepsWeighed
<1>9. /\ Shelf(d) /\ Stored(d.trie) = Stored(c.trie)
      /\ Entry(d, p) = g /\ \A x \in Stored(c.trie) : x # p => Entry(d, x) = Entry(c, x)
      /\ All(d.trie.entry) = (all \ {e}) \cup {g}
  <2>1. p \in Stored(c.trie) /\ g.type = Entry(c, p).type /\ Entry(c, p) = e
    BY <1>1, <1>2, <1>3, <1>5, <1>7, <1>8
  <2> HIDE DEF f
  <2>2. Shelf(d)
    BY <1>1, <1>2, <1>3, <1>5, <1>7, <1>8, <2>1, SwapKeepsShelf DEF f
  <2>3. Swapped(c, d, p, g)
    BY <1>1, <1>2, <1>3, <1>5, <1>7, <1>8, <2>1, <2>2, SwapKeepsShelf DEF f
  <2>4. QED
    BY <2>1, <2>2, <2>3 DEF Swapped, f
<1>10. Whole(d)
  BY <1>5, <1>9 DEF Whole
<1>11. Kept(c, d)
  BY <1>3, <1>6, <1>9 DEF Kept, Follows
<1>12. QED
  BY <1>9, <1>10, <1>11

(* A spilled entry is loaded again.                                        *)
LEMMA RegainKeepsWhole ==
    ASSUME NEW c, Whole(c), NEW p \in Stored(c.trie), ~Entry(c, p).resident, NEW w \in BOOLEAN,
           NEW d, d = Regain(c, p, w)
    PROVE  /\ Whole(d) /\ Follows(c, d) /\ d.recent = c.recent /\ d.disk = c.disk
           /\ Stored(d.trie) = Stored(c.trie) /\ Entry(d, p).resident
<1> DEFINE f == c.trie.entry
           all == All(f)
<1>1. PICK e, g : e = Entry(c, p) /\ g = Back(e, w)
  OBVIOUS
<1>2. /\ FitsAt(e, p) /\ e \in EntryType /\ e.id \in Ids /\ e \in all /\ p \in Paths /\ p \in DOMAIN f
      /\ Placed(f) /\ c.owner \in [Ids -> OwnerType] /\ Formed(c) /\ f[p] = e /\ Planted(c.trie)
      /\ Shelf(c) /\ Backed(c.files, c.disk, c.owner, all) /\ Weighed(f, c.bytes, c.bytesOf)
  BY <1>1, WholeEntry DEF Whole, Shelf, Entry
<1>3. /\ Formed(d) /\ d.recent = c.recent /\ d.moved = c.moved /\ d.order = c.order
      /\ d.trie = [c.trie EXCEPT !.entry[p] = g]
      /\ d.bytes = c.bytes + Nbytes(g)
      /\ d.bytesOf = [c.bytesOf EXCEPT ![g.type] = @ + Nbytes(g)]
      /\ d.files = c.files /\ d.disk = c.disk /\ d.owner = Regained(c.owner, e.id, w)
  BY <1>1, <1>2, RegainFields
<1>4. /\ g.id = e.id /\ g \in EntryType /\ g.resident /\ g.filed = e.filed /\ g.type = e.type
      /\ Backed(d.files, d.disk, d.owner, (all \ {e}) \cup {g})
  <2>1. ~e.resident
    BY <1>1
  <2> HIDE DEF all
  <2>0. PICK R : R = Regained(c.owner, e.id, w)
    OBVIOUS
  <2>2. Backed(c.files, c.disk, R, (all \ {e}) \cup {g})
    BY <1>1, <1>2, <2>0, <2>1, RestoreKeepsBacked
  <2>4. g.id = e.id /\ g \in EntryType /\ g.resident /\ g.filed = e.filed /\ g.type = e.type
    <3>1. e \in EntryType /\ g = Back(e, w)
      BY <1>1, <1>2
    <3>2. QED
      BY <3>1 DEF EntryType, Back
  <2>3. QED
    BY <2>0, <2>2, <2>4, <1>3
<1>5. \A i \in Ids : d.owner[i].pins = c.owner[i].pins
  <2>1. ~Live(e)
    BY <1>1 DEF Live
  <2>2. c.owner[e.id] = NoOwner
    BY <1>2, <2>1, OwnsNothing DEF Backed
  <2>3. d.owner = [c.owner EXCEPT ![e.id] = IF w THEN [valid |-> TRUE, pins |-> 0, held |-> TRUE] ELSE NoOwner]
    BY <1>3 DEF Regained
  <2>4. c.owner[e.id].pins = 0 /\ NoOwner.pins = 0
    BY <2>2 DEF NoOwner
  <2>5. (IF w THEN [valid |-> TRUE, pins |-> 0, held |-> TRUE] ELSE NoOwner).pins = 0
    BY <2>4
  <2>6. QED
    BY <2>3, <2>4, <2>5, <1>2
<1>6. FitsAt(g, p)
  BY <1>2, <1>4 DEF FitsAt
<1>7. Weighed(With(f, p, g), d.bytes, d.bytesOf)
  <2>1. c.bytes \in Nat /\ c.bytesOf \in [CacheTypes -> Nat]
    BY <1>2, WeighedNat
  <2>2. PICK m : m = Nbytes(g) /\ m \in Nat /\ g.type \in CacheTypes
    BY <1>4, EntryWeighs
  <2>3. Nbytes(e) = 0
    BY <1>1 DEF Nbytes
  <2>4. d.bytes = c.bytes - 0 + m /\ d.bytesOf = [c.bytesOf EXCEPT ![g.type] = @ - 0 + m]
    <3>1. d.bytes = c.bytes + m /\ d.bytesOf = [c.bytesOf EXCEPT ![g.type] = @ + m]
      BY <2>2, <1>3
    <3>2. QED
      BY <3>1, <2>1, <2>2
  <2>5. QED
    BY <2>2, <2>3, <2>4, <1>2, <1>4, <1>6, SwapKeepsWeighed
<1>8. /\ Shelf(d) /\ Stored(d.trie) = Stored(c.trie)
      /\ Entry(d, p) = g /\ \A x \in Stored(c.trie) : x # p => Entry(d, x) = Entry(c, x)
      /\ All(d.trie.entry) = (all \ {e}) \cup {g}
  <2>1. p \in Stored(c.trie) /\ g.type = Entry(c, p).type /\ Entry(c, p) = e
    BY <1>1, <1>2, <1>3, <1>4, <1>6, <1>7
  <2> HIDE DEF f
  <2>2. Shelf(d)
    BY <1>1, <1>2, <1>3, <1>4, <1>6, <1>7, <2>1, SwapKeepsShelf DEF f
  <2>3. Swapped(c, d, p, g)
    BY <1>1, <1>2, <1>3, <1>4, <1>6, <1>7, <2>1, <2>2, SwapKeepsShelf DEF f
  <2>4. QED
    BY <2>1, <2>2, <2>3 DEF Swapped, f
<1>9. Whole(d)
  BY <1>4, <1>8 DEF Whole
<1>10. Loaded(c) \subseteq Loaded(d)
  <2>1. \A x \in Stored(c.trie) : Entry(d, x).id = Entry(c, x).id /\ (Entry(c, x).resident => Entry(d, x).resident)
    BY <1>1, <1>4, <1>8
  <2>2. QED
    BY <2>1, <1>8 DEF Loaded, Resident
<1>11. Follows(c, d)
  BY <1>3, <1>5, <1>8, <1>10 DEF Follows
<1>12. QED
  BY <1>3, <1>4, <1>8, <1>9, <1>11

(***************************************************************************)
(* Making room: the loops of the disk tier                                 *)
(***************************************************************************)

(* The access times are those of the entries, of some that went as well. *)
Dated(c) ==
    c.recent \in Seq(Paths) /\ Once(c.recent) /\ Stored(c.trie) \subseteq ToSet(c.recent)

(* Whoever keeps c keeps its access times.                                 *)
LEMMA KeptIsDated == ASSUME NEW c, Dated(c), NEW d, Kept(c, d) PROVE Dated(d)
  BY DEF Dated, Kept, Follows

(* The paths from the oldest to the newest that are of a kind.             *)
LEMMA OldestAre ==
    ASSUME NEW c, Dated(c), NEW S, S \subseteq Stored(c.trie)
    PROVE  /\ Only(c.recent, S) \in Seq(Paths) /\ Once(Only(c.recent, S))
           /\ ToSet(Only(c.recent, S)) = S
<1>1. c.recent \in Seq(Paths) /\ Once(c.recent) /\ S \subseteq ToSet(c.recent)
  BY DEF Dated
<1>2. /\ Only(c.recent, S) \in Seq(Paths) /\ Once(Only(c.recent, S))
      /\ ToSet(Only(c.recent, S)) = ToSet(c.recent) \cap S
  BY <1>1, OnlyEffect
<1>3. QED
  BY <1>1, <1>2

(* An entry that is used is the newest one.                                *)
LEMMA TouchDates ==
    ASSUME NEW c, Formed(c), c.recent \in Seq(Paths), Once(c.recent), NEW p \in Paths,
           Stored(c.trie) \subseteq ToSet(c.recent) \cup {p}, NEW d, d = Touch(c, p)
    PROVE  Dated(d)
<1>1. d.recent = Append(Only(c.recent, ToSet(c.recent) \ {p}), p) /\ SameShelf(c, d)
  BY TouchFields
<1>2. PICK s : s = Only(c.recent, ToSet(c.recent) \ {p})
  OBVIOUS
<1>3. s \in Seq(Paths) /\ Once(s) /\ ToSet(s) = ToSet(c.recent) \cap (ToSet(c.recent) \ {p})
  BY <1>2, OnlyEffect
<1>4. p \notin ToSet(s) /\ ToSet(s) \cup {p} = ToSet(c.recent) \cup {p}
  BY <1>3
<1>5. Append(s, p) \in Seq(Paths) /\ Once(Append(s, p)) /\ ToSet(Append(s, p)) = ToSet(s) \cup {p}
  BY <1>3, <1>4, AppendOnce
<1>6. QED
  BY <1>1, <1>2, <1>4, <1>5 DEF Dated, SameShelf

(* Nothing else changes by that.                                           *)
LEMMA TouchKeepsWhole ==
    ASSUME NEW c, Whole(c), NEW p, NEW d, d = Touch(c, p)
    PROVE  Whole(d) /\ Follows(c, d) /\ d.trie = c.trie /\ d.disk = c.disk /\ d.bytes = c.bytes
<1>1. Formed(c)
  BY DEF Whole, Shelf
<1>2. Formed(d) /\ SameShelf(c, d) /\ SameTier(c, d) /\ d.moved = c.moved
  BY <1>1, TouchFields
<1>3. Whole(d)
  BY <1>2 DEF Whole, Shelf, SameShelf, SameTier
<1>4. Loaded(d) = Loaded(c)
  BY <1>2 DEF Loaded, Resident, Entry, SameShelf
<1>5. QED
  BY <1>2, <1>3, <1>4 DEF SameShelf, SameTier, Follows

(* The tier counts bytes.                                                  *)
LEMMA DiskIsNat == ASSUME NEW c, Whole(c) PROVE c.disk \in Nat
<1>1. PICK all : all = All(c.trie.entry)
  OBVIOUS
<1>2. Apart(all) /\ c.disk = SumFunction([e \in Filed(all) |-> e.size])
  BY <1>1 DEF Whole, Backed, Stocked
<1>3. IsFiniteSet(Filed(all)) /\ \A e \in Filed(all) : e.size \in Nat
  <2>1. Filed(all) \subseteq all /\ IsFiniteSet(all) /\ \A e \in all : e.size \in Nat
    BY <1>2 DEF Filed, Apart, EntryType
  <2>2. QED
    BY <2>1, FS_Subset
<1>4. [e \in Filed(all) |-> e.size] \in [Filed(all) -> Nat]
  BY <1>3
<1>5. QED
  BY <1>2, <1>3, <1>4, TotalSplits

(* A tier without files is empty.                                          *)
LEMMA NothingFiled ==
    ASSUME NEW c, Whole(c), \A p \in Stored(c.trie) : ~Entry(c, p).filed
    PROVE  c.disk = 0
<1>1. Filed(All(c.trie.entry)) = {}
  BY DEF Filed, All, Stored, Entry
<1>2. c.disk = SumFunction([e \in Filed(All(c.trie.entry)) |-> e.size])
  BY DEF Whole, Backed, Stocked
<1>3. PICK h : h = [e \in Filed(All(c.trie.entry)) |-> e.size]
  OBVIOUS
<1>4. h \in [{} -> Nat]
  BY <1>1, <1>3
<1>5. SumFunction(h) = 0
  BY <1>4, FS_EmptySet, TotalSplits
<1>6. QED
  BY <1>2, <1>3, <1>5

(* The loop of EnforceDisk, over the paths at L.                           *)
DiskStep(L, i, d) ==
    IF d.disk <= MaxDisk THEN d ELSE IF Entry(d, L[i]).resident THEN Unfile(d, L[i]) ELSE Drop(d, L[i])

(* The paths that are still to come are as they were, and there are no     *)
(* other files.                                                            *)
DiskHolds(L, c, i, d) ==
    /\ Whole(d) /\ Kept(c, d)
    /\ \A j \in DOMAIN L : j > i => L[j] \in Stored(d.trie) /\ Entry(d, L[j]) = Entry(c, L[j])
    /\ d.disk <= MaxDisk \/ \A p \in Stored(d.trie) : Entry(d, p).filed => \E j \in DOMAIN L : j > i /\ L[j] = p

DiskLoop == INSTANCE FoldTheorems WITH Size <- Cardinality, Pick <- Max, Step <- DiskStep, Holds <- DiskHolds

(* The operator is that loop.                                              *)
LEMMA EnforceDiskLoops ==
    ASSUME NEW c, NEW L, L = OldestFirst(c, LAMBDA p : Entry(c, p).filed)
    PROVE  EnforceDisk(c) = DiskLoop!FoldOf(L, c, DOMAIN L)[DOMAIN L]
  BY DEF EnforceDisk, FoldLeft, MapThenFoldSet, DiskStep, DiskLoop!FoldOf, DiskLoop!IsFold

(* A step of the loop.                                                     *)
LEMMA DiskStepHolds ==
    ASSUME NEW c, NEW L \in Seq(Paths), Once(L), \A j \in DOMAIN L : Entry(c, L[j]).filed,
           NEW i \in DOMAIN L, NEW d, DiskHolds(L, c, i - 1, d), NEW r, r = DiskStep(L, i, d)
    PROVE  DiskHolds(L, c, i, r)
<1>0. DOMAIN L = 1..Len(L) /\ Len(L) \in Nat /\ i \in Nat
  OBVIOUS
<1>1. PICK p : p = L[i]
  OBVIOUS
<1>2. \A j \in DOMAIN L : j > i => j > i - 1 /\ L[j] # p
  BY <1>0, <1>1 DEF Once
<1>3. i > i - 1 /\ \A j \in DOMAIN L : j > i - 1 => j = i \/ j > i
  BY <1>0
<1>4. p \in Stored(d.trie) /\ Entry(d, p) = Entry(c, p) /\ Entry(d, p).filed
  BY <1>1, <1>3 DEF DiskHolds
<1>5. Whole(d) /\ Kept(c, d)
  BY DEF DiskHolds
<1>6. \A j \in DOMAIN L : j > i => L[j] \in Stored(d.trie) /\ Entry(d, L[j]) = Entry(c, L[j])
  BY <1>2 DEF DiskHolds
<1>7. CASE d.disk <= MaxDisk
  <2>1. r = d
    BY <1>7 DEF DiskStep
  <2>2. QED
    BY <2>1, <1>5, <1>6, <1>7 DEF DiskHolds
<1>8. CASE ~(d.disk <= MaxDisk)
  <2>1. \A x \in Stored(d.trie) : Entry(d, x).filed /\ x # p => \E j \in DOMAIN L : j > i /\ L[j] = x
    BY <1>1, <1>3, <1>8 DEF DiskHolds
  <2>2. CASE Entry(d, p).resident
    <3>1. r = Unfile(d, p)
      BY <1>1, <1>8, <2>2 DEF DiskStep
    <3>2. /\ Whole(r) /\ Kept(d, r) /\ Stored(r.trie) = Stored(d.trie)
          /\ \A x \in Stored(r.trie) : x # p => Entry(r, x) = Entry(d, x)
          /\ ~Entry(r, p).filed
      BY <3>1, <2>2, <1>4, <1>5, UnfileKeepsWhole
    <3>3. Kept(c, r)
      BY <3>2, <1>5, KeptOn
    <3>4. \A j \in DOMAIN L : j > i => L[j] \in Stored(r.trie) /\ Entry(r, L[j]) = Entry(c, L[j])
      BY <3>2, <1>2, <1>6
    <3>5. \A x \in Stored(r.trie) : Entry(r, x).filed => \E j \in DOMAIN L : j > i /\ L[j] = x
      BY <3>2, <2>1
    <3>6. QED
      BY <3>2, <3>3, <3>4, <3>5 DEF DiskHolds
  <2>3. CASE ~Entry(d, p).resident
    <3>1. r = Drop(d, p)
      BY <1>1, <1>8, <2>3 DEF DiskStep
    <3>0. Whole(r)
      BY <3>1, <1>4, <1>5, DropKeepsWhole
    <3>8. Kept(d, r) /\ Stored(r.trie) = Stored(d.trie) \ {p}
      BY <3>0, <3>1, <1>4, <1>5, DropKeepsWhole
    <3>9. \A x \in Stored(r.trie) : Entry(r, x) = Entry(d, x)
      BY <3>0, <3>1, <1>4, <1>5, DropKeepsWhole
    <3>2. /\ Whole(r) /\ Kept(d, r) /\ Stored(r.trie) = Stored(d.trie) \ {p}
          /\ \A x \in Stored(r.trie) : Entry(r, x) = Entry(d, x)
      BY <3>0, <3>8, <3>9
    <3>3. Kept(c, r)
      BY <3>2, <1>5, KeptOn
    <3>4. \A j \in DOMAIN L : j > i => L[j] \in Stored(r.trie) /\ Entry(r, L[j]) = Entry(c, L[j])
      BY <3>2, <1>2, <1>6
    <3>5. \A x \in Stored(r.trie) : Entry(r, x).filed => \E j \in DOMAIN L : j > i /\ L[j] = x
      BY <3>2, <2>1
    <3>6. QED
      BY <3>2, <3>3, <3>4, <3>5 DEF DiskHolds
  <2>4. QED
    BY <2>2, <2>3
<1>9. QED
  BY <1>7, <1>8

(* The tier is within its limit afterwards, whatever had to go.            *)
LEMMA EnforceDiskKeeps ==
    ASSUME NEW c, Whole(c), Dated(c), NEW d, d = EnforceDisk(c)
    PROVE  Whole(d) /\ Kept(c, d) /\ d.disk <= MaxDisk
<1> DEFINE S == {p \in Stored(c.trie) : Entry(c, p).filed}
<1>1. PICK L : L = OldestFirst(c, LAMBDA p : Entry(c, p).filed)
  OBVIOUS
<1>2. L = Only(c.recent, S)
  BY <1>1 DEF OldestFirst
<1>3. S \subseteq Stored(c.trie)
  OBVIOUS
<1>4. L \in Seq(Paths) /\ Once(L) /\ ToSet(L) = S
  <2> HIDE DEF S
  <2>1. QED
    BY <1>2, <1>3, OldestAre
<1>5. DOMAIN L = 1..Len(L) /\ Len(L) \in Nat
  BY <1>4
<1>6. \A p : p \in S <=> \E j \in DOMAIN L : L[j] = p
  BY <1>4 DEF ToSet
<1>7. \A j \in DOMAIN L : L[j] \in Stored(c.trie) /\ Entry(c, L[j]).filed
  BY <1>6
<1>8. DiskHolds(L, c, 0, c)
  <2>1. \A j \in DOMAIN L : j > 0
    BY <1>5
  <2>2. \A p \in Stored(c.trie) : Entry(c, p).filed => \E j \in DOMAIN L : j > 0 /\ L[j] = p
    BY <2>1, <1>6
  <2>3. QED
    BY <2>2, <1>7, KeptSame DEF DiskHolds
<1>9. \A i \in 1..Len(L) : \A r : DiskHolds(L, c, i - 1, r) => DiskHolds(L, c, i, DiskStep(L, i, r))
  BY <1>4, <1>5, <1>7, DiskStepHolds
<1>10. DiskLoop!TakesLast
  BY PlacesEnd, SetOfNumbers DEF DiskLoop!TakesLast, DiskLoop!Foldable, DiskLoop!Measured, DiskLoop!Induction
<1>11. DiskHolds(L, c, Len(L), DiskLoop!FoldOf(L, c, 1..Len(L))[1..Len(L)])
  BY <1>5, <1>8, <1>9, <1>10, DiskLoop!ListHolds
<1>12. DiskHolds(L, c, Len(L), d)
  BY <1>1, <1>5, <1>11, EnforceDiskLoops
<1>13. d.disk <= MaxDisk
  <2>1. Whole(d) /\ (d.disk <= MaxDisk \/ \A p \in Stored(d.trie) : ~Entry(d, p).filed)
    BY <1>5, <1>12 DEF DiskHolds
  <2>2. MaxDisk \in Nat
    BY PrefixAssumption
  <2>3. QED
    BY <2>1, <2>2, NothingFiled
<1>14. QED
  BY <1>12, <1>13 DEF DiskHolds

(* What SpillToFit may spill next, the oldest first, and its step. *)
Spillable(k, d) ==
    OldestFirst(d, LAMBDA p : /\ Entry(d, p).resident
                              /\ ~Pinned(d, Entry(d, p))
                              /\ p # k.keep \/ d.bytes = Nbytes(Entry(d, p)))
SpillStep(k, i, d) ==
    IF d.bytes > k.limit
    THEN IF Spillable(k, d) # <<>> /\ MaySpill(d, Head(Spillable(k, d)), k.bad)
         THEN Spill(d, Head(Spillable(k, d))) ELSE d
    ELSE d
SpillHolds(k, c, i, d) == Whole(d) /\ Kept(c, d)

SpillLoop == INSTANCE FoldTheorems WITH Size <- Cardinality, Pick <- Max, Step <- SpillStep, Holds <- SpillHolds

(* The operator is that loop, and the tier is brought to its limit after it.*)
LEMMA SpillLoops ==
    ASSUME NEW c, NEW k, NEW n, n = Cardinality(Stored(c.trie)),
           NEW done, done = SpillLoop!FoldOf(k, c, 1..n)[1..n]
    PROVE  SpillToFit(c, k.limit, k.keep, k.bad) = IF ~tier \/ done = c THEN c ELSE EnforceDisk(done)
  BY DEF SpillToFit, Repeat, FoldLeft, MapThenFoldSet, SpillStep, Spillable, SpillLoop!FoldOf, SpillLoop!IsFold

(* Room is made, and the tier is within its limit if it was before.        *)
LEMMA SpillToFitKeeps ==
    ASSUME NEW c, Whole(c), Dated(c), c.disk <= MaxDisk, NEW limit, NEW keep, NEW bad,
           NEW d, d = SpillToFit(c, limit, keep, bad)
    PROVE  Whole(d) /\ Kept(c, d) /\ d.disk <= MaxDisk /\ (tier \/ d = c)
<1>1. PICK k : k = [limit |-> limit, keep |-> keep, bad |-> bad]
  OBVIOUS
<1>2. k.limit = limit /\ k.keep = keep /\ k.bad = bad
  BY <1>1
<1>3. PICK n : n = Cardinality(Stored(c.trie))
  OBVIOUS
<1>4. n \in Nat
  <2>1. IsFiniteSet(Stored(c.trie))
    BY DEF Whole, Shelf, Planted, Stored
  <2>2. QED
    BY <2>1, <1>3, FS_CardinalityType
<1>5. ASSUME NEW i \in 1..n, NEW r, SpillHolds(k, c, i - 1, r)
      PROVE  SpillHolds(k, c, i, SpillStep(k, i, r))
  <2>1. Whole(r) /\ Kept(c, r) /\ Dated(r)
    BY <1>5, KeptIsDated DEF SpillHolds
  <2>2. CASE SpillStep(k, i, r) = r
    BY <2>1, <2>2 DEF SpillHolds
  <2>3. CASE SpillStep(k, i, r) # r
    <3>1. PICK L, p : L = Spillable(k, r) /\ p = Head(L)
      OBVIOUS
    <3>2. L # <<>> /\ SpillStep(k, i, r) = Spill(r, p)
      BY <2>3, <3>1 DEF SpillStep
    <3>3. PICK S : S = {x \in Stored(r.trie) : /\ Entry(r, x).resident
                                               /\ ~Pinned(r, Entry(r, x))
                                               /\ x # k.keep \/ r.bytes = Nbytes(Entry(r, x))}
      OBVIOUS
    <3>4. L = Only(r.recent, S)
      BY <3>1, <3>3 DEF Spillable, OldestFirst
    <3>5. L \in Seq(Paths) /\ Once(L) /\ ToSet(L) = S
      BY <2>1, <3>3, <3>4, OldestAre
    <3>6. p \in S
      BY <3>1, <3>2, <3>5, TailOnce
    <3>7. p \in Stored(r.trie) /\ Entry(r, p).resident /\ ~Pinned(r, Entry(r, p))
      BY <3>3, <3>6
    <3>8. PICK s : s = Spill(r, p)
      OBVIOUS
    <3>9. Whole(s)
      BY <2>1, <3>7, <3>8, SpillKeepsWhole
    <3>10. Kept(r, s)
      BY <2>1, <3>7, <3>8, <3>9, SpillKeepsWhole
    <3>11. QED
      BY <2>1, <3>2, <3>8, <3>9, <3>10, KeptOn DEF SpillHolds
  <2>4. QED
    BY <2>2, <2>3
<1>6. SpillHolds(k, c, 0, c)
  BY KeptSame DEF SpillHolds
<1>7. SpillLoop!TakesLast
  BY PlacesEnd, SetOfNumbers DEF SpillLoop!TakesLast, SpillLoop!Foldable, SpillLoop!Measured, SpillLoop!Induction
<1>8. PICK done : done = SpillLoop!FoldOf(k, c, 1..n)[1..n]
  OBVIOUS
<1>9. SpillHolds(k, c, n, done)
  <2>1. \A i \in 1..n : \A r : SpillHolds(k, c, i - 1, r) => SpillHolds(k, c, i, SpillStep(k, i, r))
    BY <1>5
  <2>2. SpillHolds(k, c, n, SpillLoop!FoldOf(k, c, 1..n)[1..n])
    BY <2>1, <1>4, <1>6, <1>7, SpillLoop!ListHolds
  <2>3. QED
    BY <2>2, <1>8
<1>10. d = IF ~tier \/ done = c THEN c ELSE EnforceDisk(done)
  <2>1. SpillToFit(c, k.limit, k.keep, k.bad) = IF ~tier \/ done = c THEN c ELSE EnforceDisk(done)
    BY <1>3, <1>8, SpillLoops
  <2>2. QED
    BY <2>1, <1>2
<1>11. CASE ~tier \/ done = c
  BY <1>10, <1>11, KeptSame
<1>12. CASE ~(~tier \/ done = c)
  <2>1. d = EnforceDisk(done) /\ tier
    BY <1>10, <1>12
  <2>2. Whole(done) /\ Kept(c, done) /\ Dated(done)
    BY <1>9, KeptIsDated DEF SpillHolds
  <2>3. Whole(d) /\ Kept(done, d) /\ d.disk <= MaxDisk
    BY <2>1, <2>2, EnforceDiskKeeps
  <2>4. QED
    BY <2>1, <2>2, <2>3, KeptOn
<1>13. QED
  BY <1>11, <1>12

(* Restoring an entry: it may be loaded, still be spilled, or be gone.     *)
LEMMA RestoreKeeps ==
    ASSUME NEW c, Whole(c), Dated(c), c.disk <= MaxDisk, cow \in BOOLEAN,
           NEW p \in Stored(c.trie), ~Entry(c, p).resident, NEW bad,
           NEW d, d = Restore(c, p, bad)
    PROVE  Whole(d) /\ Dated(d) /\ Follows(c, d) /\ d.disk <= MaxDisk
<1>1. PICK e : e = Entry(c, p)
  OBVIOUS
<1>2. PICK limit : limit = Max({0, MaxBytes - e.size})
  OBVIOUS
<1>3. PICK room : room = SpillToFit(c, limit, NoPath, bad)
  OBVIOUS
<1>4. Whole(room) /\ Kept(c, room) /\ room.disk <= MaxDisk
  BY <1>3, SpillToFitKeeps
<1>5. Dated(room)
  BY <1>4, KeptIsDated
<1>6. CASE p \in Stored(room.trie) /\ p \notin bad /\ (cow => e.stable)
  <2>1. Entry(room, p) = e /\ ~Entry(room, p).resident
    BY <1>1, <1>4, <1>6 DEF Kept
  <2>2. d = Regain(room, p, cow)
    <3>1. PICK back : back = [e EXCEPT !.resident = TRUE, !.frozen = cow]
      OBVIOUS
    <3>2. d = [Count(room, back) EXCEPT
                 !.trie.entry[p] = back,
                 !.owner[e.id] = IF cow THEN [valid |-> TRUE, pins |-> 0, held |-> TRUE] ELSE NoOwner]
      BY <1>1, <1>2, <1>3, <1>6, <3>1 DEF Restore
    <3>3. Regain(room, p, cow) = [Count(room, back) EXCEPT
                 !.trie.entry[p] = back,
                 !.owner[e.id] = IF cow THEN [valid |-> TRUE, pins |-> 0, held |-> TRUE] ELSE NoOwner]
      BY <2>1, <3>1 DEF Regain
    <3>4. QED
      BY <3>2, <3>3
  <2>3. Whole(d) /\ Follows(room, d) /\ d.recent = room.recent /\ d.disk = room.disk
        /\ Stored(d.trie) = Stored(room.trie)
    BY <1>4, <1>6, <2>1, <2>2, RegainKeepsWhole
  <2>4. QED
    BY <1>4, <1>5, <2>3, FollowsOn DEF Kept, Dated
<1>7. CASE ~(p \in Stored(room.trie) /\ p \notin bad /\ (cow => e.stable))
  <2>1. d = room
    BY <1>1, <1>2, <1>3, <1>7 DEF Restore
  <2>2. QED
    BY <2>1, <1>4, <1>5 DEF Kept
<1>8. QED
  BY <1>6, <1>7

(* The loop of SpillIdle, over the paths at L that were idle.              *)
IdleStep(L, i, d) == Spill(d, L[i])
IdleHolds(L, c, i, d) ==
    /\ Whole(d) /\ Kept(c, d)
    /\ \A j \in DOMAIN L : j > i => L[j] \in Stored(d.trie) /\ Entry(d, L[j]) = Entry(c, L[j])

IdleLoop == INSTANCE FoldTheorems WITH Size <- Cardinality, Pick <- Max, Step <- IdleStep, Holds <- IdleHolds

(* The fold of SpillIdle is that loop.                                     *)
LEMMA IdleLoops ==
    ASSUME NEW c, NEW L
    PROVE  FoldLeft(Spill, c, L) = IdleLoop!FoldOf(L, c, DOMAIN L)[DOMAIN L]
  BY DEF FoldLeft, MapThenFoldSet, IdleStep, IdleLoop!FoldOf, IdleLoop!IsFold

(* Spilling the idle entries one after the other.                          *)
LEMMA SpillIdleKeeps ==
    ASSUME NEW c, Whole(c), NEW L \in Seq(Paths), Once(L),
           \A j \in DOMAIN L : /\ L[j] \in Stored(c.trie) /\ Entry(c, L[j]).resident
                               /\ ~Pinned(c, Entry(c, L[j])),
           NEW d, d = FoldLeft(Spill, c, L)
    PROVE  Whole(d) /\ Kept(c, d)
<1>1. DOMAIN L = 1..Len(L) /\ Len(L) \in Nat
  OBVIOUS
<1>2. ASSUME NEW i \in 1..Len(L), NEW r, IdleHolds(L, c, i - 1, r)
      PROVE  IdleHolds(L, c, i, IdleStep(L, i, r))
  <2>1. PICK p, s : p = L[i] /\ s = Spill(r, p)
    OBVIOUS
  <2>2. Whole(r) /\ Kept(c, r) /\ i \in DOMAIN L /\ i > i - 1
    BY <1>1, <1>2 DEF IdleHolds
  <2>3. p \in Stored(r.trie) /\ Entry(r, p) = Entry(c, p)
    BY <1>2, <2>1, <2>2 DEF IdleHolds
  <2>4. Entry(r, p).resident /\ ~Pinned(r, Entry(r, p))
    <3>1. Entry(c, p).resident /\ ~Pinned(c, Entry(c, p)) /\ p \in Stored(c.trie)
      BY <2>1, <2>2
    <3>2. Entry(c, p).id \in Ids
      BY <3>1, WholeEntry
    <3>3. r.owner[Entry(c, p).id].pins = c.owner[Entry(c, p).id].pins
      BY <2>2, <3>2 DEF Kept, Follows
    <3>4. QED
      BY <2>3, <3>1, <3>3 DEF Pinned
  <2>5. Whole(s)
    BY <2>1, <2>2, <2>3, <2>4, SpillKeepsWhole
  <2>6. Kept(r, s) /\ Stored(s.trie) = Stored(r.trie)
    BY <2>1, <2>2, <2>3, <2>4, <2>5, SpillKeepsWhole
  <2>7. \A x \in Stored(s.trie) : x # p => Entry(s, x) = Entry(r, x)
    BY <2>1, <2>2, <2>3, <2>4, <2>5, SpillKeepsWhole
  <2>8. \A j \in DOMAIN L : j > i => j > i - 1 /\ L[j] # p
    BY <1>1, <2>1, <2>2 DEF Once
  <2>9. \A j \in DOMAIN L : j > i => L[j] \in Stored(s.trie) /\ Entry(s, L[j]) = Entry(c, L[j])
    BY <1>2, <2>6, <2>7, <2>8 DEF IdleHolds
  <2>10. IdleHolds(L, c, i, s)
    BY <2>2, <2>5, <2>6, <2>9, KeptOn DEF IdleHolds
  <2>11. QED
    BY <2>1, <2>10 DEF IdleStep
<1>3. IdleHolds(L, c, 0, c)
  BY KeptSame DEF IdleHolds
<1>4. IdleLoop!TakesLast
  BY PlacesEnd, SetOfNumbers DEF IdleLoop!TakesLast, IdleLoop!Foldable, IdleLoop!Measured, IdleLoop!Induction
<1>5. \A i \in 1..Len(L) : \A r : IdleHolds(L, c, i - 1, r) => IdleHolds(L, c, i, IdleStep(L, i, r))
  BY <1>2
<1>6. IdleHolds(L, c, Len(L), IdleLoop!FoldOf(L, c, 1..Len(L))[1..Len(L)])
  BY <1>1, <1>3, <1>4, <1>5, IdleLoop!ListHolds
<1>7. QED
  BY <1>1, <1>6, IdleLoops DEF IdleHolds

(***************************************************************************)
(* A lookup: the search, and its visits to the candidates                  *)
(***************************************************************************)

(* A cache between the steps of a search, that began with b. *)
Searched(b, c) ==
    /\ Whole(c) /\ Dated(c) /\ Follows(b, c) /\ c.disk <= MaxDisk
    /\ tier \/ (c.trie = b.trie /\ c.bytes = b.bytes /\ \A p \in Stored(c.trie) : Entry(c, p).resident)

(* Searches go on from step to step.                                       *)
LEMMA SearchedOn == \A b, c, d : Follows(b, c) /\ Searched(c, d)
                                   /\ (tier \/ (c.trie = b.trie /\ c.bytes = b.bytes)) => Searched(b, d)
  BY FollowsOn DEF Searched

(* A visit, as it is handed from candidate to candidate. *)
Visiting(v) == v = [c |-> v.c, state |-> v.state, found |-> v.found]

(* A visit touches a candidate, restores it, or drops it.                  *)
LEMMA VisitKeeps ==
    ASSUME cow \in BOOLEAN, NEW b, NEW v, Visiting(v), Searched(b, v.c),
           v.state \in {"visit", "search", "raised"}, NEW p, NEW bad,
           NEW w, w = VisitCandidate(v, p, bad)
    PROVE  /\ Visiting(w) /\ w.found = v.found /\ Searched(b, w.c)
           /\ w.state \in {"visit", "search", "raised"}
<1>1. PICK c : c = v.c
  OBVIOUS
<1>2. Whole(c) /\ Dated(c) /\ Follows(b, c) /\ c.disk <= MaxDisk
  BY <1>1 DEF Searched
<1>3. CASE v.state # "visit"
  BY <1>3 DEF VisitCandidate
<1>4. CASE v.state = "visit" /\ p \notin Stored(c.trie)
  <2>1. w = [v EXCEPT !.state = "raised"]
    BY <1>1, <1>4 DEF VisitCandidate
  <2>2. QED
    BY <2>1 DEF Visiting
<1>5. CASE v.state = "visit" /\ p \in Stored(c.trie) /\ Entry(c, p).resident
  <2>1. PICK d : d = Touch(c, p)
    OBVIOUS
  <2>2. w = [v EXCEPT !.c = d]
    BY <1>1, <1>5, <2>1 DEF VisitCandidate
  <2>3. Visiting(w) /\ w.c = d /\ w.found = v.found /\ w.state = v.state
    BY <2>2 DEF Visiting
  <2>4. Whole(d) /\ Follows(c, d) /\ d.trie = c.trie /\ d.disk = c.disk /\ d.bytes = c.bytes
    BY <1>2, <2>1, TouchKeepsWhole
  <2>5. Dated(d)
    <3>1. p \in Paths /\ Formed(c)
      BY <1>2, <1>5, WholeEntry DEF Whole, Shelf
    <3>2. QED
      BY <1>2, <2>1, <3>1, TouchDates DEF Dated
  <2>6. tier \/ \A x \in Stored(d.trie) : Entry(d, x).resident
    BY <1>1, <2>4 DEF Searched, Entry
  <2>7. Searched(b, d)
    <3>1. Follows(b, d)
      BY <1>2, <2>4, FollowsOn
    <3>2. tier \/ (d.trie = b.trie /\ d.bytes = b.bytes)
      BY <1>1, <2>4 DEF Searched
    <3>3. QED
      BY <3>1, <3>2, <2>4, <2>5, <2>6, <1>2 DEF Searched
  <2>8. QED
    BY <2>3, <2>7
<1>6. CASE v.state = "visit" /\ p \in Stored(c.trie) /\ ~Entry(c, p).resident
  <2>1. PICK r : r = Restore(c, p, bad)
    OBVIOUS
  <2>2. Whole(r) /\ Dated(r) /\ Follows(c, r) /\ r.disk <= MaxDisk
    BY <1>2, <1>6, <2>1, RestoreKeeps
  <2>3. Follows(b, r) /\ tier
    <3>1. Follows(b, r)
      BY <1>2, <2>2, FollowsOn
    <3>2. tier
      BY <1>1, <1>6 DEF Searched
    <3>3. QED
      BY <3>1, <3>2
  <2>4. CASE p \notin Stored(r.trie)
    <3>1. w = [v EXCEPT !.c = r, !.state = "raised"]
      BY <1>1, <1>6, <2>1, <2>4 DEF VisitCandidate
    <3>2. Visiting(w) /\ w.c = r /\ w.found = v.found /\ w.state = "raised"
      BY <3>1 DEF Visiting
    <3>3. QED
      BY <2>2, <2>3, <3>2 DEF Searched
  <2>5. CASE p \in Stored(r.trie) /\ Entry(r, p).resident
    <3>1. PICK d : d = Touch(r, p)
      OBVIOUS
    <3>2. w = [v EXCEPT !.c = d]
      BY <1>1, <1>6, <2>1, <2>5, <3>1 DEF VisitCandidate
    <3>3. Visiting(w) /\ w.c = d /\ w.found = v.found /\ w.state = v.state
      BY <3>2 DEF Visiting
    <3>4. Whole(d) /\ Follows(r, d) /\ d.trie = r.trie /\ d.disk = r.disk
      BY <2>2, <3>1, TouchKeepsWhole
    <3>5. Dated(d)
      <4>1. p \in Paths /\ Formed(r)
        BY <2>2, <2>5, WholeEntry DEF Whole, Shelf
      <4>2. QED
        BY <2>2, <3>1, <4>1, TouchDates DEF Dated
    <3>6. Follows(b, d)
      BY <2>3, <3>4, FollowsOn
    <3>7. QED
      BY <2>2, <2>3, <3>3, <3>4, <3>5, <3>6 DEF Searched
  <2>6. CASE p \in Stored(r.trie) /\ ~Entry(r, p).resident
    <3>1. PICK d : d = Drop(r, p)
      OBVIOUS
    <3>2. w = [v EXCEPT !.c = d, !.state = "search"]
      BY <1>1, <1>6, <2>1, <2>6, <3>1 DEF VisitCandidate
    <3>3. Visiting(w) /\ w.c = d /\ w.found = v.found /\ w.state = "search"
      BY <3>2 DEF Visiting
    <3>4. Whole(d)
      BY <2>2, <2>6, <3>1, DropKeepsWhole
    <3>5. Kept(r, d) /\ d.disk <= r.disk
      BY <2>2, <2>6, <3>1, <3>4, DropKeepsWhole
    <3>6. Dated(d) /\ Follows(b, d)
      <4>1. Dated(d)
        BY <2>2, <3>5, KeptIsDated
      <4>2. QED
        BY <4>1, <2>3, <3>5, FollowsOn DEF Kept
    <3>7. d.disk <= MaxDisk
      <4>1. d.disk \in Nat /\ r.disk \in Nat /\ MaxDisk \in Nat
        <5>1. \A x : Whole(x) => x.disk \in Nat
          BY DiskIsNat
        <5>2. QED
          BY <5>1, <2>2, <3>4, PrefixAssumption
      <4>2. QED
        BY <4>1, <2>2, <3>5
    <3>8. QED
      BY <2>3, <3>3, <3>4, <3>6, <3>7 DEF Searched
  <2>7. QED
    BY <2>4, <2>5, <2>6
<1>7. QED
  BY <1>1, <1>3, <1>4, <1>5, <1>6

(* The loop over the candidates. *)
VisitAll(b, L, bad) == FoldLeft(LAMBDA x, p : VisitCandidate(x, p, bad), b, L)
VisitStep(k, i, v) == VisitCandidate(v, k.list[i], k.bad)
VisitHolds(k, b, i, v) ==
    /\ Visiting(v) /\ v.found = b.found /\ Searched(b.c, v.c)
    /\ v.state \in {"visit", "search", "raised"}

VisitLoop == INSTANCE FoldTheorems WITH Size <- Cardinality, Pick <- Max, Step <- VisitStep, Holds <- VisitHolds

(* The fold of SearchAndVisit is that loop.                                *)
LEMMA VisitLoops ==
    ASSUME NEW b, NEW k
    PROVE  VisitAll(b, k.list, k.bad) = VisitLoop!FoldOf(k, b, DOMAIN k.list)[DOMAIN k.list]
  BY DEF VisitAll, FoldLeft, MapThenFoldSet, VisitStep, VisitLoop!FoldOf, VisitLoop!IsFold

(* The candidates are a list.                                              *)
LEMMA CandidatesListed ==
    ASSUME NEW s
    PROVE  DOMAIN Candidates(s) = 1..Len(Candidates(s)) /\ Len(Candidates(s)) \in Nat
<1>1. PICK found : found = <<s.exact, s.longer, s.shorter>>
  OBVIOUS
<1>2. found \in Seq({s.exact, s.longer, s.shorter})
  BY <1>1
<1>3. Candidates(s) = Only(found, ToSet(found) \ {NoPath})
  BY <1>1 DEF Candidates
<1>4. Candidates(s) \in Seq({s.exact, s.longer, s.shorter})
  BY <1>2, <1>3, OnlyEffect
<1>5. QED
  BY <1>4

(* All the visits of a search.                                             *)
LEMMA VisitsKeep ==
    ASSUME cow \in BOOLEAN, NEW b, Visiting(b), Searched(b.c, b.c), b.state = "visit", NEW s, NEW bad,
           NEW w, w = VisitAll(b, Candidates(s), bad)
    PROVE  /\ Visiting(w) /\ w.found = b.found /\ Searched(b.c, w.c)
           /\ w.state \in {"visit", "search", "raised"}
<1>1. PICK k : k = [list |-> Candidates(s), bad |-> bad]
  OBVIOUS
<1>2. k.list = Candidates(s) /\ k.bad = bad
  BY <1>1
<1>3. PICK n : n = Len(k.list)
  OBVIOUS
<1>4. DOMAIN k.list = 1..n /\ n \in Nat
  BY <1>2, <1>3, CandidatesListed
<1>5. VisitHolds(k, b, 0, b)
  BY DEF VisitHolds
<1>6. ASSUME NEW i \in 1..n, NEW v, VisitHolds(k, b, i - 1, v) PROVE VisitHolds(k, b, i, VisitStep(k, i, v))
  <2>1. PICK p, r : p = k.list[i] /\ r = VisitCandidate(v, p, k.bad)
    OBVIOUS
  <2>2. /\ Visiting(r) /\ r.found = v.found /\ Searched(b.c, r.c)
        /\ r.state \in {"visit", "search", "raised"}
    BY <2>1, <1>6, VisitKeeps DEF VisitHolds
  <2>3. QED
    BY <2>1, <2>2, <1>6 DEF VisitHolds, VisitStep
<1>7. VisitLoop!TakesLast
  BY PlacesEnd, SetOfNumbers DEF VisitLoop!TakesLast, VisitLoop!Foldable, VisitLoop!Measured, VisitLoop!Induction
<1>8. VisitHolds(k, b, n, VisitLoop!FoldOf(k, b, 1..n)[1..n])
  <2>1. \A i \in 1..n : \A v : VisitHolds(k, b, i - 1, v) => VisitHolds(k, b, i, VisitStep(k, i, v))
    BY <1>6
  <2>2. QED
    BY <2>1, <1>4, <1>5, <1>7, VisitLoop!ListHolds
<1>9. w = VisitLoop!FoldOf(k, b, 1..n)[1..n]
  <2>1. VisitAll(b, k.list, k.bad) = VisitLoop!FoldOf(k, b, DOMAIN k.list)[DOMAIN k.list]
    BY VisitLoops
  <2>2. QED
    BY <2>1, <1>2, <1>4
<1>10. QED
  BY <1>8, <1>9 DEF VisitHolds

(* What a finished search found is still there. *)
Found(v) == v.state = "ready" => \A p \in ToSet(Candidates(v.found)) : p \in Stored(v.c.trie)

(* A search for candidates, and a visit to all of them.                    *)
LEMMA SearchKeeps ==
    ASSUME cow \in BOOLEAN, NEW b, NEW v, Visiting(v), Searched(b, v.c), NEW q, NEW favour, NEW bad,
           NEW r, r = SearchAndVisit(v, q, favour, bad)
    PROVE  Visiting(r) /\ Searched(b, r.c) /\ Found(r)
<1>1. PICK s : s = TrieSearch(v.c.trie, q, favour)
  OBVIOUS
<1>2. PICK u : u = [v EXCEPT !.state = "visit", !.found = s]
  OBVIOUS
<1>3. Visiting(u) /\ u.c = v.c /\ u.found = s /\ u.state = "visit"
  BY <1>2 DEF Visiting
<1>4. PICK w : w = VisitAll(u, Candidates(s), bad)
  OBVIOUS
<1>5. Searched(u.c, u.c)
  BY <1>3, KeptSame DEF Searched, Kept
<1>6. Visiting(w) /\ w.found = s /\ Searched(u.c, w.c) /\ w.state \in {"visit", "search", "raised"}
  BY <1>3, <1>4, <1>5, VisitsKeep
<1>7. Searched(b, w.c)
  <2>1. Follows(b, v.c) /\ (tier \/ (v.c.trie = b.trie /\ v.c.bytes = b.bytes))
    BY DEF Searched
  <2>2. QED
    BY <2>1, <1>3, <1>6, SearchedOn
<1>8. PICK kept : kept = (\A p \in ToSet(Candidates(s)) : p \in Stored(w.c.trie))
  OBVIOUS
<1>9. r = IF w.state # "visit" THEN w ELSE [w EXCEPT !.state = IF kept THEN "ready" ELSE "raised"]
  BY <1>1, <1>2, <1>4, <1>8 DEF SearchAndVisit, VisitAll
<1>10. CASE w.state # "visit"
  BY <1>6, <1>7, <1>9, <1>10 DEF Found
<1>11. CASE w.state = "visit"
  <2>1. PICK st : st = IF kept THEN "ready" ELSE "raised"
    OBVIOUS
  <2>2. r = [w EXCEPT !.state = st]
    BY <1>9, <1>11, <2>1
  <2>3. Visiting(r) /\ r.c = w.c /\ r.found = s /\ r.state = st
    BY <1>6, <2>2 DEF Visiting
  <2>4. Found(r)
    BY <1>8, <2>1, <2>3 DEF Found
  <2>5. QED
    BY <1>7, <2>3, <2>4
<1>12. QED
  BY <1>10, <1>11

(* The loop of Hydrate. *)
HydrateStep(k, i, v) == IF v.state = "search" THEN SearchAndVisit(v, k.q, k.favour, k.bad) ELSE v
HydrateHolds(k, b, i, v) == Visiting(v) /\ Searched(b.c, v.c) /\ Found(v)

HydrateLoop == INSTANCE FoldTheorems WITH Size <- Cardinality, Pick <- Max, Step <- HydrateStep, Holds <- HydrateHolds

(* The operator is that loop.                                              *)
LEMMA HydrateLoops ==
    ASSUME NEW c, NEW k, NEW n, n = Cardinality(Stored(c.trie)) + 1,
           NEW b, b = [c |-> c, state |-> "search", found |-> TrieSearch(c.trie, k.q, k.favour)]
    PROVE  Hydrate(c, k.q, k.favour, k.bad) = HydrateLoop!FoldOf(k, b, 1..n)[1..n]
  BY DEF Hydrate, Repeat, FoldLeft, MapThenFoldSet, HydrateStep, HydrateLoop!FoldOf, HydrateLoop!IsFold

(* A lookup leaves the cache as it should be, whatever it spilled,         *)
(* restored and dropped, and where it is ready its candidates are there.   *)
LEMMA HydrateKeeps ==
    ASSUME cow \in BOOLEAN, NEW c, Searched(c, c), NEW q, NEW favour, NEW bad,
           NEW h, h = Hydrate(c, q, favour, bad)
    PROVE  Searched(c, h.c) /\ Found(h)
<1>1. PICK k : k = [q |-> q, favour |-> favour, bad |-> bad]
  OBVIOUS
<1>2. k.q = q /\ k.favour = favour /\ k.bad = bad
  BY <1>1
<1>3. PICK n : n = Cardinality(Stored(c.trie)) + 1
  OBVIOUS
<1>4. n \in Nat
  <2>1. IsFiniteSet(Stored(c.trie))
    BY DEF Searched, Whole, Shelf, Planted, Stored
  <2>2. Cardinality(Stored(c.trie)) \in Nat
    BY <2>1, FS_CardinalityType
  <2>3. QED
    BY <2>2, <1>3
<1>5. PICK s : s = TrieSearch(c.trie, k.q, k.favour)
  OBVIOUS
<1>6. PICK b : b = [c |-> c, state |-> "search", found |-> s]
  OBVIOUS
<1>7. Visiting(b) /\ b.c = c /\ b.state = "search"
  BY <1>6 DEF Visiting
<1>8. HydrateHolds(k, b, 0, b)
  BY <1>7 DEF HydrateHolds, Found
<1>9. ASSUME NEW i \in 1..n, NEW v, HydrateHolds(k, b, i - 1, v) PROVE HydrateHolds(k, b, i, HydrateStep(k, i, v))
  <2>1. CASE v.state = "search"
    <3>1. PICK r : r = SearchAndVisit(v, k.q, k.favour, k.bad)
      OBVIOUS
    <3>2. Visiting(r) /\ Searched(b.c, r.c) /\ Found(r)
      BY <1>9, <3>1, SearchKeeps DEF HydrateHolds
    <3>3. QED
      BY <2>1, <3>1, <3>2 DEF HydrateHolds, HydrateStep
  <2>2. CASE v.state # "search"
    BY <1>9, <2>2 DEF HydrateHolds, HydrateStep
  <2>3. QED
    BY <2>1, <2>2
<1>10. HydrateLoop!TakesLast
  BY PlacesEnd, SetOfNumbers DEF HydrateLoop!TakesLast, HydrateLoop!Foldable, HydrateLoop!Measured, HydrateLoop!Induction
<1>11. HydrateHolds(k, b, n, HydrateLoop!FoldOf(k, b, 1..n)[1..n])
  <2>1. \A i \in 1..n : \A v : HydrateHolds(k, b, i - 1, v) => HydrateHolds(k, b, i, HydrateStep(k, i, v))
    BY <1>9
  <2>2. QED
    BY <2>1, <1>4, <1>8, <1>10, HydrateLoop!ListHolds
<1>12. h = HydrateLoop!FoldOf(k, b, 1..n)[1..n]
  <2>1. b = [c |-> c, state |-> "search", found |-> TrieSearch(c.trie, k.q, k.favour)]
    BY <1>5, <1>6
  <2>2. Hydrate(c, k.q, k.favour, k.bad) = HydrateLoop!FoldOf(k, b, 1..n)[1..n]
    BY <2>1, <1>3, HydrateLoops
  <2>3. QED
    BY <2>2, <1>2
<1>13. QED
  BY <1>7, <1>11, <1>12 DEF HydrateHolds

(***************************************************************************)
(* Evictions                                                               *)
(***************************************************************************)

(* Entries went from c, and nothing else but their bytes. *)
Cut(c, d) ==
    /\ d.recent = c.recent /\ d.moved = c.moved /\ SameTier(c, d)
    /\ Stored(d.trie) \subseteq Stored(c.trie)
    /\ \A p \in Stored(d.trie) : Entry(d, p) = Entry(c, p)
    /\ d.bytes <= c.bytes

(* The numbers of a shelf.                                                 *)
LEMMA ShelfCounts ==
    ASSUME NEW c, Shelf(c)
    PROVE  /\ c.bytes \in Nat /\ OrderLen(c.order) = Cardinality(Stored(c.trie)) /\ OrderLen(c.order) \in Nat
           /\ IsFiniteSet(Stored(c.trie)) /\ Placed(c.trie.entry)
           /\ (OrderLen(c.order) = 0 => Stored(c.trie) = {} /\ c.bytes = 0)
<1>1. PICK f : f = c.trie.entry
  OBVIOUS
<1>2. Placed(f) /\ Listed(f, c.order) /\ Weighed(f, c.bytes, c.bytesOf) /\ Stored(c.trie) = DOMAIN f
  BY <1>1, PlantedIsPlaced DEF Shelf, Stored
<1>3. OrderLen(c.order) = Cardinality(DOMAIN f) /\ OrderLen(c.order) \in Nat
  BY <1>2, ListedCount
<1>4. c.bytes \in Nat /\ (DOMAIN f = {} => c.bytes = 0)
  BY <1>2, WeighedNat
<1>5. IsFiniteSet(DOMAIN f)
  BY <1>2 DEF Placed
<1>6. Cardinality(DOMAIN f) = 0 => DOMAIN f = {}
  BY <1>5, FS_EmptySet
<1>7. QED
  BY <1>1, <1>2, <1>3, <1>4, <1>5, <1>6

(* Cuts go on from step to step, and shorten the lists.                    *)
LEMMA CutOn ==
    ASSUME NEW c, Shelf(c), NEW d, Shelf(d), NEW e, Shelf(e), Cut(c, d), Cut(d, e)
    PROVE  Cut(c, e)
<1>1. c.bytes \in Nat /\ d.bytes \in Nat /\ e.bytes \in Nat
  BY ShelfCounts
<1>2. Stored(e.trie) \subseteq Stored(d.trie) /\ SameTier(c, e)
  BY DEF Cut, SameTier
<1>3. e.bytes <= c.bytes
  BY <1>1 DEF Cut
<1>4. QED
  BY <1>2, <1>3 DEF Cut

(* Nothing was taken out.                                                  *)
LEMMA CutSame == ASSUME NEW c, Shelf(c) PROVE Cut(c, c)
<1>1. c.bytes \in Nat
  BY ShelfCounts
<1>2. QED
  BY <1>1 DEF Cut, SameTier

(* What was cut has no more entries.                                       *)
LEMMA CutShortens ==
    ASSUME NEW c, Shelf(c), NEW d, Shelf(d), Cut(c, d)
    PROVE  OrderLen(d.order) <= OrderLen(c.order)
<1>1. PICK S, T : S = Stored(c.trie) /\ T = Stored(d.trie)
  OBVIOUS
<1>2. T \subseteq S /\ IsFiniteSet(S) /\ OrderLen(c.order) = Cardinality(S) /\ OrderLen(d.order) = Cardinality(T)
  BY <1>1, ShelfCounts DEF Cut
<1>3. Cardinality(T) <= Cardinality(S)
  BY <1>2, FS_Subset
<1>4. QED
  BY <1>2, <1>3

(* While something is listed the victim's list is not empty.               *)
LEMMA VictimListed ==
    ASSUME NEW f, Placed(f), NEW o, Listed(f, o), OrderLen(o) # 0
    PROVE  OrderVictim(o) \in CacheTypes /\ o[OrderVictim(o)] # <<>>
<1>1. \A t \in CacheTypes : Len(o[t]) \in Nat /\ (Len(o[t]) = 0 <=> o[t] = <<>>)
  BY ListedCount
<1>2. PICK a, u, y : a = Len(o["assistant"]) /\ u = Len(o["user"]) /\ y = Len(o["system"])
  OBVIOUS
<1>3. /\ a \in Nat /\ u \in Nat /\ y \in Nat
      /\ (a = 0 <=> o["assistant"] = <<>>) /\ (u = 0 <=> o["user"] = <<>>) /\ (y = 0 <=> o["system"] = <<>>)
  BY <1>1, <1>2 DEF CacheTypes
<1>4. OrderVictim(o) = IF a # 0 /\ a >= u THEN "assistant" ELSE IF u # 0 /\ u >= y THEN "user" ELSE "system"
  BY <1>2, <1>3 DEF OrderVictim
<1>5. a + u + y # 0
  BY <1>2 DEF OrderLen
<1>6. CASE a # 0 /\ a >= u
  BY <1>3, <1>4, <1>6 DEF CacheTypes
<1>7. CASE ~(a # 0 /\ a >= u) /\ u # 0 /\ u >= y
  BY <1>3, <1>4, <1>7 DEF CacheTypes
<1>8. CASE ~(a # 0 /\ a >= u) /\ ~(u # 0 /\ u >= y)
  <2>1. y # 0
    BY <1>3, <1>5, <1>8
  <2>2. OrderVictim(o) = "system"
    BY <1>4, <1>8
  <2>3. QED
    BY <2>1, <2>2, <1>3 DEF CacheTypes
<1>9. QED
  BY <1>6, <1>7, <1>8

(* An eviction takes out one entry.                                        *)
LEMMA EvictKeepsShelf ==
    ASSUME NEW c, Shelf(c), OrderLen(c.order) # 0, NEW d, d = Evict(c)
    PROVE  Shelf(d) /\ Cut(c, d) /\ OrderLen(d.order) = OrderLen(c.order) - 1
<1>1. PICK f, type, p, e : /\ f = c.trie.entry /\ type = OrderVictim(c.order)
                           /\ p = Head(c.order[type]) /\ e = f[p]
  OBVIOUS
<1>2. /\ Formed(c) /\ Planted(c.trie) /\ Placed(f) /\ Listed(f, c.order) /\ Weighed(f, c.bytes, c.bytesOf)
  BY <1>1, PlantedIsPlaced DEF Shelf
<1>3. type \in CacheTypes /\ c.order[type] # <<>>
  BY <1>1, <1>2, VictimListed
<1>4. p \in DOMAIN f /\ Listed(Without(f, p), [c.order EXCEPT ![type] = Tail(@)])
  BY <1>1, <1>2, <1>3, TailKeepsListed
<1>5. PICK a : a = Uncount(c, e)
  OBVIOUS
<1>6. /\ Formed(a) /\ a.trie = c.trie /\ a.order = c.order /\ a.recent = c.recent
      /\ a.moved = c.moved /\ SameTier(c, a)
      /\ a.bytes = c.bytes - Nbytes(e)
      /\ a.bytesOf = [c.bytesOf EXCEPT ![e.type] = @ - Nbytes(e)]
  BY <1>2, <1>5, UncountFields
<1>7. PICK t, o : t = TriePop(c.trie, p) /\ o = [c.order EXCEPT ![type] = Tail(@)]
  OBVIOUS
<1>8. d = [a EXCEPT !.order = o, !.trie = t]
  <2>1. d = [a EXCEPT !.order[type] = Tail(@), !.trie = TriePop(@, p)]
    BY <1>1, <1>5 DEF Evict
  <2>2. d = [a EXCEPT !.order = [a.order EXCEPT ![type] = Tail(@)], !.trie = TriePop(a.trie, p)]
    BY <2>1, <1>6 DEF Formed
  <2>3. QED
    BY <2>2, <1>6, <1>7
<1>9. /\ Formed(d) /\ d.trie = t /\ d.order = o /\ d.recent = c.recent /\ d.moved = c.moved
      /\ d.bytes = a.bytes /\ d.bytesOf = a.bytesOf /\ SameTier(c, d)
  BY <1>6, <1>8 DEF Formed, SameTier
<1>10. Planted(t) /\ t.entry = Without(f, p)
  BY <1>1, <1>2, <1>4, <1>7, PopKeepsPlanted
<1>11. Weighed(Without(f, p), d.bytes, d.bytesOf) /\ c.bytes \in Nat /\ d.bytes \in Nat
  <2>1. Weighed(Without(f, p), c.bytes - Nbytes(f[p]), [c.bytesOf EXCEPT ![f[p].type] = @ - Nbytes(f[p])])
    BY <1>2, <1>4, UncountKeepsWeighed
  <2>2. c.bytes \in Nat /\ c.bytes - Nbytes(f[p]) \in Nat
    BY <1>2, <1>4, UncountKeepsWeighed
  <2>3. QED
    BY <2>1, <2>2, <1>1, <1>6, <1>9
<1>12. Shelf(d)
  BY <1>4, <1>7, <1>9, <1>10, <1>11 DEF Shelf
<1>13. DOMAIN Without(f, p) = DOMAIN f \ {p} /\ \A x \in DOMAIN f : x # p => Without(f, p)[x] = f[x]
  BY WithoutIs
<1>14. Stored(d.trie) = Stored(c.trie) \ {p} /\ \A x \in Stored(d.trie) : Entry(d, x) = Entry(c, x)
  BY <1>1, <1>9, <1>10, <1>13 DEF Stored, Entry
<1>15. d.bytes <= c.bytes
  <2>1. Nbytes(e) \in Nat
    BY <1>1, <1>2, <1>4, EntryWeighs DEF Placed, FitsAt
  <2>2. QED
    BY <2>1, <1>6, <1>9, <1>11
<1>16. Cut(c, d)
  BY <1>9, <1>14, <1>15 DEF Cut
<1>17. OrderLen(d.order) = OrderLen(c.order) - 1
  <2>1. PICK S : S = Stored(c.trie)
    OBVIOUS
  <2>2. /\ IsFiniteSet(S) /\ OrderLen(c.order) = Cardinality(S) /\ OrderLen(d.order) = Cardinality(S \ {p})
        /\ p \in S
    BY <2>1, <1>1, <1>4, <1>12, <1>14, ShelfCounts DEF Stored
  <2>3. Cardinality(S \ {p}) = Cardinality(S) - 1
    BY <2>2, FS_RemoveElement
  <2>4. QED
    BY <2>2, <2>3
<1>18. QED
  BY <1>12, <1>16, <1>17

(* The two loops of evictions. *)
ByteStep(limit, i, d) == IF d.bytes > limit THEN Evict(d) ELSE d
ByteHolds(limit, c, i, d) ==
    Shelf(d) /\ Cut(c, d) /\ (d.bytes <= limit \/ OrderLen(d.order) <= OrderLen(c.order) - i)
SizeStep(n, i, d) == IF OrderLen(d.order) > n THEN Evict(d) ELSE d
SizeHolds(n, c, i, d) ==
    Shelf(d) /\ Cut(c, d) /\ (OrderLen(d.order) <= n \/ OrderLen(d.order) <= OrderLen(c.order) - i)

ByteLoop == INSTANCE FoldTheorems WITH Size <- Cardinality, Pick <- Max, Step <- ByteStep, Holds <- ByteHolds
SizeLoop == INSTANCE FoldTheorems WITH Size <- Cardinality, Pick <- Max, Step <- SizeStep, Holds <- SizeHolds

(* Evicting to a number of bytes is a loop,                                *)
LEMMA BytesLoop ==
    ASSUME NEW c, NEW limit, NEW n, n = OrderLen(c.order)
    PROVE  EvictToBytes(c, limit) = ByteLoop!FoldOf(limit, c, 1..n)[1..n]
  BY DEF EvictToBytes, Repeat, FoldLeft, MapThenFoldSet, ByteStep, ByteLoop!FoldOf, ByteLoop!IsFold

(* and so is evicting to a number of entries.                              *)
LEMMA SizesLoop ==
    ASSUME NEW c, NEW m, NEW n, n = OrderLen(c.order)
    PROVE  EvictToSize(c, m) = SizeLoop!FoldOf(m, c, 1..n)[1..n]
  BY DEF EvictToSize, Repeat, FoldLeft, MapThenFoldSet, SizeStep, SizeLoop!FoldOf, SizeLoop!IsFold

(* Evictions end when the limit is met.                                    *)
LEMMA EvictToBytesCuts ==
    ASSUME NEW c, Shelf(c), NEW limit \in Nat, NEW d, d = EvictToBytes(c, limit)
    PROVE  Shelf(d) /\ Cut(c, d) /\ d.bytes <= limit
<1>1. PICK n : n = OrderLen(c.order)
  OBVIOUS
<1>2. n \in Nat
  BY <1>1, ShelfCounts
<1>3. ByteHolds(limit, c, 0, c)
  BY <1>1, <1>2, CutSame DEF ByteHolds
<1>4. ASSUME NEW i \in 1..n, NEW r, ByteHolds(limit, c, i - 1, r) PROVE ByteHolds(limit, c, i, ByteStep(limit, i, r))
  <2>1. Shelf(r) /\ Cut(c, r) /\ r.bytes \in Nat /\ OrderLen(r.order) \in Nat
        /\ (OrderLen(r.order) = 0 => r.bytes = 0)
        /\ (r.bytes <= limit \/ OrderLen(r.order) <= n - (i - 1))
    BY <1>1, <1>4, ShelfCounts DEF ByteHolds
  <2>2. CASE r.bytes <= limit
    <3>1. ByteStep(limit, i, r) = r
      BY <2>1, <2>2 DEF ByteStep
    <3>2. QED
      BY <2>1, <2>2, <3>1 DEF ByteHolds
  <2>3. CASE ~(r.bytes <= limit)
    <3>1. PICK s : s = Evict(r)
      OBVIOUS
    <3>2. ByteStep(limit, i, r) = s /\ OrderLen(r.order) # 0
      BY <2>1, <2>3, <3>1 DEF ByteStep
    <3>3. Shelf(s) /\ Cut(r, s) /\ OrderLen(s.order) = OrderLen(r.order) - 1
      BY <2>1, <3>1, <3>2, EvictKeepsShelf
    <3>4. Cut(c, s)
      BY <2>1, <3>3, CutOn
    <3>5. OrderLen(s.order) <= n - i
      <4>1. PICK x, y : x = OrderLen(r.order) /\ y = OrderLen(s.order)
        OBVIOUS
      <4>2. x \in Nat /\ y = x - 1 /\ x <= n - (i - 1)
        BY <4>1, <2>1, <2>3, <3>3
      <4>3. QED
        BY <4>1, <4>2, <1>2
    <3>6. QED
      BY <1>1, <3>2, <3>3, <3>4, <3>5 DEF ByteHolds
  <2>4. QED
    BY <2>2, <2>3
<1>5. ByteLoop!TakesLast
  BY PlacesEnd, SetOfNumbers DEF ByteLoop!TakesLast, ByteLoop!Foldable, ByteLoop!Measured, ByteLoop!Induction
<1>6. ByteHolds(limit, c, n, d)
  <2>1. \A i \in 1..n : \A r : ByteHolds(limit, c, i - 1, r) => ByteHolds(limit, c, i, ByteStep(limit, i, r))
    BY <1>4
  <2>2. ByteHolds(limit, c, n, ByteLoop!FoldOf(limit, c, 1..n)[1..n])
    BY <2>1, <1>2, <1>3, <1>5, ByteLoop!ListHolds
  <2>3. QED
    BY <2>2, <1>1, BytesLoop
<1>7. d.bytes <= limit
  <2>1. Shelf(d) /\ (d.bytes <= limit \/ OrderLen(d.order) <= n - n)
    BY <1>1, <1>6 DEF ByteHolds
  <2>2. PICK m : m = OrderLen(d.order)
    OBVIOUS
  <2>3. m \in Nat /\ (m = 0 => d.bytes = 0)
    BY <2>1, <2>2, ShelfCounts
  <2>4. QED
    BY <2>1, <2>2, <2>3, <1>2
<1>8. QED
  BY <1>6, <1>7 DEF ByteHolds

(* The same for the number of entries.                                     *)
LEMMA EvictToSizeCuts ==
    ASSUME NEW c, Shelf(c), NEW m \in Nat, NEW d, d = EvictToSize(c, m)
    PROVE  Shelf(d) /\ Cut(c, d) /\ OrderLen(d.order) <= m
<1>1. PICK n : n = OrderLen(c.order)
  OBVIOUS
<1>2. n \in Nat
  BY <1>1, ShelfCounts
<1>3. SizeHolds(m, c, 0, c)
  BY <1>1, <1>2, CutSame DEF SizeHolds
<1>4. ASSUME NEW i \in 1..n, NEW r, SizeHolds(m, c, i - 1, r) PROVE SizeHolds(m, c, i, SizeStep(m, i, r))
  <2>0. PICK x : x = OrderLen(r.order)
    OBVIOUS
  <2>1. Shelf(r) /\ Cut(c, r) /\ x \in Nat /\ (x <= m \/ x <= n - (i - 1))
    BY <1>1, <1>4, <2>0, ShelfCounts DEF SizeHolds
  <2>2. CASE x <= m
    <3>1. SizeStep(m, i, r) = r
      BY <2>0, <2>1, <2>2 DEF SizeStep
    <3>2. QED
      BY <2>0, <2>1, <2>2, <3>1 DEF SizeHolds
  <2>3. CASE ~(x <= m)
    <3>1. PICK s : s = Evict(r)
      OBVIOUS
    <3>2. SizeStep(m, i, r) = s /\ OrderLen(r.order) # 0
      BY <2>0, <2>1, <2>3, <3>1 DEF SizeStep
    <3>3. Shelf(s) /\ Cut(r, s) /\ OrderLen(s.order) = x - 1
      BY <2>0, <2>1, <3>1, <3>2, EvictKeepsShelf
    <3>4. Cut(c, s)
      BY <2>1, <3>3, CutOn
    <3>5. OrderLen(s.order) <= n - i
      BY <2>1, <2>3, <3>3, <1>2
    <3>6. QED
      BY <1>1, <3>2, <3>3, <3>4, <3>5 DEF SizeHolds
  <2>4. QED
    BY <2>2, <2>3
<1>5. SizeLoop!TakesLast
  BY PlacesEnd, SetOfNumbers DEF SizeLoop!TakesLast, SizeLoop!Foldable, SizeLoop!Measured, SizeLoop!Induction
<1>6. SizeHolds(m, c, n, d)
  <2>1. \A i \in 1..n : \A r : SizeHolds(m, c, i - 1, r) => SizeHolds(m, c, i, SizeStep(m, i, r))
    BY <1>4
  <2>2. SizeHolds(m, c, n, SizeLoop!FoldOf(m, c, 1..n)[1..n])
    BY <2>1, <1>2, <1>3, <1>5, SizeLoop!ListHolds
  <2>3. QED
    BY <2>2, <1>1, SizesLoop
<1>7. OrderLen(d.order) <= m
  <2>1. Shelf(d) /\ (OrderLen(d.order) <= m \/ OrderLen(d.order) <= n - n)
    BY <1>1, <1>6 DEF SizeHolds
  <2>2. PICK y : y = OrderLen(d.order)
    OBVIOUS
  <2>3. y \in Nat
    BY <2>1, <2>2, ShelfCounts
  <2>4. QED
    BY <2>1, <2>2, <2>3, <1>2
<1>8. QED
  BY <1>6, <1>7 DEF SizeHolds

(***************************************************************************)
(* Insertions                                                              *)
(***************************************************************************)

(* The loop of DropCovered, over the entries on the way to p. *)
CoverStep(p, x, d) ==
    [Uncount(d, d.trie.entry[x]) EXCEPT !.order = OrderRemove(@, x), !.trie.entry = Without(@, x)]
CoverHolds(p, c, T, d) == Shelf(d) /\ Cut(c, d) /\ Stored(d.trie) = Stored(c.trie) \ T

CoverLoop == INSTANCE FoldTheorems WITH Size <- Cardinality, Pick <- Taken, Step <- CoverStep, Holds <- CoverHolds

(* The operator is that loop.                                              *)
LEMMA CoverLoops ==
    ASSUME NEW c, NEW p, NEW S, S = CoveredBy(c.trie, p)
    PROVE  DropCovered(c, p) = CoverLoop!FoldOf(p, c, S)[S]
  BY DEF DropCovered, FoldSet, MapThenFoldSet, CoverStep, CoverLoop!FoldOf, CoverLoop!IsFold, Taken

(* A step of it.                                                           *)
LEMMA CoverStepCuts ==
    ASSUME NEW c, Shelf(c), NEW p \in Stored(c.trie), NEW x \in CoveredBy(c.trie, p),
           NEW d, d = CoverStep(p, x, c)
    PROVE  Shelf(d) /\ Cut(c, d) /\ Stored(d.trie) = Stored(c.trie) \ {x}
<1>1. PICK f, e : f = c.trie.entry /\ e = f[x]
  OBVIOUS
<1>2. /\ Formed(c) /\ Planted(c.trie) /\ Placed(f) /\ Listed(f, c.order) /\ Weighed(f, c.bytes, c.bytesOf)
      /\ p \in DOMAIN f
  BY <1>1, PlantedIsPlaced DEF Shelf, Stored
<1>3. PICK t : t = [c.trie EXCEPT !.entry = Without(@, x)]
  OBVIOUS
<1>4. Planted(t) /\ x \in DOMAIN f /\ t.entry = Without(f, x)
  BY <1>1, <1>2, <1>3, CoveredKeepsPlanted
<1>5. PICK a, o : a = Uncount(c, e) /\ o = OrderRemove(c.order, x)
  OBVIOUS
<1>6. /\ Formed(a) /\ a.trie = c.trie /\ a.order = c.order /\ a.recent = c.recent
      /\ a.moved = c.moved /\ SameTier(c, a)
      /\ a.bytes = c.bytes - Nbytes(e)
      /\ a.bytesOf = [c.bytesOf EXCEPT ![e.type] = @ - Nbytes(e)]
  BY <1>2, <1>5, UncountFields
<1>7. d = [a EXCEPT !.order = o, !.trie = t]
  <2>1. d = [a EXCEPT !.order = OrderRemove(@, x), !.trie.entry = Without(@, x)]
    BY <1>1, <1>5 DEF CoverStep
  <2>2. d = [a EXCEPT !.order = OrderRemove(a.order, x), !.trie = [a.trie EXCEPT !.entry = Without(@, x)]]
    BY <2>1, <1>6 DEF Formed
  <2>3. QED
    BY <2>2, <1>3, <1>5, <1>6
<1>8. /\ Formed(d) /\ d.trie = t /\ d.order = o /\ d.recent = c.recent /\ d.moved = c.moved
      /\ d.bytes = a.bytes /\ d.bytesOf = a.bytesOf /\ SameTier(c, d)
  BY <1>6, <1>7 DEF Formed, SameTier
<1>9. Listed(t.entry, d.order)
  BY <1>2, <1>4, <1>5, <1>8, RemoveKeepsListed
<1>10. Weighed(t.entry, d.bytes, d.bytesOf) /\ c.bytes \in Nat /\ d.bytes \in Nat
  <2>1. Weighed(Without(f, x), c.bytes - Nbytes(f[x]), [c.bytesOf EXCEPT ![f[x].type] = @ - Nbytes(f[x])])
    BY <1>2, <1>4, UncountKeepsWeighed
  <2>2. c.bytes \in Nat /\ c.bytes - Nbytes(f[x]) \in Nat
    BY <1>2, <1>4, UncountKeepsWeighed
  <2>3. QED
    BY <2>1, <2>2, <1>1, <1>4, <1>6, <1>8
<1>11. Shelf(d)
  BY <1>4, <1>8, <1>9, <1>10 DEF Shelf
<1>12. DOMAIN Without(f, x) = DOMAIN f \ {x} /\ \A y \in DOMAIN f : y # x => Without(f, x)[y] = f[y]
  BY WithoutIs
<1>13. Stored(d.trie) = Stored(c.trie) \ {x} /\ \A y \in Stored(d.trie) : Entry(d, y) = Entry(c, y)
  BY <1>1, <1>4, <1>8, <1>12 DEF Stored, Entry
<1>14. d.bytes <= c.bytes
  <2>1. Nbytes(e) \in Nat
    BY <1>1, <1>2, <1>4, EntryWeighs DEF Placed, FitsAt
  <2>2. QED
    BY <2>1, <1>6, <1>8, <1>10
<1>15. QED
  BY <1>8, <1>11, <1>13, <1>14 DEF Cut

(* The entries on the way to p go.                                         *)
LEMMA DropCoveredCuts ==
    ASSUME NEW c, Shelf(c), NEW p \in Stored(c.trie), NEW d, d = DropCovered(c, p)
    PROVE  Shelf(d) /\ Cut(c, d)
<1>1. PICK S : S = CoveredBy(c.trie, p)
  OBVIOUS
<1>2. S \subseteq Stored(c.trie) /\ p \notin S
  BY <1>1 DEF CoveredBy, IsStrictPrefix
<1>3. IsFiniteSet(S)
  BY <1>2, ShelfCounts, FS_Subset
<1>4. \A T \in SUBSET S : T # {} => Taken(T) \in T
  BY TakenIn
<1>5. CoverHolds(p, c, {}, c)
  BY CutSame DEF CoverHolds
<1>6. ASSUME NEW T \in SUBSET S, NEW r, T # {}, CoverHolds(p, c, T \ {Taken(T)}, r)
      PROVE  CoverHolds(p, c, T, CoverStep(p, Taken(T), r))
  <2>1. PICK x, s : x = Taken(T) /\ s = CoverStep(p, x, r)
    OBVIOUS
  <2>2. x \in T /\ Shelf(r) /\ Cut(c, r) /\ Stored(r.trie) = Stored(c.trie) \ (T \ {x})
    BY <2>1, <1>4, <1>6 DEF CoverHolds
  <2>3. p \in Stored(r.trie) /\ x \in Stored(r.trie)
    BY <2>2, <1>2
  <2>4. x \in CoveredBy(r.trie, p)
    BY <2>2, <2>3, <1>1 DEF CoveredBy
  <2>5. Shelf(s) /\ Cut(r, s) /\ Stored(s.trie) = Stored(r.trie) \ {x}
    BY <2>1, <2>2, <2>3, <2>4, CoverStepCuts
  <2>6. Stored(s.trie) = Stored(c.trie) \ T
    BY <2>2, <2>5
  <2>7. QED
    BY <2>1, <2>2, <2>5, <2>6, CutOn DEF CoverHolds
<1>7. CoverHolds(p, c, S, CoverLoop!FoldOf(p, c, S)[S])
  <2>1. CoverLoop!Steady(p, c, S)
    BY <1>6 DEF CoverLoop!Steady
  <2>2. CoverHolds(p, c, S, CoverLoop!FoldOf(p, c, S)[S])
    <3>1. CoverLoop!Foldable(S)
      BY <1>3, SetEnds, SetOfNumbers DEF CoverLoop!Foldable, CoverLoop!Measured, CoverLoop!Induction
    <3>2. QED
      BY <2>1, <3>1, <1>5, CoverLoop!SetHolds
  <2>3. QED
    BY <2>2
<1>8. QED
  BY <1>1, <1>7, CoverLoops DEF CoverHolds

(* Without an entry that is not there.                                     *)
LEMMA WithoutNothing == ASSUME NEW f, Placed(f), NEW p, p \notin DOMAIN f PROVE Without(f, p) = f
<1>1. DOMAIN f \ {p} = DOMAIN f
  OBVIOUS
<1>2. Without(f, p) = [x \in DOMAIN f |-> f[x]]
  BY <1>1 DEF Without
<1>3. QED
  BY <1>2 DEF Placed

(* Who was at p before is no longer listed nor counted.                    *)
LEMMA ReplacedFields ==
    ASSUME NEW c, Shelf(c), NEW f, f = c.trie.entry, NEW p, NEW r, r = Replaced(c, p)
    PROVE  /\ Formed(r) /\ r.trie = c.trie /\ r.recent = c.recent /\ r.moved = c.moved /\ SameTier(c, r)
           /\ Listed(Without(f, p), r.order) /\ Weighed(Without(f, p), r.bytes, r.bytesOf)
<1>1. /\ Formed(c) /\ Placed(f) /\ Listed(f, c.order) /\ Weighed(f, c.bytes, c.bytesOf)
  BY PlantedIsPlaced DEF Shelf
<1>2. CASE p \in DOMAIN f
  <2>1. PICK e, a, o : e = f[p] /\ a = Uncount(c, e) /\ o = OrderRemove(c.order, p)
    OBVIOUS
  <2>2. /\ Formed(a) /\ a.trie = c.trie /\ a.order = c.order /\ a.recent = c.recent
        /\ a.moved = c.moved /\ SameTier(c, a)
        /\ a.bytes = c.bytes - Nbytes(e)
        /\ a.bytesOf = [c.bytesOf EXCEPT ![e.type] = @ - Nbytes(e)]
    BY <1>1, <2>1, UncountFields
  <2>3. r = [a EXCEPT !.order = o]
    BY <1>2, <2>1, <2>2 DEF Replaced, Stored, Formed
  <2>4. /\ Formed(r) /\ r.trie = c.trie /\ r.recent = c.recent /\ r.moved = c.moved /\ SameTier(c, r)
        /\ r.order = o /\ r.bytes = a.bytes /\ r.bytesOf = a.bytesOf
    BY <2>2, <2>3 DEF Formed, SameTier
  <2>5. Listed(Without(f, p), o)
    BY <1>1, <2>1, RemoveKeepsListed
  <2>6. Weighed(Without(f, p), c.bytes - Nbytes(f[p]), [c.bytesOf EXCEPT ![f[p].type] = @ - Nbytes(f[p])])
    BY <1>1, <1>2, UncountKeepsWeighed
  <2>7. Weighed(Without(f, p), r.bytes, r.bytesOf)
    BY <2>1, <2>2, <2>4, <2>6
  <2>8. QED
    BY <2>4, <2>5, <2>7
<1>3. CASE p \notin DOMAIN f
  <2>1. r = c
    BY <1>3 DEF Replaced, Stored
  <2>2. Without(f, p) = f
    BY <1>1, <1>3, WithoutNothing
  <2>3. QED
    BY <2>1, <2>2, <1>1 DEF SameTier
<1>4. QED
  BY <1>2, <1>3

(* Insert, before anything has to go. *)
Added(c, p, e) ==
    [Count(Replaced(c, p), e) EXCEPT !.trie = TrieAdd(@, p, e), !.order[e.type] = Append(@, p)]

(* An entry comes, in the place of another one or in a new one.            *)
LEMMA AddedKeepsShelf ==
    ASSUME NEW c, Shelf(c), NEW p \in Paths, NEW e, FitsAt(e, p), NEW d, d = Added(c, p, e)
    PROVE  /\ Shelf(d) /\ d.trie.entry = With(c.trie.entry, p, e)
           /\ d.recent = c.recent /\ d.moved = c.moved /\ SameTier(c, d)
           /\ OrderLen(d.order) <= OrderLen(c.order) + 1
<1>1. PICK f, g, r : f = c.trie.entry /\ g = Without(f, p) /\ r = Replaced(c, p)
  OBVIOUS
<1>2. Planted(c.trie) /\ Placed(f) /\ e.type \in CacheTypes
  BY <1>1, PlantedIsPlaced DEF Shelf, FitsAt, EntryType
<1>3. /\ Formed(r) /\ r.trie = c.trie /\ r.recent = c.recent /\ r.moved = c.moved /\ SameTier(c, r)
      /\ Listed(g, r.order) /\ Weighed(g, r.bytes, r.bytesOf)
  BY <1>1, ReplacedFields
<1>4. Placed(g)
  BY <1>1, <1>2, WithoutKeepsPlaced
<1>5. p \notin DOMAIN g /\ With(g, p, e) = With(f, p, e)
  <2>1. p \notin DOMAIN g
    BY <1>1 DEF Without
  <2>2. With(g, p, e) = With(f, p, e)
    BY <1>1, <1>2, WithIsMade DEF Placed
  <2>3. QED
    BY <2>1, <2>2
<1>6. PICK a : a = Count(r, e)
  OBVIOUS
<1>7. /\ Formed(a) /\ a.trie = r.trie /\ a.order = r.order /\ a.recent = r.recent
      /\ a.moved = r.moved /\ SameTier(r, a)
      /\ a.bytes = r.bytes + Nbytes(e)
      /\ a.bytesOf = [r.bytesOf EXCEPT ![e.type] = @ + Nbytes(e)]
  BY <1>3, <1>6, CountFields
<1>8. PICK t, o : t = TrieAdd(c.trie, p, e) /\ o = [r.order EXCEPT ![e.type] = Append(@, p)]
  OBVIOUS
<1>9. d = [a EXCEPT !.trie = t, !.order = o]
  <2>1. d = [a EXCEPT !.trie = TrieAdd(@, p, e), !.order[e.type] = Append(@, p)]
    BY <1>1, <1>6 DEF Added
  <2>2. d = [a EXCEPT !.trie = TrieAdd(a.trie, p, e), !.order = [a.order EXCEPT ![e.type] = Append(@, p)]]
    BY <2>1, <1>7 DEF Formed
  <2>3. QED
    BY <2>2, <1>3, <1>7, <1>8
<1>10. /\ Formed(d) /\ d.trie = t /\ d.order = o /\ d.recent = c.recent /\ d.moved = c.moved
       /\ d.bytes = a.bytes /\ d.bytesOf = a.bytesOf /\ SameTier(c, d)
  BY <1>3, <1>7, <1>9 DEF Formed, SameTier
<1>11. Planted(t) /\ t.entry = With(f, p, e)
  BY <1>1, <1>2, <1>8, AddKeepsPlanted
<1>12. Listed(With(f, p, e), o)
  BY <1>3, <1>4, <1>5, <1>8, AppendKeepsListed
<1>13. Weighed(With(f, p, e), d.bytes, d.bytesOf)
  <2>1. Weighed(With(g, p, e), r.bytes + Nbytes(e), [r.bytesOf EXCEPT ![e.type] = @ + Nbytes(e)])
    BY <1>3, <1>4, <1>5, CountKeepsWeighed
  <2>2. QED
    BY <2>1, <1>5, <1>7, <1>10
<1>14. Shelf(d)
  BY <1>10, <1>11, <1>12, <1>13 DEF Shelf
<1>15. OrderLen(d.order) <= OrderLen(c.order) + 1
  <2>1. PICK S : S = DOMAIN f
    OBVIOUS
  <2>2. DOMAIN With(f, p, e) = S \cup {p}
    BY <2>1 DEF With
  <2>3. PICK W : W = S \cup {p}
    OBVIOUS
  <2>4. IsFiniteSet(S) /\ OrderLen(c.order) = Cardinality(S) /\ OrderLen(d.order) = Cardinality(W)
    BY <2>1, <2>2, <2>3, <1>1, <1>10, <1>11, <1>14, ShelfCounts DEF Stored
  <2>5. Cardinality(S) \in Nat
    BY <2>4, FS_CardinalityType
  <2>6. Cardinality(W) <= Cardinality(S) + 1
    <3>1. CASE p \in S
      <4>1. W = S
        BY <2>3, <3>1
      <4>2. QED
        BY <2>5, <4>1
    <3>2. CASE p \notin S
      <4>1. Cardinality(W) = Cardinality(S) + 1
        BY <2>3, <2>4, <3>2, FS_AddElement
      <4>2. QED
        BY <2>5, <4>1
    <3>3. QED
      BY <3>1, <3>2
  <2>7. QED
    BY <2>4, <2>6
<1>16. QED
  BY <1>1, <1>10, <1>11, <1>14, <1>15

(* The entries of d are those of c and e at p. *)
Holding(c, d, p, e) ==
    /\ Stored(d.trie) \subseteq Stored(c.trie) \cup {p}
    /\ \A x \in Stored(d.trie) : Entry(d, x) = IF x = p THEN e ELSE Entry(c, x)

(* An insertion puts e at p, unless it had to go at once, and keeps the    *)
(* limits; what went is not stored any more.                               *)
LEMMA InsertKeepsShelf ==
    ASSUME NEW c, Shelf(c), OrderLen(c.order) <= MaxSize, NEW p \in Paths, NEW e, FitsAt(e, p),
           NEW limit \in Nat, NEW d, d = Insert(c, p, e, limit)
    PROVE  /\ Shelf(d) /\ OrderLen(d.order) <= MaxSize /\ d.bytes <= limit
           /\ d.recent = c.recent /\ d.moved = c.moved /\ SameTier(c, d)
           /\ Holding(c, d, p, e)
<1>1. PICK added : added = Added(c, p, e)
  OBVIOUS
<1>2. PICK covering : covering = IF e.trim /\ ~e.sidecar THEN DropCovered(added, p) ELSE added
  OBVIOUS
<1>3. PICK sized : sized = IF OrderLen(covering.order) > MaxSize THEN Evict(covering) ELSE covering
  OBVIOUS
<1>4. d = EvictToBytes(sized, limit)
  BY <1>1, <1>2, <1>3 DEF Insert, Added
<1>5. /\ Shelf(added) /\ added.trie.entry = With(c.trie.entry, p, e)
      /\ added.recent = c.recent /\ added.moved = c.moved /\ SameTier(c, added)
      /\ OrderLen(added.order) <= OrderLen(c.order) + 1
  BY <1>1, AddedKeepsShelf
<1>6. /\ Stored(added.trie) = Stored(c.trie) \cup {p}
      /\ \A x \in Stored(added.trie) : Entry(added, x) = IF x = p THEN e ELSE Entry(c, x)
  BY <1>5 DEF With, Stored, Entry
<1>7. MaxSize \in Nat /\ OrderLen(c.order) \in Nat /\ OrderLen(added.order) \in Nat
  BY <1>5, ShelfCounts, LimitsAssumption
<1>8. Shelf(covering) /\ Cut(added, covering)
  <2>1. CASE e.trim /\ ~e.sidecar
    <3>1. covering = DropCovered(added, p) /\ p \in Stored(added.trie)
      BY <2>1, <1>2, <1>6
    <3>2. QED
      BY <3>1, <1>5, DropCoveredCuts
  <2>2. CASE ~(e.trim /\ ~e.sidecar)
    BY <2>2, <1>2, <1>5, CutSame
  <2>3. QED
    BY <2>1, <2>2
<1>9. OrderLen(covering.order) \in Nat /\ OrderLen(covering.order) <= MaxSize + 1
  <2>1. OrderLen(covering.order) \in Nat
    BY <1>8, ShelfCounts
  <2>2. OrderLen(covering.order) <= OrderLen(added.order)
    BY <1>5, <1>8, CutShortens
  <2>3. QED
    BY <2>1, <2>2, <1>5, <1>7
<1>10. Shelf(sized) /\ Cut(added, sized) /\ OrderLen(sized.order) <= MaxSize
  <2>1. CASE OrderLen(covering.order) > MaxSize
    <3>1. sized = Evict(covering) /\ OrderLen(covering.order) # 0
      BY <2>1, <1>3, <1>7, <1>9
    <3>2. Shelf(sized) /\ Cut(covering, sized) /\ OrderLen(sized.order) = OrderLen(covering.order) - 1
      BY <3>1, <1>8, EvictKeepsShelf
    <3>3. Cut(added, sized)
      BY <3>2, <1>5, <1>8, CutOn
    <3>4. OrderLen(sized.order) <= MaxSize
      BY <3>2, <1>7, <1>9
    <3>5. QED
      BY <3>2, <3>3, <3>4
  <2>2. CASE ~(OrderLen(covering.order) > MaxSize)
    <3>1. sized = covering
      BY <2>2, <1>3
    <3>2. QED
      BY <2>2, <3>1, <1>7, <1>8, <1>9
  <2>3. QED
    BY <2>1, <2>2
<1>11. Shelf(d) /\ Cut(sized, d) /\ d.bytes <= limit
  BY <1>4, <1>10, EvictToBytesCuts
<1>12. Cut(added, d)
  BY <1>5, <1>10, <1>11, CutOn
<1>13. OrderLen(d.order) <= MaxSize
  <2>1. OrderLen(d.order) <= OrderLen(sized.order)
    BY <1>10, <1>11, CutShortens
  <2>2. OrderLen(d.order) \in Nat /\ OrderLen(sized.order) \in Nat
    BY <1>10, <1>11, ShelfCounts
  <2>3. QED
    BY <2>1, <2>2, <1>7, <1>10
<1>14. d.recent = c.recent /\ d.moved = c.moved /\ SameTier(c, d)
  BY <1>5, <1>12 DEF Cut, SameTier
<1>15. Stored(d.trie) \subseteq Stored(c.trie) \cup {p}
  BY <1>6, <1>12 DEF Cut
<1>16. \A x \in Stored(d.trie) : Entry(d, x) = IF x = p THEN e ELSE Entry(c, x)
  <2>1. \A x \in Stored(d.trie) : x \in Stored(added.trie) /\ Entry(d, x) = Entry(added, x)
    BY <1>12 DEF Cut
  <2>2. QED
    BY <2>1, <1>6
<1>17. QED
  BY <1>11, <1>13, <1>14, <1>15, <1>16 DEF Holding

(* What retiring entries does to the cache c, of whose entries those of    *)
(* all are backed before and those of left after it.                       *)
Retired(c, d, left) ==
    /\ Formed(d) /\ SameShelf(c, d) /\ d.recent = c.recent /\ d.moved = c.moved
    /\ Backed(d.files, d.disk, d.owner, left)
    /\ \A i \in Ids : d.owner[i].pins = c.owner[i].pins
    /\ d.disk <= c.disk

(* The tier counts bytes.                                                  *)
LEMMA StockIsNat == ASSUME NEW F, NEW D, NEW all, Apart(all), Stocked(F, D, all) PROVE D \in Nat
<1>1. IsFiniteSet(Filed(all)) /\ Filed(all) \subseteq EntryType
  BY FS_Subset DEF Apart, Filed
<1>2. PICK h : h = [e \in Filed(all) |-> e.size]
  OBVIOUS
<1>3. h \in [Filed(all) -> Nat]
  BY <1>1, <1>2 DEF EntryType
<1>4. SumFunction(h) \in Nat
  BY <1>1, <1>3, TotalSplits
<1>5. QED
  BY <1>2, <1>4 DEF Stocked

(* An entry goes with its files, its source and its name.                  *)
LEMMA RetireKeepsBacked ==
    ASSUME NEW c, Formed(c), NEW all, Backed(c.files, c.disk, c.owner, all), NEW e \in all,
           NEW d, d = Retire(c, e)
    PROVE  Retired(c, d, all \ {e})
<1>1. Apart(all) /\ Stocked(c.files, c.disk, all) /\ Owned(c.owner, all)
  BY DEF Backed
<1>2. e.id \in Ids /\ c.owner \in [Ids -> OwnerType]
  BY <1>1 DEF Apart, EntryType, Owned
<1>3. /\ Formed(d) /\ SameShelf(c, d) /\ d.recent = c.recent /\ d.moved = c.moved
      /\ d.files = IF e.filed THEN c.files \ {e.id} ELSE c.files
      /\ d.disk = IF e.filed THEN Max({0, c.disk - e.size}) ELSE c.disk
      /\ d.owner = IF Live(e) THEN [c.owner EXCEPT ![e.id] = Revoked(c.owner[e.id])] ELSE c.owner
  BY <1>2, RetireFields
<1>4. Apart(all \ {e})
  BY <1>1, ApartLess
<1>5. Stocked(d.files, d.disk, all \ {e}) /\ d.disk <= c.disk
  <2>1. /\ Stocked(IF e.filed THEN c.files \ {e.id} ELSE c.files,
                   IF e.filed THEN Max({0, c.disk - e.size}) ELSE c.disk, all \ {e})
        /\ c.disk \in Nat /\ (e.filed => c.disk >= e.size /\ Max({0, c.disk - e.size}) = c.disk - e.size)
        /\ e.size \in Nat
    BY <1>1, StockLess
  <2>2. QED
    BY <2>1, <1>3
<1>6. Owned(d.owner, all \ {e})
  BY <1>1, <1>3, OwnLess
<1>7. \A i \in Ids : d.owner[i].pins = c.owner[i].pins
  <2>1. d.owner = IF Live(e) THEN [c.owner EXCEPT ![e.id] = Revoked(c.owner[e.id])] ELSE c.owner
    BY <1>3
  <2>2. QED
    BY <2>1, <1>1, <1>6, OwnLess
<1>8. QED
  BY <1>3, <1>4, <1>5, <1>6, <1>7 DEF Retired, Backed

(* The loop that retires the entries at S, of all. *)
RetireAll(c, S) == FoldSet(LAMBDA x, d : Retire(d, x), c, S)
RetireStep(all, x, d) == Retire(d, x)
RetireHolds(all, c, T, d) == Retired(c, d, all \ T)

RetireLoop == INSTANCE FoldTheorems WITH Size <- Cardinality, Pick <- Taken, Step <- RetireStep, Holds <- RetireHolds

(* It is a fold.                                                           *)
LEMMA RetireLoops ==
    ASSUME NEW c, NEW S, NEW all
    PROVE  RetireAll(c, S) = RetireLoop!FoldOf(all, c, S)[S]
  BY DEF RetireAll, FoldSet, MapThenFoldSet, RetireStep, RetireLoop!FoldOf, RetireLoop!IsFold, Taken

(* In whatever order they are retired, the other entries stay backed.      *)
LEMMA RetireAllKeeps ==
    ASSUME NEW c, Formed(c), NEW all, Backed(c.files, c.disk, c.owner, all), NEW S, S \subseteq all,
           NEW d, d = RetireAll(c, S)
    PROVE  Retired(c, d, all \ S)
<1>1. Apart(all) /\ Stocked(c.files, c.disk, all)
  BY DEF Backed
<1>2. IsFiniteSet(S)
  BY <1>1, FS_Subset DEF Apart
<1>3. c.disk \in Nat
  BY <1>1, StockIsNat
<1>4. RetireHolds(all, c, {}, c)
  <2>1. all \ {} = all
    OBVIOUS
  <2>2. PICK W : W = all \ {}
    OBVIOUS
  <2>3. Retired(c, c, W)
    BY <1>3, <2>1, <2>2 DEF Retired, SameShelf
  <2>4. QED
    BY <2>2, <2>3 DEF RetireHolds
<1>5. \A T \in SUBSET S : T # {} => Taken(T) \in T
  BY TakenIn
<1>6. ASSUME NEW T \in SUBSET S, NEW r, T # {}, RetireHolds(all, c, T \ {Taken(T)}, r)
      PROVE  RetireHolds(all, c, T, RetireStep(all, Taken(T), r))
  <2>1. PICK x, s, L, R : x = Taken(T) /\ s = Retire(r, x) /\ L = all \ (T \ {x}) /\ R = L \ {x}
    OBVIOUS
  <2>2. x \in T /\ Retired(c, r, L)
    BY <2>1, <1>5, <1>6 DEF RetireHolds
  <2>3. x \in L /\ R = all \ T
    BY <2>1, <2>2
  <2>4. Formed(r) /\ Backed(r.files, r.disk, r.owner, L)
    BY <2>2 DEF Retired
  <2>5. Retired(r, s, R)
    BY <2>1, <2>3, <2>4, RetireKeepsBacked
  <2>6. r.disk \in Nat /\ s.disk \in Nat
    BY <2>4, <2>5, StockIsNat DEF Retired, Backed
  <2>7. Retired(c, s, R)
    BY <1>3, <2>2, <2>5, <2>6 DEF Retired, SameShelf
  <2>8. QED
    BY <2>1, <2>3, <2>7 DEF RetireHolds, RetireStep
<1>7. RetireHolds(all, c, S, RetireLoop!FoldOf(all, c, S)[S])
  <2>1. RetireLoop!Steady(all, c, S)
    BY <1>6 DEF RetireLoop!Steady
  <2>2. RetireLoop!Foldable(S)
    BY <1>2, SetEnds, SetOfNumbers DEF RetireLoop!Foldable, RetireLoop!Measured, RetireLoop!Induction
  <2>3. QED
    BY <2>1, <2>2, <1>4, RetireLoop!SetHolds
<1>8. QED
  BY <1>7, RetireLoops DEF RetireHolds

(***************************************************************************)
(* What a lookup answers                                                   *)
(***************************************************************************)

(* What both begin with they begin with up to any place before.            *)
LEMMA PartOfPrefix ==
    ASSUME NEW R, NEW q \in Seq(R), NEW p \in Seq(R), NEW n \in 0..Len(q), IsPrefix(SubSeq(q, 1, n), p),
           NEW m \in 0..n
    PROVE  IsPrefix(SubSeq(q, 1, m), p)
<1>1. Len(q) \in Nat /\ Len(p) \in Nat
  OBVIOUS
<1>2. PICK a, b : a = SubSeq(q, 1, n) /\ b = SubSeq(q, 1, m)
  OBVIOUS
<1>3. m \in 0..Len(q) /\ Len(a) = n /\ Len(b) = m /\ SubSeq(a, 1, m) = b /\ SubSeq(b, 1, m) = b
  BY <1>1, <1>2, FirstTokens
<1>4. n <= Len(p) /\ SubSeq(a, 1, n) = SubSeq(p, 1, n)
  BY <1>2, <1>3 DEF IsPrefix
<1>5. n \in 0..Len(p) /\ SubSeq(a, 1, n) = a
  BY <1>1, <1>2, <1>4, FirstTokens
<1>6. SubSeq(SubSeq(p, 1, n), 1, m) = SubSeq(p, 1, m)
  BY <1>5, FirstTokens
<1>7. b = SubSeq(p, 1, m) /\ m <= Len(p)
  BY <1>1, <1>3, <1>4, <1>5, <1>6
<1>8. IsPrefix(b, p)
  BY <1>3, <1>7 DEF IsPrefix
<1>9. QED
  BY <1>2, <1>8

(* Of finitely many prompts there is a longest and a shortest one.         *)
LEMMA Extremes ==
    ASSUME NEW R, NEW S, IsFiniteSet(S), S \subseteq Seq(R), S # {}
    PROVE  /\ \E p \in S : \A x \in S : Len(x) <= Len(p)
           /\ \E p \in S : \A x \in S : Len(p) <= Len(x)
<1>1. PICK h : h = [x \in S |-> Len(x)]
  OBVIOUS
<1>2. PICK L : L = {h[x] : x \in S}
  OBVIOUS
<1>3. IsFiniteSet(L) /\ L \subseteq Int /\ L # {}
  <2>1. h = [x \in S |-> h[x]]
    BY <1>1
  <2>2. IsFiniteSet(L)
    BY <2>1, <1>2, ValuesAreFinite
  <2>3. QED
    BY <2>2, <1>1, <1>2
<1>4. PICK a, b : a = Max(L) /\ b = Min(L)
  OBVIOUS
<1>5. a \in L /\ b \in L /\ \A y \in L : a >= y /\ b <= y
  BY <1>3, <1>4, MaxIn, MinIn
<1>6. PICK p \in S, r \in S : Len(p) = a /\ Len(r) = b
  BY <1>1, <1>2, <1>5
<1>7. \A x \in S : Len(x) \in L
  BY <1>1, <1>2
<1>8. \A x \in S : Len(x) <= Len(p) /\ Len(r) <= Len(x)
  BY <1>3, <1>5, <1>6, <1>7
<1>9. QED
  BY <1>8

(* Where an entry can be put to.                                           *)
LEMMA SnapIs ==
    ASSUME NEW e \in EntryType, NEW pos \in Nat
    PROVE  Snap(e, pos) \in 0..pos /\ (Snap(e, pos) = 0 \/ Snap(e, pos) \in e.marks)
<1>1. PICK S : S = {0} \cup {m \in e.marks : m <= pos}
  OBVIOUS
<1>2. e.marks \subseteq Nat
  BY DEF EntryType
<1>3. S \subseteq 0..pos /\ 0 \in S
  BY <1>1, <1>2
<1>4. IsFiniteSet(S) /\ S \subseteq Int
  <2>1. PICK D : D = 0..pos
    OBVIOUS
  <2>2. IsFiniteSet(D) /\ S \subseteq D /\ D \subseteq Int
    BY <2>1, <1>3, FS_Interval
  <2>3. QED
    BY <2>2, FS_Subset
<1>5. Snap(e, pos) = Max(S)
  BY <1>1 DEF Snap
<1>6. Max(S) \in S
  BY <1>3, <1>4, MaxIn
<1>7. QED
  BY <1>1, <1>3, <1>5, <1>6

(* The tokens of a prompt lead to a node.                                  *)
LEMMA WalkedIs ==
    ASSUME NEW t, Planted(t), NEW q \in Paths
    PROVE  Walked(t, q) \in 0..Len(q) /\ SubSeq(q, 1, Walked(t, q)) \in t.nodes
<1>1. PICK S : S = {i \in 0..Len(q) : SubSeq(q, 1, i) \in t.nodes}
  OBVIOUS
<1>2. q \in Seq(Tokens) /\ Len(q) \in Nat
  BY DEF Paths
<1>3. 0 \in S
  <2>1. 0 \in 0..Len(q) /\ SubSeq(q, 1, 0) = Root
    BY <1>2, FirstTokens
  <2>2. Root \in t.nodes
    BY DEF Planted
  <2>3. QED
    BY <2>1, <2>2, <1>1
<1>4. IsFiniteSet(S) /\ S \subseteq Int
  <2>1. PICK D : D = 0..Len(q)
    OBVIOUS
  <2>2. IsFiniteSet(D) /\ S \subseteq D /\ D \subseteq Int
    BY <2>1, <1>1, <1>2, FS_Interval
  <2>3. QED
    BY <2>2, FS_Subset
<1>5. Walked(t, q) = Max(S)
  BY <1>1 DEF Walked
<1>6. Max(S) \in S
  BY <1>3, <1>4, MaxIn
<1>7. QED
  BY <1>1, <1>5, <1>6

(* Below a node there is an entry, and the search ends at one of them.     *)
LEMMA NearestIs ==
    ASSUME NEW t, Planted(t), NEW node \in t.nodes, node # Root, NEW favour
    PROVE  NearestBelow(t, node, favour) \in Stored(t) /\ IsPrefix(node, NearestBelow(t, node, favour))
<1> DEFINE below == {p \in Stored(t) : IsPrefix(node, p)}
           least == {p \in below : \A x \in below : Len(p) <= Len(x)}
           liked == {p \in least : Len(p) > Len(node) /\ p[Len(node) + 1] = favour}
<1>1. IsFiniteSet(Stored(t)) /\ Stored(t) \subseteq Seq(Tokens)
  BY DEF Planted, Stored, Paths
<1>2. PICK p \in Stored(t) : node \in Prefixes(p)
  BY DEF Planted, Stored
<1>3. IsPrefix(node, p)
  BY <1>1, <1>2, PrefixesAre
<1>4. below # {} /\ IsFiniteSet(below) /\ below \subseteq Seq(Tokens)
  BY <1>1, <1>2, <1>3, FS_Subset
<1>5. least # {}
  <2> HIDE DEF below
  <2>1. \E x \in below : \A y \in below : Len(x) <= Len(y)
    BY <1>4, Extremes
  <2>2. QED
    BY <2>1
<1>6. PICK n : n = NearestBelow(t, node, favour)
  OBVIOUS
<1>7. n = CHOOSE x \in least : liked = {} \/ x \in liked
  BY <1>6 DEF NearestBelow
<1>8. n \in least
  <2>1. liked \subseteq least
    OBVIOUS
  <2> HIDE DEF least, liked
  <2>2. QED
    BY <2>1, <1>5, <1>7
<1>9. QED
  BY <1>6, <1>8

(* What a search reports is there: the whole prompt, a prompt that begins  *)
(* with the first tokens of this one, or its own first tokens.             *)
Reports(t, q, s) ==
    /\ s.exact # NoPath => s.exact = q /\ q \in Stored(t)
    /\ s.longer # NoPath => /\ s.common \in 1..Len(q) /\ s.longer \in Stored(t)
                            /\ IsPrefix(SubSeq(q, 1, s.common), s.longer)
    /\ s.exact = NoPath /\ s.shorter # NoPath =>
         s.shorter \in Stored(t) /\ IsPrefix(s.shorter, q) /\ Len(s.shorter) < Len(q)
    /\ Len(s.shorter) \in Nat

(* And search does.                                                        *)
LEMMA SearchReports ==
    ASSUME NEW t, Planted(t), NEW q \in Paths, NEW favour
    PROVE  Reports(t, q, TrieSearch(t, q, favour))
<1>1. q \in Seq(Tokens) /\ q # NoPath /\ Len(q) \in Nat
  BY DEF Paths
<1>2. PICK s : s = TrieSearch(t, q, favour)
  OBVIOUS
<1>3. Len(NoPath) = 0
  BY DEF NoPath
<1>4. CASE q \in Stored(t)
  <2>1. s = [exact |-> q, longer |-> NoPath, shorter |-> NoPath, common |-> 0]
    BY <1>2, <1>4 DEF TrieSearch
  <2>2. QED
    BY <2>1, <1>1, <1>2, <1>3, <1>4 DEF Reports
<1>5. CASE q \notin Stored(t)
  <2>1. PICK index : index = Walked(t, q)
    OBVIOUS
  <2>2. index \in 0..Len(q) /\ SubSeq(q, 1, index) \in t.nodes
    BY <2>1, WalkedIs
  <2>3. PICK valued : valued = {i \in 1..index : SubSeq(q, 1, i) \in Stored(t)}
    OBVIOUS
  <2>4. PICK last : last = Max(valued \cup {0})
    OBVIOUS
  <2>5. PICK near : near = NearestBelow(t, SubSeq(q, 1, index), favour)
    OBVIOUS
  <2>6. s = [exact |-> NoPath, longer |-> IF index > 0 THEN near ELSE NoPath,
             shorter |-> IF last > 1 THEN SubSeq(q, 1, last) ELSE NoPath, common |-> index]
    BY <1>2, <1>5, <2>1, <2>3, <2>4, <2>5 DEF TrieSearch
  <2>7. index > 0 => near \in Stored(t) /\ IsPrefix(SubSeq(q, 1, index), near)
    <3>1. PICK node : node = SubSeq(q, 1, index)
      OBVIOUS
    <3>2. index > 0 => node # Root
      <4>1. Len(node) = index
        BY <3>1, <2>2, <1>1, FirstTokens
      <4>2. QED
        BY <4>1 DEF Root
    <3>3. QED
      BY <3>1, <3>2, <2>2, <2>5, NearestIs
  <2>8. last = 0 \/ (last \in 1..Len(q) /\ SubSeq(q, 1, last) \in Stored(t))
    <3>1. PICK S, D : S = valued \cup {0} /\ D = 0..Len(q)
      OBVIOUS
    <3>2. IsFiniteSet(D) /\ S \subseteq D /\ D \subseteq Int /\ S # {}
      <4>1. IsFiniteSet(0..Len(q))
        BY <1>1, FS_Interval
      <4>2. S \subseteq D /\ D \subseteq Int /\ S # {}
        BY <3>1, <2>2, <2>3, <1>1
      <4>3. QED
        BY <4>1, <4>2, <3>1
    <3>3. IsFiniteSet(S) /\ S \subseteq Int
      BY <3>2, FS_Subset
    <3>4. last \in S
      BY <3>1, <3>2, <3>3, <2>4, MaxIn
    <3>5. QED
      BY <3>1, <3>4, <2>2, <2>3
  <2>9. PICK short : short = SubSeq(q, 1, last)
    OBVIOUS
  <2>10. last # 0 => /\ short \in Stored(t) /\ Len(short) = last /\ last < Len(q)
                     /\ IsPrefix(short, q)
    <3>1. SUFFICES ASSUME last # 0
                   PROVE  /\ short \in Stored(t) /\ Len(short) = last /\ last < Len(q)
                          /\ IsPrefix(short, q)
      OBVIOUS
    <3>2. last \in 0..Len(q) /\ last \in 1..Len(q) /\ short \in Stored(t)
      BY <3>1, <2>8, <2>9
    <3>3. Len(short) = last /\ SubSeq(short, 1, last) = SubSeq(q, 1, last)
      BY <3>2, <2>9, <1>1, FirstTokens
    <3>4. last # Len(q)
      <4>1. SubSeq(q, 1, Len(q)) = q
        BY <1>1
      <4>2. QED
        BY <4>1, <3>2, <2>9, <1>5
    <3>5. QED
      BY <3>2, <3>3, <3>4, <1>1 DEF IsPrefix
  <2>11. Len(s.shorter) \in Nat
    <3>1. last > 1 => Len(short) \in Nat
      BY <2>8, <2>10
    <3>2. s.shorter = short \/ s.shorter = NoPath
      BY <2>6, <2>9
    <3>3. s.shorter = IF last > 1 THEN short ELSE NoPath
      BY <2>6, <2>9
    <3>4. QED
      BY <3>1, <3>3, <1>3
  <2>12. s.longer # NoPath => /\ s.common \in 1..Len(q) /\ s.longer \in Stored(t)
                              /\ IsPrefix(SubSeq(q, 1, s.common), s.longer)
    BY <2>2, <2>6, <2>7
  <2>13. s.shorter # NoPath => s.shorter \in Stored(t) /\ IsPrefix(s.shorter, q) /\ Len(s.shorter) < Len(q)
    BY <2>6, <2>8, <2>9, <2>10
  <2>14. s.exact = NoPath
    BY <2>6
  <2>15. QED
    BY <1>2, <2>11, <2>12, <2>13, <2>14 DEF Reports
<1>6. QED
  BY <1>4, <1>5

(* The answer r, from entry e, is the state of the first tokens of q. *)
Matches(q, r, e) ==
    /\ r.rest > 0
    /\ r.at = Len(q) - r.rest
    /\ IsPrefix(SubSeq(q, 1, r.at), r.path)
    /\ e.trim \/ r.at = Len(r.path) \/ r.at \in e.marks

(* What an entry of the whole prompt answers,                              *)
LEMMA ExactMatches ==
    ASSUME NEW q \in Paths, NEW e \in EntryType, NEW r, r = ExactAnswer(e, q)
    PROVE  r.path # NoPath => r.path = q /\ (e.resident => Matches(q, r, e))
<1>1. q \in Seq(Tokens) /\ q # NoPath /\ Len(q) \in Nat \ {0}
  BY DEF Paths, NoPath
<1>2. SubSeq(q, 1, Len(q)) = q /\ IsPrefix(q, q)
  BY <1>1 DEF IsPrefix
<1>3. Len(q) \in 0..Len(q)
  BY <1>1
<1>4. \A m \in 0..Len(q) : IsPrefix(SubSeq(q, 1, m), q)
  BY <1>1, <1>2, <1>3, PartOfPrefix
<1>5. PICK land : land = Snap(e, Len(q) - 1)
  OBVIOUS
<1>6. Len(q) - 1 \in Nat
  BY <1>1
<1>7. land \in 0..(Len(q) - 1) /\ (land = 0 \/ land \in e.marks)
  BY <1>5, <1>6, SnapIs
<1>8. CASE CanTrim(e)
  <2>1. r = [path |-> q, at |-> IF e.resident THEN Len(q) - 1 ELSE 0, rest |-> 1]
    BY <1>8 DEF ExactAnswer
  <2>2. Len(q) - 1 \in 0..Len(q) /\ (e.resident => e.trim)
    BY <1>1, <1>8 DEF CanTrim
  <2>3. PICK n : n = Len(q) - 1
    OBVIOUS
  <2>4. IsPrefix(SubSeq(q, 1, n), q)
    BY <2>2, <2>3, <1>4
  <2>5. e.resident => r.rest = 1 /\ r.at = n /\ r.path = q
    BY <2>1, <2>3
  <2>6. QED
    BY <2>1, <2>2, <2>3, <2>4, <2>5, <1>1 DEF Matches
<1>9. CASE ~CanTrim(e) /\ land > 0
  <2>1. r = [path |-> q, at |-> land, rest |-> Len(q) - land]
    BY <1>5, <1>9 DEF ExactAnswer
  <2>2. land \in 0..Len(q) /\ land \in e.marks /\ Len(q) - land > 0 /\ land = Len(q) - (Len(q) - land)
    BY <1>1, <1>7, <1>9
  <2>3. QED
    BY <2>1, <2>2, <1>4 DEF Matches
<1>10. CASE ~CanTrim(e) /\ ~(land > 0)
  BY <1>5, <1>10 DEF ExactAnswer, Miss
<1>11. QED
  BY <1>8, <1>9, <1>10

(* what one beyond it answers,                                             *)
LEMMA LongerMatches ==
    ASSUME NEW t, NEW q \in Paths, NEW s, Reports(t, q, s), s.longer # NoPath, s.longer \in Paths,
           NEW e \in EntryType, NEW r, r = LongerAnswer(e, q, s)
    PROVE  r.path # NoPath => r.path = s.longer /\ (e.resident => Matches(q, r, e))
<1>1. q \in Seq(Tokens) /\ Len(q) \in Nat \ {0} /\ s.longer \in Seq(Tokens)
  BY DEF Paths, NoPath
<1>2. s.common \in 1..Len(q) /\ IsPrefix(SubSeq(q, 1, s.common), s.longer) /\ Len(s.shorter) \in Nat
  BY DEF Reports
<1>3. s.common \in 0..Len(q)
  BY <1>1, <1>2
<1>4. PICK prefix : prefix = Min({Len(q) - 1, s.common})
  OBVIOUS
<1>5. prefix \in Nat /\ prefix <= s.common /\ prefix <= Len(q) - 1
  <2>1. PICK S : S = {Len(q) - 1, s.common}
    OBVIOUS
  <2>2. IsFiniteSet(S) /\ S \subseteq Int /\ S # {}
    <3>1. IsFiniteSet({Len(q) - 1, s.common})
      BY PairIsFinite
    <3>2. S \subseteq Int /\ S # {}
      BY <2>1, <1>1, <1>2
    <3>3. QED
      BY <3>1, <3>2, <2>1
  <2>3. Min(S) \in S /\ \A y \in S : Min(S) <= y
    BY <2>2, MinIn
  <2>4. QED
    BY <2>1, <2>3, <1>1, <1>2, <1>4
<1>6. \A m \in 0..prefix : IsPrefix(SubSeq(q, 1, m), s.longer)
  <2> TAKE m \in 0..prefix
  <2>1. m \in 0..s.common
    BY <1>2, <1>5
  <2>2. QED
    BY <2>1, <1>1, <1>2, <1>3, PartOfPrefix
<1>7. PICK land : land = Snap(e, prefix)
  OBVIOUS
<1>8. land \in 0..prefix /\ (land = 0 \/ land \in e.marks)
  BY <1>5, <1>7, SnapIs
<1>9. CASE CanTrim(e)
  <2>1. r = [path |-> s.longer, at |-> IF e.resident THEN prefix ELSE 0, rest |-> Len(q) - prefix]
    BY <1>4, <1>9 DEF LongerAnswer
  <2>2. prefix \in 0..prefix /\ Len(q) - prefix > 0 /\ prefix = Len(q) - (Len(q) - prefix)
        /\ (e.resident => e.trim)
    BY <1>1, <1>5, <1>9 DEF CanTrim
  <2>3. QED
    BY <2>1, <2>2, <1>6 DEF Matches
<1>10. CASE ~CanTrim(e) /\ land > Len(s.shorter)
  <2>1. r = [path |-> s.longer, at |-> land, rest |-> Len(q) - land]
    BY <1>4, <1>7, <1>10 DEF LongerAnswer
  <2>2. land \in e.marks /\ Len(q) - land > 0 /\ land = Len(q) - (Len(q) - land)
    BY <1>1, <1>2, <1>5, <1>8, <1>10
  <2>3. QED
    BY <2>1, <2>2, <1>6, <1>8 DEF Matches
<1>11. CASE ~CanTrim(e) /\ ~(land > Len(s.shorter))
  BY <1>4, <1>7, <1>11 DEF LongerAnswer, Miss
<1>12. QED
  BY <1>9, <1>10, <1>11

(* and what the first tokens of it answer.                                 *)
LEMMA ShorterMatches ==
    ASSUME NEW q \in Paths, NEW p \in Paths, IsPrefix(p, q), Len(p) < Len(q),
           NEW e, NEW r, r.path = p, r.at = Len(p), r.rest = Len(q) - Len(p)
    PROVE  Matches(q, r, e)
<1>1. Len(q) \in Nat /\ Len(p) \in Nat /\ SubSeq(p, 1, Len(p)) = p
  BY DEF Paths
<1>2. SubSeq(q, 1, Len(p)) = p
  BY <1>1 DEF IsPrefix
<1>3. IsPrefix(p, p)
  BY <1>1 DEF IsPrefix
<1>4. PICK m, n : m = Len(p) /\ n = Len(q)
  OBVIOUS
<1>5. m \in Nat /\ n \in Nat /\ n - m > 0 /\ m = n - (n - m)
  BY <1>1, <1>4
<1>6. r.rest > 0 /\ r.at = Len(q) - r.rest /\ r.at = Len(r.path)
  BY <1>4, <1>5
<1>7. IsPrefix(SubSeq(q, 1, r.at), r.path)
  BY <1>2, <1>3
<1>8. QED
  BY <1>6, <1>7 DEF Matches

(* An answer is the state of the first tokens of the prompt, and at least  *)
(* one token is left.                                                      *)
LEMMA AnswerMatches ==
    ASSUME NEW c, Shelf(c), NEW q \in Paths, NEW found, ToSet(Candidates(found)) \subseteq Stored(c.trie),
           NEW favour, NEW r, r = Answer(c, q, found, favour)
    PROVE  r.path # NoPath => /\ r.path \in Stored(c.trie)
                              /\ Entry(c, r.path).resident => Matches(q, r, Entry(c, r.path))
<1>1. PICK t : t = c.trie
  OBVIOUS
<1>2. Planted(t) /\ IsFiniteSet(Stored(t)) /\ Stored(t) \subseteq Paths
      /\ \A p \in Stored(t) : t.entry[p] \in EntryType /\ Entry(c, p) = t.entry[p]
  BY <1>1 DEF Shelf, Planted, Stored, FitsAt, Entry
<1>3. PICK joint : joint = {p \in ToSet(Candidates(found)) :
                              /\ Entry(c, p).resident /\ Entry(c, p).sidecar /\ IsStrictPrefix(p, q)}
  OBVIOUS
<1>4. CASE joint # {}
  <2>1. joint \subseteq Stored(t) /\ \A p \in joint : IsStrictPrefix(p, q)
    BY <1>1, <1>3
  <2>2. IsFiniteSet(joint) /\ joint \subseteq Seq(Tokens)
    BY <2>1, <1>2, FS_Subset DEF Paths
  <2>3. PICK best : best = CHOOSE p \in joint : \A x \in joint : Len(x) <= Len(p)
    OBVIOUS
  <2>4. best \in joint
    <3>1. \E p \in joint : \A x \in joint : Len(x) <= Len(p)
      BY <1>4, <2>2, Extremes
    <3>2. QED
      BY <2>3, <3>1
  <2>5. best \in Paths /\ best \in Stored(t) /\ IsPrefix(best, q) /\ best # q
    BY <2>1, <2>4, <1>2 DEF IsStrictPrefix
  <2>6. Len(best) < Len(q)
    <3>1. Len(best) \in Nat /\ Len(q) \in Nat /\ SubSeq(best, 1, Len(best)) = best /\ SubSeq(q, 1, Len(q)) = q
      BY <2>5 DEF Paths
    <3>2. Len(best) <= Len(q) /\ SubSeq(best, 1, Len(best)) = SubSeq(q, 1, Len(best))
      BY <2>5 DEF IsPrefix
    <3>3. PICK m, n : m = Len(best) /\ n = Len(q)
      OBVIOUS
    <3>4. m \in Nat /\ n \in Nat /\ m <= n
      BY <3>1, <3>2, <3>3
    <3>5. m # n
      BY <3>1, <3>2, <3>3, <2>5
    <3>6. m < n
      BY <3>4, <3>5
    <3>7. QED
      BY <3>3, <3>6
  <2>7. r = [path |-> best, at |-> Len(best), rest |-> Len(q) - Len(best)]
    BY <1>3, <1>4, <2>3 DEF Answer
  <2>8. QED
    BY <2>5, <2>6, <2>7, <1>1, ShorterMatches
<1>5. CASE joint = {}
  <2>1. PICK s : s = TrieSearch(t, q, favour)
    OBVIOUS
  <2>2. Reports(t, q, s)
    BY <2>1, <1>2, SearchReports
  <2>3. r = FetchNearest(t, q, s)
    BY <1>1, <1>3, <1>5, <2>1 DEF Answer
  <2>4. PICK longer : longer = IF s.longer # NoPath /\ s.common > Len(s.shorter)
                               THEN LongerAnswer(t.entry[s.longer], q, s) ELSE Miss(q)
    OBVIOUS
  <2>5. CASE s.exact # NoPath
    <3>1. q \in Stored(t) /\ r = ExactAnswer(t.entry[q], q)
      BY <2>2, <2>3, <2>5 DEF Reports, FetchNearest
    <3>2. r.path # NoPath => r.path = q /\ (t.entry[q].resident => Matches(q, r, t.entry[q]))
      BY <3>1, <1>2, ExactMatches
    <3>3. QED
      BY <3>1, <3>2, <1>1, <1>2
  <2>6. CASE s.exact = NoPath /\ longer.path # NoPath
    <3>1. r = longer
      BY <2>3, <2>4, <2>6 DEF FetchNearest
    <3>2. Miss(q).path = NoPath
      BY DEF Miss
    <3>3. s.longer # NoPath /\ r = LongerAnswer(t.entry[s.longer], q, s)
      BY <3>1, <3>2, <2>4, <2>6
    <3>4. s.longer \in Stored(t) /\ s.longer \in Paths
      BY <3>3, <2>2, <1>2 DEF Reports
    <3>5. r.path # NoPath => r.path = s.longer /\ (t.entry[s.longer].resident => Matches(q, r, t.entry[s.longer]))
      BY <3>3, <3>4, <2>2, <1>2, LongerMatches
    <3>6. QED
      BY <3>4, <3>5, <1>1, <1>2
  <2>7. CASE s.exact = NoPath /\ longer.path = NoPath /\ s.shorter # NoPath
    <3>1. r = ShorterAnswer(t.entry[s.shorter], q, s)
      BY <2>3, <2>4, <2>7 DEF FetchNearest
    <3>2. s.shorter \in Stored(t) /\ IsPrefix(s.shorter, q) /\ Len(s.shorter) < Len(q) /\ s.shorter \in Paths
      BY <2>2, <2>7, <1>2 DEF Reports
    <3>3. PICK e : e = t.entry[s.shorter]
      OBVIOUS
    <3>4. r = [path |-> s.shorter, at |-> IF e.resident THEN Len(s.shorter) ELSE 0, rest |-> Len(q) - Len(s.shorter)]
      BY <3>1, <3>3 DEF ShorterAnswer
    <3>5. e.resident => Matches(q, r, e)
      <4>1. HAVE e.resident
      <4>2. r.path = s.shorter /\ r.at = Len(s.shorter) /\ r.rest = Len(q) - Len(s.shorter)
        BY <4>1, <3>4
      <4>3. QED
        BY <4>2, <3>2, ShorterMatches
    <3>6. QED
      BY <3>2, <3>3, <3>4, <3>5, <1>1, <1>2
  <2>8. CASE s.exact = NoPath /\ longer.path = NoPath /\ s.shorter = NoPath
    BY <2>3, <2>4, <2>8 DEF FetchNearest, Miss
  <2>9. QED
    BY <2>5, <2>6, <2>7, <2>8
<1>6. QED
  BY <1>4, <1>5

(***************************************************************************)
(* The cache between its operations                                        *)
(***************************************************************************)

(* The cache c is whole and within its limits, where t says whether there  *)
(* is a disk tier. *)
Ready(c, t) ==
    /\ Whole(c) /\ Dated(c)
    /\ OrderLen(c.order) <= MaxSize /\ c.disk <= MaxDisk
    /\ t \/ (c.bytes <= MaxBytes /\ \A p \in Stored(c.trie) : Entry(c, p).resident)

(* The pins of the owners are the branches br. *)
Pinning(owner, br) == \A i \in Ids : owner[i].pins = Cardinality({b \in Branches : br[b] = i})

(* The inductive invariant. *)
PrefixInv ==
    /\ cow \in BOOLEAN /\ tier \in BOOLEAN /\ generation \in {0, 1}
    /\ branch \in [Branches -> Ids \cup {NoId}]
    /\ Ready(apc, tier) /\ ToSet(apc.recent) = Stored(apc.trie) /\ ~apc.moved
    /\ Pinning(apc.owner, branch)

(* What an operation leaves of c: a cache that is ready, no other pin, and *)
(* the generation moved where a loaded entry went. *)
Outcome(c, d, t) ==
    /\ Ready(d, t)
    /\ \A i \in Ids : d.owner[i].pins = c.owner[i].pins
    /\ d.moved \/ Loaded(c) \subseteq Loaded(d)

(* What may be stored and looked up.                                       *)
LEMMA InputsAre ==
    /\ \A s \in Stores : /\ s.path \in Paths /\ s.type \in CacheTypes /\ s.trim \in BOOLEAN
                         /\ s.marks \in SUBSET Nat /\ s.sidecar \in BOOLEAN /\ s.size \in Nat
                         /\ s.stable \in BOOLEAN
    /\ Queries \subseteq Paths
    /\ \A l \in Trims : l.sequences \in Nat /\ l.bytes \in Nat
    /\ \A i \in Ids : i # NoId
<1>1. PICK I : I = [path : Paths, type : CacheTypes, trim : BOOLEAN, marks : SUBSET Nat,
                    sidecar : BOOLEAN, size : Nat, stable : BOOLEAN]
  OBVIOUS
<1>2. Stores \subseteq I /\ Queries \subseteq Paths /\ Trims \subseteq [sequences : Nat, bytes : Nat]
  BY <1>1, PrefixAssumption DEF Paths
<1>3. \A s \in I : /\ s.path \in Paths /\ s.type \in CacheTypes /\ s.trim \in BOOLEAN
                   /\ s.marks \in SUBSET Nat /\ s.sidecar \in BOOLEAN /\ s.size \in Nat
                   /\ s.stable \in BOOLEAN
  BY <1>1
<1>4. \A l \in Trims : l.sequences \in Nat /\ l.bytes \in Nat
  BY <1>2
<1>5. \A i \in Ids : i # NoId
  <2> TAKE i \in Ids
  <2>1. PICK s \in Stores : i[1] = s.path
    BY DEF Ids
  <2>2. i[1] # NoPath
    BY <2>1, <1>2, <1>3 DEF Paths
  <2>3. NoId[1] = NoPath
    BY DEF NoId
  <2>4. QED
    BY <2>2, <2>3
<1>6. QED
  BY <1>2, <1>3, <1>4, <1>5

(* The empty cache is ready.                                               *)
LEMMA EmptyIsReady ==
    ASSUME NEW t \in BOOLEAN
    PROVE  Ready(EmptyCache, t) /\ ToSet(EmptyCache.recent) = Stored(EmptyCache.trie) /\ ~EmptyCache.moved
<1>1. PICK c : c = EmptyCache
  OBVIOUS
<1>2. /\ c.trie = EmptyTrie /\ c.order = [x \in CacheTypes |-> <<>>] /\ c.bytes = 0
      /\ c.bytesOf = [x \in CacheTypes |-> 0] /\ c.recent = <<>> /\ c.files = {} /\ c.disk = 0
      /\ c.owner = [i \in Ids |-> NoOwner] /\ c.moved = FALSE /\ Formed(c)
  BY <1>1 DEF EmptyCache, Formed
<1>3. PICK f : f = EmptyTrie.entry
  OBVIOUS
<1>4. f = <<>> /\ DOMAIN f = {} /\ Stored(c.trie) = {} /\ c.trie.entry = f
  BY <1>2, <1>3 DEF EmptyTrie, Stored
<1>5. Planted(c.trie)
  <2>1. EmptyTrie = [nodes |-> EmptyTrie.nodes, entry |-> EmptyTrie.entry]
    BY DEF EmptyTrie
  <2>2. f = [p \in DOMAIN f |-> f[p]]
    BY <1>4
  <2>3. IsFiniteSet(DOMAIN f)
    BY <1>4, FS_EmptySet
  <2>4. EmptyTrie.nodes = {Root}
    BY DEF EmptyTrie
  <2>5. QED
    BY <2>1, <2>2, <2>3, <2>4, <1>2, <1>3, <1>4 DEF Planted
<1>6. Listed(f, c.order)
  <2>1. \A x \in CacheTypes : c.order[x] = <<>> /\ Typed(f, x) = {}
    BY <1>2, <1>4 DEF Typed
  <2>2. <<>> \in Seq(Paths) /\ Once(<<>>) /\ ToSet(<<>>) = {}
    BY DEF Once, ToSet
  <2>3. c.order = [x \in CacheTypes |-> c.order[x]]
    BY <1>2
  <2>4. QED
    BY <2>1, <2>2, <2>3 DEF Listed
<1>7. Weighed(f, c.bytes, c.bytesOf)
  <2>1. Placed(f)
    BY <1>4, <1>5, PlantedIsPlaced
  <2>2. \A x \in CacheTypes : Typed(f, x) = {}
    BY <1>4 DEF Typed
  <2>3. Weight(f, {}) = 0
    BY <2>1, WeightSplits
  <2>4. QED
    BY <2>2, <2>3, <1>2, <1>4 DEF Weighed
<1>8. Backed(c.files, c.disk, c.owner, {})
  <2>1. Apart({}) /\ Filed({}) = {}
    BY FS_EmptySet DEF Apart, Filed
  <2>2. PICK h : h = [e \in Filed({}) |-> e.size]
    OBVIOUS
  <2>3. SumFunction(h) = 0
    <3>1. h \in [{} -> Nat]
      BY <2>1, <2>2
    <3>2. QED
      BY <3>1, TotalSplits, FS_EmptySet
  <2>4. Stocked(c.files, c.disk, {})
    BY <2>1, <2>2, <2>3, <1>2 DEF Stocked
  <2>5. Owned(c.owner, {})
    BY <1>2 DEF Owned, OwnerType, NoOwner
  <2>6. QED
    BY <2>1, <2>4, <2>5 DEF Backed
<1>9. Whole(c)
  <2>1. All(f) = {}
    BY <1>4 DEF All
  <2>2. QED
    BY <2>1, <1>2, <1>4, <1>5, <1>6, <1>7, <1>8 DEF Whole, Shelf
<1>10. Dated(c) /\ ToSet(c.recent) = {}
  BY <1>2, <1>4 DEF Dated, Once, ToSet
<1>11. OrderLen(c.order) = 0
  <2>1. "assistant" \in CacheTypes /\ "user" \in CacheTypes /\ "system" \in CacheTypes
    BY DEF CacheTypes
  <2>2. QED
    BY <2>1, <1>2 DEF OrderLen
<1>12. Ready(c, t)
  BY <1>2, <1>4, <1>9, <1>10, <1>11, LimitsAssumption, PrefixAssumption DEF Ready
<1>13. QED
  BY <1>1, <1>2, <1>4, <1>10, <1>12

(* What Publish makes of the cache. *)
Published(d) == [d EXCEPT !.moved = FALSE, !.recent = Only(@, Stored(d.trie))]

(* It is ready, and has the access times of its entries and no other.      *)
LEMMA PublishedIs ==
    ASSUME NEW t, NEW d, Ready(d, t), NEW p, p = Published(d)
    PROVE  /\ Ready(p, t) /\ ToSet(p.recent) = Stored(p.trie) /\ ~p.moved /\ p.owner = d.owner
           /\ Loaded(p) = Loaded(d)
<1>1. Whole(d) /\ Dated(d) /\ Formed(d)
  BY DEF Ready, Whole, Shelf
<1>2. PICK r : r = Only(d.recent, Stored(d.trie))
  OBVIOUS
<1>3. p = [d EXCEPT !.moved = FALSE, !.recent = r]
  BY <1>2 DEF Published
<1>4. Formed(p) /\ SameShelf(d, p) /\ SameTier(d, p) /\ p.recent = r /\ p.moved = FALSE
  BY <1>1, <1>3 DEF Formed, SameShelf, SameTier
<1>5. Whole(p)
  BY <1>1, <1>4 DEF Whole, Shelf, SameShelf, SameTier
<1>6. r \in Seq(Paths) /\ Once(r) /\ ToSet(r) = Stored(d.trie)
  BY <1>1, <1>2, OldestAre
<1>7. Dated(p) /\ ToSet(p.recent) = Stored(p.trie)
  BY <1>4, <1>6 DEF Dated, SameShelf
<1>8. Loaded(p) = Loaded(d)
  BY <1>4 DEF SameShelf, Loaded, Resident, Entry
<1>9. Ready(p, t)
  BY <1>4, <1>5, <1>7 DEF Ready, SameShelf, SameTier, Entry
<1>10. QED
  BY <1>4, <1>7, <1>8, <1>9 DEF SameTier

(* Whoever follows a cache that is ready has no more entries than it.      *)
LEMMA FollowsShortens ==
    ASSUME NEW c, Shelf(c), NEW d, Shelf(d), Stored(d.trie) \subseteq Stored(c.trie)
    PROVE  OrderLen(d.order) <= OrderLen(c.order)
<1>1. PICK S, T : S = Stored(c.trie) /\ T = Stored(d.trie)
  OBVIOUS
<1>2. /\ IsFiniteSet(S) /\ T \subseteq S /\ OrderLen(c.order) = Cardinality(S)
      /\ OrderLen(d.order) = Cardinality(T)
  BY <1>1, ShelfCounts
<1>3. Cardinality(T) <= Cardinality(S)
  BY <1>2, FS_Subset
<1>4. QED
  BY <1>2, <1>3

(* An operation that only goes on from c leaves it ready.                  *)
LEMMA OutcomeFollows ==
    ASSUME NEW t, NEW c, Ready(c, t), NEW d, Whole(d), Dated(d), Follows(c, d), d.disk <= MaxDisk,
           t \/ (d.trie = c.trie /\ d.bytes = c.bytes)
    PROVE  Outcome(c, d, t)
<1>1. Shelf(c) /\ Shelf(d) /\ Stored(d.trie) \subseteq Stored(c.trie)
  BY DEF Ready, Whole, Follows
<1>2. OrderLen(d.order) <= OrderLen(c.order) /\ OrderLen(c.order) <= MaxSize
  BY <1>1, FollowsShortens DEF Ready
<1>3. OrderLen(c.order) \in Nat /\ OrderLen(d.order) \in Nat /\ MaxSize \in Nat
  BY <1>1, ShelfCounts, LimitsAssumption
<1>4. OrderLen(d.order) <= MaxSize
  BY <1>2, <1>3
<1>5. t \/ (d.bytes <= MaxBytes /\ \A p \in Stored(d.trie) : Entry(d, p).resident)
  BY DEF Ready, Entry
<1>6. QED
  BY <1>4, <1>5 DEF Outcome, Ready, Follows

(***************************************************************************)
(* Branches                                                                *)
(***************************************************************************)

(* The owner o with n pins. *)
Repinned(o, n) == [valid |-> o.valid, pins |-> n, held |-> o.valid \/ n > 0]

(* A branch more or less changes the pins of a source that is held.        *)
LEMMA PinKeepsOwned ==
    ASSUME NEW all, Apart(all), NEW O, Owned(O, all), NEW i \in Ids, O[i].held, NEW n \in Nat,
           NEW R, R = [O EXCEPT ![i] = Repinned(O[i], n)]
    PROVE  Owned(R, all)
<1>1. O \in [Ids -> OwnerType]
  BY DEF Owned
<1>2. R[i] = Repinned(O[i], n) /\ \A j \in Ids : j # i => R[j] = O[j]
  BY <1>1
<1>3. Repinned(O[i], n) \in OwnerType
  BY <1>1 DEF Repinned, OwnerType
<1>4. R \in [Ids -> OwnerType]
  BY <1>1, <1>3
<1>5. \A j \in Ids : R[j].valid = O[j].valid
  BY <1>2 DEF Repinned
<1>6. \A j \in Ids : R[j].held <=> R[j].valid \/ R[j].pins > 0
  <2> TAKE j \in Ids
  <2>1. CASE j = i
    <3>1. R[j].held = (O[i].valid \/ n > 0) /\ R[j].valid = O[i].valid /\ R[j].pins = n
      BY <2>1, <1>2 DEF Repinned
    <3>2. QED
      BY <3>1
  <2>2. CASE j # i
    BY <2>2, <1>2 DEF Owned
  <2>3. QED
    BY <2>1, <2>2
<1>7. \A e \in all : ~Live(e) => e.id # i /\ e.id \in Ids
  <2> TAKE e \in all
  <2> HAVE ~Live(e)
  <2>1. e.id \in Ids
    BY DEF Apart, EntryType
  <2>2. ASSUME e.id = i PROVE FALSE
    <3>1. O[i].pins = 0
      BY <2>2 DEF Owned
    <3>2. O[i].valid
      <4>1. O[i].held <=> O[i].valid \/ O[i].pins > 0
        BY DEF Owned
      <4>2. QED
        BY <4>1, <3>1
    <3>3. PICK x \in all : x.id = i /\ Live(x)
      BY <3>2 DEF Owned
    <3>4. QED
      BY <2>2, <3>3 DEF Apart
  <2>3. QED
    BY <2>1, <2>2
<1>8. \A e \in all : ~Live(e) => R[e.id].pins = 0
  BY <1>2, <1>7 DEF Owned
<1>9. \A j \in Ids : R[j].valid <=> \E e \in all : e.id = j /\ Live(e)
  BY <1>5 DEF Owned
<1>10. QED
  BY <1>4, <1>6, <1>8, <1>9 DEF Owned

(* Only the pins of i change from c to d, to n. *)
RepinnedAt(c, d, i, n) ==
    /\ Formed(d) /\ SameShelf(c, d) /\ d.recent = c.recent /\ d.moved = c.moved
    /\ d.files = c.files /\ d.disk = c.disk
    /\ d.owner = [c.owner EXCEPT ![i] = Repinned(c.owner[i], n)]

(* Pinning a source that is held                                           *)
LEMMA PinFields ==
    ASSUME NEW c, Formed(c), c.owner \in [Ids -> OwnerType], NEW i \in Ids, c.owner[i].held,
           NEW d, d = [c EXCEPT !.owner[i].pins = @ + 1]
    PROVE  RepinnedAt(c, d, i, c.owner[i].pins + 1)
<1>1. PICK o, n : o = c.owner[i] /\ n = o.pins + 1
  OBVIOUS
<1>2. o \in OwnerType /\ o.held
  BY <1>1
<1>3. o.held = TRUE /\ o.pins \in Nat /\ o.valid \in BOOLEAN /\ n > 0
  BY <1>1, <1>2 DEF OwnerType
<1>4. PICK r : r = [o EXCEPT !.pins = n]
  OBVIOUS
<1>5. r = Repinned(o, n)
  <2>1. r = [valid |-> o.valid, pins |-> n, held |-> o.held]
    BY <1>2, <1>4 DEF OwnerType
  <2>2. (o.valid \/ n > 0) = o.held
    BY <1>3
  <2>3. QED
    BY <2>1, <2>2 DEF Repinned
<1>6. PICK R : R = [c.owner EXCEPT ![i] = r]
  OBVIOUS
<1>7. d = [c EXCEPT !.owner = R]
  BY <1>1, <1>4, <1>6 DEF Formed
<1>8. /\ Formed(d) /\ SameShelf(c, d) /\ d.recent = c.recent /\ d.moved = c.moved
      /\ d.files = c.files /\ d.disk = c.disk /\ d.owner = R
  BY <1>7 DEF Formed, SameShelf
<1>9. QED
  BY <1>1, <1>5, <1>6, <1>8 DEF RepinnedAt

(* and giving the pin back.                                                *)
LEMMA ReleaseFields ==
    ASSUME NEW c, Formed(c), c.owner \in [Ids -> OwnerType], NEW i \in Ids, c.owner[i].held,
           c.owner[i].pins > 0, NEW d, d = ReleasePin(c, i)
    PROVE  RepinnedAt(c, d, i, c.owner[i].pins - 1)
<1>1. PICK o, n : o = c.owner[i] /\ n = o.pins - 1
  OBVIOUS
<1>2. o \in OwnerType /\ o.held /\ o.pins > 0
  BY <1>1
<1>3. o.held = TRUE /\ o.pins \in Nat /\ o.valid \in BOOLEAN /\ n \in Nat
  BY <1>1, <1>2 DEF OwnerType
<1>4. PICK r : r = [o EXCEPT !.pins = n, !.held = o.held /\ (o.valid \/ n > 0)]
  OBVIOUS
<1>5. r = Repinned(o, n)
  <2>1. r = [valid |-> o.valid, pins |-> n, held |-> o.held /\ (o.valid \/ n > 0)]
    BY <1>2, <1>4 DEF OwnerType
  <2>2. (o.held /\ (o.valid \/ n > 0)) = (o.valid \/ n > 0)
    BY <1>3
  <2>3. QED
    BY <2>1, <2>2 DEF Repinned
<1>6. PICK R : R = [c.owner EXCEPT ![i] = r]
  OBVIOUS
<1>7. Formed(d)
  BY DEF Formed, ReleasePin
<1>8. SameShelf(c, d) /\ d.recent = c.recent /\ d.moved = c.moved /\ d.files = c.files /\ d.disk = c.disk
  BY DEF Formed, ReleasePin, SameShelf
<1>10. d.owner = [c.owner EXCEPT ![i] = [o EXCEPT !.pins = n, !.held = o.held /\ (o.valid \/ n > 0)]]
  BY <1>1, <1>2 DEF Formed, ReleasePin, OwnerType
<1>11. d.owner = R
  BY <1>4, <1>6, <1>10
<1>9. QED
  BY <1>1, <1>5, <1>6, <1>7, <1>8, <1>11 DEF RepinnedAt

(* The cache stays as it should be.                                        *)
LEMMA RepinnedIsReady ==
    ASSUME NEW t, NEW c, Ready(c, t), NEW i \in Ids, c.owner[i].held, NEW n \in Nat,
           NEW d, RepinnedAt(c, d, i, n)
    PROVE  /\ Ready(d, t) /\ Loaded(d) = Loaded(c) /\ d.trie = c.trie /\ d.recent = c.recent
           /\ d.moved = c.moved
<1>1. PICK all : all = All(c.trie.entry)
  OBVIOUS
<1>2. /\ Formed(d) /\ SameShelf(c, d) /\ d.recent = c.recent /\ d.moved = c.moved
      /\ d.files = c.files /\ d.disk = c.disk
      /\ d.owner = [c.owner EXCEPT ![i] = Repinned(c.owner[i], n)]
  BY DEF RepinnedAt
<1>3. Shelf(c) /\ Dated(c) /\ Apart(all) /\ Stocked(c.files, c.disk, all) /\ Owned(c.owner, all)
  BY <1>1 DEF Ready, Whole, Backed
<1>4. Owned(d.owner, all)
  BY <1>2, <1>3, PinKeepsOwned
<1>5. Whole(d)
  BY <1>1, <1>2, <1>3, <1>4 DEF Whole, Shelf, Backed, SameShelf
<1>6. d.trie = c.trie /\ Loaded(d) = Loaded(c)
  BY <1>2 DEF SameShelf, Loaded, Resident, Entry
<1>7. Ready(d, t)
  BY <1>2, <1>3, <1>5 DEF Ready, Dated, SameShelf, Entry
<1>8. QED
  BY <1>2, <1>6, <1>7

(* The users of a source. *)
Users(br, i) == {b \in Branches : br[b] = i}

(* The pins count a branch more                                            *)
LEMMA JoinKeepsPinning ==
    ASSUME NEW O, O \in [Ids -> OwnerType], NEW br \in [Branches -> Ids \cup {NoId}], Pinning(O, br),
           NEW i \in Ids, NEW b \in Branches, br[b] = NoId,
           NEW R, R = [O EXCEPT ![i] = Repinned(O[i], O[i].pins + 1)],
           NEW br2, br2 = [br EXCEPT ![b] = i]
    PROVE  Pinning(R, br2) /\ br2 \in [Branches -> Ids \cup {NoId}]
<1>1. \A j \in Ids : j # NoId
  BY InputsAre
<1>2. \A j \in Ids : O[j].pins = Cardinality(Users(br, j)) /\ IsFiniteSet(Users(br, j))
  BY PrefixAssumption, FS_Subset DEF Pinning, Users
<1>3. \A j \in Ids : R[j].pins = Cardinality(Users(br2, j))
  <2> TAKE j \in Ids
  <2>1. CASE j = i
    <3>1. Users(br2, j) = Users(br, i) \cup {b} /\ b \notin Users(br, i)
      BY <2>1, <1>1 DEF Users
    <3>2. Cardinality(Users(br2, j)) = Cardinality(Users(br, i)) + 1
      BY <3>1, <1>2, FS_AddElement
    <3>3. R[j].pins = O[i].pins + 1
      BY <2>1 DEF Repinned
    <3>4. QED
      BY <3>2, <3>3, <1>2
  <2>2. CASE j # i
    <3>1. Users(br2, j) = Users(br, j)
      BY <2>2, <1>1 DEF Users
    <3>2. R[j].pins = O[j].pins
      BY <2>2
    <3>3. QED
      BY <3>1, <3>2, <1>2
  <2>3. QED
    BY <2>1, <2>2
<1>4. QED
  BY <1>3 DEF Pinning, Users

(* or less.                                                                *)
LEMMA LeaveKeepsPinning ==
    ASSUME NEW O, O \in [Ids -> OwnerType], NEW br \in [Branches -> Ids \cup {NoId}], Pinning(O, br),
           NEW i \in Ids, NEW b \in Branches, br[b] = i,
           NEW R, R = [O EXCEPT ![i] = Repinned(O[i], O[i].pins - 1)],
           NEW br2, br2 = [br EXCEPT ![b] = NoId]
    PROVE  Pinning(R, br2) /\ br2 \in [Branches -> Ids \cup {NoId}] /\ O[i].pins > 0
<1>1. \A j \in Ids : j # NoId
  BY InputsAre
<1>2. \A j \in Ids : O[j].pins = Cardinality(Users(br, j)) /\ IsFiniteSet(Users(br, j))
  BY PrefixAssumption, FS_Subset DEF Pinning, Users
<1>3. b \in Users(br, i)
  BY DEF Users
<1>4. PICK U, V : U = Users(br, i) /\ V = U \ {b}
  OBVIOUS
<1>5. IsFiniteSet(U) /\ IsFiniteSet(V) /\ Cardinality(V) = Cardinality(U) - 1 /\ Cardinality(V) \in Nat
      /\ Cardinality(U) \in Nat
  BY <1>2, <1>3, <1>4, FS_RemoveElement, FS_CardinalityType
<1>6. O[i].pins > 0
  BY <1>2, <1>4, <1>5
<1>7. \A j \in Ids : R[j].pins = Cardinality(Users(br2, j))
  <2> TAKE j \in Ids
  <2>1. CASE j = i
    <3>1. Users(br2, j) = V
      BY <2>1, <1>1, <1>4 DEF Users
    <3>2. R[j].pins = O[i].pins - 1
      BY <2>1 DEF Repinned
    <3>3. QED
      BY <3>1, <3>2, <1>2, <1>4, <1>5
  <2>2. CASE j # i
    <3>1. Users(br2, j) = Users(br, j)
      BY <2>2, <1>1 DEF Users
    <3>2. R[j].pins = O[j].pins
      BY <2>2
    <3>3. QED
      BY <3>1, <3>2, <1>2
  <2>3. QED
    BY <2>1, <2>2
<1>8. QED
  BY <1>6, <1>7 DEF Pinning, Users

(***************************************************************************)
(* The operations, one by one                                              *)
(***************************************************************************)

(* The entries are those of the trie.                                      *)
LEMMA EntriesAre == \A c : Entries(c) = All(c.trie.entry)
  BY DEF Entries, Entry, Stored, All

(* A lookup, before it takes a branch: the cache may follow, and what was  *)
(* found is there.                                                         *)
LEMMA LookupOutcome ==
    ASSUME cow \in BOOLEAN, NEW c, Ready(c, tier), NEW q, NEW favour, NEW bad,
           NEW h, h = Hydrate(c, q, favour, bad)
    PROVE  Outcome(c, h.c, tier) /\ Found(h)
<1>1. Whole(c) /\ Dated(c) /\ c.disk <= MaxDisk
      /\ (tier \/ \A p \in Stored(c.trie) : Entry(c, p).resident)
  BY DEF Ready
<1>2. Follows(c, c)
  BY KeptSame DEF Kept
<1>3. Searched(c, c)
  BY <1>1, <1>2 DEF Searched
<1>4. Searched(c, h.c) /\ Found(h)
  BY <1>3, HydrateKeeps
<1>5. Whole(h.c) /\ Dated(h.c) /\ Follows(c, h.c) /\ h.c.disk <= MaxDisk
      /\ (tier \/ (h.c.trie = c.trie /\ h.c.bytes = c.bytes))
  BY <1>4 DEF Searched
<1>6. Outcome(c, h.c, tier)
  BY <1>5, OutcomeFollows
<1>7. QED
  BY <1>4, <1>6

(* The answer is the state of the first tokens of the prompt, and comes    *)
(* from an entry of which a branch can be taken.                           *)
LEMMA LookupAnswers ==
    ASSUME NEW c, Ready(c, tier), NEW h, h.c = c, Found(h), h.state = "ready",
           NEW q \in Paths, NEW favour, NEW r, r = Answer(c, q, h.found, favour), r.path # NoPath,
           NEW e, e = Entry(c, r.path)
    PROVE  /\ e.resident => Matches(q, r, e)
           /\ e.id \in Ids /\ (e.resident /\ e.frozen => c.owner[e.id].held)
<1>1. Whole(c) /\ Shelf(c)
  BY DEF Ready, Whole
<1>2. ToSet(Candidates(h.found)) \subseteq Stored(c.trie)
  BY DEF Found
<1>3. r.path \in Stored(c.trie) /\ (e.resident => Matches(q, r, e))
  BY <1>1, <1>2, AnswerMatches
<1>4. e.id \in Ids /\ e \in All(c.trie.entry)
  BY <1>1, <1>3, WholeEntry
<1>5. Owned(c.owner, All(c.trie.entry))
  BY <1>1 DEF Whole, Backed
<1>6. e.resident /\ e.frozen => c.owner[e.id].held
  <2>1. HAVE e.resident /\ e.frozen
  <2>2. Live(e)
    BY <2>1 DEF Live
  <2>3. c.owner[e.id].valid <=> \E x \in All(c.trie.entry) : x.id = e.id /\ Live(x)
    BY <1>4, <1>5 DEF Owned
  <2>4. c.owner[e.id].held <=> c.owner[e.id].valid \/ c.owner[e.id].pins > 0
    BY <1>4, <1>5 DEF Owned
  <2>5. QED
    BY <2>2, <2>3, <2>4, <1>4
<1>7. QED
  BY <1>3, <1>4, <1>6

(* Idle entries are spilled, and the tier is brought within its limit.     *)
LEMMA SpillIdleOutcome ==
    ASSUME tier, NEW c, Ready(c, tier), NEW n \in 1..Len(c.recent), NEW bad,
           NEW idle, idle = Only(SubSeq(c.recent, 1, n), {p \in Stored(c.trie) : MaySpill(c, p, bad)}),
           NEW d, d = EnforceDisk(FoldLeft(Spill, c, idle))
    PROVE  Outcome(c, d, tier)
<1>1. Whole(c) /\ Dated(c)
  BY DEF Ready
<1>2. PICK s : s = SubSeq(c.recent, 1, n)
  OBVIOUS
<1>3. s \in Seq(Paths) /\ Once(s)
  <2>1. c.recent \in Seq(Paths) /\ Once(c.recent)
    BY <1>1 DEF Dated
  <2>2. n \in 0..Len(c.recent) /\ Len(c.recent) \in Nat
    BY <2>1
  <2>3. s \in Seq(Paths) /\ Len(s) = n
    BY <1>2, <2>1, <2>2, FirstTokens
  <2>4. \A i \in DOMAIN s : i \in DOMAIN c.recent /\ s[i] = c.recent[i]
    BY <1>2, <2>1, <2>2, <2>3
  <2>5. QED
    BY <2>1, <2>3, <2>4 DEF Once
<1>4. PICK S : S = {p \in Stored(c.trie) : MaySpill(c, p, bad)}
  OBVIOUS
<1>5. idle \in Seq(Paths) /\ Once(idle) /\ ToSet(idle) = ToSet(s) \cap S
  BY <1>2, <1>3, <1>4, OnlyEffect
<1>6. \A j \in DOMAIN idle : idle[j] \in S
  BY <1>5 DEF ToSet
<1>7. \A p \in S : p \in Stored(c.trie) /\ Entry(c, p).resident /\ ~Pinned(c, Entry(c, p))
  BY <1>4 DEF MaySpill
<1>8. PICK w : w = FoldLeft(Spill, c, idle)
  OBVIOUS
<1>9. Whole(w) /\ Kept(c, w)
  <2>1. \A j \in DOMAIN idle : /\ idle[j] \in Stored(c.trie) /\ Entry(c, idle[j]).resident
                               /\ ~Pinned(c, Entry(c, idle[j]))
    BY <1>6, <1>7
  <2>2. QED
    BY <2>1, <1>1, <1>5, <1>8, SpillIdleKeeps
<1>10. Dated(w)
  BY <1>1, <1>9, KeptIsDated
<1>11. Whole(d) /\ Kept(w, d) /\ d.disk <= MaxDisk
  BY <1>8, <1>9, <1>10, EnforceDiskKeeps
<1>12. Kept(c, d)
  BY <1>9, <1>11, KeptOn
<1>13. Dated(d) /\ Follows(c, d)
  BY <1>1, <1>12, KeptIsDated DEF Kept
<1>14. QED
  BY <1>11, <1>13, OutcomeFollows

(* What every operation does that takes entries out: what stayed of all is *)
(* on the shelf b, and the rest is retired.                                *)
LetGo(b, all) == Advance(RetireAll(b, all \ All(b.trie.entry)))

(* Files and owners are then those of the entries that stayed.             *)
LEMMA LetGoKeeps ==
    ASSUME NEW b, Shelf(b), NEW all, Backed(b.files, b.disk, b.owner, all), All(b.trie.entry) \subseteq all,
           b.disk <= MaxDisk, NEW d, d = LetGo(b, all)
    PROVE  /\ Whole(d) /\ SameShelf(b, d) /\ d.recent = b.recent /\ d.moved
           /\ \A i \in Ids : d.owner[i].pins = b.owner[i].pins
           /\ d.disk <= MaxDisk
<1>1. PICK stay, dead : stay = All(b.trie.entry) /\ dead = all \ stay
  OBVIOUS
<1>2. PICK r : r = RetireAll(b, dead)
  OBVIOUS
<1>3. Formed(b) /\ dead \subseteq all /\ all \ dead = stay
  BY <1>1 DEF Shelf
<1>4. PICK left : left = all \ dead
  OBVIOUS
<1>5. left = stay
  BY <1>3, <1>4
<1>6. Retired(b, r, left)
  BY <1>2, <1>3, <1>4, RetireAllKeeps
<1>7. Retired(b, r, stay)
  BY <1>5, <1>6
<1>8. Formed(r) /\ d = Advance(r)
  BY <1>1, <1>2, <1>7 DEF Retired, LetGo
<1>9. Formed(d) /\ SameShelf(r, d) /\ SameTier(r, d) /\ d.recent = r.recent /\ d.moved
  BY <1>8, AdvanceFields
<1>10. SameShelf(b, d) /\ d.recent = b.recent
  BY <1>7, <1>9 DEF Retired, SameShelf
<1>11. Backed(d.files, d.disk, d.owner, stay)
  BY <1>7, <1>9 DEF Retired, SameTier
<1>12. Whole(d)
  BY <1>1, <1>9, <1>10, <1>11 DEF Whole, Shelf, SameShelf
<1>13. \A i \in Ids : d.owner[i].pins = b.owner[i].pins
  BY <1>7, <1>9 DEF Retired, SameTier
<1>14. d.disk <= MaxDisk
  <2>1. d.disk = r.disk /\ r.disk <= b.disk
    BY <1>7, <1>9 DEF Retired, SameTier
  <2>2. b.disk \in Nat /\ d.disk \in Nat /\ MaxDisk \in Nat
    BY <1>11, StockIsNat, PrefixAssumption DEF Backed
  <2>3. QED
    BY <2>1, <2>2
<1>15. QED
  BY <1>9, <1>10, <1>12, <1>13, <1>14

(* Trimming takes entries out.                                             *)
LEMMA TrimOutcome ==
    ASSUME NEW t, NEW c, Ready(c, t), NEW n \in Nat, NEW m \in Nat, NEW cut, cut = TrimTo(c, n, m),
           NEW d, d = LetGo(cut, All(c.trie.entry))
    PROVE  Outcome(c, d, t)
<1>1. Whole(c) /\ Shelf(c) /\ Dated(c) /\ c.disk <= MaxDisk
  BY DEF Ready, Whole
<1>2. PICK s : s = EvictToSize(c, n)
  OBVIOUS
<1>3. Shelf(s) /\ Cut(c, s)
  BY <1>1, <1>2, EvictToSizeCuts
<1>4. cut = EvictToBytes(s, m)
  BY <1>2 DEF TrimTo
<1>5. Shelf(cut) /\ Cut(s, cut)
  BY <1>3, <1>4, EvictToBytesCuts
<1>6. Cut(c, cut)
  BY <1>1, <1>3, <1>5, CutOn
<1>7. /\ cut.recent = c.recent /\ SameTier(c, cut) /\ Stored(cut.trie) \subseteq Stored(c.trie)
      /\ \A p \in Stored(cut.trie) : Entry(cut, p) = Entry(c, p)
      /\ cut.bytes <= c.bytes
  BY <1>6 DEF Cut
<1>8. PICK all : all = All(c.trie.entry)
  OBVIOUS
<1>9. All(cut.trie.entry) \subseteq all
  BY <1>7, <1>8 DEF All, Stored, Entry
<1>10. Backed(cut.files, cut.disk, cut.owner, all) /\ cut.disk <= MaxDisk
  BY <1>1, <1>7, <1>8 DEF Whole, SameTier
<1>11. /\ Whole(d) /\ SameShelf(cut, d) /\ d.recent = cut.recent /\ d.moved
       /\ \A i \in Ids : d.owner[i].pins = cut.owner[i].pins
       /\ d.disk <= MaxDisk
  BY <1>5, <1>8, <1>9, <1>10, LetGoKeeps
<1>12. d.trie = cut.trie /\ d.bytes = cut.bytes /\ d.order = cut.order
  BY <1>11 DEF SameShelf
<1>13. Dated(d)
  BY <1>1, <1>7, <1>11, <1>12 DEF Dated
<1>14. OrderLen(d.order) <= MaxSize
  <2>1. OrderLen(d.order) <= OrderLen(c.order) /\ OrderLen(c.order) <= MaxSize
    BY <1>1, <1>5, <1>6, <1>12, CutShortens DEF Ready
  <2>2. OrderLen(c.order) \in Nat /\ OrderLen(d.order) \in Nat /\ MaxSize \in Nat
    BY <1>1, <1>5, <1>12, ShelfCounts, LimitsAssumption
  <2>3. QED
    BY <2>1, <2>2
<1>15. t \/ (d.bytes <= MaxBytes /\ \A p \in Stored(d.trie) : Entry(d, p).resident)
  <2>1. t \/ (c.bytes <= MaxBytes /\ \A p \in Stored(c.trie) : Entry(c, p).resident)
    BY DEF Ready
  <2>2. c.bytes \in Nat /\ cut.bytes \in Nat /\ MaxBytes \in Nat
    BY <1>1, <1>5, ShelfCounts, LimitsAssumption
  <2>3. \A p \in Stored(d.trie) : p \in Stored(c.trie) /\ Entry(d, p) = Entry(c, p)
    BY <1>7, <1>12 DEF Entry
  <2>4. c.bytes <= MaxBytes => d.bytes <= MaxBytes
    BY <2>2, <1>7, <1>12
  <2>5. QED
    BY <2>1, <2>3, <2>4
<1>16. \A i \in Ids : d.owner[i].pins = c.owner[i].pins
  BY <1>7, <1>11 DEF SameTier
<1>17. QED
  BY <1>11, <1>13, <1>14, <1>15, <1>16 DEF Outcome, Ready

(* A cleared cache has no entries.                                         *)
LEMMA ClearOutcome ==
    ASSUME NEW t, NEW c, Ready(c, t),
           NEW fresh, fresh = [c EXCEPT !.trie = EmptyTrie, !.order = EmptyCache.order,
                                        !.bytes = 0, !.bytesOf = EmptyCache.bytesOf],
           NEW d, d = LetGo(fresh, All(c.trie.entry))
    PROVE  Outcome(c, d, t)
<1>1. Whole(c) /\ Shelf(c) /\ Dated(c) /\ c.disk <= MaxDisk /\ Formed(c)
  BY DEF Ready, Whole, Shelf
<1>2. PICK none : none = EmptyCache
  OBVIOUS
<1>3. none.trie = EmptyTrie /\ none.order = EmptyCache.order /\ none.bytes = 0 /\ none.bytesOf = EmptyCache.bytesOf
      /\ none.recent = <<>>
  BY <1>2 DEF EmptyCache
<1>4. /\ Formed(fresh) /\ SameShelf(none, fresh) /\ SameTier(c, fresh) /\ fresh.recent = c.recent
  BY <1>1, <1>3 DEF Formed, SameShelf, SameTier
<1>5. Ready(none, TRUE) /\ ToSet(none.recent) = Stored(none.trie)
  BY <1>2, EmptyIsReady
<1>6. Shelf(none) /\ OrderLen(none.order) <= MaxSize
  BY <1>5 DEF Ready, Whole
<1>7. Shelf(fresh)
  BY <1>4, <1>6 DEF Shelf, SameShelf
<1>8. Stored(none.trie) = {}
  BY <1>3 DEF EmptyTrie, Stored
<1>9. Stored(fresh.trie) = {} /\ All(fresh.trie.entry) = {}
  BY <1>4, <1>8 DEF SameShelf, All, Stored
<1>10. PICK all : all = All(c.trie.entry)
  OBVIOUS
<1>11. Backed(fresh.files, fresh.disk, fresh.owner, all) /\ fresh.disk <= MaxDisk
  BY <1>1, <1>4, <1>10 DEF Whole, SameTier
<1>12. All(fresh.trie.entry) \subseteq all
  BY <1>9
<1>13. /\ Whole(d) /\ SameShelf(fresh, d) /\ d.recent = fresh.recent /\ d.moved
       /\ \A i \in Ids : d.owner[i].pins = fresh.owner[i].pins
       /\ d.disk <= MaxDisk
  <2>1. PICK b : b = fresh
    OBVIOUS
  <2>2. d = LetGo(b, all)
    BY <2>1, <1>10
  <2>3. Shelf(b) /\ Backed(b.files, b.disk, b.owner, all) /\ All(b.trie.entry) \subseteq all /\ b.disk <= MaxDisk
    BY <2>1, <1>7, <1>11, <1>12
  <2>4. /\ Whole(d) /\ SameShelf(b, d) /\ d.recent = b.recent /\ d.moved
        /\ \A i \in Ids : d.owner[i].pins = b.owner[i].pins
        /\ d.disk <= MaxDisk
    BY <2>2, <2>3, LetGoKeeps
  <2>5. QED
    BY <2>1, <2>4
<1>14. d.trie = fresh.trie /\ d.bytes = 0 /\ d.order = none.order
  BY <1>3, <1>4, <1>13 DEF SameShelf
<1>15. Dated(d)
  BY <1>1, <1>4, <1>9, <1>13, <1>14 DEF Dated
<1>16. \A i \in Ids : d.owner[i].pins = c.owner[i].pins
  BY <1>4, <1>13 DEF SameTier
<1>17. OrderLen(d.order) <= MaxSize /\ d.bytes <= MaxBytes /\ \A p \in Stored(d.trie) : Entry(d, p).resident
  BY <1>6, <1>9, <1>14, LimitsAssumption
<1>18. QED
  BY <1>13, <1>15, <1>16, <1>17 DEF Outcome, Ready

(* A new entry belongs where it is stored.                                 *)
LEMMA NewEntryFits ==
    ASSUME cow \in BOOLEAN, NEW s \in Stores, NEW i \in Ids, i[1] = s.path, NEW e, e = NewEntry(s, i)
    PROVE  /\ FitsAt(e, s.path) /\ e.id = i /\ ~e.filed /\ e.resident /\ e.size \in Nat
           /\ (Live(e) <=> e.frozen)
<1>1. s.path \in Paths /\ s.type \in CacheTypes /\ s.trim \in BOOLEAN /\ s.marks \in SUBSET Nat
      /\ s.sidecar \in BOOLEAN /\ s.size \in Nat /\ s.stable \in BOOLEAN
  BY InputsAre
<1>2. PICK w : w = (cow /\ s.stable)
  OBVIOUS
<1>3. w \in BOOLEAN
  BY <1>2
<1>4. e = [id |-> i, size |-> s.size, type |-> s.type, trim |-> s.trim, marks |-> s.marks,
           sidecar |-> s.sidecar, stable |-> s.stable, frozen |-> w, resident |-> TRUE, filed |-> FALSE]
  BY <1>2 DEF NewEntry
<1>5. e \in EntryType
  BY <1>1, <1>3, <1>4 DEF EntryType
<1>6. e.id = i /\ ~e.filed /\ e.resident /\ e.size = s.size
  BY <1>4
<1>7. QED
  BY <1>1, <1>5, <1>6 DEF FitsAt, Live

(* The cache c, with an owner for the entry e. *)
Owning(c, e) ==
    IF e.frozen THEN [c EXCEPT !.owner[e.id] = [valid |-> TRUE, pins |-> 0, held |-> TRUE]] ELSE c

(* Only the owner is new.                                                  *)
LEMMA OwningFields ==
    ASSUME NEW c, Formed(c), NEW e, NEW d, d = Owning(c, e)
    PROVE  /\ Formed(d) /\ SameShelf(c, d) /\ d.recent = c.recent /\ d.moved = c.moved
           /\ d.files = c.files /\ d.disk = c.disk
           /\ d.owner = IF e.frozen THEN [c.owner EXCEPT ![e.id] = [valid |-> TRUE, pins |-> 0, held |-> TRUE]]
                        ELSE c.owner
<1>1. PICK R : R = [c.owner EXCEPT ![e.id] = [valid |-> TRUE, pins |-> 0, held |-> TRUE]]
  OBVIOUS
<1>2. d = IF e.frozen THEN [c EXCEPT !.owner = R] ELSE c
  BY <1>1 DEF Owning
<1>3. QED
  BY <1>1, <1>2 DEF Formed, SameShelf

(* The files and owners of the old entries and the new one.                *)
LEMMA OwningKeepsBacked ==
    ASSUME NEW c, Whole(c), NEW all, all = All(c.trie.entry), NEW e \in EntryType, ~e.filed, Live(e) <=> e.frozen,
           \A x \in all : x.id # e.id, c.owner[e.id].pins = 0, NEW d, d = Owning(c, e)
    PROVE  /\ Backed(d.files, d.disk, d.owner, all \cup {e})
           /\ \A i \in Ids : d.owner[i].pins = c.owner[i].pins
<1>1. Formed(c) /\ Apart(all) /\ Stocked(c.files, c.disk, all) /\ Owned(c.owner, all)
  BY DEF Whole, Shelf, Backed
<1>2. d.files = c.files /\ d.disk = c.disk
      /\ d.owner = IF Live(e) THEN [c.owner EXCEPT ![e.id] = [valid |-> TRUE, pins |-> 0, held |-> TRUE]]
                   ELSE c.owner
  BY <1>1, OwningFields
<1>3. Owned(d.owner, all \cup {e})
  BY <1>1, <1>2, OwnMore
<1>4. \A i \in Ids : d.owner[i].pins = c.owner[i].pins
  BY <1>1, <1>2, <1>3, OwnMore
<1>5. d.files = (IF e.filed THEN c.files \cup {e.id} ELSE c.files)
      /\ d.disk = (IF e.filed THEN c.disk + e.size ELSE c.disk)
  BY <1>2
<1>6. Stocked(d.files, d.disk, all \cup {e})
  BY <1>1, <1>5, StockMore
<1>7. Apart(all \cup {e})
  BY <1>1, ApartMore
<1>8. QED
  BY <1>3, <1>4, <1>6, <1>7 DEF Backed

(* The cache after an insertion at p of the entry e, under a limit. *)
Inserted(c, p, e, limit) == LetGo(Insert(Owning(c, e), p, e, limit), All(c.trie.entry) \cup {e})

(* The insertion and what had to go for it.                                *)
LEMMA InsertedIs ==
    ASSUME NEW c, Whole(c), c.disk <= MaxDisk, OrderLen(c.order) <= MaxSize, NEW p \in Paths,
           NEW e, FitsAt(e, p), ~e.filed, Live(e) <=> e.frozen, \A x \in All(c.trie.entry) : x.id # e.id,
           c.owner[e.id].pins = 0, NEW limit \in Nat,
           NEW d, d = Inserted(c, p, e, limit)
    PROVE  /\ Whole(d) /\ OrderLen(d.order) <= MaxSize /\ d.disk <= MaxDisk /\ d.bytes <= limit
           /\ d.recent = c.recent /\ d.moved /\ Holding(c, d, p, e)
           /\ \A i \in Ids : d.owner[i].pins = c.owner[i].pins
<1>1. PICK all, more : all = All(c.trie.entry) /\ more = all \cup {e}
  OBVIOUS
<1>2. PICK o : o = Owning(c, e)
  OBVIOUS
<1>3. Formed(c) /\ Shelf(c) /\ e \in EntryType
  BY DEF Whole, Shelf, FitsAt
<1>4. /\ Formed(o) /\ SameShelf(c, o) /\ o.recent = c.recent /\ o.moved = c.moved
      /\ o.files = c.files /\ o.disk = c.disk
  BY <1>2, <1>3, OwningFields
<1>5. Backed(o.files, o.disk, o.owner, more) /\ \A i \in Ids : o.owner[i].pins = c.owner[i].pins
  BY <1>1, <1>2, <1>3, OwningKeepsBacked
<1>6. Shelf(o) /\ OrderLen(o.order) <= MaxSize
  BY <1>3, <1>4 DEF Shelf, SameShelf
<1>7. PICK b : b = Insert(o, p, e, limit)
  OBVIOUS
<1>8. /\ Shelf(b) /\ OrderLen(b.order) <= MaxSize /\ b.bytes <= limit
      /\ b.recent = o.recent /\ b.moved = o.moved /\ SameTier(o, b)
      /\ Holding(o, b, p, e)
  BY <1>6, <1>7, InsertKeepsShelf
<1>9. o.trie = c.trie /\ \A x \in Stored(c.trie) : Entry(o, x) = Entry(c, x)
  BY <1>4 DEF SameShelf, Entry
<1>10. Holding(c, b, p, e)
  BY <1>8, <1>9 DEF Holding
<1>11. All(b.trie.entry) \subseteq more
  BY <1>1, <1>10 DEF All, Stored, Entry, Holding
<1>12. Backed(b.files, b.disk, b.owner, more) /\ b.disk <= MaxDisk
  BY <1>4, <1>5, <1>8 DEF SameTier
<1>13. d = LetGo(b, more)
  BY <1>1, <1>2, <1>7 DEF Inserted
<1>14. /\ Whole(d) /\ SameShelf(b, d) /\ d.recent = b.recent /\ d.moved
       /\ \A i \in Ids : d.owner[i].pins = b.owner[i].pins
       /\ d.disk <= MaxDisk
  BY <1>8, <1>11, <1>12, <1>13, LetGoKeeps
<1>15. d.trie = b.trie /\ d.order = b.order /\ d.bytes = b.bytes /\ \A x \in Stored(d.trie) : Entry(d, x) = Entry(b, x)
  BY <1>14 DEF SameShelf, Entry
<1>16. \A i \in Ids : d.owner[i].pins = c.owner[i].pins
  BY <1>5, <1>8, <1>14 DEF SameTier
<1>17. Holding(c, d, p, e)
  BY <1>10, <1>15 DEF Holding
<1>18. QED
  BY <1>4, <1>8, <1>14, <1>15, <1>16, <1>17

(* Storing an entry: it is touched, and the others make room.              *)
LEMMA StoreOutcome ==
    ASSUME cow \in BOOLEAN, tier \in BOOLEAN, NEW c, Ready(c, tier), NEW s \in Stores,
           NEW i \in Ids, i[1] = s.path, \A x \in All(c.trie.entry) : x.id # i, c.owner[i].pins = 0,
           NEW e, e = NewEntry(s, i), NEW limit, limit = (IF tier THEN MaxBytes + c.bytes + e.size ELSE MaxBytes),
           NEW k, k = Inserted(c, s.path, e, limit), NEW bad,
           NEW d, d = (IF s.path \in Stored(k.trie)
                       THEN SpillToFit(Touch(k, s.path), MaxBytes, s.path, bad) ELSE k)
    PROVE  Outcome(c, d, tier)
<1>1. PICK p : p = s.path
  OBVIOUS
<1>2. p \in Paths /\ FitsAt(e, p) /\ e.id = i /\ ~e.filed /\ e.resident /\ e.size \in Nat /\ (Live(e) <=> e.frozen)
  BY <1>1, NewEntryFits, InputsAre
<1>3. Whole(c) /\ Shelf(c) /\ Dated(c) /\ c.disk <= MaxDisk /\ OrderLen(c.order) <= MaxSize
  BY DEF Ready, Whole
<1>4. limit \in Nat /\ MaxBytes \in Nat
  <2>1. c.bytes \in Nat /\ MaxBytes \in Nat
    BY <1>3, ShelfCounts, LimitsAssumption
  <2>2. QED
    BY <2>1, <1>2
<1>5. /\ Whole(k) /\ OrderLen(k.order) <= MaxSize /\ k.disk <= MaxDisk /\ k.bytes <= limit
      /\ k.recent = c.recent /\ k.moved /\ Holding(c, k, p, e)
      /\ \A j \in Ids : k.owner[j].pins = c.owner[j].pins
  BY <1>1, <1>2, <1>3, <1>4, InsertedIs
<1>6. tier \/ (k.bytes <= MaxBytes /\ \A x \in Stored(k.trie) : Entry(k, x).resident)
  <2>1. tier \/ \A x \in Stored(c.trie) : Entry(c, x).resident
    BY DEF Ready
  <2>2. tier \/ \A x \in Stored(k.trie) : Entry(k, x).resident
    BY <2>1, <1>2, <1>5 DEF Holding
  <2>3. tier \/ k.bytes <= MaxBytes
    BY <1>5
  <2>4. QED
    BY <2>2, <2>3
<1>7. c.recent \in Seq(Paths) /\ Once(c.recent) /\ Stored(c.trie) \subseteq ToSet(c.recent)
  BY <1>3 DEF Dated
<1>8. CASE p \in Stored(k.trie)
  <2>1. PICK u : u = Touch(k, p)
    OBVIOUS
  <2>2. Whole(u) /\ Follows(k, u) /\ u.trie = k.trie /\ u.disk = k.disk /\ u.bytes = k.bytes
    BY <2>1, <1>5, TouchKeepsWhole
  <2>3. Dated(u)
    <3>1. Formed(k) /\ k.recent \in Seq(Paths) /\ Once(k.recent) /\ Stored(k.trie) \subseteq ToSet(k.recent) \cup {p}
      BY <1>5, <1>7 DEF Whole, Shelf, Holding
    <3>2. QED
      BY <3>1, <2>1, <1>2, TouchDates
  <2>4. Ready(u, tier)
    <3>1. OrderLen(u.order) <= MaxSize
      <4>1. Formed(k)
        BY <1>5 DEF Whole, Shelf
      <4>2. SameShelf(k, u)
        BY <4>1, <2>1, TouchFields
      <4>3. QED
        BY <4>2, <1>5 DEF SameShelf
    <3>2. tier \/ (u.bytes <= MaxBytes /\ \A x \in Stored(u.trie) : Entry(u, x).resident)
      BY <2>2, <1>6 DEF Entry
    <3>3. QED
      BY <3>1, <3>2, <2>2, <2>3, <1>5 DEF Ready
  <2>5. d = SpillToFit(u, MaxBytes, p, bad)
    BY <2>1, <1>1, <1>8
  <2>6. Whole(d) /\ Kept(u, d) /\ d.disk <= MaxDisk /\ (tier \/ d = u)
    BY <2>2, <2>3, <2>5, <1>5, SpillToFitKeeps
  <2>7. Dated(d) /\ Follows(u, d)
    BY <2>3, <2>6, KeptIsDated DEF Kept
  <2>8. Outcome(u, d, tier)
    BY <2>4, <2>6, <2>7, OutcomeFollows
  <2>9. d.moved
    BY <2>2, <2>7, <1>5 DEF Follows
  <2>10. \A j \in Ids : d.owner[j].pins = c.owner[j].pins
    BY <2>2, <2>7, <1>5 DEF Follows
  <2>11. QED
    BY <2>8, <2>9, <2>10 DEF Outcome
<1>9. CASE p \notin Stored(k.trie)
  <2>1. d = k
    BY <1>1, <1>9
  <2>2. Dated(d)
    BY <2>1, <1>5, <1>7, <1>9 DEF Dated, Holding
  <2>3. QED
    BY <2>1, <2>2, <1>5, <1>6 DEF Outcome, Ready
<1>10. QED
  BY <1>8, <1>9

(***************************************************************************)
(* The invariant                                                           *)
(***************************************************************************)

(* A step loses no loaded entry without moving the generation. *)
Announced == Loaded(apc) \subseteq Loaded(apc') \/ generation' # generation

(* The invariant holds at the start.                                       *)
LEMMA InvInit == PrefixInit => PrefixInv
<1> HAVE PrefixInit
<1>1. Ready(apc, tier) /\ ToSet(apc.recent) = Stored(apc.trie) /\ ~apc.moved
  BY EmptyIsReady DEF PrefixInit
<1>2. branch \in [Branches -> Ids \cup {NoId}]
  BY DEF PrefixInit
<1>3. Pinning(apc.owner, branch)
  <2> SUFFICES ASSUME NEW i \in Ids
               PROVE  apc.owner[i].pins = Cardinality({b \in Branches : branch[b] = i})
    BY DEF Pinning
  <2>1. apc.owner[i].pins = 0
    BY DEF PrefixInit, EmptyCache, NoOwner
  <2>2. {b \in Branches : branch[b] = i} = {}
    BY InputsAre DEF PrefixInit
  <2>3. QED
    BY <2>1, <2>2, FS_EmptySet
<1>4. QED
  BY <1>1, <1>2, <1>3 DEF PrefixInit, PrefixInv

(* What is published is what the operation left, without what was only     *)
(* of interest to it.                                                      *)
LEMMA PublishedStep ==
    ASSUME PrefixInv, NEW d, Outcome(apc, d, tier), NEW b, Ready(b, tier), b.moved = d.moved,
           Loaded(b) = Loaded(d), Publish(b)
    PROVE  /\ cow' = cow /\ tier' = tier /\ generation' \in {0, 1}
           /\ Ready(apc', tier') /\ ToSet(apc'.recent) = Stored(apc'.trie) /\ ~apc'.moved
           /\ apc'.owner = b.owner /\ Announced
<1>1. apc' = Published(b) /\ generation' = (IF b.moved THEN 1 - generation ELSE generation)
      /\ cow' = cow /\ tier' = tier
  BY DEF Publish, Published
<1>2. /\ Ready(apc', tier) /\ ToSet(apc'.recent) = Stored(apc'.trie) /\ ~apc'.moved /\ apc'.owner = b.owner
      /\ Loaded(apc') = Loaded(b)
  BY <1>1, PublishedIs
<1>3. generation \in {0, 1}
  BY DEF PrefixInv
<1>4. generation' \in {0, 1} /\ (b.moved => generation' # generation)
  BY <1>1, <1>3
<1>5. Announced
  BY <1>2, <1>4 DEF Announced, Outcome
<1>6. QED
  BY <1>1, <1>2, <1>4, <1>5

(* Pins that are the same count the same branches.                         *)
LEMMA SamePinning ==
    ASSUME NEW O, NEW br, Pinning(O, br), NEW R, \A i \in Ids : R[i].pins = O[i].pins
    PROVE  Pinning(R, br)
  BY DEF Pinning

(* An operation that leaves the branches alone keeps the invariant.        *)
LEMMA QuietStep ==
    ASSUME PrefixInv, NEW d, Outcome(apc, d, tier), Publish(d), UNCHANGED branch
    PROVE  PrefixInv' /\ Announced
<1>1. Ready(d, tier)
  BY DEF Outcome
<1>2. /\ cow' = cow /\ tier' = tier /\ generation' \in {0, 1}
      /\ Ready(apc', tier') /\ ToSet(apc'.recent) = Stored(apc'.trie) /\ ~apc'.moved
      /\ apc'.owner = d.owner /\ Announced
  BY <1>1, PublishedStep
<1>3. Pinning(apc'.owner, branch')
  <2>1. \A i \in Ids : d.owner[i].pins = apc.owner[i].pins
    BY DEF Outcome
  <2>2. Pinning(d.owner, branch)
    BY <2>1, SamePinning DEF PrefixInv
  <2>3. QED
    BY <2>2, <1>2
<1>4. QED
  BY <1>2, <1>3 DEF PrefixInv

(* A lookup, whether it takes a branch or not.                             *)
LEMMA LookupStep == ASSUME PrefixInv, NEW q \in Queries, Lookup(q) PROVE PrefixInv' /\ Announced
<1>1. PICK favour, bad, h :
        /\ h = Hydrate(apc, q, favour, bad)
        /\ LET r == Answer(h.c, q, h.found, favour)
               e == Entry(h.c, r.path)
           IN  IF h.state = "ready" /\ r.path # NoPath /\ e.resident /\ e.frozen
               THEN \E b \in Branches : /\ branch[b] = NoId
                                        /\ Publish([h.c EXCEPT !.owner[e.id].pins = @ + 1])
                                        /\ branch' = [branch EXCEPT ![b] = e.id]
               ELSE Publish(h.c) /\ UNCHANGED branch
  BY DEF Lookup
<1>2. PICK c, r, e : c = h.c /\ r = Answer(c, q, h.found, favour) /\ e = Entry(c, r.path)
  OBVIOUS
<1>3. /\ cow \in BOOLEAN /\ Ready(apc, tier) /\ Pinning(apc.owner, branch)
      /\ branch \in [Branches -> Ids \cup {NoId}]
  BY DEF PrefixInv
<1>4. Outcome(apc, c, tier) /\ Found(h)
  BY <1>1, <1>2, <1>3, LookupOutcome
<1>5. Ready(c, tier) /\ Formed(c) /\ c.owner \in [Ids -> OwnerType]
  BY <1>4 DEF Outcome, Ready, Whole, Shelf, Backed, Owned
<1>6. CASE h.state = "ready" /\ r.path # NoPath /\ e.resident /\ e.frozen
  <2>1. PICK b \in Branches : /\ branch[b] = NoId
                              /\ Publish([c EXCEPT !.owner[e.id].pins = @ + 1])
                              /\ branch' = [branch EXCEPT ![b] = e.id]
    BY <1>1, <1>2, <1>6
  <2>2. e.id \in Ids /\ c.owner[e.id].held
    <3>1. q \in Paths
      BY InputsAre
    <3>2. QED
      BY <3>1, <1>2, <1>4, <1>5, <1>6, LookupAnswers
  <2>3. PICK i, d : i = e.id /\ d = [c EXCEPT !.owner[i].pins = @ + 1]
    OBVIOUS
  <2>4. i \in Ids /\ c.owner[i].held /\ Publish(d) /\ branch' = [branch EXCEPT ![b] = i]
    BY <2>1, <2>2, <2>3
  <2>5. PICK n : n = c.owner[i].pins + 1
    OBVIOUS
  <2>6. n \in Nat
    BY <1>5, <2>4, <2>5 DEF OwnerType
  <2>7. RepinnedAt(c, d, i, n)
    BY <1>5, <2>3, <2>4, <2>5, PinFields
  <2>8. Ready(d, tier) /\ Loaded(d) = Loaded(c) /\ d.moved = c.moved
    BY <1>5, <2>4, <2>6, <2>7, RepinnedIsReady
  <2>9. d.owner = [c.owner EXCEPT ![i] = Repinned(c.owner[i], c.owner[i].pins + 1)]
    BY <2>5, <2>7 DEF RepinnedAt
  <2>10. Pinning(c.owner, branch)
    BY <1>3, <1>4, SamePinning DEF Outcome
  <2>11. Pinning(d.owner, branch') /\ branch' \in [Branches -> Ids \cup {NoId}]
    <3>1. PICK O, R, br2 : O = c.owner /\ R = d.owner /\ br2 = branch'
      OBVIOUS
    <3>2. br2 = [branch EXCEPT ![b] = i] /\ branch[b] = NoId
      BY <2>1, <2>4, <3>1
    <3>3. R = [O EXCEPT ![i] = Repinned(O[i], O[i].pins + 1)]
      BY <2>9, <3>1
    <3>4. O \in [Ids -> OwnerType] /\ Pinning(O, branch)
      BY <1>5, <2>10, <3>1
    <3>5. Pinning(R, br2) /\ br2 \in [Branches -> Ids \cup {NoId}]
      BY <1>3, <2>4, <3>2, <3>3, <3>4, JoinKeepsPinning
    <3>6. QED
      BY <3>1, <3>5
  <2>13. \A j \in Ids : c.owner[j].pins = apc.owner[j].pins
    BY <1>4 DEF Outcome
  <2>14. /\ cow' = cow /\ tier' = tier /\ generation' \in {0, 1}
         /\ Ready(apc', tier') /\ ToSet(apc'.recent) = Stored(apc'.trie) /\ ~apc'.moved
         /\ apc'.owner = d.owner /\ Announced
    BY <1>4, <2>4, <2>8, PublishedStep
  <2>15. QED
    BY <2>11, <2>14 DEF PrefixInv
<1>7. CASE ~(h.state = "ready" /\ r.path # NoPath /\ e.resident /\ e.frozen)
  <2>1. Publish(c) /\ UNCHANGED branch
    BY <1>1, <1>2, <1>7
  <2>2. QED
    BY <2>1, <1>4, QuietStep
<1>8. QED
  BY <1>6, <1>7

(* A fresh name of a path.                                                 *)
LEMMA FreshId ==
    ASSUME PrefixInv, NEW s \in Stores, FreeIds(apc, s.path) # {},
           NEW i, i = <<s.path, Min(FreeIds(apc, s.path))>>
    PROVE  /\ i \in Ids /\ i[1] = s.path /\ \A x \in All(apc.trie.entry) : x.id # i
           /\ apc.owner[i].pins = 0
<1>1. PICK F, n : F = FreeIds(apc, s.path) /\ n = Min(F)
  OBVIOUS
<1>2. Copies \in Nat
  BY PrefixAssumption
<1>3. n \in F
  <2>1. PICK D : D = 1..Copies
    OBVIOUS
  <2>2. IsFiniteSet(1..Copies)
    BY <1>2, FS_Interval
  <2>3. IsFiniteSet(D) /\ F \subseteq D /\ D \subseteq Int
    BY <2>1, <2>2, <1>1 DEF FreeIds
  <2>4. IsFiniteSet(F) /\ F \subseteq Int /\ F # {}
    BY <2>3, <1>1, FS_Subset
  <2>5. QED
    BY <2>4, <1>1, MinIn
<1>4. /\ n \in 1..Copies /\ \A x \in Entries(apc) : x.id # <<s.path, n>>
      /\ \A b \in Branches : branch[b] # <<s.path, n>>
  BY <1>1, <1>3 DEF FreeIds
<1>5. i = <<s.path, n>>
  BY <1>1
<1>6. i \in Ids /\ i[1] = s.path
  BY <1>4, <1>5 DEF Ids
<1>7. \A x \in All(apc.trie.entry) : x.id # i
  BY <1>4, <1>5, EntriesAre
<1>8. apc.owner[i].pins = 0
  <2>1. {b \in Branches : branch[b] = i} = {}
    BY <1>4, <1>5
  <2>2. apc.owner[i].pins = Cardinality({b \in Branches : branch[b] = i})
    BY <1>6 DEF PrefixInv, Pinning
  <2>3. QED
    BY <2>1, <2>2, FS_EmptySet
<1>9. QED
  BY <1>6, <1>7, <1>8

(* Storing an entry.                                                       *)
LEMMA StoreStep == ASSUME PrefixInv, NEW s \in Stores, Store(s) PROVE PrefixInv' /\ Announced
<1>1. PICK i : i = <<s.path, Min(FreeIds(apc, s.path))>>
  OBVIOUS
<1>2. PICK e : e = NewEntry(s, i)
  OBVIOUS
<1>3. PICK limit : limit = IF tier THEN MaxBytes + apc.bytes + e.size ELSE MaxBytes
  OBVIOUS
<1>4. PICK b : b = Insert(Owning(apc, e), s.path, e, limit)
  OBVIOUS
<1>5. PICK k : k = LetGo(b, All(apc.trie.entry) \cup {e})
  OBVIOUS
<1>6. e.id = i
  BY <1>2 DEF NewEntry
<1>7. PICK bad : /\ FreeIds(apc, s.path) # {}
                 /\ Publish(IF s.path \in Stored(k.trie)
                            THEN SpillToFit(Touch(k, s.path), MaxBytes, s.path, bad) ELSE k)
                 /\ UNCHANGED branch
  <2>1. Owning(apc, e) = IF e.frozen
                         THEN [apc EXCEPT !.owner[i] = [valid |-> TRUE, pins |-> 0, held |-> TRUE]]
                         ELSE apc
    BY <1>6 DEF Owning
  <2>2. k = Advance(FoldSet(LAMBDA x, d : Retire(d, x), b, (Entries(apc) \cup {e}) \ Entries(b)))
    BY <1>5, EntriesAre DEF LetGo, RetireAll
  <2>3. QED
    BY <1>1, <1>2, <1>3, <1>4, <2>1, <2>2 DEF Store
<1>8. PICK d : d = IF s.path \in Stored(k.trie)
                   THEN SpillToFit(Touch(k, s.path), MaxBytes, s.path, bad) ELSE k
  OBVIOUS
<1>9. /\ i \in Ids /\ i[1] = s.path /\ \A x \in All(apc.trie.entry) : x.id # i
      /\ apc.owner[i].pins = 0
  BY <1>1, <1>7, FreshId
<1>10. k = Inserted(apc, s.path, e, limit)
  BY <1>4, <1>5 DEF Inserted
<1>11. cow \in BOOLEAN /\ tier \in BOOLEAN /\ Ready(apc, tier)
  BY DEF PrefixInv
<1>12. Outcome(apc, d, tier)
  BY <1>2, <1>3, <1>8, <1>9, <1>10, <1>11, StoreOutcome
<1>13. QED
  BY <1>7, <1>8, <1>12, QuietStep

(* Spilling what is idle.                                                  *)
LEMMA SpillIdleStep == ASSUME PrefixInv, SpillIdle PROVE PrefixInv' /\ Announced
<1>1. tier /\ Ready(apc, tier)
  BY DEF SpillIdle, PrefixInv
<1>2. PICK n \in 1..Len(apc.recent), bad \in BadSets(apc) :
        /\ Publish(EnforceDisk(FoldLeft(Spill, apc,
             Only(SubSeq(apc.recent, 1, n), {p \in Stored(apc.trie) : MaySpill(apc, p, bad)}))))
        /\ UNCHANGED branch
  BY DEF SpillIdle
<1>3. PICK idle : idle = Only(SubSeq(apc.recent, 1, n), {p \in Stored(apc.trie) : MaySpill(apc, p, bad)})
  OBVIOUS
<1>4. PICK d : d = EnforceDisk(FoldLeft(Spill, apc, idle))
  OBVIOUS
<1>5. Publish(d) /\ UNCHANGED branch
  BY <1>2, <1>3, <1>4
<1>6. Outcome(apc, d, tier)
  BY <1>1, <1>3, <1>4, SpillIdleOutcome
<1>7. QED
  BY <1>5, <1>6, QuietStep

(* Trimming.                                                               *)
LEMMA TrimStep == ASSUME PrefixInv, NEW l \in Trims, TrimCache(l) PROVE PrefixInv' /\ Announced
<1>1. Ready(apc, tier) /\ l.sequences \in Nat /\ l.bytes \in Nat
  BY InputsAre DEF PrefixInv
<1>2. PICK cut : cut = TrimTo(apc, l.sequences, l.bytes)
  OBVIOUS
<1>3. PICK d : d = LetGo(cut, All(apc.trie.entry))
  OBVIOUS
<1>4. d = Advance(FoldSet(LAMBDA x, c : Retire(c, x), cut, Entries(apc) \ Entries(cut)))
  BY <1>3, EntriesAre DEF LetGo, RetireAll
<1>5. Publish(d) /\ UNCHANGED branch
  BY <1>2, <1>4 DEF TrimCache
<1>6. Outcome(apc, d, tier)
  BY <1>1, <1>2, <1>3, TrimOutcome
<1>7. QED
  BY <1>5, <1>6, QuietStep

(* Clearing.                                                               *)
LEMMA ClearStep == ASSUME PrefixInv, Clear PROVE PrefixInv' /\ Announced
<1>1. Ready(apc, tier)
  BY DEF PrefixInv
<1>2. PICK fresh : fresh = [apc EXCEPT !.trie = EmptyTrie, !.order = EmptyCache.order,
                                       !.bytes = 0, !.bytesOf = EmptyCache.bytesOf]
  OBVIOUS
<1>3. PICK all, d : all = All(apc.trie.entry) /\ d = LetGo(fresh, all)
  OBVIOUS
<1>4. d = Advance(FoldSet(LAMBDA x, c : Retire(c, x), fresh, Entries(apc)))
  <2>1. fresh.trie = EmptyTrie
    <3>1. Formed(apc)
      BY <1>1 DEF Ready, Whole, Shelf
    <3>2. QED
      BY <3>1, <1>2 DEF Formed
  <2>2. All(fresh.trie.entry) = {}
    BY <2>1 DEF All, EmptyTrie
  <2>3. Entries(apc) = all \ All(fresh.trie.entry)
    BY <2>2, <1>3, EntriesAre
  <2>4. QED
    BY <2>3, <1>3 DEF LetGo, RetireAll
<1>5. Publish(d) /\ UNCHANGED branch
  BY <1>2, <1>4 DEF Clear
<1>6. Outcome(apc, d, tier)
  BY <1>1, <1>2, <1>3, ClearOutcome
<1>7. QED
  BY <1>5, <1>6, QuietStep

(* A branch that is forked, or ends, outside the lock.                     *)
LEMMA RepinnedStep ==
    ASSUME PrefixInv, NEW i \in Ids, apc.owner[i].held, NEW n \in Nat, RepinnedAt(apc, apc', i, n),
           Pinning(apc'.owner, branch'), branch' \in [Branches -> Ids \cup {NoId}],
           UNCHANGED <<cow, tier, generation>>
    PROVE  PrefixInv' /\ Announced
<1>1. Ready(apc, tier) /\ ToSet(apc.recent) = Stored(apc.trie) /\ ~apc.moved
      /\ cow \in BOOLEAN /\ tier \in BOOLEAN /\ generation \in {0, 1}
  BY DEF PrefixInv
<1>2. PICK d : d = apc'
  OBVIOUS
<1>3. /\ Ready(d, tier) /\ Loaded(d) = Loaded(apc) /\ d.trie = apc.trie /\ d.recent = apc.recent
      /\ d.moved = apc.moved
  BY <1>1, <1>2, RepinnedIsReady
<1>4. QED
  BY <1>1, <1>2, <1>3 DEF PrefixInv, Announced

(* Forking a branch.                                                       *)
LEMMA ForkStep == ASSUME PrefixInv, NEW b \in Branches, Fork(b) PROVE PrefixInv' /\ Announced
<1>1. PICK i : i = branch[b]
  OBVIOUS
<1>2. i \in Ids /\ apc.owner[i].pins > 0 /\ UNCHANGED <<cow, tier, generation>>
      /\ branch \in [Branches -> Ids \cup {NoId}] /\ Pinning(apc.owner, branch)
  BY <1>1 DEF Fork, PrefixInv
<1>3. PICK d \in Branches : branch[d] = NoId /\ branch' = [branch EXCEPT ![d] = i]
  BY <1>1 DEF Fork
<1>4. apc' = [apc EXCEPT !.owner[i].pins = @ + 1]
  BY <1>1 DEF Fork
<1>5. Formed(apc) /\ Owned(apc.owner, All(apc.trie.entry)) /\ apc.owner \in [Ids -> OwnerType]
  BY DEF PrefixInv, Ready, Whole, Shelf, Backed, Owned
<1>6. apc.owner[i].held
  <2>1. apc.owner[i].held <=> apc.owner[i].valid \/ apc.owner[i].pins > 0
    BY <1>2, <1>5 DEF Owned
  <2>2. QED
    BY <2>1, <1>2
<1>7. PICK n : n = apc.owner[i].pins + 1
  OBVIOUS
<1>8. n \in Nat
  BY <1>2, <1>5, <1>7 DEF OwnerType
<1>9. RepinnedAt(apc, apc', i, n)
  BY <1>2, <1>4, <1>5, <1>6, <1>7, PinFields
<1>10. apc'.owner = [apc.owner EXCEPT ![i] = Repinned(apc.owner[i], apc.owner[i].pins + 1)]
  BY <1>7, <1>9 DEF RepinnedAt
<1>11. Pinning(apc'.owner, branch') /\ branch' \in [Branches -> Ids \cup {NoId}]
  BY <1>2, <1>3, <1>5, <1>10, JoinKeepsPinning
<1>12. QED
  BY <1>2, <1>6, <1>8, <1>9, <1>11, RepinnedStep

(* The end of a branch.                                                    *)
LEMMA EndBranchStep == ASSUME PrefixInv, NEW b \in Branches, EndBranch(b) PROVE PrefixInv' /\ Announced
<1>1. PICK i : i = branch[b]
  OBVIOUS
<1>2. /\ i \in Ids /\ UNCHANGED <<cow, tier, generation>> /\ branch' = [branch EXCEPT ![b] = NoId]
      /\ branch \in [Branches -> Ids \cup {NoId}] /\ Pinning(apc.owner, branch)
      /\ apc' = ReleasePin(apc, i)
  BY <1>1 DEF EndBranch, PrefixInv
<1>3. Formed(apc) /\ Owned(apc.owner, All(apc.trie.entry)) /\ apc.owner \in [Ids -> OwnerType]
  BY DEF PrefixInv, Ready, Whole, Shelf, Backed, Owned
<1>4. PICK R : R = [apc.owner EXCEPT ![i] = Repinned(apc.owner[i], apc.owner[i].pins - 1)]
  OBVIOUS
<1>5. Pinning(R, branch') /\ branch' \in [Branches -> Ids \cup {NoId}] /\ apc.owner[i].pins > 0
  BY <1>1, <1>2, <1>3, <1>4, LeaveKeepsPinning
<1>6. apc.owner[i].held
  <2>1. apc.owner[i].held <=> apc.owner[i].valid \/ apc.owner[i].pins > 0
    BY <1>2, <1>3 DEF Owned
  <2>2. QED
    BY <2>1, <1>5
<1>7. PICK n : n = apc.owner[i].pins - 1
  OBVIOUS
<1>8. n \in Nat
  BY <1>2, <1>3, <1>5, <1>7 DEF OwnerType
<1>9. RepinnedAt(apc, apc', i, n)
  BY <1>2, <1>3, <1>5, <1>6, <1>7, ReleaseFields
<1>10. apc'.owner = R
  BY <1>4, <1>7, <1>9 DEF RepinnedAt
<1>11. QED
  BY <1>2, <1>5, <1>6, <1>8, <1>9, <1>10, RepinnedStep

(* Every step keeps the invariant, and announces what is lost.             *)
LEMMA InvStep == PrefixInv /\ [PrefixNext]_vars => PrefixInv' /\ Announced
<1> SUFFICES ASSUME PrefixInv, [PrefixNext]_vars PROVE PrefixInv' /\ Announced
  OBVIOUS
<1>1. ASSUME NEW q \in Queries, Lookup(q) PROVE PrefixInv' /\ Announced
  BY <1>1, LookupStep
<1>2. ASSUME NEW s \in Stores, Store(s) PROVE PrefixInv' /\ Announced
  BY <1>2, StoreStep
<1>3. CASE SpillIdle
  BY <1>3, SpillIdleStep
<1>4. ASSUME NEW l \in Trims, TrimCache(l) PROVE PrefixInv' /\ Announced
  BY <1>4, TrimStep
<1>5. CASE Clear
  BY <1>5, ClearStep
<1>6. ASSUME NEW b \in Branches, Fork(b) PROVE PrefixInv' /\ Announced
  BY <1>6, ForkStep
<1>7. ASSUME NEW b \in Branches, EndBranch(b) PROVE PrefixInv' /\ Announced
  BY <1>7, EndBranchStep
<1>8. CASE UNCHANGED vars
  BY <1>8 DEF vars, PrefixInv, Announced
<1>9. QED
  BY <1>1, <1>2, <1>3, <1>4, <1>5, <1>6, <1>7, <1>8 DEF PrefixNext

(***************************************************************************)
(* Theorems                                                                *)
(***************************************************************************)

(* The strengthening all of the properties below rest on: after every      *)
(* operation of apc.py, and every fork and end of a branch, the structures *)
(* describe the same entries, the counters add up, the limits hold, and    *)
(* the pins are the branches.                                              *)
THEOREM PrefixInvariant == PrefixSpec => []PrefixInv
<1>1. PrefixInv /\ [PrefixNext]_vars => PrefixInv'
  BY InvStep
<1>2. QED
  BY InvInit, <1>1, PTL DEF PrefixSpec

(* The state keeps its shape: an entry of AutomaticPrefixCache that was    *)
(* spilled has its files, and files and owners belong to names.            *)
THEOREM PrefixTypeCorrect == PrefixSpec => []PrefixTypeOK
<1>1. ASSUME PrefixInv PROVE PrefixTypeOK
  <2>1. /\ cow \in BOOLEAN /\ tier \in BOOLEAN /\ generation \in {0, 1}
        /\ branch \in [Branches -> Ids \cup {NoId}]
        /\ Planted(apc.trie) /\ Apart(All(apc.trie.entry))
        /\ Stocked(apc.files, apc.disk, All(apc.trie.entry)) /\ Owned(apc.owner, All(apc.trie.entry))
    BY <1>1 DEF PrefixInv, Ready, Whole, Shelf, Backed
  <2>2. apc.owner \in [Ids -> [valid : BOOLEAN, pins : Nat, held : BOOLEAN]]
    BY <2>1 DEF Owned, OwnerType
  <2>3. \A e \in Entries(apc) : e \in EntryType /\ (e.resident \/ e.filed)
    <3> TAKE e \in Entries(apc)
    <3>1. PICK p \in DOMAIN apc.trie.entry : e = apc.trie.entry[p]
      BY DEF Entries, Entry, Stored
    <3>2. QED
      BY <2>1, <3>1 DEF Planted, FitsAt
  <2>4. apc.files \subseteq Ids
    BY <2>1 DEF Stocked, Filed, Apart, EntryType
  <2>5. QED
    BY <2>1, <2>2, <2>3, <2>4 DEF PrefixTypeOK
<1>2. QED
  BY PrefixInvariant, <1>1, PTL

(* Whatever is stored, looked up, spilled, restored, dropped or trimmed,   *)
(* and whatever fails in it, trie, recency lists, access times, byte       *)
(* counts and files go on describing the same entries (apc.py, cache.py).  *)
THEOREM ConsistencyHolds == PrefixSpec => []CacheIsConsistent
<1>1. ASSUME PrefixInv PROVE StructuresAgree
  <2>1. PICK f, o, L : f = apc.trie.entry /\ o = apc.order /\ L = apc.recent
    OBVIOUS
  <2>2. /\ Planted(apc.trie) /\ Listed(f, o)
        /\ L \in Seq(Paths) /\ Once(L) /\ ToSet(L) = DOMAIN f
    BY <1>1, <2>1 DEF PrefixInv, Ready, Whole, Shelf, Dated, Stored
  <2>3. apc.trie.nodes = {Root} \cup UNION {Prefixes(p) : p \in DOMAIN f}
    BY <2>1, <2>2 DEF Planted
  <2>4. \A t \in CacheTypes : /\ ToSet(o[t]) = {p \in DOMAIN f : f[p].type = t}
                              /\ Len(o[t]) = Cardinality({p \in DOMAIN f : f[p].type = t})
    <3> TAKE t \in CacheTypes
    <3>1. o[t] \in Seq(Paths) /\ Once(o[t]) /\ ToSet(o[t]) = {p \in DOMAIN f : f[p].type = t}
      BY <2>2 DEF Listed, Typed
    <3>2. QED
      BY <3>1, OnceCount
  <2>5. Len(L) = Cardinality(DOMAIN f)
    BY <2>2, OnceCount
  <2>6. QED
    BY <2>1, <2>2, <2>3, <2>4, <2>5 DEF StructuresAgree, Stored, Entry
<1>2. ASSUME PrefixInv PROVE CountersMatchEntries
  <2>1. PICK f, all : f = apc.trie.entry /\ all = All(f)
    OBVIOUS
  <2>2. Weighed(f, apc.bytes, apc.bytesOf) /\ Stocked(apc.files, apc.disk, all)
    BY <1>2, <2>1 DEF PrefixInv, Ready, Whole, Shelf, Backed
  <2>3. apc.bytes = SumFunction([p \in Stored(apc.trie) |-> Nbytes(Entry(apc, p))])
    BY <2>1, <2>2 DEF Weighed, Weight, Stored, Entry
  <2>4. \A t \in CacheTypes :
           apc.bytesOf[t] = SumFunction([p \in {x \in Stored(apc.trie) : Entry(apc, x).type = t}
                                            |-> Nbytes(Entry(apc, p))])
    BY <2>1, <2>2 DEF Weighed, Weight, Typed, Stored, Entry
  <2>5. Entries(apc) = all
    BY <2>1, EntriesAre
  <2>6. PICK filed : filed = Filed(all)
    OBVIOUS
  <2>7. apc.files = {e.id : e \in filed} /\ apc.disk = SumFunction([e \in filed |-> e.size])
    BY <2>2, <2>6 DEF Stocked
  <2>8. filed = {e \in Entries(apc) : e.filed}
    BY <2>5, <2>6 DEF Filed
  <2>9. QED
    BY <2>3, <2>4, <2>7, <2>8 DEF CountersMatchEntries
<1>3. PrefixInv => CacheIsConsistent
  BY <1>1, <1>2 DEF CacheIsConsistent
<1>4. QED
  BY PrefixInvariant, <1>3, PTL

(* Whenever the lock is free the cache is within its limits: entries, disk *)
(* bytes, and resident bytes where no disk tier takes the surplus.         *)
THEOREM LimitsAreKept == PrefixSpec => []LimitsHold
<1>1. PrefixInv => LimitsHold
  BY DEF PrefixInv, Ready, LimitsHold
<1>2. QED
  BY PrefixInvariant, <1>1, PTL

(* A copy-on-write source (cow_cache.py) is pinned by just the branches    *)
(* still open, and is given up when, and only when, neither a branch nor   *)
(* the cache needs it.                                                     *)
THEOREM SourcesAreOwned == PrefixSpec => []SourcesFollowTheirUsers
<1>1. ASSUME PrefixInv PROVE SourcesFollowTheirUsers
  <2> SUFFICES ASSUME NEW i \in Ids
               PROVE  /\ apc.owner[i].pins = Cardinality({b \in Branches : branch[b] = i})
                      /\ apc.owner[i].held = (apc.owner[i].valid \/ apc.owner[i].pins > 0)
                      /\ apc.owner[i].valid = (\E e \in Entries(apc) : e.id = i /\ e.resident /\ e.frozen)
    BY DEF SourcesFollowTheirUsers
  <2>1. PICK all : all = All(apc.trie.entry)
    OBVIOUS
  <2>2. Owned(apc.owner, all) /\ Pinning(apc.owner, branch)
    BY <1>1, <2>1 DEF PrefixInv, Ready, Whole, Backed
  <2>3. apc.owner[i].pins = Cardinality({b \in Branches : branch[b] = i})
    BY <2>2 DEF Pinning
  <2>4. PICK o : o = apc.owner[i]
    OBVIOUS
  <2>5. o.valid \in BOOLEAN /\ o.held \in BOOLEAN
    BY <2>2, <2>4 DEF Owned, OwnerType
  <2>6. (o.held <=> o.valid \/ o.pins > 0) /\ (o.valid <=> \E e \in all : e.id = i /\ Live(e))
    BY <2>2, <2>4 DEF Owned
  <2>7. Entries(apc) = all
    BY <2>1, EntriesAre
  <2>8. o.valid <=> \E e \in Entries(apc) : e.id = i /\ e.resident /\ e.frozen
    BY <2>6, <2>7 DEF Live
  <2>9. o.held = (o.valid \/ o.pins > 0)
    BY <2>5, <2>6
  <2>10. o.valid = (\E e \in Entries(apc) : e.id = i /\ e.resident /\ e.frozen)
    BY <2>5, <2>8
  <2>11. QED
    BY <2>3, <2>4, <2>9, <2>10
<1>2. QED
  BY PrefixInvariant, <1>1, PTL

(* Whatever the cache went through, what a lookup answers with is state of *)
(* the prompt's own first tokens, at a position the entry can be put to,   *)
(* with a token left (fetch_nearest_cache and _lookup_locked).             *)
THEOREM AnswersAreRight == PrefixSpec => []AnswersMatchPrompt
<1>1. ASSUME PrefixInv PROVE AnswersMatchPrompt
  <2> SUFFICES ASSUME NEW q \in Queries, NEW favour \in Tokens, NEW bad \in BadSets(apc),
                      NEW h, h = Hydrate(apc, q, favour, bad),
                      NEW r, r = Answer(h.c, q, h.found, favour),
                      NEW e, e = Entry(h.c, r.path),
                      h.state = "ready", r.path # NoPath, e.resident
               PROVE  Matches(q, r, e)
    BY DEF AnswersMatchPrompt, Matches
  <2>1. cow \in BOOLEAN /\ Ready(apc, tier)
    BY <1>1 DEF PrefixInv
  <2>2. Outcome(apc, h.c, tier) /\ Found(h)
    BY <2>1, LookupOutcome
  <2>3. PICK c : c = h.c
    OBVIOUS
  <2>4. Ready(c, tier) /\ q \in Paths
    BY <2>2, <2>3, InputsAre DEF Outcome
  <2>5. e.resident => Matches(q, r, e)
    BY <2>2, <2>3, <2>4, LookupAnswers
  <2>6. QED
    BY <2>5
<1>2. QED
  BY PrefixInvariant, <1>1, PTL

(* Whoever captured _capsule_generation sees it move when an entry leaves  *)
(* the device, also where a lookup made room.                              *)
THEOREM LossIsAnnounced == PrefixSpec => LossMovesGeneration
<1>1. PrefixInv /\ [PrefixNext]_vars
      => [~({Entry(apc, p).id : p \in Resident(apc)} \subseteq {Entry(apc', p).id : p \in Resident(apc')})
          => generation' # generation]_vars
  BY InvStep DEF Announced, Loaded
<1>2. QED
  BY PrefixInvariant, <1>1, PTL DEF PrefixSpec, LossMovesGeneration
================================================================================
