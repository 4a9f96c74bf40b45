----------------------------- MODULE ListTheorems -----------------------------
(***************************************************************************)
(* Facts that the proofs about the batch generator keep needing and that   *)
(* are not about the code: induction on numbers and on finite sets, the    *)
(* sums of the community modules (SumFunctionOnSet folds a set in an order *)
(* that nobody knows), greatest elements, ranks, and lists whose members   *)
(* have a uid.                                                             *)
(***************************************************************************)
EXTENDS Lists, FiniteSetsExt, SequencesExt, Functions, FiniteSetTheorems, WellFoundedInduction, TLAPS

(* Induction on the natural numbers, for a set of them. *)
LEMMA NatSet ==
    ASSUME NEW N, 0 \in N, \A n \in Nat : n \in N => n + 1 \in N
    PROVE  Nat \subseteq N
<1> DEFINE Bad == Nat \ N
           Less == {ss \in Nat \X Nat : ss[1] < ss[2]}
<1>1. SUFFICES ASSUME Bad # {} PROVE FALSE
  OBVIOUS
<1>2. IsWellFoundedOn(Less, Nat)
  <2>1. OpToRel(<, Nat) = Less
    BY DEF OpToRel
  <2>2. QED
    BY <2>1, NatLessThanWellFounded
<1>3. PICK m \in Bad : \A k \in Bad : ~(<<k, m>> \in Less)
  BY <1>1, <1>2, WFMin
<1>4. m \in Nat /\ m # 0
  OBVIOUS
<1>5. m - 1 \in Nat
  BY <1>4
<1>6. <<m - 1, m>> \in Less
  BY <1>4, <1>5
<1>7. m - 1 \in N
  BY <1>3, <1>5, <1>6
<1>8. QED
  BY <1>4, <1>5, <1>7

(* The element that a fold takes first; what is left without an element.   *)
Taken(T) == CHOOSE x \in T : TRUE

(* The element the fold takes first is one of the set.                     *)
LEMMA TakenIn == ASSUME NEW T, T # {} PROVE Taken(T) \in T
  BY DEF Taken

(* A finite set less one element.                                          *)
LEMMA OneLess ==
    ASSUME NEW S, IsFiniteSet(S), NEW T \in SUBSET S, NEW n \in Nat, Cardinality(T) = n + 1
    PROVE  /\ T # {} /\ Taken(T) \in T
           /\ \A x \in T : T \ {x} \in SUBSET S /\ Cardinality(T \ {x}) = n
<1>1. IsFiniteSet(T)
  BY FS_Subset
<1>2. T # {}
  BY FS_EmptySet
<1>3. Taken(T) \in T
  BY <1>2, TakenIn
<1>4. ASSUME NEW x \in T PROVE Cardinality(T \ {x}) = n
  <2>1. Cardinality(T \ {x}) = Cardinality(T) - 1
    BY <1>1, FS_RemoveElement
  <2>2. QED
    BY <2>1
<1>5. QED
  BY <1>2, <1>3, <1>4

(* Induction on a finite set: a family that has the empty set and grows by *)
(* every element has the set itself.                                       *)
LEMMA FiniteFamily ==
    ASSUME NEW S, IsFiniteSet(S), NEW F, {} \in F,
           \A T \in SUBSET S, x \in S : T \in F /\ x \notin T => T \cup {x} \in F
    PROVE  S \in F
<1> DEFINE N == {n \in Nat : \A T \in SUBSET S : Cardinality(T) = n => T \in F}
<1>1. \A T \in SUBSET S : IsFiniteSet(T) /\ Cardinality(T) \in Nat
  BY FS_Subset, FS_CardinalityType
<1>2. 0 \in N
  BY <1>1, FS_EmptySet
<1>3. ASSUME NEW n \in Nat, n \in N PROVE n + 1 \in N
  <2> SUFFICES ASSUME NEW T \in SUBSET S, Cardinality(T) = n + 1 PROVE T \in F
    OBVIOUS
  <2>2. PICK x \in T : TRUE
    BY OneLess
  <2>3. T \ {x} \in SUBSET S /\ Cardinality(T \ {x}) = n
    BY OneLess
  <2>4. T \ {x} \in F
    BY <1>3, <2>3
  <2>5. (T \ {x}) \cup {x} \in F
    BY <2>3, <2>4
  <2>6. (T \ {x}) \cup {x} = T
    OBVIOUS
  <2>7. QED
    BY <2>5, <2>6
<1>4. Nat \subseteq N
  <2> HIDE DEF N
  <2>1. QED
    BY <1>2, <1>3, NatSet
<1>5. QED
  BY <1>1, <1>4

--------------------------------------------------------------------------------
(* A fold as an equation of the function it is the value of. *)
Folds(h, f, S) ==
    h = [T \in S |-> IF T = {} THEN 0 ELSE f[Taken(T)] + h[T \ {Taken(T)}]]

(* The sum over a set is the fold the community modules define.            *)
LEMMA SumIsFold ==
    ASSUME NEW f, NEW S
    PROVE  SumFunctionOnSet(f, S) = (CHOOSE h : Folds(h, f, SUBSET S))[S]
  BY DEF SumFunctionOnSet, FoldFunctionOnSet, MapThenFoldSet, Folds, Taken

(* The fold has a solution on every finite set.                            *)
LEMMA FoldExists ==
    ASSUME NEW f, NEW S, IsFiniteSet(S)
    PROVE  \E h : Folds(h, f, SUBSET S)
<1> DEFINE Small(n) == {T \in SUBSET S : Cardinality(T) <= n}
           N == {n \in Nat : \E h : Folds(h, f, Small(n))}
<1>1. \A T \in SUBSET S : IsFiniteSet(T) /\ Cardinality(T) \in Nat
  BY FS_Subset, FS_CardinalityType
<1>2. \A T \in SUBSET S : T # {} => Taken(T) \in T
  BY TakenIn
<1>3. \A n \in Nat : \A T \in Small(n) :
          T # {} => T \ {Taken(T)} \in Small(n) /\ Cardinality(T \ {Taken(T)}) = Cardinality(T) - 1
  BY <1>1, <1>2, FS_RemoveElement
<1>4. 0 \in N
  <2>1. \A T \in Small(0) : T = {}
    BY <1>1, FS_EmptySet
  <2>2. Folds([T \in Small(0) |-> 0], f, Small(0))
    BY <2>1 DEF Folds
  <2>3. QED
    BY <2>2
<1>5. ASSUME NEW n \in Nat, n \in N PROVE n + 1 \in N
  <2>1. PICK h : Folds(h, f, Small(n))
    BY <1>5
  <2> DEFINE g == [T \in Small(n + 1) |-> IF T = {} THEN 0
                                          ELSE f[Taken(T)] + h[T \ {Taken(T)}]]
  <2>2. \A T \in Small(n) : T \in Small(n + 1) /\ g[T] = h[T]
    <3> TAKE T \in Small(n)
    <3>1. T \in Small(n + 1)
      BY <1>1
    <3>2. h[T] = IF T = {} THEN 0 ELSE f[Taken(T)] + h[T \ {Taken(T)}]
      BY <2>1 DEF Folds
    <3>3. QED
      BY <3>1, <3>2
  <2>3. \A T \in Small(n + 1) : T # {} => T \ {Taken(T)} \in Small(n)
    BY <1>1, <1>3
  <2>4. g = [T \in Small(n + 1) |-> IF T = {} THEN 0 ELSE f[Taken(T)] + g[T \ {Taken(T)}]]
    BY <2>2, <2>3
  <2>5. Folds(g, f, Small(n + 1))
    BY <2>4 DEF Folds
  <2> HIDE DEF g, Small
  <2>6. QED
    BY <2>5
<1>6. Nat \subseteq N
  <2> HIDE DEF N
  <2>1. QED
    BY <1>4, <1>5, NatSet
<1>7. Cardinality(S) \in N
  BY <1>1, <1>6
<1>8. Small(Cardinality(S)) = SUBSET S
  BY <1>1, FS_Subset
<1>9. QED
  BY <1>7, <1>8

(* Two folds agree where both are defined. *)
LEMMA FoldUnique ==
    ASSUME NEW f, NEW S, IsFiniteSet(S), NEW g, NEW h, NEW R, S \subseteq R,
           Folds(g, f, SUBSET S), Folds(h, f, SUBSET R)
    PROVE  g[S] = h[S]
<1> DEFINE N == {n \in Nat : \A T \in SUBSET S : Cardinality(T) = n => g[T] = h[T]}
<1>1. \A T \in SUBSET S : IsFiniteSet(T) /\ Cardinality(T) \in Nat
  BY FS_Subset, FS_CardinalityType
<1>2. \A T \in SUBSET S : g[T] = IF T = {} THEN 0 ELSE f[Taken(T)] + g[T \ {Taken(T)}]
  BY DEF Folds
<1>3. \A T \in SUBSET S : h[T] = IF T = {} THEN 0 ELSE f[Taken(T)] + h[T \ {Taken(T)}]
  <2> TAKE T \in SUBSET S
  <2>1. T \in SUBSET R
    OBVIOUS
  <2>2. QED
    BY <2>1 DEF Folds
<1>4. 0 \in N
  BY <1>1, <1>2, <1>3, FS_EmptySet
<1>5. ASSUME NEW n \in Nat, n \in N PROVE n + 1 \in N
  <2> SUFFICES ASSUME NEW T \in SUBSET S, Cardinality(T) = n + 1 PROVE g[T] = h[T]
    OBVIOUS
  <2>1. T # {} /\ Taken(T) \in T
    BY OneLess
  <2>2. T \ {Taken(T)} \in SUBSET S /\ Cardinality(T \ {Taken(T)}) = n
    BY OneLess, <2>1
  <2>3. g[T \ {Taken(T)}] = h[T \ {Taken(T)}]
    BY <1>5, <2>2
  <2>4. QED
    BY <1>2, <1>3, <2>1, <2>3
<1>6. Nat \subseteq N
  <2> HIDE DEF N
  <2>1. QED
    BY <1>4, <1>5, NatSet
<1>7. QED
  BY <1>1, <1>6

(* A sum is one term and the sum of the others.                            *)
LEMMA SumUnfold ==
    ASSUME NEW f, NEW S, IsFiniteSet(S)
    PROVE  SumFunctionOnSet(f, S) =
               IF S = {} THEN 0
               ELSE f[Taken(S)] + SumFunctionOnSet(f, S \ {Taken(S)})
<1> DEFINE h == CHOOSE a : Folds(a, f, SUBSET S)
           rest == S \ {Taken(S)}
           g == CHOOSE a : Folds(a, f, SUBSET rest)
<1>1. Folds(h, f, SUBSET S)
  BY FoldExists
<1>2. IsFiniteSet(rest)
  BY FS_Subset
<1>3. Folds(g, f, SUBSET rest)
  BY <1>2, FoldExists
<1>4. SumFunctionOnSet(f, S) = h[S] /\ SumFunctionOnSet(f, rest) = g[rest]
  BY SumIsFold
<1> HIDE DEF h, g
<1>5. g[rest] = h[rest]
  BY <1>1, <1>2, <1>3, FoldUnique
<1>6. h[S] = IF S = {} THEN 0 ELSE f[Taken(S)] + h[rest]
  BY <1>1 DEF Folds
<1>7. QED
  BY <1>4, <1>5, <1>6
--------------------------------------------------------------------------------
(* The sum over no index, and over indices on which the function is whole. *)
LEMMA SumEmpty == ASSUME NEW f PROVE SumFunctionOnSet(f, {}) = 0
  BY SumUnfold, FS_EmptySet

(* A sum of integers is an integer.                                        *)
LEMMA SumInt ==
    ASSUME NEW f, NEW S, IsFiniteSet(S), \A x \in S : f[x] \in Int
    PROVE  SumFunctionOnSet(f, S) \in Int
<1> DEFINE N == {n \in Nat : \A T \in SUBSET S :
                                Cardinality(T) = n => SumFunctionOnSet(f, T) \in Int}
<1>1. \A T \in SUBSET S : IsFiniteSet(T) /\ Cardinality(T) \in Nat
  BY FS_Subset, FS_CardinalityType
<1>2. 0 \in N
  BY <1>1, SumEmpty, FS_EmptySet
<1>3. ASSUME NEW n \in Nat, n \in N PROVE n + 1 \in N
  <2> SUFFICES ASSUME NEW T \in SUBSET S, Cardinality(T) = n + 1
               PROVE  SumFunctionOnSet(f, T) \in Int
    OBVIOUS
  <2>1. T # {} /\ Taken(T) \in T
    BY OneLess
  <2>2. T \ {Taken(T)} \in SUBSET S /\ Cardinality(T \ {Taken(T)}) = n
    BY OneLess, <2>1
  <2>3. SumFunctionOnSet(f, T \ {Taken(T)}) \in Int
    BY <1>3, <2>2
  <2>4. SumFunctionOnSet(f, T) = f[Taken(T)] + SumFunctionOnSet(f, T \ {Taken(T)})
    BY <1>1, <2>1, SumUnfold
  <2>5. QED
    BY <2>1, <2>3, <2>4
<1>4. Nat \subseteq N
  <2> HIDE DEF N
  <2>1. QED
    BY <1>2, <1>3, NatSet
<1>5. QED
  BY <1>1, <1>4

(* Any element may be taken first. *)
LEMMA SumRemove ==
    ASSUME NEW f, NEW S, IsFiniteSet(S), \A x \in S : f[x] \in Int, NEW e \in S
    PROVE  SumFunctionOnSet(f, S) = f[e] + SumFunctionOnSet(f, S \ {e})
<1> DEFINE Removable(T) == \A x \in T : SumFunctionOnSet(f, T) = f[x] + SumFunctionOnSet(f, T \ {x})
           N == {n \in Nat : \A T \in SUBSET S : Cardinality(T) = n => Removable(T)}
<1>1. \A T \in SUBSET S : /\ IsFiniteSet(T) /\ Cardinality(T) \in Nat
                          /\ SumFunctionOnSet(f, T) \in Int
  <2> TAKE T \in SUBSET S
  <2>1. IsFiniteSet(T) /\ Cardinality(T) \in Nat
    BY FS_Subset, FS_CardinalityType
  <2>2. QED
    BY <2>1, SumInt
<1>2. 0 \in N
  BY <1>1, FS_EmptySet
<1>3. ASSUME NEW n \in Nat, n \in N PROVE n + 1 \in N
  <2> SUFFICES ASSUME NEW T \in SUBSET S, Cardinality(T) = n + 1, NEW x \in T
               PROVE  SumFunctionOnSet(f, T) = f[x] + SumFunctionOnSet(f, T \ {x})
    OBVIOUS
  <2> DEFINE c == Taken(T)
  <2>1. c \in T
    BY DEF Taken
  <2>2. SumFunctionOnSet(f, T) = f[c] + SumFunctionOnSet(f, T \ {c})
    BY <1>1, <2>1, SumUnfold
  <2>3. CASE x = c
    BY <2>2, <2>3
  <2>4. CASE x # c
    <3> HIDE DEF c
    <3>1. /\ T \ {c} \in SUBSET S /\ Cardinality(T \ {c}) = n /\ x \in T \ {c}
          /\ T \ {x} \in SUBSET S /\ Cardinality(T \ {x}) = n /\ c \in T \ {x}
      BY <2>1, <2>4, OneLess
    <3>2. (T \ {c}) \ {x} = (T \ {x}) \ {c} /\ (T \ {c}) \ {x} \in SUBSET S
      OBVIOUS
    <3>3. SumFunctionOnSet(f, T \ {c}) = f[x] + SumFunctionOnSet(f, (T \ {c}) \ {x})
      BY <1>3, <3>1
    <3>4. SumFunctionOnSet(f, T \ {x}) = f[c] + SumFunctionOnSet(f, (T \ {x}) \ {c})
      BY <1>3, <3>1
    <3>5. f[c] \in Int /\ f[x] \in Int /\ SumFunctionOnSet(f, (T \ {c}) \ {x}) \in Int
      BY <1>1, <2>1, <3>2
    <3>6. SumFunctionOnSet(f, T \ {x}) = f[c] + SumFunctionOnSet(f, (T \ {c}) \ {x})
      BY <3>2, <3>4
    <3> HIDE DEF N, Removable
    <3>7. QED
      BY <2>2, <3>3, <3>5, <3>6
  <2>5. QED
    BY <2>3, <2>4
<1>4. Nat \subseteq N
  <2> HIDE DEF N
  <2>1. QED
    BY <1>2, <1>3, NatSet
<1>5. QED
  BY <1>1, <1>4

(* A sum with one more term.                                               *)
LEMMA SumAdd ==
    ASSUME NEW f, NEW S, IsFiniteSet(S), \A x \in S : f[x] \in Int,
           NEW e, e \notin S, f[e] \in Int
    PROVE  SumFunctionOnSet(f, S \cup {e}) = f[e] + SumFunctionOnSet(f, S)
<1>1. IsFiniteSet(S \cup {e}) /\ (S \cup {e}) \ {e} = S
  BY FS_AddElement
<1>2. QED
  BY <1>1, SumRemove

(* The sum depends on the values at its indices only. *)
LEMMA SumAgree ==
    ASSUME NEW f, NEW g, NEW S, IsFiniteSet(S), \A x \in S : f[x] \in Int /\ g[x] = f[x]
    PROVE  SumFunctionOnSet(f, S) = SumFunctionOnSet(g, S)
<1> DEFINE F == {T \in SUBSET S : SumFunctionOnSet(f, T) = SumFunctionOnSet(g, T)}
<1>1. {} \in F
  BY SumEmpty
<1>2. ASSUME NEW T \in SUBSET S, NEW x \in S, T \in F, x \notin T PROVE T \cup {x} \in F
  <2>1. IsFiniteSet(T)
    BY FS_Subset
  <2>2. SumFunctionOnSet(f, T \cup {x}) = f[x] + SumFunctionOnSet(f, T)
    BY <1>2, <2>1, SumAdd
  <2>3. SumFunctionOnSet(g, T \cup {x}) = g[x] + SumFunctionOnSet(g, T)
    BY <1>2, <2>1, SumAdd
  <2>4. QED
    BY <1>2, <2>2, <2>3
<1>3. S \in F
  <2> HIDE DEF F
  <2>1. QED
    BY <1>1, <1>2, FiniteFamily
<1>4. QED
  BY <1>3

(* Disjoint sets of indices add up. *)
LEMMA SumUnion ==
    ASSUME NEW f, NEW S, IsFiniteSet(S), NEW R, IsFiniteSet(R), S \cap R = {},
           \A x \in S \cup R : f[x] \in Int
    PROVE  SumFunctionOnSet(f, R \cup S) = SumFunctionOnSet(f, R) + SumFunctionOnSet(f, S)
<1> DEFINE F == {T \in SUBSET S :
                   SumFunctionOnSet(f, R \cup T) = SumFunctionOnSet(f, R) + SumFunctionOnSet(f, T)}
<1>1. \A T \in SUBSET S : /\ IsFiniteSet(T) /\ IsFiniteSet(R \cup T)
                          /\ SumFunctionOnSet(f, T) \in Int
                          /\ SumFunctionOnSet(f, R \cup T) \in Int
  <2> TAKE T \in SUBSET S
  <2>1. IsFiniteSet(T) /\ IsFiniteSet(R \cup T)
    BY FS_Subset, FS_Union
  <2>2. QED
    BY <2>1, SumInt
<1>2. SumFunctionOnSet(f, R) \in Int
  BY SumInt
<1>3. {} \in F
  BY <1>2, SumEmpty
<1>4. ASSUME NEW T \in SUBSET S, NEW x \in S, T \in F, x \notin T PROVE T \cup {x} \in F
  <2>1. R \cup (T \cup {x}) = (R \cup T) \cup {x} /\ x \notin R \cup T
    BY <1>4
  <2>2. SumFunctionOnSet(f, T \cup {x}) = f[x] + SumFunctionOnSet(f, T)
    BY <1>1, <1>4, SumAdd
  <2>3. SumFunctionOnSet(f, (R \cup T) \cup {x}) = f[x] + SumFunctionOnSet(f, R \cup T)
    BY <1>1, <1>4, <2>1, SumAdd
  <2>4. f[x] \in Int
    OBVIOUS
  <2>5. SumFunctionOnSet(f, R \cup T) = SumFunctionOnSet(f, R) + SumFunctionOnSet(f, T)
    BY <1>4
  <2>6. SumFunctionOnSet(f, T) \in Int /\ SumFunctionOnSet(f, R \cup T) \in Int
    BY <1>1
  <2>7. SumFunctionOnSet(f, (R \cup T) \cup {x})
           = SumFunctionOnSet(f, R) + SumFunctionOnSet(f, T \cup {x})
    BY <1>2, <2>2, <2>3, <2>4, <2>5, <2>6
  <2>8. QED
    BY <2>1, <2>7
<1>5. S \in F
  <2> HIDE DEF F
  <2>1. QED
    BY <1>3, <1>4, FiniteFamily
<1>6. QED
  BY <1>5

(* A sum of numbers bounded below is bounded below; it grows with its set. *)
LEMMA SumAtLeast ==
    ASSUME NEW f, NEW S, IsFiniteSet(S), \A x \in S : f[x] \in Int, NEW b \in Int,
           \A x \in S : f[x] >= b
    PROVE  SumFunctionOnSet(f, S) >= b * Cardinality(S)
<1> DEFINE F == {T \in SUBSET S : SumFunctionOnSet(f, T) >= b * Cardinality(T)}
<1>1. {} \in F
  BY SumEmpty, FS_EmptySet
<1>2. ASSUME NEW T \in SUBSET S, NEW x \in S, T \in F, x \notin T PROVE T \cup {x} \in F
  <2>1. IsFiniteSet(T) /\ Cardinality(T) \in Nat /\ SumFunctionOnSet(f, T) \in Int
    <3>1. IsFiniteSet(T)
      BY FS_Subset
    <3>2. QED
      BY <3>1, FS_CardinalityType, SumInt
  <2>2. SumFunctionOnSet(f, T \cup {x}) = f[x] + SumFunctionOnSet(f, T)
    BY <1>2, <2>1, SumAdd
  <2>3. Cardinality(T \cup {x}) = Cardinality(T) + 1
    BY <1>2, <2>1, FS_AddElement
  <2>4. b * (Cardinality(T) + 1) = b * Cardinality(T) + b
    BY <2>1
  <2>5. b * Cardinality(T) \in Int
    BY <2>1
  <2>6. QED
    BY <1>2, <2>1, <2>2, <2>3, <2>4, <2>5
<1>3. S \in F
  <2> HIDE DEF F
  <2>1. QED
    BY <1>1, <1>2, FiniteFamily
<1>4. QED
  BY <1>3

(* A sum of bounded terms is bounded.                                      *)
LEMMA SumAtMost ==
    ASSUME NEW f, NEW S, IsFiniteSet(S), \A x \in S : f[x] \in Int, NEW b \in Int,
           \A x \in S : f[x] <= b
    PROVE  SumFunctionOnSet(f, S) <= b * Cardinality(S)
<1> DEFINE F == {T \in SUBSET S : SumFunctionOnSet(f, T) <= b * Cardinality(T)}
<1>1. {} \in F
  BY SumEmpty, FS_EmptySet
<1>2. ASSUME NEW T \in SUBSET S, NEW x \in S, T \in F, x \notin T PROVE T \cup {x} \in F
  <2>1. IsFiniteSet(T) /\ Cardinality(T) \in Nat /\ SumFunctionOnSet(f, T) \in Int
    <3>1. IsFiniteSet(T)
      BY FS_Subset
    <3>2. QED
      BY <3>1, FS_CardinalityType, SumInt
  <2>2. SumFunctionOnSet(f, T \cup {x}) = f[x] + SumFunctionOnSet(f, T)
    BY <1>2, <2>1, SumAdd
  <2>3. Cardinality(T \cup {x}) = Cardinality(T) + 1
    BY <1>2, <2>1, FS_AddElement
  <2>4. b * (Cardinality(T) + 1) = b * Cardinality(T) + b
    BY <2>1
  <2>5. b * Cardinality(T) \in Int
    BY <2>1
  <2>6. QED
    BY <1>2, <2>1, <2>2, <2>3, <2>4, <2>5
<1>3. S \in F
  <2> HIDE DEF F
  <2>1. QED
    BY <1>1, <1>2, FiniteFamily
<1>4. QED
  BY <1>3

(* A sum of fewer natural numbers is no larger.                            *)
LEMMA SumSubset ==
    ASSUME NEW f, NEW S, IsFiniteSet(S), \A x \in S : f[x] \in Nat, NEW T \in SUBSET S
    PROVE  /\ SumFunctionOnSet(f, T) \in Nat
           /\ SumFunctionOnSet(f, T) <= SumFunctionOnSet(f, S)
<1>1. IsFiniteSet(T) /\ IsFiniteSet(S \ T) /\ T \cup (S \ T) = S
  BY FS_Subset
<1>2. SumFunctionOnSet(f, S) = SumFunctionOnSet(f, T) + SumFunctionOnSet(f, S \ T)
  BY <1>1, SumUnion
<1>3. \A U \in SUBSET S : IsFiniteSet(U) => SumFunctionOnSet(f, U) \in Nat
  <2> TAKE U \in SUBSET S
  <2> HAVE IsFiniteSet(U)
  <2>1. SumFunctionOnSet(f, U) \in Int
    BY SumInt
  <2>2. SumFunctionOnSet(f, U) >= 0 * Cardinality(U) /\ Cardinality(U) \in Nat
    BY SumAtLeast, FS_CardinalityType
  <2>3. QED
    BY <2>1, <2>2
<1>4. QED
  BY <1>1, <1>2, <1>3

--------------------------------------------------------------------------------
(* A pair is finite.                                                       *)
LEMMA PairIsFinite == \A a, b : IsFiniteSet({a, b})
<1> TAKE a, b
<1>1. IsFiniteSet({a} \cup {b})
  BY FS_Singleton, FS_AddElement
<1>2. QED
  BY <1>1

(* The values of a function on a finite set.                               *)
LEMMA ValuesAreFinite ==
    ASSUME NEW S, IsFiniteSet(S), NEW f, f = [x \in S |-> f[x]]
    PROVE  IsFiniteSet({f[x] : x \in S})
<1> DEFINE T == {f[x] : x \in S}
<1>1. f \in Surjection(S, T)
  BY DEF Surjection
<1> HIDE DEF T
<1>2. IsFiniteSet(T)
  BY <1>1, FS_Surjection
<1>3. QED
  BY <1>2 DEF T

(* A finite set of numbers has a greatest and a least element. *)
LEMMA MaxIn ==
    ASSUME NEW S, IsFiniteSet(S), S \subseteq Int, S # {}
    PROVE  Max(S) \in S /\ \A y \in S : Max(S) >= y
<1> DEFINE F == {T \in SUBSET S : T # {} => \E x \in T : \A y \in T : x >= y}
<1>1. {} \in F
  OBVIOUS
<1>2. ASSUME NEW T \in SUBSET S, NEW e \in S, T \in F, e \notin T PROVE T \cup {e} \in F
  <2>1. CASE T = {}
    BY <2>1
  <2>2. CASE T # {}
    <3>1. PICK x \in T : \A y \in T : x >= y
      BY <1>2, <2>2
    <3>2. CASE x >= e
      BY <3>1, <3>2
    <3>3. CASE ~(x >= e)
      <4>1. \A y \in T \cup {e} : e >= y
        BY <3>1, <3>3
      <4>2. QED
        BY <4>1
    <3>4. QED
      BY <3>2, <3>3
  <2>3. QED
    BY <2>1, <2>2
<1>3. S \in F
  <2> HIDE DEF F
  <2>1. QED
    BY <1>1, <1>2, FiniteFamily
<1>4. \E x \in S : \A y \in S : x >= y
  BY <1>3
<1>5. QED
  BY <1>4 DEF Max

(* A finite set of integers has a minimum.                                 *)
LEMMA MinIn ==
    ASSUME NEW S, IsFiniteSet(S), S \subseteq Int, S # {}
    PROVE  Min(S) \in S /\ \A y \in S : Min(S) <= y
<1> DEFINE F == {T \in SUBSET S : T # {} => \E x \in T : \A y \in T : x <= y}
<1>1. {} \in F
  OBVIOUS
<1>2. ASSUME NEW T \in SUBSET S, NEW e \in S, T \in F, e \notin T PROVE T \cup {e} \in F
  <2>1. CASE T = {}
    BY <2>1
  <2>2. CASE T # {}
    <3>1. PICK x \in T : \A y \in T : x <= y
      BY <1>2, <2>2
    <3>2. CASE x <= e
      BY <3>1, <3>2
    <3>3. CASE ~(x <= e)
      <4>1. \A y \in T \cup {e} : e <= y
        BY <3>1, <3>3
      <4>2. QED
        BY <4>1
    <3>4. QED
      BY <3>2, <3>3
  <2>3. QED
    BY <2>1, <2>2
<1>3. S \in F
  <2> HIDE DEF F
  <2>1. QED
    BY <1>1, <1>2, FiniteFamily
<1>4. \E x \in S : \A y \in S : x <= y
  BY <1>3
<1>5. QED
  BY <1>4 DEF Min

(* In a finite linear order, where upTo[i] is what is not above i, the     *)
(* sizes of these sets number the elements from 1 on.                      *)
LEMMA Ranks ==
    ASSUME NEW D, IsFiniteSet(D), NEW upTo,
           \A i \in D : upTo[i] \in SUBSET D /\ i \in upTo[i],
           \A i, j \in D : upTo[i] \subseteq upTo[j] \/ upTo[j] \subseteq upTo[i],
           \A i, j \in D : upTo[i] = upTo[j] => i = j
    PROVE  /\ \A i \in D : Cardinality(upTo[i]) \in 1..Cardinality(D)
           /\ \A i, j \in D : Cardinality(upTo[i]) = Cardinality(upTo[j]) => i = j
           /\ \A k \in 1..Cardinality(D) : \E i \in D : Cardinality(upTo[i]) = k
<1>1. Cardinality(D) \in Nat
  BY FS_CardinalityType
<1>2. ASSUME NEW i \in D PROVE IsFiniteSet(upTo[i]) /\ Cardinality(upTo[i]) \in 1..Cardinality(D)
  <2>1. IsFiniteSet(upTo[i]) /\ Cardinality(upTo[i]) <= Cardinality(D)
    BY FS_Subset
  <2>2. Cardinality(upTo[i]) \in Nat /\ Cardinality(upTo[i]) # 0
    BY <2>1, FS_CardinalityType, FS_EmptySet
  <2>3. QED
    BY <1>1, <2>1, <2>2
<1>3. ASSUME NEW i \in D, NEW j \in D, Cardinality(upTo[i]) = Cardinality(upTo[j]) PROVE i = j
  <2>1. upTo[i] \in SUBSET upTo[j] \/ upTo[j] \in SUBSET upTo[i]
    OBVIOUS
  <2>2. upTo[i] = upTo[j]
    BY <1>2, <1>3, <2>1, FS_Subset
  <2>3. QED
    BY <2>2
<1>4. ASSUME NEW k \in 1..Cardinality(D), ~ \E i \in D : Cardinality(upTo[i]) = k PROVE FALSE
  <2> DEFINE T == (1..Cardinality(D)) \ {k}
             rank == [i \in D |-> Cardinality(upTo[i])]
  <2>1. IsFiniteSet(1..Cardinality(D)) /\ Cardinality(1..Cardinality(D)) = Cardinality(D)
    BY <1>1, FS_Interval
  <2>2. IsFiniteSet(T) /\ Cardinality(T) = Cardinality(D) - 1
    BY <2>1, FS_RemoveElement
  <2>3. rank \in [D -> T]
    BY <1>2, <1>4
  <2>4. Cardinality(T) < Cardinality(D)
    BY <1>1, <2>2
  <2>5. \E x, y \in D : x # y /\ rank[x] = rank[y]
    <3> HIDE DEF T, rank
    <3>1. QED
      BY <2>2, <2>3, <2>4, FS_PigeonHole
  <2>6. QED
    BY <1>3, <2>5
<1>5. QED
  BY <1>2, <1>3, <1>4

--------------------------------------------------------------------------------
(* Lists, and what a comprehension keeps of them. *)

(* The positions of a list are finitely many.                              *)
LEMMA ListDomain ==
    ASSUME NEW R, NEW s \in Seq(R)
    PROVE  /\ DOMAIN s = 1..Len(s) /\ Len(s) \in Nat
           /\ IsFiniteSet(DOMAIN s) /\ Cardinality(DOMAIN s) = Len(s)
<1>1. DOMAIN s = 1..Len(s) /\ Len(s) \in Nat
  OBVIOUS
<1>2. IsFiniteSet(1..Len(s)) /\ Cardinality(1..Len(s)) = Len(s)
  BY <1>1, FS_Interval
<1>3. QED
  BY <1>1, <1>2

(* A comprehension keeps the chosen rows, each once: nth(k) is the place of *)
(* the k-th row that is kept.                                              *)
Picks(s, kept, nth) ==
    /\ nth \in [1..Cardinality(kept \cap DOMAIN s) -> kept \cap DOMAIN s]
    /\ \A k \in DOMAIN nth : Rows(s, kept)[k] = s[nth[k]]
    /\ \A k, l \in DOMAIN nth : nth[k] = nth[l] => k = l
    /\ \A i \in kept \cap DOMAIN s : \E k \in DOMAIN nth : nth[k] = i

Nths(places) ==
    [k \in 1..Cardinality(places) |->
        CHOOSE i \in places : Cardinality({j \in places : j <= i}) = k]

(* What it keeps is picked row by row, in order, by rank.                  *)
LEMMA RowsPicked ==
    ASSUME NEW R, NEW s \in Seq(R), NEW kept
    PROVE  /\ Rows(s, kept) \in Seq(R)
           /\ Len(Rows(s, kept)) = Cardinality(kept \cap DOMAIN s)
           /\ Cardinality(kept \cap DOMAIN s) \in Nat
           /\ Picks(s, kept, Nths(kept \cap DOMAIN s))
<1> DEFINE places == kept \cap DOMAIN s
           n == Cardinality(places)
           upTo == [i \in places |-> {j \in places : j <= i}]
           Nth(k) == CHOOSE i \in places : Cardinality({j \in places : j <= i}) = k
           nth == [k \in 1..n |-> Nth(k)]
<1>0. nth = Nths(kept \cap DOMAIN s)
  BY DEF Nths
<1>1. Rows(s, kept) = [k \in 1..n |-> s[Nth(k)]]
  BY DEF Rows
<1>2. IsFiniteSet(places) /\ n \in Nat /\ places \subseteq Int
  <2>1. DOMAIN s = 1..Len(s) /\ Len(s) \in Nat
    OBVIOUS
  <2>2. IsFiniteSet(DOMAIN s)
    BY <2>1, FS_Interval
  <2>3. IsFiniteSet(places)
    BY <2>2, FS_Subset
  <2>4. QED
    BY <2>1, <2>3, FS_CardinalityType
<1>3. /\ \A i \in places : Cardinality(upTo[i]) \in 1..n
      /\ \A i, j \in places : Cardinality(upTo[i]) = Cardinality(upTo[j]) => i = j
      /\ \A k \in 1..n : \E i \in places : Cardinality(upTo[i]) = k
  <2> HIDE DEF places
  <2>1. \A i \in places : upTo[i] \in SUBSET places /\ i \in upTo[i]
    BY <1>2
  <2>2. \A i, j \in places : upTo[i] \subseteq upTo[j] \/ upTo[j] \subseteq upTo[i]
    <3> TAKE i, j \in places
    <3>1. CASE i <= j
      <4>1. \A k \in upTo[i] : k \in places /\ k <= i
        OBVIOUS
      <4>2. \A k \in upTo[i] : k \in upTo[j]
        BY <1>2, <3>1, <4>1
      <4>3. QED
        BY <4>2
    <3>2. CASE j <= i
      <4>1. \A k \in upTo[j] : k \in places /\ k <= j
        OBVIOUS
      <4>2. \A k \in upTo[j] : k \in upTo[i]
        BY <1>2, <3>2, <4>1
      <4>3. QED
        BY <4>2
    <3>3. QED
      BY <1>2, <3>1, <3>2
  <2>3. \A i, j \in places : upTo[i] = upTo[j] => i = j
    <3> SUFFICES ASSUME NEW i \in places, NEW j \in places, upTo[i] = upTo[j] PROVE i = j
      OBVIOUS
    <3>1. i \in upTo[j] /\ j \in upTo[i]
      BY <2>1
    <3>2. QED
      BY <1>2, <3>1
  <2> HIDE DEF upTo
  <2>4. /\ \A i \in places : Cardinality(upTo[i]) \in 1..Cardinality(places)
        /\ \A i, j \in places : Cardinality(upTo[i]) = Cardinality(upTo[j]) => i = j
        /\ \A k \in 1..Cardinality(places) : \E i \in places : Cardinality(upTo[i]) = k
    <3>1. IsFiniteSet(places)
      BY <1>2
    <3> HIDE DEF n
    <3>2. QED
      BY <3>1, <2>1, <2>2, <2>3, Ranks
  <2>5. QED
    BY <2>4
<1>4. \A k \in 1..n : Nth(k) \in places /\ Cardinality(upTo[Nth(k)]) = k
  <2> TAKE k \in 1..n
  <2>1. \E i \in places : Cardinality({j \in places : j <= i}) = k
    BY <1>3
  <2>2. Nth(k) \in places /\ Cardinality({j \in places : j <= Nth(k)}) = k
    BY <2>1
  <2> HIDE DEF Nth, places
  <2>3. QED
    BY <2>2
<1> HIDE DEF Nth, upTo, n, places
<1>5. nth \in [1..n -> places]
  BY <1>4
<1>6. \A k, l \in 1..n : nth[k] = nth[l] => k = l
  BY <1>4
<1>7. \A i \in places : \E k \in 1..n : nth[k] = i
  <2> TAKE i \in places
  <2> DEFINE k == Cardinality(upTo[i])
  <2>1. k \in 1..n
    BY <1>3
  <2>2. Nth(k) = i
    BY <1>3, <1>4, <2>1
  <2>3. QED
    BY <2>1, <2>2
<1>8. \A k \in 1..n : s[Nth(k)] \in R /\ Rows(s, kept)[k] = s[nth[k]]
  BY <1>1, <1>4 DEF places
<1>9. Rows(s, kept) \in Seq(R) /\ Len(Rows(s, kept)) = n
  BY <1>1, <1>2, <1>8
<1>10. \A k \in DOMAIN nth : Rows(s, kept)[k] = s[nth[k]]
  BY <1>8
<1>11. Picks(s, kept, nth)
  <2>1. DOMAIN nth = 1..n
    OBVIOUS
  <2>2. /\ nth \in [1..n -> places]
        /\ \A k \in DOMAIN nth : Rows(s, kept)[k] = s[nth[k]]
        /\ \A k, l \in DOMAIN nth : nth[k] = nth[l] => k = l
        /\ \A i \in places : \E k \in DOMAIN nth : nth[k] = i
    BY <1>5, <1>6, <1>7, <1>10, <2>1
  <2> HIDE DEF nth
  <2>3. QED
    BY <2>2 DEF Picks, n, places
<1> HIDE DEF nth
<1>12. QED
  BY <1>0, <1>2, <1>9, <1>11 DEF n, places

(* It keeps the chosen rows and nothing else.                              *)
LEMMA RowsEffect ==
    ASSUME NEW R, NEW s \in Seq(R), NEW kept
    PROVE  /\ Rows(s, kept) \in Seq(R)
           /\ Len(Rows(s, kept)) = Cardinality(kept \cap DOMAIN s)
           /\ Cardinality(kept \cap DOMAIN s) \in Nat
           /\ \E nth : Picks(s, kept, nth)
  BY RowsPicked

(* A list all of whose elements are of a kind is a list of that kind.      *)
LEMMA ListOf ==
    ASSUME NEW R, NEW s \in Seq(R), NEW T, \A i \in DOMAIN s : s[i] \in T
    PROVE  s \in Seq(T)
<1>1. s = [i \in 1..Len(s) |-> s[i]] /\ DOMAIN s = 1..Len(s) /\ Len(s) \in Nat
  OBVIOUS
<1>2. [i \in 1..Len(s) |-> s[i]] \in Seq(T)
  BY <1>1
<1>3. QED
  BY <1>1, <1>2

(* A list made place by place from another one.                            *)
LEMMA ListMade ==
    ASSUME NEW R, NEW s \in Seq(R), NEW T, NEW t,
           t = [i \in DOMAIN s |-> t[i]], \A i \in DOMAIN s : t[i] \in T
    PROVE  t \in Seq(T) /\ DOMAIN t = DOMAIN s /\ Len(t) = Len(s)
<1>1. DOMAIN s = 1..Len(s) /\ Len(s) \in Nat
  BY ListDomain
<1>2. [i \in 1..Len(s) |-> t[i]] \in Seq(T) /\ Len([i \in 1..Len(s) |-> t[i]]) = Len(s)
  BY <1>1
<1>3. t = [i \in 1..Len(s) |-> t[i]]
  BY <1>1
<1>4. QED
  BY <1>1, <1>2, <1>3

(* No element is listed twice. *)
Once(s) == \A i, j \in DOMAIN s : s[i] = s[j] => i = j

(* The elements in a set are kept and no other, as often as they were.     *)
LEMMA OnlyEffect ==
    ASSUME NEW R, NEW s \in Seq(R), NEW set
    PROVE  /\ Only(s, set) \in Seq(R)
           /\ ToSet(Only(s, set)) = ToSet(s) \cap set
           /\ Once(s) => Once(Only(s, set))
<1> DEFINE kept == {i \in DOMAIN s : s[i] \in set}
           t == Rows(s, kept)
<1>0. Only(s, set) = t /\ kept \cap DOMAIN s = kept
  BY DEF Only
<1>1. t \in Seq(R) /\ Len(t) = Cardinality(kept) /\ Cardinality(kept) \in Nat
  BY <1>0, RowsEffect
<1>2. PICK nth : Picks(s, kept, nth)
  BY RowsEffect
<1>3. /\ nth \in [1..Cardinality(kept) -> kept]
      /\ \A k \in DOMAIN nth : t[k] = s[nth[k]]
      /\ \A k, l \in DOMAIN nth : nth[k] = nth[l] => k = l
      /\ \A i \in kept : \E k \in DOMAIN nth : nth[k] = i
  BY <1>0, <1>2 DEF Picks
<1>4. DOMAIN t = DOMAIN nth
  BY <1>1, <1>3
<1>5. \A k \in DOMAIN t : nth[k] \in DOMAIN s /\ t[k] = s[nth[k]] /\ s[nth[k]] \in set
  BY <1>3, <1>4
<1>6. ToSet(t) = ToSet(s) \cap set
  <2>1. ASSUME NEW x \in ToSet(t) PROVE x \in ToSet(s) \cap set
    <3>1. PICK k \in DOMAIN t : x = t[k]
      BY DEF ToSet
    <3>2. QED
      BY <1>5, <3>1 DEF ToSet
  <2>2. ASSUME NEW x \in ToSet(s) \cap set PROVE x \in ToSet(t)
    <3>1. PICK i \in DOMAIN s : x = s[i]
      BY DEF ToSet
    <3>2. i \in kept
      BY <3>1
    <3>3. PICK k \in DOMAIN nth : nth[k] = i
      BY <1>3, <3>2
    <3>4. k \in DOMAIN t /\ t[k] = x
      BY <1>4, <1>5, <3>1, <3>3
    <3>5. QED
      BY <3>4 DEF ToSet
  <2>3. QED
    BY <2>1, <2>2
<1>7. ASSUME Once(s) PROVE Once(t)
  <2> SUFFICES ASSUME NEW k \in DOMAIN t, NEW l \in DOMAIN t, t[k] = t[l] PROVE k = l
    BY DEF Once
  <2>1. nth[k] = nth[l]
    BY <1>5, <1>7 DEF Once
  <2>2. QED
    BY <1>3, <1>4, <2>1
<1>8. QED
  BY <1>0, <1>1, <1>6, <1>7

(* A list without repetition is as long as the set of its elements.        *)
LEMMA OnceCount ==
    ASSUME NEW R, NEW s \in Seq(R), Once(s)
    PROVE  /\ IsFiniteSet(ToSet(s)) /\ Cardinality(ToSet(s)) = Len(s)
           /\ Len(s) \in Nat /\ ToSet(s) \subseteq R
<1>1. DOMAIN s = 1..Len(s) /\ Len(s) \in Nat /\ \A i \in DOMAIN s : s[i] \in R
  OBVIOUS
<1>2. IsFiniteSet(1..Len(s)) /\ Cardinality(1..Len(s)) = Len(s)
  BY <1>1, FS_Interval
<1>3. s \in Bijection(1..Len(s), ToSet(s))
  BY <1>1 DEF Bijection, Injection, Surjection, IsInjective, ToSet, Once
<1>4. ExistsBijection(1..Len(s), ToSet(s))
  BY <1>3 DEF ExistsBijection
<1>5. ToSet(s) \subseteq R
  BY <1>1 DEF ToSet
<1>6. QED
  BY <1>1, <1>2, <1>4, <1>5, FS_Bijection

(* A new element at the end of a list.                                     *)
LEMMA AppendOnce ==
    ASSUME NEW R, NEW s \in Seq(R), NEW x \in R
    PROVE  /\ Append(s, x) \in Seq(R)
           /\ ToSet(Append(s, x)) = ToSet(s) \cup {x}
           /\ Once(s) /\ x \notin ToSet(s) => Once(Append(s, x))
<1> DEFINE t == Append(s, x)
<1>1. /\ t \in Seq(R) /\ Len(s) \in Nat /\ DOMAIN s = 1..Len(s)
      /\ DOMAIN t = 1..(Len(s) + 1) /\ t[Len(s) + 1] = x
      /\ \A i \in 1..Len(s) : t[i] = s[i]
  OBVIOUS
<1> HIDE DEF t
<1>2. ToSet(t) = ToSet(s) \cup {x}
  <2>1. \A i \in DOMAIN t : (i \in DOMAIN s /\ t[i] = s[i]) \/ t[i] = x
    BY <1>1
  <2>2. \A i \in DOMAIN s : i \in DOMAIN t /\ t[i] = s[i]
    BY <1>1
  <2>3. Len(s) + 1 \in DOMAIN t
    BY <1>1
  <2>4. \A y \in ToSet(t) : y \in ToSet(s) \cup {x}
    BY <2>1 DEF ToSet
  <2>5. \A y \in ToSet(s) \cup {x} : y \in ToSet(t)
    BY <1>1, <2>2, <2>3 DEF ToSet
  <2>6. QED
    BY <2>4, <2>5
<1>3. ASSUME Once(s), x \notin ToSet(s) PROVE Once(t)
  <2>1. \A i \in DOMAIN s : s[i] # x
    BY <1>3 DEF ToSet
  <2>2. \A i \in DOMAIN t : i \in DOMAIN s \/ i = Len(s) + 1
    BY <1>1
  <2>3. \A i, j \in DOMAIN s : s[i] = s[j] => i = j
    BY <1>3 DEF Once
  <2>4. QED
    BY <1>1, <2>1, <2>2, <2>3 DEF Once
<1>4. QED
  BY <1>1, <1>2, <1>3 DEF t

(* A list without its first element.                                       *)
LEMMA TailOnce ==
    ASSUME NEW R, NEW s \in Seq(R), s # <<>>, Once(s)
    PROVE  /\ Head(s) \in ToSet(s) /\ Head(s) \in R
           /\ Tail(s) \in Seq(R) /\ Once(Tail(s)) /\ ToSet(Tail(s)) = ToSet(s) \ {Head(s)}
<1> DEFINE t == Tail(s)
<1>1. /\ t \in Seq(R) /\ Len(s) \in Nat \ {0} /\ DOMAIN s = 1..Len(s)
      /\ DOMAIN t = 1..(Len(s) - 1) /\ Head(s) = s[1]
      /\ \A i \in DOMAIN t : t[i] = s[i + 1]
      /\ \A i \in DOMAIN s : s[i] \in R
  OBVIOUS
<1> HIDE DEF t
<1>2. \A i, j \in DOMAIN s : s[i] = s[j] => i = j
  BY DEF Once
<1>3. \A i \in DOMAIN t : i + 1 \in DOMAIN s /\ i + 1 # 1 /\ i \in Int
  BY <1>1
<1>4. 1 \in DOMAIN s
  BY <1>1
<1>5. \A i \in DOMAIN s : i # 1 => i - 1 \in DOMAIN t /\ t[i - 1] = s[i]
  BY <1>1
<1>6. Once(t)
  <2> SUFFICES ASSUME NEW i \in DOMAIN t, NEW j \in DOMAIN t, t[i] = t[j] PROVE i = j
    BY DEF Once
  <2>1. i + 1 = j + 1
    BY <1>1, <1>2, <1>3
  <2>2. QED
    BY <1>3, <2>1
<1>7. ToSet(t) = ToSet(s) \ {s[1]}
  <2>1. \A y \in ToSet(t) : y \in ToSet(s) \ {s[1]}
    BY <1>1, <1>2, <1>3, <1>4 DEF ToSet
  <2>2. \A y \in ToSet(s) \ {s[1]} : y \in ToSet(t)
    BY <1>5 DEF ToSet
  <2>3. QED
    BY <2>1, <2>2
<1>8. QED
  BY <1>1, <1>4, <1>6, <1>7 DEF t, ToSet

(* The first elements of a list.                                           *)
LEMMA FirstOnce ==
    ASSUME NEW R, NEW s \in Seq(R), NEW n \in 0..Len(s), Once(s)
    PROVE  /\ SubSeq(s, 1, n) \in Seq(R) /\ Once(SubSeq(s, 1, n))
           /\ ToSet(SubSeq(s, 1, n)) \subseteq ToSet(s)
<1> DEFINE t == SubSeq(s, 1, n)
<1>1. /\ t \in Seq(R) /\ DOMAIN s = 1..Len(s) /\ Len(s) \in Nat /\ DOMAIN t = 1..n
      /\ \A i \in DOMAIN t : i \in DOMAIN s /\ t[i] = s[i]
  OBVIOUS
<1> HIDE DEF t
<1>2. QED
  BY <1>1 DEF t, Once, ToSet

--------------------------------------------------------------------------------
(* No two members have the same uid.                                       *)
Distinct(rows) == \A i, j \in DOMAIN rows : rows[i].uid = rows[j].uid => i = j

================================================================================
