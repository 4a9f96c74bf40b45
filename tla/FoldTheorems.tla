----------------------------- MODULE FoldTheorems ------------------------------
(***************************************************************************)
(* What a fold of the community modules computes, step by step.  The step  *)
(* is a parameter of the module: the proofs about a loop instantiate it    *)
(* with the loop's body, and k carries what the body takes from outside.   *)
(* What finite sets and numbers contribute is a hypothesis (Foldable), so  *)
(* that an instance brings no other module with it.                        *)
(***************************************************************************)
EXTENDS Integers

CONSTANTS Size(_),        \* the number of the elements of a set of indices
          Pick(_),        \* the index that is taken last from it
          Step(_,_,_),    \* from k, the index and what came before
          Holds(_,_,_,_)  \* the invariant, of k, the start, the indices so far and
                          \* the state

(* The function that a fold is the value of. *)
IsFold(h, k, base, S) ==
    h = [T \in SUBSET S |-> IF T = {} THEN base ELSE Step(k, Pick(T), h[T \ {Pick(T)}])]

FoldOf(k, base, S) == CHOOSE h : IsFold(h, k, base, S)

(* Taking indices out of S comes to an end, and numbers have induction. *)
Measured(S) ==
    \A T \in SUBSET S : /\ Size(T) \in Nat /\ Size(T) <= Size(S)
                        /\ T # {} => Pick(T) \in T /\ Size(T \ {Pick(T)}) < Size(T)
Induction == \A N : 0 \in N /\ (\A n \in Nat : n \in N => n + 1 \in N) => Nat \subseteq N
Foldable(S) == Measured(S) /\ Induction

(* Of the places of a list the last one is taken last. *)
TakesLast ==
    \A n \in Nat : /\ Foldable(1..n)
                   /\ \A T \in SUBSET (1..n) : \A j \in T : Pick(T) >= j

(* No step breaks the invariant. *)
Steady(k, base, S) ==
    \A T \in SUBSET S : \A d : T # {} /\ Holds(k, base, T \ {Pick(T)}, d)
                              => Holds(k, base, T, Step(k, Pick(T), d))

(* Such a function exists for every set of indices that comes to an end.   *)
LEMMA StepsExist ==
    ASSUME NEW k, NEW base, NEW S, Foldable(S)
    PROVE  \E h : IsFold(h, k, base, S)
<1>1. Measured(S)
  BY DEF Foldable
<1>2. \A T \in SUBSET S : Size(T) \in Nat /\ Size(T) <= Size(S)
  BY <1>1 DEF Measured
<1>3. ASSUME NEW T \in SUBSET S, T # {}, NEW R, R = T \ {Pick(T)}
      PROVE  R \in SUBSET S /\ Size(R) \in Nat /\ Size(R) < Size(T)
  <2>1. R \in SUBSET S
    BY <1>3
  <2>2. Size(R) < Size(T)
    BY <1>1, <1>3 DEF Measured
  <2>3. QED
    BY <2>1, <2>2, <1>2
<1> DEFINE Small(n) == {T \in SUBSET S : Size(T) <= n}
           Good(h, n) == h = [T \in Small(n) |-> IF T = {} THEN base
                                                 ELSE Step(k, Pick(T), h[T \ {Pick(T)}])]
           N == {n \in Nat : \E h : Good(h, n)}
<1>4. ASSUME NEW n \in Nat, NEW T \in Small(n + 1), T # {} PROVE T \ {Pick(T)} \in Small(n)
  <2>1. PICK R : R = T \ {Pick(T)}
    OBVIOUS
  <2>2. T \in SUBSET S /\ Size(T) \in Nat /\ Size(T) <= n + 1
    BY <1>2, <1>4
  <2>3. R \in SUBSET S /\ Size(R) \in Nat /\ Size(R) < Size(T)
    BY <1>3, <1>4, <2>1, <2>2
  <2>4. QED
    BY <2>1, <2>2, <2>3
<1>5. 0 \in N
  <2>1. ASSUME NEW T \in Small(0) PROVE T = {}
    <3>1. PICK R : R = T \ {Pick(T)}
      OBVIOUS
    <3>2. T # {} => Size(R) \in Nat /\ Size(R) < Size(T)
      BY <1>3, <2>1, <3>1
    <3>3. Size(T) \in Nat /\ Size(T) <= 0
      BY <1>2, <2>1
    <3>4. QED
      BY <3>2, <3>3
  <2>2. Good([T \in Small(0) |-> base], 0)
    BY <2>1
  <2>3. QED
    BY <2>2
<1>6. ASSUME NEW n \in Nat, n \in N PROVE n + 1 \in N
  <2>1. PICK h : Good(h, n)
    BY <1>6
  <2> DEFINE g == [T \in Small(n + 1) |-> IF T = {} THEN base
                                          ELSE Step(k, Pick(T), h[T \ {Pick(T)}])]
  <2>2. \A T \in Small(n) : T \in Small(n + 1) /\ g[T] = h[T]
    <3> TAKE T \in Small(n)
    <3>1. T \in Small(n + 1)
      BY <1>2
    <3>2. h[T] = IF T = {} THEN base ELSE Step(k, Pick(T), h[T \ {Pick(T)}])
      BY <2>1
    <3>3. QED
      BY <3>1, <3>2
  <2>3. \A T \in Small(n + 1) : T # {} => g[T \ {Pick(T)}] = h[T \ {Pick(T)}]
    BY <1>4, <2>2
  <2>4. g = [T \in Small(n + 1) |-> IF T = {} THEN base
                                    ELSE Step(k, Pick(T), g[T \ {Pick(T)}])]
    BY <2>3
  <2>5. Good(g, n + 1)
    BY <2>4
  <2> HIDE DEF g, Good
  <2>6. QED
    BY <2>5
<1>7. Nat \subseteq N
  <2> HIDE DEF N
  <2>1. QED
    BY <1>5, <1>6 DEF Foldable, Induction
<1>8. Size(S) \in N
  BY <1>2, <1>7
<1>9. Small(Size(S)) = SUBSET S
  BY <1>2
<1>10. QED
  BY <1>8, <1>9 DEF IsFold

(* The value of the fold is one.                                           *)
LEMMA FoldIs == ASSUME NEW k, NEW base, NEW S, Foldable(S) PROVE IsFold(FoldOf(k, base, S), k, base, S)
  BY StepsExist DEF FoldOf

(* What holds at the start and from step to step holds at the end: of a    *)
(* loop over a set,                                                        *)
LEMMA SetHolds ==
    ASSUME NEW k, NEW base, NEW S, Foldable(S), Holds(k, base, {}, base), Steady(k, base, S)
    PROVE  Holds(k, base, S, FoldOf(k, base, S)[S])
<1>1. PICK a : a = FoldOf(k, base, S)
  OBVIOUS
<1>2. a[{}] = base /\ \A T \in SUBSET S : T # {} => a[T] = Step(k, Pick(T), a[T \ {Pick(T)}])
  <2>1. IsFold(a, k, base, S)
    BY <1>1, FoldIs
  <2>2. QED
    BY <2>1 DEF IsFold
<1>3. Measured(S)
  BY DEF Foldable
<1>4. \A T \in SUBSET S : Size(T) \in Nat
  BY <1>3 DEF Measured
<1> DEFINE N == {m \in Nat : \A T \in SUBSET S : Size(T) <= m => Holds(k, base, T, a[T])}
<1>5. ASSUME NEW T \in SUBSET S, T # {},
             \A R \in SUBSET S : Size(R) < Size(T) => Holds(k, base, R, a[R])
      PROVE  Holds(k, base, T, a[T])
  <2>1. PICK R : R = T \ {Pick(T)}
    OBVIOUS
  <2>2. R \in SUBSET S /\ Size(R) < Size(T)
    <3>1. Size(T \ {Pick(T)}) < Size(T)
      BY <1>3, <1>5 DEF Measured
    <3>2. QED
      BY <2>1, <3>1
  <2>3. Holds(k, base, R, a[R])
    BY <1>5, <2>2
  <2>4. Holds(k, base, T, Step(k, Pick(T), a[R]))
    BY <1>5, <2>1, <2>3 DEF Steady
  <2>5. QED
    BY <1>2, <1>5, <2>1, <2>4
<1>6. 0 \in N
  <2> SUFFICES ASSUME NEW T \in SUBSET S, Size(T) <= 0 PROVE Holds(k, base, T, a[T])
    OBVIOUS
  <2>1. \A R \in SUBSET S : ~(Size(R) < Size(T))
    BY <1>4
  <2>2. QED
    BY <1>2, <1>5, <2>1
<1>7. ASSUME NEW m \in Nat, m \in N PROVE m + 1 \in N
  <2> SUFFICES ASSUME NEW T \in SUBSET S, Size(T) <= m + 1 PROVE Holds(k, base, T, a[T])
    OBVIOUS
  <2>1. \A R \in SUBSET S : Size(R) < Size(T) => Holds(k, base, R, a[R])
    <3> TAKE R \in SUBSET S
    <3>1. Size(R) < Size(T) => Size(R) <= m
      BY <1>4
    <3>2. QED
      BY <3>1, <1>7
  <2>2. QED
    BY <1>2, <1>5, <2>1
<1> HIDE DEF N
<1>8. Nat \subseteq N
  BY <1>6, <1>7 DEF Foldable, Induction
<1>9. Size(S) \in N
  BY <1>4, <1>8
<1>10. QED
  BY <1>1, <1>4, <1>9 DEF N

(* and of a loop over a list, where the indices so far are a number.       *)
LEMMA ListHolds ==
    ASSUME NEW k, NEW base, NEW n \in Nat, TakesLast, Holds(k, base, 0, base),
           \A i \in 1..n : \A d : Holds(k, base, i - 1, d) => Holds(k, base, i, Step(k, i, d))
    PROVE  Holds(k, base, n, FoldOf(k, base, 1..n)[1..n])
<1>1. PICK D : D = 1..n
  OBVIOUS
<1>2. PICK a : a = FoldOf(k, base, D)
  OBVIOUS
<1>3. a[{}] = base /\ \A T \in SUBSET D : T # {} => a[T] = Step(k, Pick(T), a[T \ {Pick(T)}])
  <2>1. Foldable(D)
    BY <1>1 DEF TakesLast
  <2>2. IsFold(a, k, base, D)
    BY <1>2, <2>1, FoldIs
  <2>3. QED
    BY <2>2 DEF IsFold
<1> DEFINE N == {i \in Nat : i <= n => Holds(k, base, i, a[1..i])}
<1>4. 0 \in N
  <2>1. 1..0 = {}
    OBVIOUS
  <2>2. QED
    BY <1>3, <2>1
<1>5. ASSUME NEW i \in Nat, i \in N PROVE i + 1 \in N
  <2> SUFFICES ASSUME i + 1 <= n PROVE Holds(k, base, i + 1, a[1..(i + 1)])
    OBVIOUS
  <2>1. PICK j, T : j = i + 1 /\ T = 1..j
    OBVIOUS
  <2>2. j \in D /\ j - 1 = i /\ j \in T
    BY <1>1, <2>1
  <2>3. T \in SUBSET D /\ T # {}
    <3>1. \A x \in T : x \in D
      BY <1>1, <2>1, <2>2
    <3>2. QED
      BY <2>2, <3>1
  <2>4. Pick(T) = j
    <3>1. Pick(T) \in T
      <4>1. Measured(D)
        BY <1>1 DEF TakesLast, Foldable
      <4>2. QED
        BY <2>3, <4>1 DEF Measured
    <3>2. Pick(T) >= j
      BY <1>1, <2>2, <2>3 DEF TakesLast
    <3>3. QED
      BY <2>1, <3>1, <3>2
  <2>5. T \ {j} = 1..i
    BY <2>1
  <2>6. a[T] = Step(k, j, a[1..i])
    BY <1>3, <2>3, <2>4, <2>5
  <2>7. Holds(k, base, i, a[1..i])
    BY <1>5
  <2>8. Holds(k, base, j, a[T])
    BY <1>1, <2>2, <2>6, <2>7
  <2>9. QED
    BY <2>1, <2>8
<1> HIDE DEF N
<1>6. Nat \subseteq N
  BY <1>4, <1>5 DEF TakesLast, Foldable, Induction
<1>7. n \in N
  BY <1>6
<1>8. QED
  BY <1>1, <1>2, <1>7 DEF N
================================================================================
