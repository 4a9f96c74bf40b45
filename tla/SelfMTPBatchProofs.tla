--------------------------- MODULE SelfMTPBatchProofs ---------------------------
(***************************************************************************)
(* Proofs about SelfMTPBatch: the self-MTP half of the batch generator,    *)
(* for any prompts, policies, costs and readings of free memory.           *)
(*                                                                         *)
(* A round is a chain of stages, each an operator that maps a state of the *)
(* lanes to its possible next ones.  RoundOK is what all stages keep: no   *)
(* stage loses, copies or mixes up a request.                              *)
(*                                                                         *)
(* First comes SelfMTPAdmission, for lanes of any number and cost and any  *)
(* reading of free memory: the greedy choice of _fit, the cheapest lanes,  *)
(* is as large as any set of lanes that would be safe, so the plan is what *)
(* decide promises, and holding lanes back keeps it safe.                  *)
(***************************************************************************)
EXTENDS SelfMTPBatch, BatchGeneratorProofs

--------------------------------------------------------------------------------
(* The admission plan.                                                     *)

(* What the callback hands to the controller. *)
LaneRow(row) ==
    /\ row.context \in Nat /\ row.cache \in Nat /\ row.pending \in Nat
    /\ row.resident \in BOOLEAN
LaneRows(rows) == \E n \in Nat : DOMAIN rows = 1..n /\ Len(rows) = n
                                 /\ \A i \in 1..n : LaneRow(rows[i])

(* Every lane costs something and the lanes are finitely many.             *)
LEMMA CostsAreNumbers ==
    ASSUME NEW rows, LaneRows(rows), NEW depth \in 0..MaxDepth
    PROVE  /\ IsFiniteSet(DOMAIN rows) /\ Cardinality(DOMAIN rows) = Len(rows) /\ Len(rows) \in Nat
           /\ DOMAIN rows = 1..Len(rows)
           /\ \A i \in DOMAIN rows : /\ LaneCost(rows[i], depth) \in Nat
                                     /\ Costs(rows, depth)[i] = LaneCost(rows[i], depth)
<1>1. PICK n \in Nat : DOMAIN rows = 1..n /\ Len(rows) = n /\ \A i \in 1..n : LaneRow(rows[i])
  BY DEF LaneRows
<1>2. IsFiniteSet(DOMAIN rows) /\ Cardinality(DOMAIN rows) = n
  BY <1>1, FS_Interval
<1>3. ASSUME NEW i \in DOMAIN rows PROVE LaneCost(rows[i], depth) \in Nat
  <2>1. LaneRow(rows[i]) /\ Transient[depth] \in Nat /\ Growth \in Nat
    BY <1>1, AdmissionAssumption
  <2>2. QED
    BY <2>1 DEF LaneCost, LaneRow
<1>4. QED
  BY <1>1, <1>2, <1>3 DEF Costs

(* The cost of a set of lanes is a number that grows with the set.         *)
LEMMA CostGrows ==
    ASSUME NEW rows, LaneRows(rows), NEW depth \in 0..MaxDepth,
           NEW S \in SUBSET DOMAIN rows, NEW T \in SUBSET S
    PROVE  /\ CostOf(rows, depth, T) \in Nat /\ CostOf(rows, depth, S) \in Nat
           /\ CostOf(rows, depth, T) <= CostOf(rows, depth, S)
<1>1. IsFiniteSet(S)
  BY CostsAreNumbers, FS_Subset
<1>2. \A i \in S : Costs(rows, depth)[i] \in Nat
  BY CostsAreNumbers
<1>3. QED
  BY <1>1, <1>2, SumSubset DEF CostOf

--------------------------------------------------------------------------------
(* The lanes that are not dearer than lane i, in the order of _fit.        *)
NotDearer(rows, depth) ==
    [i \in DOMAIN rows |->
        {j \in DOMAIN rows : \/ LaneCost(rows[j], depth) < LaneCost(rows[i], depth)
                             \/ /\ LaneCost(rows[j], depth) = LaneCost(rows[i], depth)
                                /\ j <= i}]

(* _fit takes a lane if it and those not dearer fit.                       *)
LEMMA FitByRank ==
    ASSUME NEW rows, NEW depth, NEW free, NEW cap
    PROVE  Fit(rows, depth, free, cap) =
             {i \in DOMAIN rows : /\ Cardinality(NotDearer(rows, depth)[i]) <= cap
                                  /\ CostOf(rows, depth, NotDearer(rows, depth)[i]) <= free}
  BY DEF Fit, NotDearer

(* It is a linear order, so its initial segments have every size.          *)
LEMMA OrderOfCost ==
    ASSUME NEW rows, LaneRows(rows), NEW depth \in 0..MaxDepth
    PROVE  LET upTo == NotDearer(rows, depth) IN
           /\ \A i \in DOMAIN rows : upTo[i] \in SUBSET DOMAIN rows /\ i \in upTo[i]
           /\ \A i, j \in DOMAIN rows : j \in upTo[i] => upTo[j] \subseteq upTo[i]
           /\ \A i, j \in DOMAIN rows : j \in upTo[i] \/ i \in upTo[j]
           /\ \A i, j \in DOMAIN rows : upTo[i] = upTo[j] => i = j
           /\ \A i \in DOMAIN rows : Cardinality(upTo[i]) \in 1..Len(rows)
           /\ \A k \in 1..Len(rows) : \E i \in DOMAIN rows : Cardinality(upTo[i]) = k
<1> DEFINE upTo == NotDearer(rows, depth)
           D == DOMAIN rows
           gib == [i \in D |-> LaneCost(rows[i], depth)]
<1>1. /\ IsFiniteSet(D) /\ Cardinality(D) = Len(rows) /\ D = 1..Len(rows) /\ Len(rows) \in Nat
      /\ \A i \in D : gib[i] \in Nat
  BY CostsAreNumbers
<1>2. \A i \in D : upTo[i] = {j \in D : gib[j] < gib[i] \/ (gib[j] = gib[i] /\ j <= i)}
  BY DEF NotDearer
<1> HIDE DEF upTo, gib, D
<1>3. \A i \in D : i \in Int
  BY <1>1
<1>4. \A i \in D : upTo[i] \in SUBSET D /\ i \in upTo[i]
  BY <1>1, <1>2, <1>3
<1>5. \A i, j \in D : j \in upTo[i] => upTo[j] \subseteq upTo[i]
  <2> SUFFICES ASSUME NEW i \in D, NEW j \in D, j \in upTo[i], NEW k \in upTo[j]
               PROVE  k \in upTo[i]
    BY Zenon
  <2>1. k \in D /\ (gib[k] < gib[j] \/ (gib[k] = gib[j] /\ k <= j))
    BY <1>2
  <2>2. gib[j] < gib[i] \/ (gib[j] = gib[i] /\ j <= i)
    BY <1>2
  <2>3. /\ gib[i] \in Nat /\ gib[j] \in Nat /\ gib[k] \in Nat
        /\ i \in Int /\ j \in Int /\ k \in Int
    BY <1>1, <1>3, <2>1
  <2>4. gib[k] < gib[i] \/ (gib[k] = gib[i] /\ k <= i)
    BY <2>1, <2>2, <2>3
  <2>5. QED
    BY <1>2, <2>1, <2>4
<1>6. \A i, j \in D : j \in upTo[i] \/ i \in upTo[j]
  <2> SUFFICES ASSUME NEW i \in D, NEW j \in D
               PROVE  j \in upTo[i] \/ i \in upTo[j]
    OBVIOUS
  <2>1. gib[i] \in Nat /\ gib[j] \in Nat /\ i \in Int /\ j \in Int
    BY <1>1, <1>3
  <2>2. \/ gib[j] < gib[i] \/ (gib[j] = gib[i] /\ j <= i)
        \/ gib[i] < gib[j] \/ (gib[i] = gib[j] /\ i <= j)
    BY <2>1
  <2>3. QED
    BY <1>2, <2>2
<1>7. \A i, j \in D : upTo[i] = upTo[j] => i = j
  <2> SUFFICES ASSUME NEW i \in D, NEW j \in D, upTo[i] = upTo[j] PROVE i = j
    OBVIOUS
  <2>1. i \in upTo[j] /\ j \in upTo[i]
    BY <1>4
  <2>2. /\ gib[i] < gib[j] \/ (gib[i] = gib[j] /\ i <= j)
        /\ gib[j] < gib[i] \/ (gib[j] = gib[i] /\ j <= i)
    BY <2>1, <1>2
  <2>3. gib[i] \in Nat /\ gib[j] \in Nat /\ i \in Int /\ j \in Int
    BY <1>1, <1>3
  <2>4. QED
    BY <2>2, <2>3
<1>8. /\ \A i \in D : Cardinality(upTo[i]) \in 1..Len(rows)
      /\ \A k \in 1..Len(rows) : \E i \in D : Cardinality(upTo[i]) = k
  <2>1. \A i, j \in D : upTo[i] \subseteq upTo[j] \/ upTo[j] \subseteq upTo[i]
    BY <1>5, <1>6
  <2>2. /\ \A i \in D : Cardinality(upTo[i]) \in 1..Cardinality(D)
        /\ \A k \in 1..Cardinality(D) : \E i \in D : Cardinality(upTo[i]) = k
    <3>1. IsFiniteSet(D)
      BY <1>1
    <3>2. QED
      BY <3>1, <1>4, <1>7, <2>1, Ranks
  <2>3. QED
    BY <1>1, <2>2
<1>9. QED
  BY <1>4, <1>5, <1>6, <1>7, <1>8 DEF upTo, D

(* An initial segment costs no more than any other set of its size.        *)
LEMMA CheapestFirst ==
    ASSUME NEW rows, LaneRows(rows), NEW depth \in 0..MaxDepth,
           NEW i \in DOMAIN rows, NEW T \in SUBSET DOMAIN rows,
           Cardinality(T) = Cardinality(NotDearer(rows, depth)[i])
    PROVE  CostOf(rows, depth, NotDearer(rows, depth)[i]) <= CostOf(rows, depth, T)
<1> DEFINE D == DOMAIN rows
           U == NotDearer(rows, depth)[i]
           f == Costs(rows, depth)
           b == f[i]
<1>1. /\ IsFiniteSet(D) /\ \A j \in D : f[j] \in Nat /\ f[j] = LaneCost(rows[j], depth)
      /\ D = 1..Len(rows) /\ Len(rows) \in Nat
  BY CostsAreNumbers
<1>2. U \in SUBSET D
  BY OrderOfCost
<1>3. /\ \A j \in U : f[j] <= b
      /\ \A j \in D \ U : f[j] >= b
  <2>1. U = {j \in D : f[j] < f[i] \/ (f[j] = f[i] /\ j <= i)}
    BY <1>1 DEF NotDearer
  <2> HIDE DEF U, f
  <2>2. QED
    BY <1>1, <2>1
<1> HIDE DEF U, f, D
<1>4. /\ IsFiniteSet(U) /\ IsFiniteSet(T)
      /\ IsFiniteSet(U \cap T) /\ IsFiniteSet(U \ T) /\ IsFiniteSet(T \ U)
  <2>1. IsFiniteSet(U) /\ IsFiniteSet(T)
    BY <1>1, <1>2, FS_Subset DEF D
  <2>2. QED
    BY <2>1, FS_Intersection, FS_Difference
<1>5. Cardinality(U \ T) = Cardinality(T \ U) /\ Cardinality(U \ T) \in Nat
  <2>1. /\ Cardinality(U \ T) = Cardinality(U) - Cardinality(U \cap T)
        /\ Cardinality(T \ U) = Cardinality(T) - Cardinality(T \cap U)
    BY <1>4, FS_Difference
  <2>2. U \cap T = T \cap U
    OBVIOUS
  <2>3. Cardinality(U \ T) \in Nat
    BY <1>4, FS_CardinalityType
  <2>4. Cardinality(T) = Cardinality(U)
    BY DEF U
  <2>5. QED
    BY <2>1, <2>2, <2>3, <2>4
<1>6. U \subseteq D /\ T \subseteq D /\ i \in D
  BY <1>2 DEF D
<1>7. b \in Int
  BY <1>1, <1>6
<1>8. SumFunctionOnSet(f, U) = SumFunctionOnSet(f, U \cap T) + SumFunctionOnSet(f, U \ T)
  <2>1. (U \cap T) \cup (U \ T) = U /\ (U \ T) \cap (U \cap T) = {}
    OBVIOUS
  <2>2. \A j \in (U \ T) \cup (U \cap T) : f[j] \in Int
    BY <1>1, <1>6
  <2>3. SumFunctionOnSet(f, (U \cap T) \cup (U \ T))
          = SumFunctionOnSet(f, U \cap T) + SumFunctionOnSet(f, U \ T)
    BY <1>4, <2>1, <2>2, SumUnion
  <2>4. QED
    BY <2>1, <2>3
<1>9. SumFunctionOnSet(f, T) = SumFunctionOnSet(f, U \cap T) + SumFunctionOnSet(f, T \ U)
  <2>1. (U \cap T) \cup (T \ U) = T /\ (T \ U) \cap (U \cap T) = {}
    OBVIOUS
  <2>2. \A j \in (T \ U) \cup (U \cap T) : f[j] \in Int
    BY <1>1, <1>6
  <2>3. SumFunctionOnSet(f, (U \cap T) \cup (T \ U))
          = SumFunctionOnSet(f, U \cap T) + SumFunctionOnSet(f, T \ U)
    BY <1>4, <2>1, <2>2, SumUnion
  <2>4. QED
    BY <2>1, <2>3
<1>10. SumFunctionOnSet(f, U \ T) <= b * Cardinality(U \ T)
  <2>1. \A j \in U \ T : f[j] \in Int /\ f[j] <= b
    BY <1>1, <1>3, <1>6
  <2> HIDE DEF b
  <2>2. QED
    BY <1>4, <1>7, <2>1, SumAtMost
<1>11. SumFunctionOnSet(f, T \ U) >= b * Cardinality(T \ U)
  <2>1. \A j \in T \ U : f[j] \in Int /\ f[j] >= b
    BY <1>1, <1>3, <1>6
  <2> HIDE DEF b
  <2>2. QED
    BY <1>4, <1>7, <2>1, SumAtLeast
<1>12. /\ SumFunctionOnSet(f, U \cap T) \in Int /\ SumFunctionOnSet(f, U \ T) \in Int
       /\ SumFunctionOnSet(f, T \ U) \in Int
  <2>1. \A j \in D : f[j] \in Int
    BY <1>1
  <2>2. U \cap T \subseteq D /\ U \ T \subseteq D /\ T \ U \subseteq D
    BY <1>6
  <2>3. QED
    BY <1>4, <2>1, <2>2, SumInt
<1>13. b * Cardinality(U \ T) \in Int /\ b * Cardinality(T \ U) = b * Cardinality(U \ T)
  <2> HIDE DEF b
  <2>1. QED
    BY <1>5, <1>7
<1>14. SumFunctionOnSet(f, U) <= SumFunctionOnSet(f, T)
  BY <1>8, <1>9, <1>10, <1>11, <1>12, <1>13
<1>15. QED
  BY <1>14 DEF CostOf, U, f

--------------------------------------------------------------------------------
(* The caps are whole numbers.                                             *)
LEMMA CapIsWhole ==
    ASSUME NEW rows, Len(rows) \in Nat, NEW d \in Nat \ {0}
    PROVE  Cap(rows, d) \in Int
<1> DEFINE room == {0, RowCap - Len(rows)}
           caps == {LaneCap, Max(room) \div d}
<1>1. IsFiniteSet(room) /\ room \subseteq Int /\ room # {}
  <2>1. RowCap - Len(rows) \in Int
    BY AdmissionAssumption
  <2>2. IsFiniteSet(room)
    BY PairIsFinite
  <2>3. QED
    BY <2>1, <2>2
<1>2. Max(room) \in Int
  <2> HIDE DEF room
  <2>1. QED
    BY <1>1, MaxIn
<1>3. IsFiniteSet(caps) /\ caps \subseteq Int /\ caps # {}
  <2>1. Max(room) \div d \in Int
    <3> HIDE DEF room
    <3>1. QED
      BY <1>2
  <2>2. LaneCap \in Int
    BY AdmissionAssumption
  <2> HIDE DEF room
  <2>3. QED
    BY <2>1, <2>2, PairIsFinite
<1>4. Min(caps) \in Int
  <2> HIDE DEF caps
  <2>1. QED
    BY <1>3, MinIn
<1>5. QED
  BY <1>4 DEF Cap

(* What _fit chooses is safe: it is an initial segment of the order.       *)
LEMMA FitIsSafe ==
    ASSUME NEW rows, LaneRows(rows), NEW depth \in 0..MaxDepth, NEW free \in Nat, NEW cap \in Int,
           Fit(rows, depth, free, cap) # {}
    PROVE  /\ Fit(rows, depth, free, cap) \in SUBSET DOMAIN rows
           /\ CostOf(rows, depth, Fit(rows, depth, free, cap)) <= free
           /\ Cardinality(Fit(rows, depth, free, cap)) <= cap
<1> DEFINE D == DOMAIN rows
           upTo == NotDearer(rows, depth)
           fit == Fit(rows, depth, free, cap)
           Sizes == {Cardinality(upTo[i]) : i \in fit}
<1>1. fit = {i \in D : Cardinality(upTo[i]) <= cap /\ CostOf(rows, depth, upTo[i]) <= free}
  BY FitByRank
<1>2. /\ IsFiniteSet(D) /\ Len(rows) \in Nat
      /\ \A i \in D : upTo[i] \in SUBSET D /\ i \in upTo[i]
                      /\ Cardinality(upTo[i]) \in 1..Len(rows)
      /\ \A i, j \in D : j \in upTo[i] => upTo[j] \subseteq upTo[i]
      /\ \A i, j \in D : j \in upTo[i] \/ i \in upTo[j]
      /\ \A i, j \in D : upTo[i] = upTo[j] => i = j
  BY CostsAreNumbers, OrderOfCost
<1> HIDE DEF fit, upTo, D
<1>3. PICK m \in fit : \A j \in fit : Cardinality(upTo[m]) >= Cardinality(upTo[j])
  <2>1. Sizes \in SUBSET (1..Len(rows))
    BY <1>1, <1>2
  <2>2. IsFiniteSet(Sizes)
    <3>1. IsFiniteSet(1..Len(rows))
      BY <1>2, FS_Interval
    <3> HIDE DEF Sizes
    <3>2. QED
      BY <2>1, <3>1, FS_Subset
  <2>3. Sizes # {}
    BY DEF fit
  <2>4. Max(Sizes) \in Sizes /\ \A y \in Sizes : Max(Sizes) >= y
    <3> HIDE DEF Sizes
    <3>1. Sizes \subseteq Int
      BY <2>1
    <3>2. QED
      BY <2>2, <2>3, <3>1, MaxIn
  <2>5. QED
    BY <2>4
<1>4. m \in D /\ IsFiniteSet(upTo[m])
  BY <1>1, <1>2, FS_Subset
<1>5. fit \subseteq upTo[m]
  <2> SUFFICES ASSUME NEW j \in fit, j \notin upTo[m] PROVE FALSE
    OBVIOUS
  <2>1. j \in D /\ m \in upTo[j]
    BY <1>1, <1>2, <1>4
  <2>2. upTo[m] \in SUBSET upTo[j] /\ IsFiniteSet(upTo[j])
    BY <1>2, <1>4, <2>1, FS_Subset
  <2>3. Cardinality(upTo[m]) <= Cardinality(upTo[j])
    BY <2>2, FS_Subset
  <2>4. Cardinality(upTo[m]) = Cardinality(upTo[j])
    BY <1>2, <1>3, <1>4, <2>1, <2>3
  <2>5. upTo[m] = upTo[j]
    BY <2>2, <2>4, FS_Subset
  <2>6. QED
    BY <1>2, <2>1, <2>5
<1>6. upTo[m] \subseteq fit
  <2> SUFFICES ASSUME NEW j \in upTo[m] PROVE j \in fit
    OBVIOUS
  <2>1. j \in D /\ upTo[j] \in SUBSET upTo[m] /\ upTo[m] \in SUBSET D
    BY <1>2, <1>4
  <2>2. Cardinality(upTo[j]) <= Cardinality(upTo[m])
    BY <1>4, <2>1, FS_Subset
  <2>3. /\ CostOf(rows, depth, upTo[j]) <= CostOf(rows, depth, upTo[m])
        /\ CostOf(rows, depth, upTo[j]) \in Nat /\ CostOf(rows, depth, upTo[m]) \in Nat
    BY <2>1, CostGrows DEF D
  <2>4. Cardinality(upTo[m]) <= cap /\ CostOf(rows, depth, upTo[m]) <= free
    BY <1>1
  <2>5. Cardinality(upTo[j]) \in Int /\ Cardinality(upTo[m]) \in Int
    BY <1>2, <1>4, <2>1
  <2>6. QED
    BY <1>1, <2>1, <2>2, <2>3, <2>4, <2>5
<1>7. fit = upTo[m]
  BY <1>5, <1>6
<1>8. Cardinality(upTo[m]) <= cap /\ CostOf(rows, depth, upTo[m]) <= free /\ upTo[m] \in SUBSET D
  BY <1>1, <1>2, <1>4
<1>9. QED
  BY <1>7, <1>8 DEF fit, D

(* No safe set has more lanes than _fit chooses.                           *)
LEMMA FitIsLargest ==
    ASSUME NEW rows, LaneRows(rows), NEW depth \in 0..MaxDepth, NEW free \in Nat, NEW cap \in Int,
           NEW T \in SUBSET DOMAIN rows, CostOf(rows, depth, T) <= free, Cardinality(T) <= cap
    PROVE  Cardinality(T) <= Cardinality(Fit(rows, depth, free, cap))
<1> DEFINE D == DOMAIN rows
           upTo == NotDearer(rows, depth)
           fit == Fit(rows, depth, free, cap)
<1>1. fit = {i \in D : Cardinality(upTo[i]) <= cap /\ CostOf(rows, depth, upTo[i]) <= free}
  BY FitByRank
<1>2. IsFiniteSet(D) /\ Cardinality(D) = Len(rows) /\ Len(rows) \in Nat
  BY CostsAreNumbers
<1>3. IsFiniteSet(T) /\ Cardinality(T) \in Nat /\ Cardinality(T) <= Len(rows)
  BY <1>2, FS_Subset, FS_CardinalityType
<1>4. IsFiniteSet(fit) /\ Cardinality(fit) \in Nat
  <2>1. fit \in SUBSET D
    BY <1>1
  <2> HIDE DEF fit
  <2>2. QED
    BY <1>2, <2>1, FS_Subset, FS_CardinalityType
<1>5. CASE Cardinality(T) = 0
  BY <1>4, <1>5
<1>6. CASE Cardinality(T) # 0
  <2>1. Cardinality(T) \in 1..Len(rows)
    BY <1>2, <1>3, <1>6
  <2>2. PICK i \in D : Cardinality(upTo[i]) = Cardinality(T)
    BY <2>1, OrderOfCost
  <2>3. CostOf(rows, depth, upTo[i]) <= CostOf(rows, depth, T)
    BY <2>2, CheapestFirst
  <2>4. upTo[i] \in SUBSET D
    BY OrderOfCost
  <2>5. CostOf(rows, depth, upTo[i]) \in Nat /\ CostOf(rows, depth, T) \in Nat
    <3>1. T \in SUBSET T /\ upTo[i] \in SUBSET upTo[i]
      OBVIOUS
    <3>2. QED
      BY <2>4, <3>1, CostGrows
  <2>6. i \in fit
    <3>1. Cardinality(upTo[i]) <= cap
      BY <2>2
    <3>2. CostOf(rows, depth, upTo[i]) <= free
      BY <2>3, <2>5
    <3>3. QED
      BY <1>1, <3>1, <3>2
  <2>7. upTo[i] \in SUBSET fit
    <3> SUFFICES ASSUME NEW j \in upTo[i] PROVE j \in fit
      OBVIOUS
    <3>1. j \in D /\ upTo[j] \in SUBSET upTo[i]
      BY <2>4, OrderOfCost
    <3>2. IsFiniteSet(upTo[i])
      BY <1>2, <2>4, FS_Subset
    <3>3. Cardinality(upTo[j]) <= Cardinality(upTo[i]) /\ Cardinality(upTo[j]) \in Nat
      BY <3>1, <3>2, FS_Subset, FS_CardinalityType
    <3>4. CostOf(rows, depth, upTo[j]) <= CostOf(rows, depth, upTo[i])
      BY <2>4, <3>1, CostGrows
    <3>5. CostOf(rows, depth, upTo[j]) \in Nat
      BY <2>4, <3>1, CostGrows
    <3>6. Cardinality(upTo[j]) <= cap
      BY <2>2, <1>3, <3>3
    <3>7. CostOf(rows, depth, upTo[j]) <= free
      BY <2>3, <2>5, <3>4, <3>5
    <3>8. QED
      BY <1>1, <3>1, <3>6, <3>7
  <2>8. QED
    <3>1. Cardinality(upTo[i]) <= Cardinality(fit)
      <4> HIDE DEF fit, upTo
      <4>1. QED
        BY <1>4, <2>7, FS_Subset
    <3>2. QED
      BY <2>2, <3>1
<1>7. QED
  BY <1>5, <1>6

--------------------------------------------------------------------------------
(* decide keeps the promise of its docstring: the largest safe set of      *)
(* lanes at the greatest depth at which any lane fits, else one safe plain *)
(* lane, else none, however many lanes there are and whatever they cost.   *)
THEOREM PlanIsLargestSafe ==
    ASSUME NEW rows, LaneRows(rows), NEW free \in Nat
    PROVE  LargestSafe(rows, free)
<1> DEFINE D == DOMAIN rows
           plan == Plan(rows, free)
           Chosen(d) == Fit(rows, d, free, Cap(rows, d))
           depths == {d \in 1..MaxDepth : Chosen(d) # {}}
           alone == Fit(rows, 0, free, Len(rows))
           chosen == {i \in D : Speculates(plan[i])}
           plain == {i \in D : plan[i] = Plain}
           Safe(d, set) == CostOf(rows, d, set) <= free /\ Cardinality(set) <= Cap(rows, d)
<1>1. IsFiniteSet(D) /\ Cardinality(D) = Len(rows) /\ Len(rows) \in Nat /\ D = 1..Len(rows)
  <2>1. 0 \in 0..MaxDepth
    BY AdmissionAssumption
  <2>2. QED
    BY <2>1, CostsAreNumbers
<1>2. \A d \in 1..MaxDepth : Cap(rows, d) \in Int /\ d \in 0..MaxDepth
  BY <1>1, CapIsWhole, AdmissionAssumption
<1>3. \A d : Chosen(d) \subseteq D /\ alone \subseteq D
  BY FitByRank
<1>4. plan = [i \in D |->
                IF depths # {} THEN IF i \in Chosen(Max(depths)) THEN Max(depths) ELSE Queued
                ELSE IF alone # {} /\ i = Min(alone) THEN Plain ELSE Queued]
  BY DEF Plan
<1>5. \A d \in 1..MaxDepth, set \in SUBSET D :
          Safe(d, set) => Cardinality(set) <= Cardinality(Chosen(d))
  BY <1>2, FitIsLargest
<1>6. ASSUME NEW d \in 1..MaxDepth, Chosen(d) = {}, NEW i \in D PROVE ~Safe(d, {i})
  BY <1>5, <1>6, FS_EmptySet, FS_Singleton
<1>7. CASE depths # {}
  <2> DEFINE d == Max(depths)
  <2>1. d \in depths /\ \A k \in depths : d >= k
    <3>1. IsFiniteSet(depths) /\ depths \subseteq Int
      <4>1. IsFiniteSet(1..MaxDepth)
        BY FS_Interval, AdmissionAssumption
      <4>2. QED
        BY <4>1, FS_Subset, AdmissionAssumption
    <3> HIDE DEF depths
    <3>2. QED
      BY <1>7, <3>1, MaxIn
  <2> HIDE DEF d
  <2>2. d \in 1..MaxDepth /\ d > 0 /\ Chosen(d) # {}
    <3>1. d \in 1..MaxDepth /\ Chosen(d) # {}
      BY <2>1
    <3>2. QED
      BY <3>1, AdmissionAssumption
  <2>3. \A i \in D : plan[i] = IF i \in Chosen(d) THEN d ELSE Queued
    BY <1>4, <1>7 DEF d
  <2>4. chosen = Chosen(d)
    BY <1>3, <2>2, <2>3 DEF Speculates, Queued
  <2>5. plain = {}
    BY <2>2, <2>3 DEF Plain, Queued
  <2>6. Safe(d, chosen)
    BY <1>2, <2>2, <2>4, FitIsSafe
  <2>7. \A i \in chosen : plan[i] = d
    BY <2>3, <2>4
  <2>8. \A set \in SUBSET D : Safe(d, set) => Cardinality(set) <= Cardinality(chosen)
    BY <1>5, <2>2, <2>4
  <2>9. \A k \in (d + 1)..MaxDepth, i \in D : ~Safe(k, {i})
    <3> TAKE k \in (d + 1)..MaxDepth, i \in D
    <3>1. k \in 1..MaxDepth /\ k \notin depths
      BY <2>1, <2>2, AdmissionAssumption
    <3>2. Chosen(k) = {}
      BY <3>1
    <3>3. QED
      BY <1>6, <3>1, <3>2
  <2>10. \E e \in 1..MaxDepth :
            /\ \A i \in chosen : plan[i] = e
            /\ Safe(e, chosen) /\ plain = {}
            /\ \A set \in SUBSET D : Safe(e, set) => Cardinality(set) <= Cardinality(chosen)
            /\ \A k \in (e + 1)..MaxDepth, i \in D : ~Safe(k, {i})
    <3> HIDE DEF chosen, plain, plan, D, Safe
    <3>1. QED
      BY <2>2, <2>5, <2>6, <2>7, <2>8, <2>9
  <2>11. chosen # {}
    BY <2>2, <2>4
  <2>12. QED
    BY <2>10, <2>11 DEF LargestSafe
<1>8. CASE depths = {}
  <2>1. \A i \in D : plan[i] = IF alone # {} /\ i = Min(alone) THEN Plain ELSE Queued
    BY <1>4, <1>8
  <2>2. chosen = {}
    BY <2>1 DEF Speculates, Plain, Queued
  <2>3. \A k \in 1..MaxDepth, i \in D : ~Safe(k, {i})
    BY <1>6, <1>8
  <2>4. alone # {} => Min(alone) \in alone
    <3>1. IsFiniteSet(alone) /\ alone \subseteq Int
      BY <1>1, <1>3, FS_Subset
    <3> HIDE DEF alone
    <3>2. QED
      BY <3>1, MinIn
  <2>5. plain = IF alone # {} THEN {Min(alone)} ELSE {}
    BY <1>3, <2>1, <2>4 DEF Plain, Queued
  <2>6. 0 \in 0..MaxDepth
    BY AdmissionAssumption
  <2>7. \A i \in alone : CostOf(rows, 0, {i}) <= free
    <3> SUFFICES ASSUME NEW i \in alone PROVE CostOf(rows, 0, {i}) <= free
      OBVIOUS
    <3>1. i \in D /\ CostOf(rows, 0, alone) <= free /\ {i} \in SUBSET alone /\ alone \in SUBSET D
      BY <1>1, <1>3, <2>6, FitIsSafe
    <3> HIDE DEF alone, D
    <3>2. /\ CostOf(rows, 0, {i}) <= CostOf(rows, 0, alone)
          /\ CostOf(rows, 0, {i}) \in Nat /\ CostOf(rows, 0, alone) \in Nat
      BY <2>6, <3>1, CostGrows DEF D
    <3>3. QED
      BY <3>1, <3>2
  <2>8. \A i \in D : CostOf(rows, 0, {i}) <= free => alone # {}
    <3> SUFFICES ASSUME NEW i \in D, CostOf(rows, 0, {i}) <= free, alone = {} PROVE FALSE
      OBVIOUS
    <3>1. Cardinality({i}) = 1 /\ 1 <= Len(rows) /\ {i} \in SUBSET D
      <4>1. Cardinality({i}) = 1
        BY FS_Singleton
      <4>2. 1 <= Len(rows)
        BY <1>1
      <4>3. QED
        BY <4>1, <4>2
    <3>2. Cardinality({i}) <= Cardinality(alone)
      BY <1>1, <2>6, <3>1, FitIsLargest
    <3>3. Cardinality(alone) = 0
      <4> HIDE DEF alone
      <4>1. QED
        BY FS_EmptySet
    <3>4. QED
      BY <3>1, <3>2, <3>3
  <2>9. \A i \in plain : CostOf(rows, 0, {i}) <= free
    <3> HIDE DEF plain, alone
    <3>1. QED
      BY <2>4, <2>5, <2>7
  <2>10. Cardinality(plain) = IF \E i \in D : CostOf(rows, 0, {i}) <= free THEN 1 ELSE 0
    <3>1. alone # {} <=> \E i \in D : CostOf(rows, 0, {i}) <= free
      <4>1. alone \subseteq D
        BY <1>3
      <4> HIDE DEF alone, D
      <4>2. QED
        BY <2>4, <2>7, <2>8, <4>1
    <3> HIDE DEF plain, alone, D
    <3>2. QED
      BY <2>5, <3>1, FS_Singleton, FS_EmptySet
  <2>11. QED
    BY <2>2, <2>3, <2>9, <2>10 DEF LargestSafe
<1>9. QED
  BY <1>7, <1>8

(* The callback answers for every lane by its uid; what it holds back is   *)
(* taken off the plan.  Those that go on are safe together, and holding    *)
(* never stops the last one.                                               *)
LEMMA HeldRejoin ==
    ASSUME NEW rows, NEW plan, NEW free, NEW demoted,
           NEW h, h = Held(rows, plan, free, demoted)
    PROVE  /\ h \subseteq {i \in DOMAIN rows : Speculates(plan[i])}
           /\ h # {} => \E i \in DOMAIN rows \ h : Speculates(plan[i])
  BY DEF Held

(* What the callback answers for one lane.                                 *)
LEMMA AnswerOf ==
    ASSUME NEW rows, NEW plan, NEW held \in SUBSET DOMAIN rows, NEW demoted, Distinct(rows),
           NEW i \in DOMAIN rows
    PROVE  Answer(rows, plan, held, demoted).of[rows[i].uid] =
               IF i \in held \/ plan[i] = Queued THEN Queued ELSE plan[i]
<1> DEFINE D == DOMAIN rows
           queued == {rows[k].uid : k \in held \cup {j \in D : plan[j] = Queued}}
           u == rows[i].uid
<1>1. Answer(rows, plan, held, demoted).of =
         [w \in {rows[k].uid : k \in D} |->
             IF w \in queued THEN Queued
             ELSE plan[CHOOSE k \in D : rows[k].uid = w]]
  BY DEF Answer
<1>2. u \in {rows[k].uid : k \in D}
  OBVIOUS
<1>3. u \in queued <=> i \in held \/ plan[i] = Queued
  BY DEF Distinct
<1>4. (CHOOSE k \in D : rows[k].uid = u) = i
  BY DEF Distinct
<1>5. QED
  BY <1>1, <1>2, <1>3, <1>4

(* The lanes that may speculate after the callback held some back still    *)
(* fit, and if none may then decide had let none.                          *)
THEOREM VerdictIsSafe ==
    ASSUME NEW rows, LaneRows(rows), Distinct(rows), NEW free \in Nat, NEW demoted,
           NEW answer \in Answers(rows, free, demoted)
    PROVE  LET verdict == answer.of
               going == {i \in DOMAIN rows : Speculates(verdict[rows[i].uid])}
           IN  /\ \A i \in going : CostOf(rows, verdict[rows[i].uid], going) <= free
               /\ going = {} => \A i \in DOMAIN rows : ~Speculates(Plan(rows, free)[i])
<1> DEFINE D == DOMAIN rows
           plan == Plan(rows, free)
           verdict == answer.of
           going == {i \in D : Speculates(verdict[rows[i].uid])}
           chosen == {i \in D : Speculates(plan[i])}
<1>1. PICK held : held = Held(rows, plan, free, demoted) /\ answer = Answer(rows, plan, held, demoted)
  BY DEF Answers
<1>2. held \in SUBSET D /\ held \subseteq chosen
  BY <1>1, HeldRejoin
<1>3. held # {} => \E i \in D \ held : Speculates(plan[i])
  BY <1>1, HeldRejoin
<1> HIDE DEF plan
<1>4. \A i \in D : verdict[rows[i].uid] = IF i \in held \/ plan[i] = Queued THEN Queued ELSE plan[i]
  BY <1>1, <1>2, AnswerOf
<1> HIDE DEF verdict
<1>5. going = chosen \ held
  BY <1>4 DEF Speculates, Queued
<1>6. \A i \in going : verdict[rows[i].uid] = plan[i]
  BY <1>4 DEF Speculates, Queued
<1>7. going = {} => \A i \in D : ~Speculates(plan[i])
  BY <1>3, <1>5
<1>8. \A i \in going : CostOf(rows, verdict[rows[i].uid], going) <= free
  <2> SUFFICES ASSUME NEW i \in going PROVE CostOf(rows, plan[i], going) <= free
    BY <1>6
  <2>1. chosen # {}
    BY <1>5
  <2>2. LargestSafe(rows, free)
    BY PlanIsLargestSafe
  <2>3. PICK d \in 1..MaxDepth : /\ \A k \in chosen : plan[k] = d
                                /\ CostOf(rows, d, chosen) <= free
    BY <2>1, <2>2 DEF LargestSafe, plan
  <2>4. i \in chosen /\ going \in SUBSET chosen /\ chosen \in SUBSET D
    BY <1>5
  <2>5. plan[i] = d /\ d \in 0..MaxDepth
    BY <2>3, <2>4, AdmissionAssumption
  <2> HIDE DEF going, chosen
  <2>6. /\ CostOf(rows, d, going) \in Nat /\ CostOf(rows, d, chosen) \in Nat
        /\ CostOf(rows, d, going) <= CostOf(rows, d, chosen)
    BY <2>4, <2>5, CostGrows
  <2>7. QED
    BY <2>3, <2>5, <2>6
<1>9. QED
  BY <1>7, <1>8 DEF plan, verdict

--------------------------------------------------------------------------------
(* A lane that still has a token to give; where the first token is given   *)
(* in time it is the first.                                                *)
Lane == [uid : Nat, num : Nat, limit : Nat, initial : BOOLEAN, size : Nat]
InOrder(row) == policy.admission \/ ~policy.segmented => (row.initial => row.num = 0)
Going == {row \in Lane : row.num < row.limit /\ InOrder(row)}

GoingPlain == {row \in [uid : Nat, num : Nat, limit : Nat, before : Nat, asked : Nat] :
                  row.num < row.limit /\ row.before + row.limit = row.asked}

(* What the admission callback may remember.                               *)
Demotions == UNION {[S -> 0..MaxHolds] : S \in SUBSET (0..(inserted - 1))}

LaneState == [lanes : Seq(Going), paused : Seq(Going), ready : Seq(Going),
              plain : Seq(GoingPlain), locked : BOOLEAN, starved : 0..(Starved - 1),
              demoted : Demotions, done : SUBSET Nat, depth : Int]

Apart(A, B, C, D, E) ==
    /\ A \cap B = {} /\ A \cap C = {} /\ A \cap D = {} /\ A \cap E = {}
    /\ B \cap C = {} /\ B \cap D = {} /\ B \cap E = {}
    /\ C \cap D = {} /\ C \cap E = {} /\ D \cap E = {}

(* At every stage of a round each request of asked is in one place.        *)
RoundOK(m, asked) ==
    /\ m \in LaneState
    /\ Distinct(m.lanes) /\ Distinct(m.paused) /\ Distinct(m.ready) /\ Distinct(m.plain)
    /\ Apart(Uids(m.lanes), Uids(m.paused), Uids(m.ready), Uids(m.plain), m.done)
    /\ Uids(m.lanes) \cup Uids(m.paused) \cup Uids(m.ready) \cup Uids(m.plain) \cup m.done = asked
    /\ m.locked => policy.segmented
    /\ ~policy.admission /\ ~policy.segmented => m.paused = <<>>

(* Between rounds. *)
BetweenRounds(m) == m.ready = <<>> /\ m.done = {} /\ m.depth = 0

LanesInv ==
    /\ queue \in Seq(Waiting) /\ Distinct(queue)
    /\ processing = <<>> /\ prompts = <<>> /\ generation = <<>>
    /\ inserted \in 0..MaxJobs /\ steps = 0 /\ turn \in {0, 1}
    /\ RoundOK(mtp, Rowed(mtp)) /\ BetweenRounds(mtp)
    /\ Uids(queue) \cap Rowed(mtp) = {}
    /\ left \cap (Uids(queue) \cup Rowed(mtp)) = {}
    /\ left \cup Uids(queue) \cup Rowed(mtp) = 0..(inserted - 1)
    /\ Occupied(mtp) <= policy.completion
    /\ policy.segmented => Occupied(mtp) <= policy.cohort

NoLanes == mtp = [lanes |-> <<>>, paused |-> <<>>, ready |-> <<>>, plain |-> <<>>,
                  locked |-> FALSE, starved |-> 0, demoted |-> <<>>, done |-> {}, depth |-> 0]

GeneratorInv ==
    /\ policy \in Policies
    /\ policy.mtp => LanesInv
    /\ ~policy.mtp => NoLanes

--------------------------------------------------------------------------------
(* The parts of a state of the lanes.                                      *)
LEMMA PartsOf ==
    ASSUME NEW asked, NEW m, RoundOK(m, asked)
    PROVE  /\ m.lanes \in Seq(Going) /\ m.paused \in Seq(Going) /\ m.ready \in Seq(Going)
           /\ m.plain \in Seq(GoingPlain) /\ m.locked \in BOOLEAN
           /\ m.starved \in 0..(Starved - 1) /\ m.demoted \in Demotions
           /\ m.done \subseteq Nat /\ m.depth \in Int
  BY DEF RoundOK, LaneState

(* A lane is given tokens.                                                 *)
LEMMA FirstToken ==
    ASSUME NEW row \in Lane,
           NEW t, t = [row EXCEPT !.num = @ + 1, !.initial = FALSE]
    PROVE  t \in Lane /\ t.uid = row.uid /\ t.initial = FALSE
<1>1. /\ row.uid \in Nat /\ row.num + 1 \in Nat /\ row.limit \in Nat /\ row.size \in Nat
      /\ row = [uid |-> row.uid, num |-> row.num, limit |-> row.limit,
                initial |-> row.initial, size |-> row.size]
  BY DEF Lane
<1>2. t = [uid |-> row.uid, num |-> row.num + 1, limit |-> row.limit,
           initial |-> FALSE, size |-> row.size]
  BY <1>1
<1>3. QED
  BY <1>1, <1>2 DEF Lane

(* A lane that is given tokens.                                            *)
LEMMA MoreTokens ==
    ASSUME NEW row \in Lane, NEW c \in Nat, NEW t, t = [row EXCEPT !.num = @ + c]
    PROVE  t \in Lane /\ t.uid = row.uid /\ t.initial = row.initial
           /\ t.num = row.num + c /\ t.limit = row.limit
<1>1. /\ row.uid \in Nat /\ row.num + c \in Nat /\ row.limit \in Nat /\ row.size \in Nat
      /\ row.initial \in BOOLEAN
      /\ row = [uid |-> row.uid, num |-> row.num, limit |-> row.limit,
                initial |-> row.initial, size |-> row.size]
  BY DEF Lane
<1>2. t = [uid |-> row.uid, num |-> row.num + c, limit |-> row.limit,
           initial |-> row.initial, size |-> row.size]
  BY <1>1
<1>3. QED
  BY <1>1, <1>2 DEF Lane

(* Sets of requests, of which some go from one place to others.            *)
LEMMA FirstEnds ==
    ASSUME NEW A, NEW B, NEW C, NEW D, NEW E, Apart(A, B, C, D, E),
           NEW K, NEW G, K \cup G = A, K \cap G = {}
    PROVE  Apart(K, B, C, D, E \cup G) /\ K \cup B \cup C \cup D \cup (E \cup G) = A \cup B \cup C \cup D \cup E
  BY DEF Apart

(* Some requests of the fourth place end.                                  *)
LEMMA FourthEnds ==
    ASSUME NEW A, NEW B, NEW C, NEW D, NEW E, Apart(A, B, C, D, E),
           NEW K, NEW G, K \cup G = D, K \cap G = {}
    PROVE  Apart(A, B, C, K, E \cup G) /\ A \cup B \cup C \cup K \cup (E \cup G) = A \cup B \cup C \cup D \cup E
  BY DEF Apart

(* Lanes are given tokens; those that end leave the batch, and those that  *)
(* do not may go on.                                                       *)
LEMMA CompleteOK ==
    ASSUME NEW asked, NEW m, RoundOK(m, asked),
           NEW rows \in Seq(Lane), DOMAIN rows = DOMAIN m.lanes,
           \A i \in DOMAIN rows : rows[i].uid = m.lanes[i].uid,
           NEW ended \in SUBSET DOMAIN rows, \A i \in DOMAIN rows \ ended : rows[i] \in Going
    PROVE  /\ RoundOK(Complete(m, rows, ended), asked)
           /\ m.done \subseteq Complete(m, rows, ended).done
           /\ Complete(m, rows, ended).locked = m.locked
           /\ Complete(m, rows, ended).starved = m.starved
           /\ Uids(Complete(m, rows, ended).lanes) \subseteq Uids(m.lanes)
<1> DEFINE n == Complete(m, rows, ended)
           kept == Rows(rows, DOMAIN rows \ ended)
           gone == {rows[i].uid : i \in ended}
<1>1. Uids(rows) = Uids(m.lanes) /\ Distinct(rows)
  BY SameUids DEF RoundOK
<1>2. kept \in Seq(Going) /\ Distinct(kept)
  <2>1. kept \in Seq(Going)
    BY RowsIn
  <2>2. QED
    BY <1>1, <2>1, RowsUids
<1>3. Uids(kept) \cup gone = Uids(m.lanes) /\ Uids(kept) \cap gone = {}
  <2>1. Uids(kept) = {rows[i].uid : i \in (DOMAIN rows \ ended) \cap DOMAIN rows}
    BY RowsUids
  <2>2. Uids(kept) \cup gone = Uids(rows)
    BY <2>1 DEF Uids
  <2>3. Uids(kept) \cap gone = {}
    <3> SUFFICES ASSUME NEW u \in Uids(kept), u \in gone PROVE FALSE
      OBVIOUS
    <3> HIDE DEF kept
    <3> PICK i \in DOMAIN rows \ ended : u = rows[i].uid
      BY <2>1
    <3> PICK j \in ended : u = rows[j].uid
      OBVIOUS
    <3>1. i = j
      BY <1>1 DEF Distinct
    <3>2. QED
      BY <3>1
  <2>4. QED
    BY <1>1, <2>2, <2>3
<1>4. gone \subseteq Nat
  <2>1. \A i \in DOMAIN rows : rows[i] \in Lane
    OBVIOUS
  <2>2. \A i \in DOMAIN rows : rows[i].uid \in Nat
    BY <2>1 DEF Lane
  <2>3. QED
    BY <2>2
<1> HIDE DEF kept, gone
<1>5. n = [m EXCEPT !.lanes = kept, !.done = @ \cup gone]
  BY DEF Complete, kept, gone
<1>6. m \in LaneState
  BY DEF RoundOK
<1>7. /\ n \in LaneState /\ n.lanes = kept /\ n.paused = m.paused /\ n.ready = m.ready
      /\ n.plain = m.plain /\ n.done = m.done \cup gone /\ n.locked = m.locked
      /\ n.starved = m.starved
  BY <1>2, <1>4, <1>5, <1>6 DEF LaneState
<1> HIDE DEF n
<1>8. /\ Apart(Uids(n.lanes), Uids(n.paused), Uids(n.ready), Uids(n.plain), n.done)
      /\ Uids(n.lanes) \cup Uids(n.paused) \cup Uids(n.ready) \cup Uids(n.plain) \cup n.done = asked
  <2> DEFINE A == Uids(m.lanes)  B == Uids(m.paused)  C == Uids(m.ready)
             D == Uids(m.plain)  E == m.done           K == Uids(kept)
  <2>1. Apart(A, B, C, D, E) /\ A \cup B \cup C \cup D \cup E = asked
    BY DEF RoundOK
  <2>2. K \cup gone = A /\ K \cap gone = {}
    BY <1>3
  <2> HIDE DEF A, B, C, D, E, K
  <2>3. Apart(K, B, C, D, E \cup gone) /\ K \cup B \cup C \cup D \cup (E \cup gone) = asked
    BY <2>1, <2>2, FirstEnds
  <2>4. QED
    BY <1>7, <2>3 DEF A, B, C, D, E, K
<1>9. RoundOK(n, asked)
  BY <1>2, <1>7, <1>8 DEF RoundOK
<1>10. QED
  BY <1>3, <1>7, <1>9 DEF n

(* A first token is given, and may be the last one.                        *)
LEMMA EmitInitialOK ==
    ASSUME NEW asked, NEW m, RoundOK(m, asked), NEW n \in EmitInitial(m)
    PROVE  /\ RoundOK(n, asked) /\ m.done \subseteq n.done
           /\ n.locked = m.locked /\ n.starved = m.starved /\ Uids(n.lanes) \subseteq Uids(m.lanes)
<1> DEFINE emitted == {i \in DOMAIN m.lanes : m.lanes[i].initial}
           rows == [i \in DOMAIN m.lanes |->
                       IF i \in emitted THEN [m.lanes[i] EXCEPT !.num = @ + 1, !.initial = FALSE]
                       ELSE m.lanes[i]]
<1>1. PICK stopped \in SUBSET emitted :
             n = Complete(m, rows, stopped \cup (emitted \cap AtLimit(rows)))
  BY DEF EmitInitial
<1> DEFINE ended == stopped \cup (emitted \cap AtLimit(rows))
<1>2. m.lanes \in Seq(Going) /\ DOMAIN m.lanes = 1..Len(m.lanes) /\ Len(m.lanes) \in Nat
  BY PartsOf, ListDomain
<1>3. \A i \in DOMAIN m.lanes : m.lanes[i] \in Going
  BY <1>2
<1>4. DOMAIN rows = DOMAIN m.lanes /\ ended \in SUBSET DOMAIN rows
  OBVIOUS
<1>5. ASSUME NEW i \in DOMAIN m.lanes
      PROVE  /\ rows[i] \in Lane /\ rows[i].uid = m.lanes[i].uid
             /\ i \in emitted /\ rows[i].num < rows[i].limit => rows[i] \in Going
             /\ i \notin emitted => rows[i] \in Going
  <2>1. m.lanes[i] \in Going
    BY <1>3
  <2>2. CASE i \in emitted
    <3>1. rows[i] = [m.lanes[i] EXCEPT !.num = @ + 1, !.initial = FALSE]
      BY <2>2
    <3> HIDE DEF rows
    <3>2. m.lanes[i] \in Lane /\ m.lanes[i].num \in Nat
      BY <2>1 DEF Going, Lane
    <3>3. rows[i] \in Lane /\ rows[i].uid = m.lanes[i].uid /\ rows[i].initial = FALSE
      BY <3>1, <3>2, FirstToken
    <3>4. QED
      BY <2>2, <3>3 DEF Going, InOrder
  <2>3. CASE i \notin emitted
    <3>1. rows[i] = m.lanes[i]
      BY <2>3
    <3> HIDE DEF rows, emitted
    <3>2. QED
      BY <2>1, <2>3, <3>1 DEF Going
  <2>4. QED
    BY <2>2, <2>3
<1>6. rows \in Seq(Lane)
  <2>1. rows = [i \in DOMAIN m.lanes |-> rows[i]]
    OBVIOUS
  <2> HIDE DEF rows
  <2>2. QED
    BY <1>2, <1>5, <2>1, ListMade
<1>7. \A i \in DOMAIN rows \ ended : rows[i] \in Going
  <2> SUFFICES ASSUME NEW i \in DOMAIN rows \ ended PROVE rows[i] \in Going
    OBVIOUS
  <2>1. CASE i \in emitted
    <3>1. ~(rows[i].num >= rows[i].limit)
      BY <2>1 DEF AtLimit
    <3>2. rows[i].num \in Nat /\ rows[i].limit \in Nat
      <4>1. rows[i] \in Lane
        BY <1>4, <1>5
      <4> HIDE DEF rows
      <4>2. QED
        BY <4>1 DEF Lane
    <3>3. rows[i].num < rows[i].limit
      <4> HIDE DEF rows
      <4>1. QED
        BY <3>1, <3>2
    <3>4. QED
      BY <1>4, <1>5, <2>1, <3>3
  <2>2. CASE i \notin emitted
    BY <1>4, <1>5, <2>2
  <2>3. QED
    BY <2>1, <2>2
<1>8. \A i \in DOMAIN rows : rows[i].uid = m.lanes[i].uid
  BY <1>4, <1>5
<1> HIDE DEF rows, ended, emitted
<1>9. QED
  BY <1>1, <1>4, <1>6, <1>7, <1>8, CompleteOK DEF ended

(* A stage that leaves every list alone.                                   *)
LEMMA SameLists ==
    ASSUME NEW asked, NEW m, RoundOK(m, asked), NEW n \in LaneState,
           n.lanes = m.lanes, n.paused = m.paused, n.ready = m.ready, n.plain = m.plain,
           n.done = m.done, n.locked => policy.segmented
    PROVE  RoundOK(n, asked)
  BY DEF RoundOK

(* The width lock is set or cleared.                                       *)
LEMMA LockedOK ==
    ASSUME NEW asked, NEW m, RoundOK(m, asked), NEW now \in BOOLEAN, now => policy.segmented
    PROVE  LET n == [m EXCEPT !.locked = now] IN
           /\ RoundOK(n, asked) /\ n.done = m.done /\ n.lanes = m.lanes /\ n.paused = m.paused
           /\ n.locked = now /\ n.ready = m.ready /\ n.plain = m.plain /\ n.starved = m.starved
<1> DEFINE n == [m EXCEPT !.locked = now]
<1>1. m \in LaneState
  BY DEF RoundOK
<1>2. /\ n \in LaneState /\ n.lanes = m.lanes /\ n.paused = m.paused /\ n.ready = m.ready
      /\ n.plain = m.plain /\ n.done = m.done /\ n.locked = now /\ n.starved = m.starved
  BY <1>1 DEF LaneState
<1> HIDE DEF n
<1>3. RoundOK(n, asked)
  BY <1>2, SameLists
<1>4. QED
  BY <1>2, <1>3 DEF n

(* The depth of the drafts changes.                                        *)
LEMMA DepthOK ==
    ASSUME NEW asked, NEW m, RoundOK(m, asked), NEW d \in Int
    PROVE  LET n == [m EXCEPT !.depth = d] IN
           /\ RoundOK(n, asked) /\ n.done = m.done /\ n.lanes = m.lanes /\ n.locked = m.locked
<1> DEFINE n == [m EXCEPT !.depth = d]
<1>1. m \in LaneState
  BY DEF RoundOK
<1>2. /\ n \in LaneState /\ n.lanes = m.lanes /\ n.paused = m.paused /\ n.ready = m.ready
      /\ n.plain = m.plain /\ n.done = m.done /\ n.locked = m.locked
  BY <1>1 DEF LaneState
<1> HIDE DEF n
<1>3. RoundOK(n, asked)
  BY <1>2, SameLists DEF RoundOK
<1>4. QED
  BY <1>2, <1>3 DEF n

(* The count of boundaries without a lane changes.                         *)
LEMMA StarvedOK ==
    ASSUME NEW asked, NEW m, RoundOK(m, asked), NEW k \in 0..(Starved - 1)
    PROVE  LET n == [m EXCEPT !.starved = k] IN
           /\ RoundOK(n, asked) /\ n.done = m.done /\ n.lanes = m.lanes /\ n.locked = m.locked
<1> DEFINE n == [m EXCEPT !.starved = k]
<1>1. m \in LaneState
  BY DEF RoundOK
<1>2. /\ n \in LaneState /\ n.lanes = m.lanes /\ n.paused = m.paused /\ n.ready = m.ready
      /\ n.plain = m.plain /\ n.done = m.done /\ n.locked = m.locked
  BY <1>1 DEF LaneState
<1> HIDE DEF n
<1>3. RoundOK(n, asked)
  BY <1>2, SameLists DEF RoundOK
<1>4. QED
  BY <1>2, <1>3 DEF n

(* A cycle gives every lane at least one token, and never a first one      *)
(* where the first tokens were given before.                               *)
LEMMA ProposeOK ==
    ASSUME NEW asked, NEW m, RoundOK(m, asked), ~Pending(m) \/ ~(policy.admission \/ ~policy.segmented),
           NEW n \in Propose(m)
    PROVE  /\ RoundOK(n, asked) /\ m.done \subseteq n.done /\ n.starved = m.starved
           /\ Uids(n.lanes) \subseteq Uids(m.lanes)
           /\ policy.segmented /\ m.locked => n.locked
<1> DEFINE Given(c) == [i \in DOMAIN m.lanes |-> [m.lanes[i] EXCEPT !.num = @ + c[i]]]
           Ended(c, stopped) == stopped \cup AtLimit(Given(c))
<1>1. PICK c \in [DOMAIN m.lanes -> 1..(m.depth + 1)], stopped \in SUBSET DOMAIN m.lanes,
           now \in IF policy.segmented THEN {m.locked, TRUE} ELSE {FALSE} :
             n = [Complete(m, Given(c), Ended(c, stopped)) EXCEPT !.locked = now]
  <2> DEFINE Depth(row) == Min({m.depth, Max({0, row.limit - Produced(row) - 1})})
             counts == {c \in [DOMAIN m.lanes -> 1..(m.depth + 1)] :
                           \A i \in DOMAIN c : c[i] <= Depth(m.lanes[i]) + 1}
             nows == IF policy.segmented THEN {m.locked, TRUE} ELSE {FALSE}
  <2>1. Propose(m) = {[Complete(m, Given(c), Ended(c, stopped)) EXCEPT !.locked = now] :
                        c \in counts, stopped \in SUBSET DOMAIN m.lanes, now \in nows}
    BY DEF Propose
  <2> HIDE DEF Given, Ended, Depth
  <2>2. counts \subseteq [DOMAIN m.lanes -> 1..(m.depth + 1)]
    OBVIOUS
  <2> HIDE DEF counts, nows
  <2>3. \E c \in counts, stopped \in SUBSET DOMAIN m.lanes, now \in nows :
           n = [Complete(m, Given(c), Ended(c, stopped)) EXCEPT !.locked = now]
    BY <2>1
  <2>4. QED
    BY <2>2, <2>3 DEF nows
<1> DEFINE rows == Given(c)
           ended == Ended(c, stopped)
<1>2. m.lanes \in Seq(Going) /\ m.depth \in Int /\ m.locked \in BOOLEAN
  BY PartsOf
<1>3. \A i \in DOMAIN m.lanes : m.lanes[i] \in Going /\ c[i] \in Nat
  BY <1>2
<1>4. DOMAIN rows = DOMAIN m.lanes /\ ended \in SUBSET DOMAIN rows
  BY DEF AtLimit
<1>5. ASSUME NEW i \in DOMAIN m.lanes
      PROVE  /\ rows[i] \in Lane /\ rows[i].uid = m.lanes[i].uid
             /\ rows[i].num < rows[i].limit => rows[i] \in Going
  <2>1. m.lanes[i] \in Going /\ m.lanes[i] \in Lane /\ c[i] \in Nat
    BY <1>3 DEF Going
  <2>2. rows[i] = [m.lanes[i] EXCEPT !.num = @ + c[i]]
    OBVIOUS
  <2> HIDE DEF rows
  <2>3. rows[i] \in Lane /\ rows[i].uid = m.lanes[i].uid /\ rows[i].initial = m.lanes[i].initial
    BY <2>1, <2>2, MoreTokens
  <2>4. InOrder(rows[i])
    BY <2>3 DEF Pending, InOrder
  <2>5. QED
    BY <2>3, <2>4 DEF Going
<1>6. rows \in Seq(Lane)
  <2>1. rows = [i \in DOMAIN m.lanes |-> rows[i]]
    OBVIOUS
  <2> HIDE DEF rows
  <2>2. QED
    BY <1>2, <1>5, <2>1, ListMade, ZenonT(40)
<1>7. \A i \in DOMAIN rows \ ended : rows[i] \in Going
  <2> SUFFICES ASSUME NEW i \in DOMAIN rows \ ended PROVE rows[i] \in Going
    OBVIOUS
  <2>1. ~(rows[i].num >= rows[i].limit)
    BY DEF AtLimit
  <2>2. rows[i] \in Lane
    BY <1>4, <1>5
  <2>3. i \in DOMAIN m.lanes
    BY <1>4
  <2> HIDE DEF rows, ended
  <2>4. rows[i].num \in Nat /\ rows[i].limit \in Nat
    BY <2>2 DEF Lane
  <2>5. QED
    BY <1>5, <2>1, <2>3, <2>4
<1>8. \A i \in DOMAIN rows : rows[i].uid = m.lanes[i].uid
  BY <1>4, <1>5
<1>9. n = [Complete(m, rows, ended) EXCEPT !.locked = now]
  BY <1>1
<1> HIDE DEF rows, ended
<1>10. /\ RoundOK(Complete(m, rows, ended), asked)
       /\ m.done \subseteq Complete(m, rows, ended).done
       /\ Complete(m, rows, ended).locked = m.locked
       /\ Complete(m, rows, ended).starved = m.starved
       /\ Uids(Complete(m, rows, ended).lanes) \subseteq Uids(m.lanes)
  BY <1>4, <1>6, <1>7, <1>8, CompleteOK
<1>11. now \in BOOLEAN /\ (now => policy.segmented) /\ (policy.segmented /\ m.locked => now = TRUE)
  BY <1>2
<1> DEFINE k == Complete(m, rows, ended)
<1> HIDE DEF k
<1>12. RoundOK(k, asked) /\ n = [k EXCEPT !.locked = now]
  BY <1>9, <1>10 DEF k
<1>13. RoundOK(n, asked) /\ n.done = k.done /\ n.lanes = k.lanes /\ n.locked = now /\ n.starved = k.starved
  BY <1>11, <1>12, LockedOK
<1>14. QED
  BY <1>10, <1>11, <1>13 DEF k

(* The ordinary batch gives every row a token.                             *)
LEMMA NextPlainOK ==
    ASSUME NEW asked, NEW m, RoundOK(m, asked), NEW n \in NextPlain(m)
    PROVE  /\ RoundOK(n, asked) /\ m.done \subseteq n.done
           /\ n.lanes = m.lanes /\ n.locked = m.locked /\ n.ready = m.ready
<1> DEFINE rows == [i \in DOMAIN m.plain |-> [m.plain[i] EXCEPT !.num = @ + 1]]
           PlainType == [uid : Nat, num : Nat, limit : Nat, before : Nat, asked : Nat]
<1>1. PICK stopped \in SUBSET DOMAIN rows :
         n = [m EXCEPT !.plain = Rows(rows, DOMAIN rows \ (stopped \cup AtLimit(rows))),
                       !.done = @ \cup {rows[i].uid : i \in stopped \cup AtLimit(rows)}]
  BY DEF NextPlain
<1> DEFINE ended == stopped \cup AtLimit(rows)
           kept == Rows(rows, DOMAIN rows \ ended)
           gone == {rows[i].uid : i \in ended}
<1>2. m.plain \in Seq(GoingPlain) /\ m.done \subseteq Nat
  BY PartsOf
<1>3. \A i \in DOMAIN m.plain : m.plain[i] \in GoingPlain
  BY <1>2
<1>4. DOMAIN rows = DOMAIN m.plain /\ ended \in SUBSET DOMAIN rows
  BY DEF AtLimit
<1>5. ASSUME NEW i \in DOMAIN m.plain
      PROVE  /\ rows[i] \in PlainType /\ rows[i].uid = m.plain[i].uid
             /\ rows[i].num < rows[i].limit => rows[i] \in GoingPlain
  <2>1. m.plain[i] \in GoingPlain
    BY <1>3
  <2>2. rows[i] = [m.plain[i] EXCEPT !.num = @ + 1]
    OBVIOUS
  <2> DEFINE row == m.plain[i]
             t == rows[i]
  <2> HIDE DEF rows, row, t
  <2>3. t = [row EXCEPT !.num = @ + 1] /\ row \in GoingPlain
    BY <2>1, <2>2 DEF row, t
  <2>4. t \in PlainType /\ t.uid = row.uid /\ t.before + t.limit = t.asked
    BY <2>3 DEF GoingPlain
  <2>5. QED
    BY <2>4 DEF GoingPlain, row, t
<1>6. rows \in Seq(PlainType)
  <2>1. rows = [i \in DOMAIN m.plain |-> rows[i]]
    OBVIOUS
  <2> HIDE DEF rows, PlainType
  <2>2. QED
    BY <1>2, <1>5, <2>1, ListMade
<1>7. ASSUME NEW i \in DOMAIN rows \ ended PROVE rows[i] \in GoingPlain
  <2>1. ~(rows[i].num >= rows[i].limit)
    BY DEF AtLimit
  <2>2. i \in DOMAIN m.plain
    BY <1>4
  <2>3. rows[i] \in PlainType
    BY <1>5, <2>2
  <2> HIDE DEF rows, ended
  <2>4. rows[i].num \in Nat /\ rows[i].limit \in Nat
    BY <2>3
  <2>5. QED
    BY <1>5, <2>1, <2>2, <2>4
<1>8. \A i \in DOMAIN rows : rows[i].uid = m.plain[i].uid /\ rows[i].uid \in Nat
  <2> SUFFICES ASSUME NEW i \in DOMAIN rows PROVE rows[i].uid = m.plain[i].uid /\ rows[i].uid \in Nat
    OBVIOUS
  <2>1. rows[i] \in PlainType /\ rows[i].uid = m.plain[i].uid
    BY <1>4, <1>5
  <2> HIDE DEF rows
  <2>2. QED
    BY <2>1
<1>9. n = [m EXCEPT !.plain = kept, !.done = @ \cup gone]
  BY <1>1
<1> HIDE DEF rows, ended, PlainType
<1>10. Uids(rows) = Uids(m.plain) /\ Distinct(rows)
  BY <1>4, <1>8, SameUids DEF RoundOK
<1>11. kept \in Seq(GoingPlain) /\ Distinct(kept)
  <2>1. kept \in Seq(GoingPlain)
    BY <1>6, <1>7, RowsIn
  <2>2. QED
    BY <1>6, <1>10, <2>1, RowsUids
<1>12. Uids(kept) \cup gone = Uids(m.plain) /\ Uids(kept) \cap gone = {} /\ gone \subseteq Nat
  <2>1. Uids(kept) = {rows[i].uid : i \in (DOMAIN rows \ ended) \cap DOMAIN rows}
    BY <1>6, RowsUids
  <2>2. Uids(kept) \cup gone = Uids(rows)
    BY <1>4, <2>1 DEF Uids
  <2>3. ASSUME NEW u \in Uids(kept), u \in gone PROVE FALSE
    <3> HIDE DEF kept
    <3> PICK i \in DOMAIN rows \ ended : u = rows[i].uid
      BY <2>1
    <3> PICK j \in ended : u = rows[j].uid
      BY <2>3
    <3>1. i = j
      BY <1>4, <1>10 DEF Distinct
    <3>2. QED
      BY <3>1
  <2>4. gone \subseteq Nat
    BY <1>4, <1>8
  <2>5. QED
    BY <1>10, <2>2, <2>3, <2>4
<1> HIDE DEF kept, gone
<1>13. m \in LaneState
  BY DEF RoundOK
<1>14. /\ n \in LaneState /\ n.lanes = m.lanes /\ n.paused = m.paused /\ n.ready = m.ready
       /\ n.plain = kept /\ n.done = m.done \cup gone /\ n.locked = m.locked
  BY <1>9, <1>11, <1>12, <1>13 DEF LaneState
<1>15. /\ Apart(Uids(n.lanes), Uids(n.paused), Uids(n.ready), Uids(n.plain), n.done)
       /\ Uids(n.lanes) \cup Uids(n.paused) \cup Uids(n.ready) \cup Uids(n.plain) \cup n.done = asked
  <2> DEFINE A == Uids(m.lanes)  B == Uids(m.paused)  C == Uids(m.ready)
             D == Uids(m.plain)  E == m.done          K == Uids(kept)
  <2>1. Apart(A, B, C, D, E) /\ A \cup B \cup C \cup D \cup E = asked
    BY DEF RoundOK
  <2>2. K \cup gone = D /\ K \cap gone = {}
    BY <1>12
  <2> HIDE DEF A, B, C, D, E, K
  <2>3. Apart(A, B, C, K, E \cup gone) /\ A \cup B \cup C \cup K \cup (E \cup gone) = asked
    BY <2>1, <2>2, FourthEnds
  <2>4. QED
    BY <1>14, <2>3 DEF A, B, C, D, E, K
<1>16. RoundOK(n, asked)
  BY <1>11, <1>14, <1>15 DEF RoundOK
<1>17. QED
  BY <1>14, <1>16

(* A lane that goes on as plain is promised what is left of it.            *)
LEMMA PlainRowOf ==
    ASSUME NEW row \in Going
    PROVE  /\ PlainRow(row).uid = row.uid /\ row.uid \in Nat
           /\ PlainRow(row).limit \in Nat
           /\ PlainRow(row).limit > 0 => PlainRow(row) \in GoingPlain
           /\ PlainRow(row).limit = 0 => row.initial /\ row.num + 1 >= row.limit
<1>1. /\ row.uid \in Nat /\ row.num \in Nat /\ row.limit \in Nat /\ row.initial \in BOOLEAN
      /\ row.num < row.limit
  BY DEF Going, Lane
<1> DEFINE first == IF row.initial THEN 1 ELSE 0
           t == PlainRow(row)
<1>2. t = [uid |-> row.uid, num |-> 0, limit |-> row.limit - (row.num + first),
           before |-> row.num + first, asked |-> row.limit]
  BY DEF PlainRow, Produced
<1>3. /\ row.num + first \in Nat /\ row.limit - (row.num + first) \in Nat
      /\ (row.num + first) + (row.limit - (row.num + first)) = row.limit
      /\ row.limit - (row.num + first) = 0 => row.initial /\ row.num + 1 >= row.limit
  <2>1. first \in {0, 1} /\ (first = 1 => row.initial)
    OBVIOUS
  <2> HIDE DEF first
  <2>2. QED
    BY <1>1, <2>1
<1> HIDE DEF t, first
<1>4. t.limit > 0 => t \in GoingPlain
  BY <1>1, <1>2, <1>3 DEF GoingPlain
<1>5. QED
  BY <1>1, <1>2, <1>3, <1>4 DEF t

(* The lanes that go on as plain join the ordinary batch, or end with the  *)
(* first token they are given on the way.                                  *)
LEMMA MigratePlainOK ==
    ASSUME NEW asked, NEW m, RoundOK(m, asked), NEW n \in MigratePlain(m)
    PROVE  /\ RoundOK(n, asked) /\ m.done \subseteq n.done /\ n.ready = <<>>
           /\ n.lanes = m.lanes /\ n.locked = m.locked
<1> DEFINE emitted == {i \in DOMAIN m.ready : m.ready[i].initial}
           final == {i \in emitted : m.ready[i].num + 1 >= m.ready[i].limit}
           rows == [i \in DOMAIN m.ready |-> PlainRow(m.ready[i])]
           going == {i \in DOMAIN rows : rows[i].limit > 0}
           PlainType == {PlainRow(row) : row \in Going}
<1>1. PICK stopped \in SUBSET emitted :
         n = [m EXCEPT !.ready = <<>>,
                       !.plain = @ \o Rows(rows, going \ (final \cup stopped)),
                       !.done = @ \cup {rows[i].uid : i \in final \cup stopped}]
  BY DEF MigratePlain
<1> DEFINE ended == final \cup stopped
           kept == Rows(rows, going \ ended)
           gone == {rows[i].uid : i \in ended}
<1>2. m.ready \in Seq(Going) /\ m.plain \in Seq(GoingPlain) /\ m.done \subseteq Nat
  BY PartsOf
<1>3. \A i \in DOMAIN m.ready : m.ready[i] \in Going
  BY <1>2
<1>4. DOMAIN rows = DOMAIN m.ready /\ ended \in SUBSET DOMAIN rows /\ going \in SUBSET DOMAIN rows
  OBVIOUS
<1>5. ASSUME NEW i \in DOMAIN m.ready
      PROVE  /\ rows[i] \in PlainType /\ rows[i].uid = m.ready[i].uid /\ rows[i].uid \in Nat
             /\ i \in going => rows[i] \in GoingPlain
             /\ i \notin going => i \in ended
  <2>1. m.ready[i] \in Going /\ rows[i] = PlainRow(m.ready[i])
    BY <1>3
  <2>2. /\ rows[i].uid = m.ready[i].uid /\ rows[i].uid \in Nat /\ rows[i].limit \in Nat
        /\ rows[i].limit > 0 => rows[i] \in GoingPlain
        /\ rows[i].limit = 0 => m.ready[i].initial /\ m.ready[i].num + 1 >= m.ready[i].limit
    BY <2>1, PlainRowOf
  <2>3. i \notin going => ~(rows[i].limit > 0)
    BY <1>4
  <2> HIDE DEF rows
  <2>4. i \notin going => i \in ended
    BY <2>2, <2>3
  <2>5. i \in going => rows[i] \in GoingPlain
    BY <2>2
  <2>6. QED
    BY <2>1, <2>2, <2>4, <2>5
<1>6. rows \in Seq(PlainType)
  <2>1. rows = [i \in DOMAIN m.ready |-> rows[i]]
    OBVIOUS
  <2>2. \A i \in DOMAIN m.ready : rows[i] \in PlainType
    BY <1>5
  <2> HIDE DEF rows, PlainType
  <2>3. QED
    BY <1>2, <2>1, <2>2, ListMade
<1>7. \A i \in DOMAIN rows : rows[i].uid = m.ready[i].uid /\ rows[i].uid \in Nat
  BY <1>4, <1>5
<1>8. n = [m EXCEPT !.ready = <<>>, !.plain = @ \o kept, !.done = @ \cup gone]
  BY <1>1
<1>9. /\ \A i \in (going \ ended) \cap DOMAIN rows : rows[i] \in GoingPlain
      /\ DOMAIN rows \ ended \subseteq going
  BY <1>4, <1>5
<1> HIDE DEF rows, ended, going, PlainType
<1>10. Uids(rows) = Uids(m.ready) /\ Distinct(rows)
  BY <1>4, <1>7, SameUids DEF RoundOK
<1>11. kept \in Seq(GoingPlain) /\ Distinct(kept)
  <2>1. kept \in Seq(GoingPlain)
    BY <1>6, <1>9, RowsIn
  <2>2. QED
    BY <1>6, <1>10, <2>1, RowsUids
<1>12. Uids(kept) \cup gone = Uids(m.ready) /\ Uids(kept) \cap gone = {} /\ gone \subseteq Nat
  <2>1. Uids(kept) = {rows[i].uid : i \in (going \ ended) \cap DOMAIN rows}
    BY <1>6, RowsUids
  <2>2. (going \ ended) \cap DOMAIN rows = DOMAIN rows \ ended
    BY <1>4, <1>9
  <2>3. Uids(kept) \cup gone = Uids(rows)
    BY <1>4, <2>1, <2>2 DEF Uids
  <2>4. ASSUME NEW u \in Uids(kept), u \in gone PROVE FALSE
    <3> HIDE DEF kept
    <3> PICK i \in DOMAIN rows \ ended : u = rows[i].uid
      BY <2>1, <2>2
    <3> PICK j \in ended : u = rows[j].uid
      BY <2>4
    <3>1. i = j
      BY <1>4, <1>10 DEF Distinct
    <3>2. QED
      BY <3>1
  <2>5. gone \subseteq Nat
    BY <1>4, <1>7
  <2>6. QED
    BY <1>10, <2>3, <2>4, <2>5
<1> HIDE DEF kept, gone
<1> DEFINE plain == m.plain \o kept
           A == Uids(m.lanes)  B == Uids(m.paused)  C == Uids(m.ready)
           D == Uids(m.plain)  E == m.done          K == Uids(kept)
<1>13. /\ Apart(A, B, {}, D \cup K, E \cup gone)
       /\ A \cup B \cup {} \cup (D \cup K) \cup (E \cup gone) = asked
       /\ D \cap K = {}
  <2>1. Apart(A, B, C, D, E) /\ A \cup B \cup C \cup D \cup E = asked
    BY DEF RoundOK
  <2>2. K \cup gone = C /\ K \cap gone = {}
    BY <1>12
  <2> HIDE DEF A, B, C, D, E, K
  <2>3. Apart(A, B, {}, D \cup K, E \cup gone) /\ D \cap K = {}
    BY <2>1, <2>2 DEF Apart
  <2>4. A \cup B \cup {} \cup (D \cup K) \cup (E \cup gone) = asked
    BY <2>1, <2>2
  <2>5. QED
    BY <2>3, <2>4
<1>14. plain \in Seq(GoingPlain) /\ Distinct(plain) /\ Uids(plain) = D \cup K
  <2>1. Distinct(m.plain)
    BY DEF RoundOK
  <2>2. QED
    BY <1>2, <1>11, <1>13, <2>1, Concat
<1>15. m \in LaneState
  BY DEF RoundOK
<1>16. <<>> \in Seq(Going) /\ Uids(<<>>) = {} /\ Distinct(<<>>)
  BY NoRows
<1> HIDE DEF plain
<1>17. /\ n \in LaneState /\ n.lanes = m.lanes /\ n.paused = m.paused /\ n.ready = <<>>
       /\ n.plain = plain /\ n.done = m.done \cup gone /\ n.locked = m.locked
  BY <1>8, <1>12, <1>14, <1>15, <1>16 DEF LaneState, plain
<1>18. RoundOK(n, asked)
  BY <1>13, <1>14, <1>16, <1>17 DEF RoundOK
<1>19. QED
  BY <1>17, <1>18

(* Nothing decodes for long enough: the oldest paused lane goes on.        *)
LEMMA DemoteStarvedOK ==
    ASSUME NEW asked, NEW m, RoundOK(m, asked)
    PROVE  LET n == DemoteStarved(m) IN
           RoundOK(n, asked) /\ n.done = m.done /\ n.lanes = m.lanes /\ n.locked = m.locked
<1>1. m.starved \in 0..(Starved - 1) /\ m.paused \in Seq(Going) /\ 0 \in 0..(Starved - 1)
  BY PartsOf, LanesAssumption
<1>2. CASE ~policy.admission \/ m.paused = <<>> \/ m.lanes \o m.ready \o m.plain # <<>>
  BY <1>1, <1>2, StarvedOK DEF DemoteStarved
<1>3. CASE /\ ~(~policy.admission \/ m.paused = <<>> \/ m.lanes \o m.ready \o m.plain # <<>>)
           /\ m.starved + 1 < Starved
  <2>1. m.starved + 1 \in 0..(Starved - 1)
    BY <1>1, <1>3, LanesAssumption
  <2>2. DemoteStarved(m) = [m EXCEPT !.starved = m.starved + 1]
    BY <1>3 DEF DemoteStarved
  <2>3. QED
    BY <2>1, <2>2, StarvedOK
<1>4. CASE /\ ~(~policy.admission \/ m.paused = <<>> \/ m.lanes \o m.ready \o m.plain # <<>>)
           /\ ~(m.starved + 1 < Starved)
  <2> DEFINE n == DemoteStarved(m)
             first == Head(m.paused)
             rest == Tail(m.paused)
  <2>1. n = [m EXCEPT !.starved = 0, !.ready = <<first>>, !.paused = rest]
    BY <1>4 DEF DemoteStarved
  <2>2. /\ first \in Going /\ rest \in Seq(Going) /\ {first.uid} \cup Uids(rest) = Uids(m.paused)
        /\ Distinct(rest) /\ first.uid \notin Uids(rest)
    BY <1>1, <1>4, HeadLeaves DEF RoundOK
  <2>3. <<first>> \in Seq(Going) /\ Uids(<<first>>) = {first.uid} /\ Distinct(<<first>>)
    BY <2>2, OneRow
  <2>4. m.ready = <<>> /\ Uids(m.ready) = {}
    <3>1. m.ready \in Seq(Going) /\ m.lanes \in Seq(Going) /\ m.plain \in Seq(GoingPlain)
      BY PartsOf
    <3>2. m.ready = <<>>
      BY <1>4, <3>1
    <3>3. QED
      BY <3>2, NoRows
  <2>5. m \in LaneState
    BY DEF RoundOK
  <2> HIDE DEF n, first, rest
  <2>6. /\ n \in LaneState /\ n.lanes = m.lanes /\ n.paused = rest /\ n.ready = <<first>>
        /\ n.plain = m.plain /\ n.done = m.done /\ n.locked = m.locked
    BY <1>1, <2>1, <2>2, <2>3, <2>5 DEF LaneState
  <2>7. /\ Apart(Uids(n.lanes), Uids(n.paused), Uids(n.ready), Uids(n.plain), n.done)
        /\ Uids(n.lanes) \cup Uids(n.paused) \cup Uids(n.ready) \cup Uids(n.plain) \cup n.done = asked
    <3>1. /\ Apart(Uids(m.lanes), Uids(m.paused), Uids(m.ready), Uids(m.plain), m.done)
          /\ Uids(m.lanes) \cup Uids(m.paused) \cup Uids(m.ready) \cup Uids(m.plain) \cup m.done = asked
      BY DEF RoundOK
    <3>2. QED
      BY <2>2, <2>3, <2>4, <2>6, <3>1 DEF Apart
  <2>8. RoundOK(n, asked)
    BY <1>4, <2>2, <2>3, <2>6, <2>7 DEF RoundOK
  <2>9. QED
    BY <2>6, <2>8 DEF n
<1>5. QED
  BY <1>2, <1>3, <1>4

(* Lanes that come from elsewhere join the batch, or wait beside it.       *)
Fresh(rows, asked) == rows \in Seq(Going) /\ Distinct(rows) /\ Uids(rows) \cap asked = {}

(* _attach_packages adds lanes, or defers them while the width is locked.  *)
LEMMA AttachOK ==
    ASSUME NEW asked, NEW m, RoundOK(m, asked), NEW rows, Fresh(rows, asked)
    PROVE  LET n == Attach(m, rows) IN
           /\ RoundOK(n, asked \cup Uids(rows)) /\ n.done = m.done /\ n.locked = m.locked
           /\ n.ready = m.ready /\ n.plain = m.plain /\ n.starved = m.starved
           /\ Uids(n.lanes) \subseteq Uids(m.lanes) \cup Uids(rows)
           /\ policy.segmented /\ m.locked /\ m.lanes # <<>> => n.lanes = m.lanes
<1> DEFINE n == Attach(m, rows)
           wait == policy.segmented /\ m.locked /\ m.lanes # <<>>
           A == Uids(m.lanes)  B == Uids(m.paused)  C == Uids(m.ready)
           D == Uids(m.plain)  E == m.done          R == Uids(rows)
<1>0. rows \in Seq(Going) /\ Distinct(rows) /\ Uids(rows) \cap asked = {}
  BY DEF Fresh
<1> USE <1>0
<1>1. m \in LaneState /\ m.lanes \in Seq(Going) /\ m.paused \in Seq(Going)
  BY PartsOf DEF RoundOK
<1>2. Apart(A, B, C, D, E) /\ A \cup B \cup C \cup D \cup E = asked
  BY DEF RoundOK
<1>3. A \cap R = {} /\ B \cap R = {}
  BY <1>2
<1>4. CASE wait
  <2> DEFINE paused == m.paused \o rows
  <2>1. paused \in Seq(Going) /\ Uids(paused) = B \cup R /\ Distinct(paused)
    BY <1>1, <1>3, Concat DEF RoundOK
  <2>2. n = [m EXCEPT !.paused = paused]
    BY <1>4 DEF Attach
  <2> HIDE DEF n, paused
  <2>3. /\ n \in LaneState /\ n.lanes = m.lanes /\ n.paused = paused /\ n.ready = m.ready
        /\ n.plain = m.plain /\ n.done = m.done /\ n.locked = m.locked /\ n.starved = m.starved
    BY <1>1, <2>1, <2>2 DEF LaneState
  <2>4. Apart(A, B \cup R, C, D, E) /\ A \cup (B \cup R) \cup C \cup D \cup E = asked \cup R
    <3> HIDE DEF A, B, C, D, E, R
    <3>1. R \cap asked = {}
      BY DEF R
    <3>2. QED
      BY <1>2, <3>1 DEF Apart
  <2>5. RoundOK(n, asked \cup R)
    BY <1>4, <2>1, <2>3, <2>4 DEF RoundOK
  <2>6. QED
    BY <2>3, <2>5 DEF n
<1>5. CASE ~wait
  <2> DEFINE lanes == m.lanes \o rows
  <2>1. lanes \in Seq(Going) /\ Uids(lanes) = A \cup R /\ Distinct(lanes)
    BY <1>1, <1>3, Concat DEF RoundOK
  <2>2. n = [m EXCEPT !.lanes = lanes]
    BY <1>5 DEF Attach
  <2> HIDE DEF n, lanes
  <2>3. /\ n \in LaneState /\ n.lanes = lanes /\ n.paused = m.paused /\ n.ready = m.ready
        /\ n.plain = m.plain /\ n.done = m.done /\ n.locked = m.locked /\ n.starved = m.starved
    BY <1>1, <2>1, <2>2 DEF LaneState
  <2>4. Apart(A \cup R, B, C, D, E) /\ (A \cup R) \cup B \cup C \cup D \cup E = asked \cup R
    <3> HIDE DEF A, B, C, D, E, R
    <3>1. R \cap asked = {}
      BY DEF R
    <3>2. QED
      BY <1>2, <3>1 DEF Apart
  <2>5. RoundOK(n, asked \cup R)
    BY <2>1, <2>3, <2>4 DEF RoundOK
  <2>6. QED
    BY <1>5, <2>1, <2>3, <2>5 DEF n
<1>6. QED
  BY <1>4, <1>5

--------------------------------------------------------------------------------
(* What the admission callback is asked, and answers.                      *)
Measure == [uid : Nat, context : Nat, cache : Nat, resident : BOOLEAN, pending : Nat]

(* What the controller is shown are lanes with a cost.                     *)
LEMMA MeasuresAreRows ==
    ASSUME NEW rows \in Seq(Measure)
    PROVE  LaneRows(rows)
<1>1. DOMAIN rows = 1..Len(rows) /\ Len(rows) \in Nat
  BY ListDomain
<1>2. \A i \in 1..Len(rows) : rows[i] \in Measure
  BY <1>1
<1>3. \A i \in 1..Len(rows) : LaneRow(rows[i])
  BY <1>2 DEF LaneRow, Measure
<1>4. QED
  BY <1>1, <1>3 DEF LaneRows

(* The context of a lane is a number.                                      *)
LEMMA ContextOf ==
    ASSUME NEW row \in Going
    PROVE  row.size + Produced(row) \in Nat /\ row.uid \in Nat
<1>1. row.size \in Nat /\ row.num \in Nat /\ row.initial \in BOOLEAN /\ row.uid \in Nat
  BY DEF Going, Lane
<1>2. Produced(row) \in Nat
  BY <1>1 DEF Produced
<1>3. QED
  BY <1>1, <1>2

(* Every lane and every paused lane is asked about, once.                  *)
LEMMA CycleRowsOf ==
    ASSUME NEW asked, NEW m, RoundOK(m, asked)
    PROVE  /\ CycleRows(m) \in Seq(Measure) /\ Distinct(CycleRows(m))
           /\ Uids(CycleRows(m)) = Uids(m.lanes) \cup Uids(m.paused)
<1> DEFINE Context(row) == row.size + Produced(row)
           Width(row) == Max({Context(row)} \cup {Context(m.lanes[i]) : i \in DOMAIN m.lanes})
           Rebuilt(row) == IF policy.segmented \/ m.lanes = <<>> THEN 0
                           ELSE (Len(m.lanes) + 1) * Width(row)
           Measured(row, pending) ==
               [uid |-> row.uid, context |-> Context(row), cache |-> Context(row),
                resident |-> TRUE, pending |-> pending]
           a == [i \in DOMAIN m.lanes |-> Measured(m.lanes[i], 0)]
           b == [i \in DOMAIN m.paused |-> Measured(m.paused[i], Rebuilt(m.paused[i]))]
<1>1. CycleRows(m) = a \o b
  BY DEF CycleRows
<1>2. /\ m.lanes \in Seq(Going) /\ m.paused \in Seq(Going)
      /\ DOMAIN m.lanes = 1..Len(m.lanes) /\ Len(m.lanes) \in Nat /\ IsFiniteSet(DOMAIN m.lanes)
  BY PartsOf, ListDomain
<1>3. /\ \A i \in DOMAIN m.lanes : m.lanes[i] \in Going
      /\ \A i \in DOMAIN m.paused : m.paused[i] \in Going
  BY <1>2
<1>4. \A row \in Going : Context(row) \in Nat /\ row.uid \in Nat
  BY ContextOf
<1> HIDE DEF Context
<1>5. \A row \in Going : Width(row) \in Nat
  <2> TAKE row \in Going
  <2> DEFINE others == {Context(m.lanes[i]) : i \in DOMAIN m.lanes}
  <2>1. IsFiniteSet(others)
    <3> DEFINE f == [i \in DOMAIN m.lanes |-> Context(m.lanes[i])]
    <3>1. f = [i \in DOMAIN m.lanes |-> f[i]] /\ others = {f[i] : i \in DOMAIN m.lanes}
      OBVIOUS
    <3> HIDE DEF f, others
    <3>2. QED
      BY <1>2, <3>1, ValuesAreFinite
  <2>2. others \subseteq Nat /\ Context(row) \in Nat
    BY <1>3, <1>4
  <2> HIDE DEF others
  <2>3. IsFiniteSet({Context(row)} \cup others)
    BY <2>1, FS_Singleton, FS_Union
  <2>4. {Context(row)} \cup others \subseteq Nat /\ {Context(row)} \cup others # {}
    BY <2>2
  <2>5. Max({Context(row)} \cup others) \in {Context(row)} \cup others
    BY <2>3, <2>4, MaxIn
  <2>6. QED
    BY <2>4, <2>5 DEF others
<1> HIDE DEF Width
<1>6. \A row \in Going : Rebuilt(row) \in Nat
  BY <1>2, <1>5
<1> HIDE DEF Rebuilt
<1>7. \A row \in Going, pending \in Nat : /\ Measured(row, pending) \in Measure
                                          /\ Measured(row, pending).uid = row.uid
  BY <1>4 DEF Measure
<1> HIDE DEF Measured
<1>8. a \in Seq(Measure) /\ DOMAIN a = DOMAIN m.lanes /\ Uids(a) = Uids(m.lanes) /\ Distinct(a)
  <2>1. \A i \in DOMAIN m.lanes : a[i] \in Measure /\ a[i].uid = m.lanes[i].uid
    BY <1>3, <1>7
  <2>2. a = [i \in DOMAIN m.lanes |-> a[i]] /\ DOMAIN a = DOMAIN m.lanes
    OBVIOUS
  <2> HIDE DEF a
  <2>3. a \in Seq(Measure)
    BY <1>2, <2>1, <2>2, ListMade
  <2>4. QED
    BY <2>1, <2>2, <2>3, SameUids DEF RoundOK
<1>9. b \in Seq(Measure) /\ DOMAIN b = DOMAIN m.paused /\ Uids(b) = Uids(m.paused) /\ Distinct(b)
  <2>1. \A i \in DOMAIN m.paused : b[i] \in Measure /\ b[i].uid = m.paused[i].uid
    BY <1>3, <1>6, <1>7
  <2>2. b = [i \in DOMAIN m.paused |-> b[i]] /\ DOMAIN b = DOMAIN m.paused
    OBVIOUS
  <2> HIDE DEF b
  <2>3. b \in Seq(Measure)
    BY <1>2, <2>1, <2>2, ListMade
  <2>4. QED
    BY <2>1, <2>2, <2>3, SameUids DEF RoundOK
<1>10. Uids(a) \cap Uids(b) = {}
  BY <1>8, <1>9 DEF RoundOK, Apart
<1> HIDE DEF a, b
<1>11. QED
  BY <1>1, <1>8, <1>9, <1>10, Concat

(* A plan gives every lane a depth, plain decoding or a place in the queue.*)
LEMMA PlanOf ==
    ASSUME NEW rows \in Seq(Measure), NEW free, NEW i \in DOMAIN rows
    PROVE  Plan(rows, free)[i] \in {Queued, Plain} \cup (1..MaxDepth)
<1> DEFINE Chosen(d) == Fit(rows, d, free, Cap(rows, d))
           depths == {d \in 1..MaxDepth : Chosen(d) # {}}
           alone == Fit(rows, 0, free, Len(rows))
<1>1. Plan(rows, free)[i] =
         IF depths # {} THEN IF i \in Chosen(Max(depths)) THEN Max(depths) ELSE Queued
         ELSE IF alone # {} /\ i = Min(alone) THEN Plain ELSE Queued
  BY DEF Plan
<1> HIDE DEF Chosen, alone
<1>2. IsFiniteSet(depths) /\ depths \subseteq 1..MaxDepth
  <2>1. MaxDepth \in Nat
    BY AdmissionAssumption
  <2>2. IsFiniteSet(1..MaxDepth)
    BY <2>1, FS_Interval
  <2>3. depths \subseteq 1..MaxDepth
    OBVIOUS
  <2>4. QED
    BY <2>2, <2>3, FS_Subset
<1>3. depths # {} => Max(depths) \in 1..MaxDepth
  <2> HIDE DEF depths
  <2>1. depths \subseteq Int
    BY <1>2
  <2>2. depths # {} => Max(depths) \in depths
    BY <1>2, <2>1, MaxIn
  <2>3. QED
    BY <1>2, <2>2
<1>4. QED
  BY <1>1, <1>3

(* So does an answer, by uid; and it remembers holds of lanes it was asked *)
(* about.                                                                  *)
LEMMA VerdictOf ==
    ASSUME NEW rows \in Seq(Measure), Distinct(rows), NEW free, NEW demoted,
           NEW v \in Answers(rows, free, demoted)
    PROVE  /\ v.of \in [Uids(rows) -> {Queued, Plain} \cup (1..MaxDepth)]
           /\ inserted \in Nat /\ Uids(rows) \subseteq 0..(inserted - 1) /\ demoted \in Demotions
              => v.demoted \in Demotions
<1> DEFINE D == DOMAIN rows
           plan == Plan(rows, free)
           Depths == {Queued, Plain} \cup (1..MaxDepth)
<1>1. PICK held : held = Held(rows, plan, free, demoted) /\ v = Answer(rows, plan, held, demoted)
  BY DEF Answers
<1>2. held \in SUBSET D
  BY <1>1, HeldRejoin
<1>3. \A i \in D : plan[i] \in Depths
  BY PlanOf
<1> HIDE DEF plan
<1>4. \A i \in D : v.of[rows[i].uid] \in Depths
  <2> TAKE i \in D
  <2>1. v.of[rows[i].uid] = IF i \in held \/ plan[i] = Queued THEN Queued ELSE plan[i]
    BY <1>1, <1>2, AnswerOf
  <2>2. QED
    BY <1>3, <2>1
<1> DEFINE queued == {rows[i].uid : i \in held \cup {j \in D : plan[j] = Queued}}
           holds == {rows[i].uid : i \in held}
<1>5. v.of = [u \in Uids(rows) |-> v.of[u]]
  <2> DEFINE of == [u \in {rows[i].uid : i \in D} |->
                      IF u \in queued THEN Queued ELSE plan[CHOOSE i \in D : rows[i].uid = u]]
  <2>1. v.of = of
    BY <1>1 DEF Answer
  <2>2. of = [u \in {rows[i].uid : i \in D} |-> of[u]]
    OBVIOUS
  <2> HIDE DEF of
  <2>3. QED
    BY <2>1, <2>2 DEF Uids
<1>6. v.of \in [Uids(rows) -> Depths]
  <2>1. \A u \in Uids(rows) : v.of[u] \in Depths
    BY <1>4 DEF Uids
  <2> HIDE DEF Depths
  <2>2. QED
    BY <1>5, <2>1
<1>7. ASSUME inserted \in Nat, Uids(rows) \subseteq 0..(inserted - 1), demoted \in Demotions
      PROVE  v.demoted \in Demotions
  <2> DEFINE next == [u \in queued |-> IF u \in holds THEN demoted[u] + 1 ELSE 0]
  <2>1. v.demoted = IF \E i \in D : ~rows[i].resident THEN demoted ELSE next
    BY <1>1 DEF Answer
  <2>2. queued \subseteq 0..(inserted - 1)
    BY <1>2, <1>7 DEF Uids
  <2>3. \A u \in queued : next[u] \in 0..MaxHolds
    <3> TAKE u \in queued
    <3>1. CASE u \in holds
      <4>1. PICK i \in held : u = rows[i].uid
        BY <3>1
      <4>2. i \in D /\ rows[i].uid \in DOMAIN demoted /\ demoted[rows[i].uid] < MaxHolds
        BY <1>1 DEF Held
      <4>3. PICK S \in SUBSET (0..(inserted - 1)) : demoted \in [S -> 0..MaxHolds]
        BY <1>7 DEF Demotions
      <4>4. demoted[u] \in 0..MaxHolds /\ demoted[u] < MaxHolds
        BY <4>1, <4>2, <4>3
      <4>5. QED
        BY <3>1, <4>4, AdmissionAssumption
    <3>2. CASE u \notin holds
      BY <3>2, AdmissionAssumption
    <3>3. QED
      BY <3>1, <3>2
  <2>4. next = [u \in queued |-> next[u]]
    OBVIOUS
  <2> HIDE DEF next, queued
  <2>5. next \in [queued -> 0..MaxHolds]
    BY <2>3, <2>4
  <2>6. next \in Demotions
    BY <2>2, <2>5 DEF Demotions
  <2>7. QED
    BY <1>7, <2>1, <2>6
<1>8. QED
  BY <1>6, <1>7

(* The depth of the next cycle is one of the answers.                      *)
LEMMA DepthOf ==
    ASSUME NEW U, U # {}, NEW of \in [U -> {Queued, Plain} \cup (1..MaxDepth)]
    PROVE  Max(Range(of)) \in Int
<1>1. MaxDepth \in Nat
  BY AdmissionAssumption
<1>2. IsFiniteSet((-1)..MaxDepth)
  BY <1>1, FS_Interval
<1>3. Range(of) \subseteq (-1)..MaxDepth
  BY <1>1 DEF Range, Queued, Plain
<1>4. Range(of) # {} /\ Range(of) \subseteq Int
  BY <1>3 DEF Range
<1>5. IsFiniteSet(Range(of))
  BY <1>2, <1>3, FS_Subset
<1>6. Max(Range(of)) \in Range(of)
  BY <1>4, <1>5, MaxIn
<1>7. QED
  BY <1>4, <1>6

(* The lanes go three ways, the paused ones too: those that may speculate  *)
(* are in the batch, or join it; the others wait or go on as plain.        *)
LEMMA AdmittedOK ==
    ASSUME NEW asked, NEW m, RoundOK(m, asked), policy.admission,
           inserted \in Nat, asked \subseteq 0..(inserted - 1),
           m.lanes # <<>> \/ m.paused # <<>>, Readings \subseteq Nat,
           NEW v \in Asked(m, CycleRows(m))
    PROVE  RoundOK(Admitted(m, v), asked) /\ Admitted(m, v).done = m.done
<1> DEFINE W(s, verdicts) == {i \in DOMAIN s : v.of[s[i].uid] \in verdicts}
           l1 == Rows(m.lanes, W(m.lanes, 1..MaxDepth))
           l2 == Rows(m.lanes, W(m.lanes, {Queued}))
           l3 == Rows(m.lanes, W(m.lanes, {Plain}))
           p1 == Rows(m.paused, W(m.paused, 1..MaxDepth))
           p2 == Rows(m.paused, W(m.paused, {Queued}))
           p3 == Rows(m.paused, W(m.paused, {Plain}))
           depth == Max(Range(v.of))
           k == [m EXCEPT !.lanes = l1, !.paused = p2 \o l2, !.ready = @ \o l3 \o p3,
                          !.demoted = v.demoted, !.depth = depth]
           rows == CycleRows(m)
           Depths == {Queued, Plain} \cup (1..MaxDepth)
<1>1. Admitted(m, v) = Attach(k, p1)
  BY DEF Admitted
<1>2. rows \in Seq(Measure) /\ Distinct(rows) /\ Uids(rows) = Uids(m.lanes) \cup Uids(m.paused)
  BY CycleRowsOf
<1>3. PICK free \in Readings : v \in Answers(rows, free, m.demoted)
  BY DEF Asked
<1>4. /\ m.lanes \in Seq(Going) /\ m.paused \in Seq(Going) /\ m.ready \in Seq(Going)
      /\ m.demoted \in Demotions /\ m \in LaneState
      /\ Distinct(m.lanes) /\ Distinct(m.paused) /\ Distinct(m.ready)
  BY PartsOf DEF RoundOK
<1>5. v.of \in [Uids(rows) -> Depths] /\ v.demoted \in Demotions
  <2>1. Uids(rows) \subseteq asked
    BY <1>2 DEF RoundOK
  <2>2. Uids(rows) \subseteq 0..(inserted - 1)
    BY <2>1
  <2> HIDE DEF rows
  <2>3. QED
    BY <1>2, <1>3, <1>4, <2>2, VerdictOf
<1>6. depth \in Int
  <2>1. Uids(rows) # {}
    <3>1. ASSUME NEW s \in Seq(Going), s # <<>> PROVE Uids(s) # {}
      <4>1. 1 \in DOMAIN s
        BY <3>1
      <4>2. QED
        BY <4>1 DEF Uids
    <3>2. QED
      BY <1>2, <1>4, <3>1
  <2>2. QED
    BY <1>5, <2>1, DepthOf
<1> HIDE DEF depth, rows
<1>7. ASSUME NEW s \in Seq(Going), Uids(s) \subseteq Uids(rows)
      PROVE  /\ W(s, 1..MaxDepth) \cap W(s, {Queued}) = {}
             /\ W(s, 1..MaxDepth) \cap W(s, {Plain}) = {}
             /\ W(s, {Queued}) \cap W(s, {Plain}) = {}
             /\ W(s, 1..MaxDepth) \cup W(s, {Queued}) \cup W(s, {Plain}) = DOMAIN s
  <2>1. \A i \in DOMAIN s : s[i].uid \in Uids(rows)
    BY <1>7 DEF Uids
  <2>2. \A i \in DOMAIN s : v.of[s[i].uid] \in {Queued, Plain} \cup (1..MaxDepth)
    BY <1>5, <2>1
  <2>3. Queued \notin 1..MaxDepth /\ Plain \notin 1..MaxDepth /\ Queued # Plain
    BY DEF Queued, Plain
  <2>4. QED
    BY <2>2, <2>3
<1> HIDE DEF W
<1>8. /\ l1 \in Seq(Going) /\ l2 \in Seq(Going) /\ l3 \in Seq(Going)
      /\ Distinct(l1) /\ Distinct(l2) /\ Distinct(l3)
      /\ Uids(l1) \cap Uids(l2) = {} /\ Uids(l1) \cap Uids(l3) = {} /\ Uids(l2) \cap Uids(l3) = {}
      /\ Uids(l1) \cup Uids(l2) \cup Uids(l3) = Uids(m.lanes)
  <2> DEFINE X == W(m.lanes, 1..MaxDepth)  Y == W(m.lanes, {Queued})  Z == W(m.lanes, {Plain})
  <2>1. X \cap Y = {} /\ X \cap Z = {} /\ Y \cap Z = {} /\ X \cup Y \cup Z = DOMAIN m.lanes
    BY <1>2, <1>4, <1>7
  <2>2. l1 = Rows(m.lanes, X) /\ l2 = Rows(m.lanes, Y) /\ l3 = Rows(m.lanes, Z)
    OBVIOUS
  <2> HIDE DEF X, Y, Z, l1, l2, l3
  <2>3. QED
    BY <1>4, <2>1, <2>2, ThreeWays, SMTT(30)
<1>9. /\ p1 \in Seq(Going) /\ p2 \in Seq(Going) /\ p3 \in Seq(Going)
      /\ Distinct(p1) /\ Distinct(p2) /\ Distinct(p3)
      /\ Uids(p1) \cap Uids(p2) = {} /\ Uids(p1) \cap Uids(p3) = {} /\ Uids(p2) \cap Uids(p3) = {}
      /\ Uids(p1) \cup Uids(p2) \cup Uids(p3) = Uids(m.paused)
  <2> DEFINE X == W(m.paused, 1..MaxDepth)  Y == W(m.paused, {Queued})  Z == W(m.paused, {Plain})
  <2>1. X \cap Y = {} /\ X \cap Z = {} /\ Y \cap Z = {} /\ X \cup Y \cup Z = DOMAIN m.paused
    BY <1>2, <1>4, <1>7
  <2>2. p1 = Rows(m.paused, X) /\ p2 = Rows(m.paused, Y) /\ p3 = Rows(m.paused, Z)
    OBVIOUS
  <2> HIDE DEF X, Y, Z, p1, p2, p3
  <2>3. QED
    BY <1>4, <2>1, <2>2, ThreeWays
<1> DEFINE paused == p2 \o l2
           ready == m.ready \o l3 \o p3
           A == Uids(m.lanes)  B == Uids(m.paused)  C == Uids(m.ready)
           D == Uids(m.plain)  E == m.done
           a1 == Uids(l1)  a2 == Uids(l2)  a3 == Uids(l3)
           b1 == Uids(p1)  b2 == Uids(p2)  b3 == Uids(p3)
<1>10. Apart(A, B, C, D, E) /\ A \cup B \cup C \cup D \cup E = asked
  BY DEF RoundOK
<1>11. /\ a1 \cap a2 = {} /\ a1 \cap a3 = {} /\ a2 \cap a3 = {} /\ a1 \cup a2 \cup a3 = A
       /\ b1 \cap b2 = {} /\ b1 \cap b3 = {} /\ b2 \cap b3 = {} /\ b1 \cup b2 \cup b3 = B
  BY <1>8, <1>9
<1> HIDE DEF l1, l2, l3, p1, p2, p3
<1>12. /\ b2 \cap a2 = {} /\ C \cap a3 = {} /\ (C \cup a3) \cap b3 = {}
       /\ Apart(a1, b2 \cup a2, (C \cup a3) \cup b3, D, E)
       /\ b1 \subseteq asked
  <2> HIDE DEF A, B, C, D, E, a1, a2, a3, b1, b2, b3
  <2>1. QED
    BY <1>10, <1>11 DEF Apart
<1>13. a1 \cup (b2 \cup a2) \cup ((C \cup a3) \cup b3) \cup D \cup E = asked \ b1
  <2> HIDE DEF A, B, C, D, E, a1, a2, a3, b1, b2, b3
  <2>1. b1 \cap A = {} /\ b1 \cap C = {} /\ b1 \cap D = {} /\ b1 \cap E = {}
    BY <1>10, <1>11 DEF Apart
  <2>2. QED
    BY <1>10, <1>11, <2>1
<1>14. paused \in Seq(Going) /\ Uids(paused) = b2 \cup a2 /\ Distinct(paused)
  BY <1>8, <1>9, <1>12, Concat
<1>15. ready \in Seq(Going) /\ Uids(ready) = (C \cup a3) \cup b3 /\ Distinct(ready)
  <2> DEFINE half == m.ready \o l3
  <2>1. half \in Seq(Going) /\ Uids(half) = C \cup a3 /\ Distinct(half)
    BY <1>4, <1>8, <1>12, Concat
  <2>2. ready = half \o p3
    OBVIOUS
  <2> HIDE DEF half, ready
  <2>3. QED
    BY <1>9, <1>12, <2>1, <2>2, Concat
<1> HIDE DEF paused, ready
<1>16. /\ k \in LaneState /\ k.lanes = l1 /\ k.paused = paused /\ k.ready = ready
       /\ k.plain = m.plain /\ k.done = m.done /\ k.locked = m.locked
  <2>1. k = [m EXCEPT !.lanes = l1, !.paused = paused, !.ready = ready,
                      !.demoted = v.demoted, !.depth = depth]
    BY DEF paused, ready
  <2> HIDE DEF k
  <2>2. QED
    BY <1>4, <1>5, <1>6, <1>8, <1>14, <1>15, <2>1 DEF LaneState
<1> HIDE DEF k
<1>17. RoundOK(k, asked \ b1)
  BY <1>8, <1>12, <1>13, <1>14, <1>15, <1>16 DEF RoundOK
<1>18. RoundOK(Attach(k, p1), (asked \ b1) \cup b1) /\ Attach(k, p1).done = k.done
  <2>1. Uids(p1) \cap (asked \ b1) = {}
    OBVIOUS
  <2>2. QED
    BY <1>9, <1>17, <2>1, AttachOK DEF Fresh
<1>19. (asked \ b1) \cup b1 = asked
  BY <1>12
<1>20. QED
  BY <1>1, <1>16, <1>18, <1>19

(* A boundary pauses and resumes lanes and loses none.                     *)
LEMMA ApplyAdmissionOK ==
    ASSUME NEW asked, NEW m, RoundOK(m, asked),
           inserted \in Nat, asked \subseteq 0..(inserted - 1),
           m.lanes # <<>> \/ m.paused # <<>>, NEW n \in ApplyAdmission(m)
    PROVE  /\ RoundOK(n, asked) /\ n.done = m.done
           /\ ~policy.admission => n.lanes = m.lanes /\ n.locked = m.locked
<1>1. Readings \subseteq Nat
  BY LanesAssumption
<1>2. CASE policy.admission
  <2>1. PICK v \in Asked(m, CycleRows(m)) : n = Admitted(m, v)
    BY <1>2 DEF ApplyAdmission
  <2>2. QED
    BY <1>1, <1>2, <2>1, AdmittedOK
<1>3. CASE ~policy.admission
  <2>1. n = [m EXCEPT !.depth = MaxDepth]
    BY <1>3 DEF ApplyAdmission
  <2>2. MaxDepth \in Int
    BY AdmissionAssumption
  <2>3. QED
    BY <2>1, <2>2, DepthOK
<1>4. QED
  BY <1>2, <1>3

(* The batch has drained, and what was held back joins it.                 *)
LEMMA UndeferredOK ==
    ASSUME NEW asked, NEW m, RoundOK(m, asked)
    PROVE  LET n == Undeferred(m) IN
           /\ RoundOK(n, asked) /\ n.done = m.done
           /\ m.lanes # <<>> => n = m
           /\ ~Pending(m) /\ (policy.admission \/ ~policy.segmented) => ~Pending(n)
<1> DEFINE n == Undeferred(m)
<1>1. m \in LaneState /\ m.paused \in Seq(Going) /\ Distinct(m.paused)
  BY PartsOf DEF RoundOK
<1>2. CASE m.lanes # <<>>
  BY <1>2 DEF Undeferred
<1>3. CASE m.lanes = <<>> /\ policy.admission
  <2>1. n = [m EXCEPT !.locked = FALSE]
    BY <1>3 DEF Undeferred
  <2>2. RoundOK(n, asked) /\ n.done = m.done /\ n.lanes = m.lanes
    BY <2>1, LockedOK, ZenonT(40)
  <2> HIDE DEF n
  <2>3. ~Pending(m) => ~Pending(n)
    BY <2>2 DEF Pending
  <2>4. QED
    BY <1>3, <2>2, <2>3 DEF n
<1>4. CASE m.lanes = <<>> /\ ~policy.admission
  <2> DEFINE k == [m EXCEPT !.locked = FALSE, !.paused = <<>>]
             B == Uids(m.paused)
  <2>1. n = Attach(k, m.paused)
    BY <1>4 DEF Undeferred
  <2>2. <<>> \in Seq(Going) /\ Uids(<<>>) = {} /\ Distinct(<<>>)
    BY NoRows
  <2>3. /\ k \in LaneState /\ k.lanes = m.lanes /\ k.paused = <<>> /\ k.ready = m.ready
        /\ k.plain = m.plain /\ k.done = m.done /\ k.locked = FALSE
    BY <1>1, <2>2 DEF LaneState
  <2> HIDE DEF k
  <2>4. /\ Apart(Uids(m.lanes), B, Uids(m.ready), Uids(m.plain), m.done)
        /\ Uids(m.lanes) \cup B \cup Uids(m.ready) \cup Uids(m.plain) \cup m.done = asked
    BY DEF RoundOK
  <2> HIDE DEF B
  <2>5. /\ Apart(Uids(m.lanes), {}, Uids(m.ready), Uids(m.plain), m.done)
        /\ Uids(m.lanes) \cup {} \cup Uids(m.ready) \cup Uids(m.plain) \cup m.done = asked \ B
        /\ B \subseteq asked
    BY <2>4 DEF Apart
  <2>6. RoundOK(k, asked \ B)
    BY <2>2, <2>3, <2>5 DEF RoundOK
  <2>7. /\ RoundOK(n, (asked \ B) \cup B) /\ n.done = k.done
    <3>1. Uids(m.paused) \cap (asked \ B) = {}
      BY DEF B
    <3>2. RoundOK(k, asked \ B) /\ Uids(m.paused) = B
      BY <2>6 DEF B
    <3> DEFINE others == asked \ B
    <3> HIDE DEF n, others
    <3>3. RoundOK(k, others) /\ Uids(m.paused) \cap others = {}
      BY <3>1, <3>2 DEF others
    <3>4. /\ RoundOK(Attach(k, m.paused), others \cup Uids(m.paused))
          /\ Attach(k, m.paused).done = k.done
      BY <1>1, <3>3, AttachOK DEF Fresh
    <3>5. QED
      BY <2>1, <3>2, <3>4 DEF others
  <2>8. (asked \ B) \cup B = asked
    BY <2>5
  <2>9. ~policy.segmented => n.lanes = <<>>
    <3> HAVE ~policy.segmented
    <3>1. m.paused = <<>>
      BY <1>4 DEF RoundOK
    <3>2. k.lanes = <<>>
      BY <1>4, <2>3
    <3>3. n = [k EXCEPT !.lanes = k.lanes \o <<>>]
      BY <2>1, <3>1 DEF Attach
    <3>4. k.lanes \o <<>> = <<>>
      BY <3>2
    <3>5. n.lanes = <<>>
      BY <2>3, <3>3, <3>4 DEF LaneState
    <3>6. QED
      BY <3>5
  <2> HIDE DEF n
  <2>10. ~policy.segmented => ~Pending(n)
    BY <2>9 DEF Pending
  <2>11. QED
    BY <1>4, <2>3, <2>7, <2>8, <2>10 DEF n
<1>5. QED
  BY <1>2, <1>3, <1>4

(* One round of the lanes.  Without a controller a batch that ran as one   *)
(* is not widened.                                                         *)
LEMMA NextLanesOK ==
    ASSUME NEW asked, NEW m, RoundOK(m, asked),
           inserted \in Nat, asked \subseteq 0..(inserted - 1),
           m.lanes # <<>> \/ m.paused # <<>>, NEW n \in NextLanes(m)
    PROVE  /\ RoundOK(n, asked) /\ m.done \subseteq n.done
           /\ ~policy.admission /\ m.locked /\ m.lanes # <<>>
              => n.locked /\ Uids(n.lanes) \subseteq Uids(m.lanes)
<1>1. CASE Pending(m)
  <2>1. n \in EmitInitial(m)
    BY <1>1 DEF NextLanes
  <2>2. QED
    BY <2>1, EmitInitialOK
<1>2. CASE ~Pending(m)
  <2>1. PICK a \in ApplyAdmission(m) :
             n \in IF Pending(a) THEN EmitInitial(a) ELSE Cycle(Undeferred(a))
    BY <1>2 DEF NextLanes
  <2>2. /\ RoundOK(a, asked) /\ a.done = m.done
        /\ ~policy.admission => a.lanes = m.lanes /\ a.locked = m.locked
    BY ApplyAdmissionOK
  <2>3. CASE Pending(a)
    <3>1. n \in EmitInitial(a)
      BY <2>1, <2>3
    <3>2. /\ RoundOK(n, asked) /\ a.done \subseteq n.done
          /\ n.locked = a.locked /\ Uids(n.lanes) \subseteq Uids(a.lanes)
      BY <2>2, <3>1, EmitInitialOK
    <3>3. QED
      BY <2>2, <3>2
  <2>4. CASE ~Pending(a)
    <3> DEFINE u == Undeferred(a)
    <3>1. /\ RoundOK(u, asked) /\ u.done = a.done /\ (a.lanes # <<>> => u = a)
          /\ policy.admission \/ ~policy.segmented => ~Pending(u)
      BY <2>2, <2>4, UndeferredOK
    <3>2. n \in IF u.lanes = <<>> THEN {u} ELSE Propose(u)
      BY <2>1, <2>4 DEF Cycle
    <3> HIDE DEF u
    <3>3. CASE u.lanes = <<>>
      BY <2>2, <3>1, <3>2, <3>3
    <3>4. CASE u.lanes # <<>>
      <4>1. /\ RoundOK(n, asked) /\ u.done \subseteq n.done
            /\ Uids(n.lanes) \subseteq Uids(u.lanes)
            /\ policy.segmented /\ u.locked => n.locked
        BY <3>1, <3>2, <3>4, ProposeOK
      <4>2. u.locked => policy.segmented
        BY <3>1 DEF RoundOK
      <4>3. QED
        BY <2>2, <3>1, <4>1, <4>2
    <3>5. QED
      BY <3>3, <3>4
  <2>5. QED
    BY <2>3, <2>4
<1>3. QED
  BY <1>1, <1>2

(* The decode half of a round, first tokens or cycle.                      *)
LEMMA DecodeLanesOK ==
    ASSUME NEW asked, NEW m, RoundOK(m, asked),
           inserted \in Nat, asked \subseteq 0..(inserted - 1), NEW n \in DecodeLanes(m)
    PROVE  /\ RoundOK(n, asked) /\ m.done \subseteq n.done /\ n.ready = <<>>
           /\ ~policy.admission /\ m.locked /\ m.lanes # <<>>
              => n.locked /\ Uids(n.lanes) \subseteq Uids(m.lanes)
<1>0. PICK a \in IF m.lanes \o m.paused = <<>> THEN {m} ELSE NextLanes(m) :
             \E r \in MigratePlain(DemoteStarved(a)) : n \in NextPlain(r)
  <2> DEFINE next == IF m.lanes \o m.paused = <<>> THEN {m} ELSE NextLanes(m)
             demoted == {DemoteStarved(a) : a \in next}
             ready == UNION {MigratePlain(d) : d \in demoted}
  <2>1. DecodeLanes(m) = UNION {NextPlain(r) : r \in ready}
    BY DEF DecodeLanes
  <2> HIDE DEF next
  <2>2. PICK r \in ready : n \in NextPlain(r)
    BY <2>1
  <2>3. PICK d \in demoted : r \in MigratePlain(d)
    BY <2>2
  <2>4. PICK a \in next : d = DemoteStarved(a)
    BY <2>3
  <2>5. QED
    BY <2>2, <2>3, <2>4 DEF next
<1>1. PICK r \in MigratePlain(DemoteStarved(a)) : n \in NextPlain(r)
  BY <1>0
<1>2. /\ RoundOK(a, asked) /\ m.done \subseteq a.done
      /\ ~policy.admission /\ m.locked /\ m.lanes # <<>>
         => a.locked /\ Uids(a.lanes) \subseteq Uids(m.lanes)
  <2>1. CASE m.lanes \o m.paused = <<>>
    BY <1>0, <2>1
  <2>2. CASE m.lanes \o m.paused # <<>>
    <3>1. m.lanes \in Seq(Going) /\ m.paused \in Seq(Going)
      BY PartsOf
    <3>2. m.lanes # <<>> \/ m.paused # <<>>
      BY <2>2, <3>1
    <3>3. QED
      BY <1>0, <2>2, <3>2, NextLanesOK
  <2>3. QED
    BY <2>1, <2>2
<1> DEFINE d == DemoteStarved(a)
<1>3. RoundOK(d, asked) /\ d.done = a.done /\ d.lanes = a.lanes /\ d.locked = a.locked
  BY <1>2, DemoteStarvedOK
<1> HIDE DEF d
<1>4. r \in MigratePlain(d)
  BY <1>1 DEF d
<1>5. /\ RoundOK(r, asked) /\ d.done \subseteq r.done /\ r.ready = <<>>
      /\ r.lanes = d.lanes /\ r.locked = d.locked
  BY <1>3, <1>4, MigratePlainOK
<1>6. /\ RoundOK(n, asked) /\ r.done \subseteq n.done
      /\ n.lanes = r.lanes /\ n.locked = r.locked /\ n.ready = r.ready
  BY <1>1, <1>5, NextPlainOK
<1>7. QED
  BY <1>2, <1>3, <1>5, <1>6

--------------------------------------------------------------------------------
(* The joining part of a round.                                            *)

(* A lane is made of a request that waited.                                *)
LEMMA LaneMade ==
    ASSUME NEW job \in Waiting
    PROVE  LaneOf(job) \in Going /\ LaneOf(job).uid = job.uid
<1>1. /\ job.uid \in Nat /\ job.limit \in Nat \ {0} /\ job.history \in Nat
      /\ job.segments \in Seq(Nat \ {0})
  BY DEF Waiting, Job
<1>2. SumFunction(job.segments) \in Nat
  BY <1>1, SegmentsSum
<1> DEFINE size == job.history + SumFunction(job.segments)
           t == LaneOf(job)
<1>3. size \in Nat
  BY <1>1, <1>2
<1>4. t = [uid |-> job.uid, num |-> 0, limit |-> job.limit, initial |-> TRUE, size |-> size]
  BY DEF LaneOf
<1> HIDE DEF size, t
<1>5. t \in Lane /\ t.num = 0 /\ t.limit = job.limit /\ t.uid = job.uid
  BY <1>1, <1>3, <1>4 DEF Lane
<1>6. t \in Going
  BY <1>1, <1>5 DEF Going, InOrder
<1>7. QED
  BY <1>5, <1>6 DEF t

(* Lanes that join are paused first when there is a controller.            *)
WithPaused(m, rows) == [m EXCEPT !.paused = @ \o rows]

(* Lanes that join may start paused.                                       *)
LEMMA PausedOK ==
    ASSUME NEW asked, NEW m, RoundOK(m, asked), policy.admission,
           NEW rows, Fresh(rows, asked)
    PROVE  /\ RoundOK(WithPaused(m, rows), asked \cup Uids(rows))
           /\ WithPaused(m, rows).done = m.done
           /\ WithPaused(m, rows).paused = m.paused \o rows
<1> DEFINE n == WithPaused(m, rows)
           A == Uids(m.lanes)  B == Uids(m.paused)  C == Uids(m.ready)
           D == Uids(m.plain)  E == m.done          R == Uids(rows)
           paused == m.paused \o rows
<1>0. rows \in Seq(Going) /\ Distinct(rows) /\ Uids(rows) \cap asked = {}
  BY DEF Fresh
<1> USE <1>0
<1>1. m \in LaneState /\ m.lanes \in Seq(Going) /\ m.paused \in Seq(Going)
  BY PartsOf DEF RoundOK
<1>2. Apart(A, B, C, D, E) /\ A \cup B \cup C \cup D \cup E = asked
  BY DEF RoundOK
<1>3. B \cap R = {}
  BY <1>2
<1>4. paused \in Seq(Going) /\ Uids(paused) = B \cup R /\ Distinct(paused)
  BY <1>1, <1>3, Concat DEF RoundOK
<1>5. n = [m EXCEPT !.paused = paused]
  BY DEF WithPaused
<1> HIDE DEF paused, n
<1>6. /\ n \in LaneState /\ n.lanes = m.lanes /\ n.paused = paused /\ n.ready = m.ready
      /\ n.plain = m.plain /\ n.done = m.done /\ n.locked = m.locked /\ n.starved = m.starved
  BY <1>1, <1>4, <1>5 DEF LaneState
<1>7. Apart(A, B \cup R, C, D, E) /\ A \cup (B \cup R) \cup C \cup D \cup E = asked \cup R
  <2> HIDE DEF A, B, C, D, E, R
  <2>1. R \cap asked = {}
    BY DEF R
  <2>2. QED
    BY <1>2, <2>1 DEF Apart
<1>8. RoundOK(n, asked \cup R)
  BY <1>4, <1>6, <1>7 DEF RoundOK
<1>9. QED
  BY <1>6, <1>8 DEF paused, n

(* New lanes join a batch, each attached, paused, plain or ended.          *)
LEMMA ExtendOK ==
    ASSUME NEW asked, NEW m, RoundOK(m, asked),
           NEW rows, Fresh(rows, asked), rows # <<>>,
           inserted \in Nat, asked \cup Uids(rows) \subseteq 0..(inserted - 1),
           NEW n \in Extend(m, rows)
    PROVE  /\ RoundOK(n, asked \cup Uids(rows)) /\ m.done \subseteq n.done /\ n.ready = <<>>
           /\ ~policy.admission => /\ Uids(n.lanes) \subseteq Uids(m.lanes) \cup Uids(rows)
                                   /\ m.locked /\ m.lanes # <<>> => n.lanes = m.lanes
<1> DEFINE all == asked \cup Uids(rows)
           p == WithPaused(m, rows)
<1>1. PICK j \in IF policy.admission THEN ApplyAdmission(p) ELSE {Attach(m, rows)} :
             n \in MigratePlain(j)
  BY DEF Extend, WithPaused
<1>2. /\ RoundOK(j, all) /\ m.done \subseteq j.done
      /\ ~policy.admission => /\ Uids(j.lanes) \subseteq Uids(m.lanes) \cup Uids(rows)
                              /\ m.locked /\ m.lanes # <<>> => j.lanes = m.lanes
  <2>1. CASE policy.admission
    <3> HIDE DEF p, all
    <3>0. /\ RoundOK(WithPaused(m, rows), asked \cup Uids(rows))
          /\ WithPaused(m, rows).done = m.done
          /\ WithPaused(m, rows).paused = m.paused \o rows
      BY <2>1, PausedOK, ZenonT(40)
    <3>1. RoundOK(p, asked \cup Uids(rows)) /\ p.done = m.done /\ p.paused = m.paused \o rows
      BY <3>0 DEF p
    <3>1a. RoundOK(p, all)
      BY <3>1 DEF all
    <3>2. p.paused # <<>>
      <4>1. m.paused \in Seq(Going) /\ rows \in Seq(Going)
        BY PartsOf DEF Fresh
      <4>2. QED
        BY <3>1, <4>1
    <3>3. j \in ApplyAdmission(p) /\ all \subseteq 0..(inserted - 1)
      BY <1>1, <2>1 DEF all
    <3>4. RoundOK(j, all) /\ j.done = p.done
      BY <3>1a, <3>2, <3>3, ApplyAdmissionOK
    <3>5. QED
      BY <2>1, <3>1, <3>4
  <2>2. CASE ~policy.admission
    <3> DEFINE q == Attach(m, rows)
    <3>1. j = Attach(m, rows)
      BY <1>1, <2>2
    <3>2. m.locked => policy.segmented
      BY DEF RoundOK
    <3>3. RoundOK(q, asked \cup Uids(rows)) /\ q.done = m.done
      BY AttachOK
    <3>4. /\ Uids(q.lanes) \subseteq Uids(m.lanes) \cup Uids(rows)
          /\ policy.segmented /\ m.locked /\ m.lanes # <<>> => q.lanes = m.lanes
      BY AttachOK, ZenonT(40)
    <3> HIDE DEF q
    <3>5. RoundOK(q, all)
      BY <3>3
    <3>6. j = q
      BY <3>1 DEF q
    <3>7. QED
      BY <3>2, <3>3, <3>4, <3>5, <3>6
  <2>3. QED
    BY <2>1, <2>2
<1> HIDE DEF all
<1>3. RoundOK(n, all) /\ j.done \subseteq n.done /\ n.ready = <<>> /\ n.lanes = j.lanes
  BY <1>1, <1>2, MigratePlainOK
<1>4. QED
  BY <1>2, <1>3 DEF all

(* What a round may end with, after n requests of waiting were allowed in. *)
JoinOK(end, m, asked, waiting, n) ==
    /\ end.queue \in Seq(Waiting) /\ Distinct(end.queue)
    /\ Uids(end.queue) \subseteq Uids(waiting) /\ Len(end.queue) + n >= Len(waiting)
    /\ RoundOK(end.mtp, asked \cup (Uids(waiting) \ Uids(end.queue)))
    /\ m.done \subseteq end.mtp.done /\ end.mtp.ready = <<>>
    /\ ~policy.admission => /\ Uids(end.mtp.lanes) \subseteq Uids(m.lanes) \cup Uids(waiting)
                            /\ m.locked /\ m.lanes # <<>> => end.mtp.lanes = m.lanes

(* _make_batch moves the first requests of the queue into lanes.           *)
LEMMA MakeBatchOK ==
    ASSUME NEW asked, NEW m, RoundOK(m, asked),
           NEW waiting \in Seq(Waiting), Distinct(waiting), Uids(waiting) \cap asked = {},
           inserted \in Nat, asked \cup Uids(waiting) \subseteq 0..(inserted - 1),
           NEW n \in 1..Len(waiting), NEW end \in MakeBatch(m, waiting, n)
    PROVE  JoinOK(end, m, asked, waiting, n)
<1> DEFINE rows == [i \in 1..n |-> LaneOf(waiting[i])]
           rest == SubSeq(waiting, n + 1, Len(waiting))
<1>0. DOMAIN waiting = 1..Len(waiting) /\ Len(waiting) \in Nat /\ n \in Nat /\ n >= 1
      /\ n \in 0..Len(waiting)
  BY ListDomain
<1>1. PICK j \in Extend(m, rows) : end = [mtp |-> j, queue |-> rest]
  BY DEF MakeBatch
<1>2. end.mtp = j /\ end.queue = rest
  BY <1>1
<1>3. \A i \in 1..n : rows[i] \in Going /\ rows[i].uid = waiting[i].uid
  <2> TAKE i \in 1..n
  <2>1. waiting[i] \in Waiting
    BY <1>0
  <2>2. QED
    BY <2>1, LaneMade
<1>4. rows \in Seq(Going) /\ Len(rows) = n /\ rows # <<>>
  <2>1. rows \in [1..n -> Going]
    BY <1>3
  <2> HIDE DEF rows
  <2>2. rows \in Seq(Going) /\ Len(rows) = n
    BY <1>0, <2>1
  <2>3. QED
    BY <1>0, <2>2
<1>5. \A i \in 1..n : rows[i].uid = waiting[i].uid
  BY <1>3
<1> HIDE DEF rows, rest
<1>6. /\ rest \in Seq(Waiting) /\ Len(rest) = Len(waiting) - n
      /\ Uids(rows) \cup Uids(rest) = Uids(waiting)
      /\ Distinct(rows) /\ Distinct(rest) /\ Uids(rows) \cap Uids(rest) = {}
  <2>1. rest = SubSeq(waiting, n + 1, Len(waiting))
    BY DEF rest
  <2>2. n \in 0..Len(waiting) /\ rows \in Seq(Going) /\ Len(rows) = n
    BY <1>0, <1>4
  <2>3. FirstTaken(waiting, n, rows, rest)
    BY <1>5, <2>1, <2>2 DEF FirstTaken
  <2>4. /\ rest \in Seq(Waiting) /\ Len(rest) = Len(waiting) - n
        /\ Uids(rows) \cup Uids(rest) = Uids(waiting)
        /\ Distinct(waiting) => Distinct(rows) /\ Distinct(rest) /\ Uids(rows) \cap Uids(rest) = {}
    BY <2>3, FirstOnes
  <2>5. QED
    BY <2>4
<1>7. /\ Fresh(rows, asked) /\ asked \cup Uids(rows) \subseteq 0..(inserted - 1)
      /\ Uids(waiting) \ Uids(rest) = Uids(rows)
  BY <1>4, <1>6 DEF Fresh
<1>8. /\ RoundOK(j, asked \cup Uids(rows)) /\ m.done \subseteq j.done /\ j.ready = <<>>
      /\ ~policy.admission => /\ Uids(j.lanes) \subseteq Uids(m.lanes) \cup Uids(rows)
                              /\ m.locked /\ m.lanes # <<>> => j.lanes = m.lanes
  BY <1>1, <1>4, <1>6, <1>7, ExtendOK
<1>9. Len(rest) + n >= Len(waiting)
  BY <1>0, <1>6
<1>10. QED
  BY <1>2, <1>6, <1>7, <1>8, <1>9 DEF JoinOK

(* A slice of a waiting prompt, of at most all of it but one token.        *)
Shortened(job, done, total) ==
    [job EXCEPT !.history = @ + done, !.age = 0, !.bytes = @ + BytesPerUnit * done,
                !.segments = IF total - done = 1 THEN <<1>> ELSE <<total - done - 1, 1>>]

(* A prompt after a slice that leaves its last token.                      *)
LEMMA JobSliced ==
    ASSUME NEW job \in Waiting, NEW done \in Nat, NEW total, total = SumFunction(job.segments),
           done <= total - 1
    PROVE  /\ Shortened(job, done, total) \in Waiting
           /\ Shortened(job, done, total).uid = job.uid
<1> DEFINE t == Shortened(job, done, total)
           rest == IF total - done = 1 THEN <<1>> ELSE <<total - done - 1, 1>>
<1>1. /\ job \in Job /\ job.uid \in Nat /\ job.segments \in Seq(Nat \ {0})
      /\ job.limit \in Nat \ {0} /\ job.history \in Nat /\ job.bytes \in Nat
      /\ job = [uid |-> job.uid, segments |-> job.segments, limit |-> job.limit,
                history |-> job.history, bytes |-> job.bytes, age |-> job.age]
  BY DEF Waiting, Job
<1>2. total \in Nat
  BY <1>1, SegmentsSum
<1>3. rest \in Seq(Nat \ {0}) /\ rest # <<>> /\ Last(rest) = 1
  <2>1. CASE total - done = 1
    <3>1. rest = <<1>>
      BY <2>1
    <3> HIDE DEF rest
    <3>2. rest \in Seq(Nat \ {0}) /\ Len(rest) = 1 /\ rest[1] = 1 /\ rest # <<>>
      BY <3>1
    <3>3. QED
      BY <3>2 DEF Last
  <2>2. CASE total - done # 1
    <3>1. rest = <<total - done - 1, 1>> /\ total - done - 1 \in Nat \ {0}
      BY <1>2, <2>2
    <3> DEFINE a == total - done - 1
    <3>2. rest = <<a, 1>> /\ a \in Nat \ {0}
      BY <3>1
    <3> HIDE DEF rest, a
    <3>3. rest \in Seq(Nat \ {0}) /\ Len(rest) = 2 /\ rest[2] = 1 /\ rest # <<>>
      BY <3>2
    <3>4. QED
      BY <3>3 DEF Last
  <2>3. QED
    BY <2>1, <2>2
<1>4. BytesPerUnit * done \in Nat
  <2>1. BytesPerUnit \in Nat
    BY CostAssumption
  <2>2. QED
    BY <2>1
<1>5. t = [job EXCEPT !.history = @ + done, !.age = 0,
                      !.bytes = @ + BytesPerUnit * done, !.segments = rest]
  BY DEF Shortened
<1> DEFINE more == BytesPerUnit * done
<1> HIDE DEF rest, more, t
<1>6. t = [uid |-> job.uid, segments |-> rest, limit |-> job.limit,
           history |-> job.history + done, bytes |-> job.bytes + more, age |-> 0]
  BY <1>1, <1>5 DEF more
<1>7. job.history + done \in Nat /\ job.bytes + more \in Nat
  BY <1>1, <1>4 DEF more
<1>8. t.segments = rest /\ t.uid = job.uid
  BY <1>6
<1>9. t \in Job
  <2>1. /\ job.uid \in Nat /\ job.limit \in Nat \ {0} /\ rest \in Seq(Nat \ {0})
        /\ job.history + done \in Nat /\ job.bytes + more \in Nat /\ 0 \in Nat
    BY <1>1, <1>3, <1>7
  <2>2. QED
    BY <1>6, <2>1 DEF Job
<1>10. QED
  BY <1>3, <1>8, <1>9 DEF Waiting, t

(* A slice of adaptive prefill leaves a prompt in the queue or makes it a  *)
(* lane.                                                                   *)
LEMMA AdvanceOK ==
    ASSUME NEW asked, NEW m, RoundOK(m, asked), m.ready = <<>>,
           NEW waiting \in Seq(Waiting), Distinct(waiting), Uids(waiting) \cap asked = {},
           inserted \in Nat, asked \cup Uids(waiting) \subseteq 0..(inserted - 1),
           NEW i \in DOMAIN waiting, NEW chunk \in Nat, NEW n \in Nat, n >= 1,
           NEW end \in Advance(m, waiting, i, chunk)
    PROVE  JoinOK(end, m, asked, waiting, n)
<1> DEFINE total == SumFunction(waiting[i].segments)
           done == Min({chunk, total - 1})
           job == Shortened(waiting[i], done, total)
           front == <<job>> \o RemoveAt(waiting, i)
           same == [k \in DOMAIN waiting |-> IF k = i THEN job ELSE waiting[k]]
<1>1. DOMAIN waiting = 1..Len(waiting) /\ Len(waiting) \in Nat /\ Len(waiting) >= 1
  BY ListDomain
<1>2. waiting[i] \in Waiting /\ total \in Nat /\ total >= 1
  <2>1. /\ waiting[i] \in Waiting /\ waiting[i].segments \in Seq(Nat \ {0})
        /\ waiting[i].segments # <<>>
    BY DEF Waiting, Job
  <2>2. QED
    BY <2>1, SegmentsSum
<1>3. done \in Nat /\ done <= total - 1
  <2> HIDE DEF total
  <2>1. chunk \in Int /\ total - 1 \in Int
    BY <1>2
  <2> DEFINE b == total - 1
  <2>2. b \in Int /\ b >= 0
    BY <1>2
  <2> HIDE DEF b
  <2>3. Min({chunk, b}) \in {chunk, b} /\ Min({chunk, b}) <= b
    BY <2>1, <2>2, LesserOf
  <2>4. done = Min({chunk, b})
    BY DEF b
  <2> HIDE DEF done
  <2>5. QED
    BY <2>2, <2>3, <2>4 DEF b
<1>4. job \in Waiting /\ job.uid = waiting[i].uid
  <2>1. total = SumFunction(waiting[i].segments)
    OBVIOUS
  <2> HIDE DEF done, total
  <2>2. QED
    BY <1>2, <1>3, <2>1, JobSliced
<1>5. end \in IF Ready(job) THEN MakeBatch(m, front, 1) ELSE {[mtp |-> m, queue |-> same]}
  BY DEF Advance, Shortened
<1>6. CASE Ready(job)
  <2> HIDE DEF job
  <2>1. Moved(waiting, i, job, front)
    BY <1>4 DEF Moved
  <2> HIDE DEF front
  <2>2. front \in Seq(Waiting) /\ Len(front) = Len(waiting) /\ Uids(front) = Uids(waiting)
    BY <1>4, <2>1, ToTheFront
  <2>3. Distinct(front)
    BY <1>4, <2>1, ToTheFront
  <2>4. 1 \in 1..Len(front) /\ end \in MakeBatch(m, front, 1)
    BY <1>1, <1>5, <1>6, <2>2
  <2>5. Uids(front) \cap asked = {} /\ asked \cup Uids(front) \subseteq 0..(inserted - 1)
    BY <2>2
  <2>6. JoinOK(end, m, asked, front, 1)
    BY <2>2, <2>3, <2>4, <2>5, MakeBatchOK
  <2>7. end.queue \in Seq(Waiting) /\ Len(end.queue) + 1 >= Len(front)
    BY <2>6 DEF JoinOK
  <2>8. Len(end.queue) + n >= Len(waiting)
    <3>1. Len(end.queue) \in Nat
      BY <2>7
    <3>2. QED
      BY <1>1, <2>2, <2>7, <3>1
  <2>9. QED
    BY <2>2, <2>6, <2>8 DEF JoinOK
<1>7. CASE ~Ready(job)
  <2>1. end = [mtp |-> m, queue |-> same]
    BY <1>5, <1>7
  <2>2. end.mtp = m /\ end.queue = same
    BY <2>1
  <2> HIDE DEF job
  <2>3. \A k \in DOMAIN waiting : same[k] \in Waiting /\ same[k].uid = waiting[k].uid
    BY <1>4
  <2>4. same = [k \in DOMAIN waiting |-> same[k]]
    OBVIOUS
  <2> HIDE DEF same
  <2>5. same \in Seq(Waiting) /\ DOMAIN same = DOMAIN waiting /\ Len(same) = Len(waiting)
    <3>1. \A k \in DOMAIN waiting : same[k] \in Waiting
      BY <2>3
    <3>2. QED
      BY <2>4, <3>1, ListMade
  <2>6. Uids(same) = Uids(waiting) /\ Distinct(same)
    BY <2>3, <2>5, SameUids
  <2>7. asked \cup (Uids(waiting) \ Uids(same)) = asked
    BY <2>6
  <2>8. Len(same) + n >= Len(waiting)
    BY <1>1, <2>5
  <2>9. QED
    BY <2>2, <2>5, <2>6, <2>7, <2>8 DEF JoinOK
<1>8. QED
  BY <1>6, <1>7

(* The request that gets a slice is one of those asked about: the order of *)
(* the rests has a least one.                                              *)
LEMMA AdvancedIn ==
    ASSUME policy \in Policies, queue \in Seq(Waiting), NEW n \in 1..Len(queue)
    PROVE  Advanced(n) \in 1..n
<1> DEFINE Rest(i) == <<SumFunction(queue[i].segments), -queue[i].history, i>>
           a == [i \in 1..n |-> SumFunction(queue[i].segments)]
           b == [i \in 1..n |-> -queue[i].history]
<1>1. n \in Nat /\ n >= 1 /\ \A i \in 1..n : i \in DOMAIN queue
  BY ListDomain
<1>2. \A i \in 1..n : a[i] \in Int /\ b[i] \in Int
  <2> TAKE i \in 1..n
  <2>1. queue[i] \in Waiting
    BY <1>1
  <2>2. queue[i].segments \in Seq(Nat \ {0}) /\ queue[i].history \in Nat
    BY <2>1 DEF Waiting, Job
  <2>3. SumFunction(queue[i].segments) \in Nat
    BY <2>2, SegmentsSum
  <2>4. QED
    BY <2>2, <2>3
<1>3. a = [i \in 1..n |-> a[i]] /\ b = [i \in 1..n |-> b[i]]
  OBVIOUS
<1>4. \A i \in 1..n : Rest(i) = <<a[i], b[i], i>>
  OBVIOUS
<1> HIDE DEF a, b
<1>5. PICK x \in 1..n : \A j \in 1..n : a[x] <= a[j]
  <2>1. IsFiniteSet(1..n)
    BY <1>1, FS_Interval
  <2> DEFINE A == {a[i] : i \in 1..n}
  <2>2. IsFiniteSet(A)
    BY <1>3, <2>1, ValuesAreFinite
  <2>3. A \subseteq Int /\ A # {}
    BY <1>1, <1>2
  <2> HIDE DEF A
  <2>4. Min(A) \in A /\ \A y \in A : Min(A) <= y
    BY <2>2, <2>3, MinIn
  <2>5. QED
    BY <2>4 DEF A
<1> DEFINE I == {i \in 1..n : a[i] = a[x]}
<1>6. I \subseteq 1..n /\ x \in I /\ IsFiniteSet(I)
  <2>1. IsFiniteSet(1..n)
    BY <1>1, FS_Interval
  <2>2. I \in SUBSET (1..n) /\ x \in I
    OBVIOUS
  <2> HIDE DEF I
  <2>3. QED
    BY <2>1, <2>2, FS_Subset
<1>7. PICK y \in I : \A j \in I : b[y] <= b[j]
  <2> DEFINE c == [i \in I |-> b[i]]
             A == {c[i] : i \in I}
  <2>1. IsFiniteSet(A)
    <3>1. c = [i \in I |-> c[i]]
      OBVIOUS
    <3> HIDE DEF c, I
    <3>2. QED
      BY <1>6, <3>1, ValuesAreFinite
  <2>2. A \subseteq Int /\ A # {}
    BY <1>2, <1>6
  <2> HIDE DEF A
  <2>3. Min(A) \in A /\ \A z \in A : Min(A) <= z
    BY <2>1, <2>2, MinIn
  <2>4. QED
    BY <2>3 DEF A
<1> DEFINE J == {i \in I : b[i] = b[y]}
<1>8. J # {} /\ J \subseteq Int /\ IsFiniteSet(J)
  <2>1. J \in SUBSET I /\ y \in J /\ J \subseteq Int
    OBVIOUS
  <2> HIDE DEF I, J
  <2>2. QED
    BY <1>6, <2>1, FS_Subset
<1>9. PICK z \in J : \A j \in J : z <= j
  <2> HIDE DEF J
  <2>1. Min(J) \in J /\ \A j \in J : Min(J) <= j
    BY <1>8, MinIn
  <2>2. QED
    BY <2>1
<1>10. z \in 1..n /\ a[z] = a[x] /\ b[z] = b[y]
  OBVIOUS
<1>11. \A j \in (1..n) \ {z} : Before(Rest(z), Rest(j))
  <2> TAKE j \in (1..n) \ {z}
  <2>1. Rest(z) = <<a[z], b[z], z>> /\ Rest(j) = <<a[j], b[j], j>>
    BY <1>4, <1>10
  <2> HIDE DEF Rest
  <2>2. /\ DOMAIN Rest(z) = 1..3 /\ Rest(z)[1] = a[z] /\ Rest(z)[2] = b[z] /\ Rest(z)[3] = z
        /\ Rest(j)[1] = a[j] /\ Rest(j)[2] = b[j] /\ Rest(j)[3] = j
    BY <2>1
  <2>3. CASE a[z] < a[j]
    BY <2>2, <2>3 DEF Before
  <2>4. CASE a[z] = a[j] /\ b[z] < b[j]
    <3>1. 2 \in DOMAIN Rest(z) /\ \A l \in 1..(2 - 1) : l = 1
      BY <2>2
    <3>2. QED
      BY <2>2, <2>4, <3>1 DEF Before
  <2>5. CASE a[z] = a[j] /\ b[z] = b[j]
    <3>1. j \in J
      BY <1>10, <2>5
    <3>2. z < j
      BY <1>9, <1>10, <3>1
    <3>3. 3 \in DOMAIN Rest(z) /\ \A l \in 1..(3 - 1) : l = 1 \/ l = 2
      BY <2>2
    <3>4. QED
      BY <2>2, <2>5, <3>2, <3>3 DEF Before
  <2>6. a[z] <= a[j] /\ (a[z] = a[j] => b[z] <= b[j])
    <3>1. a[z] <= a[j]
      BY <1>5, <1>10
    <3>2. ASSUME a[z] = a[j] PROVE b[z] <= b[j]
      BY <1>7, <1>10, <3>2
    <3>3. QED
      BY <3>1, <3>2
  <2>7. a[z] \in Int /\ a[j] \in Int /\ b[z] \in Int /\ b[j] \in Int
    BY <1>2, <1>10
  <2>8. QED
    BY <2>3, <2>4, <2>5, <2>6, <2>7
<1> DEFINE Least(i) == \A j \in (1..n) \ {i} : Before(Rest(i), Rest(j))
<1>12. Advanced(n) = IF OldestAge >= policy.maxDefer THEN 1 ELSE CHOOSE i \in 1..n : Least(i)
  BY DEF Advanced
<1>13. Least(z)
  BY <1>11
<1> HIDE DEF Least
<1>14. (CHOOSE i \in 1..n : Least(i)) \in 1..n
  BY <1>10, <1>13
<1>15. QED
  BY <1>1, <1>12, <1>14

(* The queue's half of a round moves requests into lanes, within the       *)
(* places there are.                                                       *)
LEMMA JoinLanesOK ==
    ASSUME policy \in Policies, queue \in Seq(Waiting), Distinct(queue),
           NEW asked, NEW m, RoundOK(m, asked), m.ready = <<>>, Uids(queue) \cap asked = {},
           inserted \in Nat, asked \cup Uids(queue) \subseteq 0..(inserted - 1),
           NEW n \in 0..Len(queue), NEW end \in JoinLanes(m, n)
    PROVE  JoinOK(end, m, asked, queue, n)
<1> DEFINE waiting == Aged(queue)
           sliced == /\ policy.adaptive /\ Occupied(m) > 0
                     /\ \E i \in 1..n : queue[i].history > 0
           same == [mtp |-> m, queue |-> waiting]
<1>1. /\ waiting \in Seq(Waiting) /\ Len(waiting) = Len(queue) /\ DOMAIN waiting = DOMAIN queue
      /\ Uids(waiting) = Uids(queue) /\ Distinct(waiting)
  BY AgedOK
<1>2. /\ Uids(waiting) \cap asked = {} /\ asked \cup Uids(waiting) \subseteq 0..(inserted - 1)
      /\ DOMAIN queue = 1..Len(queue) /\ Len(queue) \in Nat
  BY <1>1, ListDomain
<1>3. end \in IF n = 0 THEN {same} ELSE IF ~sliced THEN MakeBatch(m, waiting, n)
              ELSE (IF OldestAge >= policy.maxDefer THEN {} ELSE {same})
                   \cup UNION {Advance(m, waiting, Advanced(n), chunk) : chunk \in policy.slices}
  BY DEF JoinLanes
<1> HIDE DEF waiting, sliced
<1>4. JoinOK(end, m, asked, waiting, n)
  <2>1. CASE end = same
    <3>1. end.mtp = m /\ end.queue = waiting
      BY <2>1
    <3>2. asked \cup (Uids(waiting) \ Uids(waiting)) = asked /\ Len(waiting) + n >= Len(waiting)
      BY <1>1, <1>2
    <3>3. QED
      BY <1>1, <3>1, <3>2 DEF JoinOK
  <2>2. CASE n # 0 /\ ~sliced
    <3>1. n \in 1..Len(waiting) /\ end \in MakeBatch(m, waiting, n)
      BY <1>1, <1>2, <1>3, <2>2
    <3>2. QED
      BY <1>1, <1>2, <3>1, MakeBatchOK
  <2>3. CASE n # 0 /\ sliced /\ end # same
    <3> DEFINE i == Advanced(n)
    <3>1. PICK chunk \in policy.slices : end \in Advance(m, waiting, i, chunk)
      BY <1>3, <2>3
    <3>2. chunk \in Nat
      BY PoliciesAssumption
    <3>3. n \in 1..Len(queue) /\ n \in Nat /\ n >= 1
      BY <1>2, <2>3
    <3>4. i \in DOMAIN waiting
      BY <1>1, <1>2, <3>3, AdvancedIn
    <3> HIDE DEF i
    <3>5. QED
      BY <1>1, <1>2, <3>1, <3>2, <3>3, <3>4, AdvanceOK
  <2>4. QED
    BY <1>3, <2>1, <2>2, <2>3
<1>5. QED
  BY <1>1, <1>4 DEF JoinOK

(* The places there are: how many requests may join.                       *)
LEMMA OccupiedCount ==
    ASSUME NEW asked, NEW m, RoundOK(m, asked)
    PROVE  /\ IsFiniteSet(Rowed(m)) /\ Cardinality(Rowed(m)) = Occupied(m) /\ Occupied(m) \in Nat
           /\ m.ready = <<>> => Rowed(m) = asked \ m.done
<1> DEFINE A == Uids(m.lanes)  B == Uids(m.paused)  C == Uids(m.ready)  D == Uids(m.plain)
<1>1. /\ m.lanes \in Seq(Going) /\ m.paused \in Seq(Going) /\ m.ready \in Seq(Going)
      /\ m.plain \in Seq(GoingPlain)
  BY PartsOf
<1>2. /\ Distinct(m.lanes) /\ Distinct(m.paused) /\ Distinct(m.plain)
      /\ Apart(A, B, C, D, m.done) /\ A \cup B \cup C \cup D \cup m.done = asked
  BY DEF RoundOK
<1>3. /\ IsFiniteSet(A) /\ Cardinality(A) = Len(m.lanes) /\ Len(m.lanes) \in Nat
      /\ IsFiniteSet(B) /\ Cardinality(B) = Len(m.paused) /\ Len(m.paused) \in Nat
      /\ IsFiniteSet(D) /\ Cardinality(D) = Len(m.plain) /\ Len(m.plain) \in Nat
  <2>1. IsFiniteSet(A) /\ Cardinality(A) = Len(m.lanes) /\ Len(m.lanes) \in Nat
    BY <1>1, <1>2, DistinctCount
  <2>2. IsFiniteSet(B) /\ Cardinality(B) = Len(m.paused) /\ Len(m.paused) \in Nat
    BY <1>1, <1>2, DistinctCount
  <2>3. IsFiniteSet(D) /\ Cardinality(D) = Len(m.plain) /\ Len(m.plain) \in Nat
    BY <1>1, <1>2, DistinctCount
  <2>4. QED
    BY <2>1, <2>2, <2>3
<1>4. Rowed(m) = A \cup B \cup D
  BY DEF Rowed
<1>5. m.ready = <<>> => C = {}
  BY NoRows
<1> HIDE DEF A, B, C, D
<1>6. A \cap B = {} /\ (A \cup B) \cap D = {}
  BY <1>2 DEF Apart
<1>7. IsFiniteSet(A \cup B) /\ Cardinality(A \cup B) = Len(m.lanes) + Len(m.paused)
  <2>1. Cardinality(A \cup B) = Cardinality(A) + Cardinality(B) - Cardinality(A \cap B)
    BY <1>3, FS_Union
  <2>2. Cardinality(A \cap B) = 0
    BY <1>6, FS_EmptySet
  <2>3. IsFiniteSet(A \cup B)
    BY <1>3, FS_Union
  <2>4. QED
    BY <1>3, <2>1, <2>2, <2>3
<1>8. /\ IsFiniteSet((A \cup B) \cup D)
      /\ Cardinality((A \cup B) \cup D) = Len(m.lanes) + Len(m.paused) + Len(m.plain)
  <2> DEFINE F == A \cup B
  <2>1. IsFiniteSet(F) /\ F \cap D = {} /\ Cardinality(F) = Len(m.lanes) + Len(m.paused)
    BY <1>6, <1>7
  <2> HIDE DEF F
  <2>2. /\ IsFiniteSet(F \cup D)
        /\ Cardinality(F \cup D) = Cardinality(F) + Cardinality(D) - Cardinality(F \cap D)
    BY <1>3, <2>1, FS_Union
  <2>3. Cardinality(F \cap D) = 0
    BY <2>1, FS_EmptySet
  <2>4. Cardinality(F \cup D) = Len(m.lanes) + Len(m.paused) + Len(m.plain)
    BY <1>3, <2>1, <2>2, <2>3
  <2>5. QED
    BY <2>2, <2>4 DEF F
<1>9. m.ready = <<>> => Rowed(m) = asked \ m.done
  BY <1>2, <1>4, <1>5 DEF Apart
<1>10. Occupied(m) = Len(m.lanes) + Len(m.paused) + Len(m.plain) /\ Occupied(m) \in Nat
  <2>1. Occupied(m) = Len(m.lanes) + Len(m.paused) + Len(m.plain)
    BY DEF Occupied
  <2> DEFINE a == Len(m.lanes)  b == Len(m.paused)  d == Len(m.plain)
  <2>2. a \in Nat /\ b \in Nat /\ d \in Nat
    BY <1>3
  <2> HIDE DEF a, b, d
  <2>3. a + b + d \in Nat
    BY <2>2
  <2>4. QED
    BY <2>1, <2>3 DEF a, b, d
<1>11. IsFiniteSet(Rowed(m)) /\ Cardinality(Rowed(m)) = Occupied(m)
  BY <1>4, <1>8, <1>10
<1>12. QED
  BY <1>9, <1>10, <1>11

(* No more lanes join than the batch and the cohort have places for.       *)
LEMMA JoiningFit ==
    ASSUME policy \in Policies, queue \in Seq(Waiting), NEW m, Occupied(m) \in Nat,
           NEW n \in AdmitJoining(m, BudgetedLanes(m))
    PROVE  /\ n \in 0..Len(queue)
           /\ n > 0 => /\ n + Occupied(m) <= policy.completion
                       /\ policy.segmented => n + Occupied(m) <= policy.cohort
<1> DEFINE places == LanePlaces(m)
           fit == BudgetedLanes(m)
<1>1. policy.completion \in Nat /\ policy.cohort \in Nat /\ Len(queue) \in Nat
  <2>1. policy.completion \in Nat
    BY PoliciesAssumption
  <2>2. policy.cohort \in Nat
    BY LanesAssumption
  <2>3. QED
    BY <2>1, <2>2
<1>2. /\ places \in Int /\ places <= Len(queue)
      /\ places > 0 => /\ places + Occupied(m) <= policy.completion
                       /\ policy.segmented => places + Occupied(m) <= policy.cohort
  <2> DEFINE o == Occupied(m)
             l == Len(queue)
             a == policy.completion - o
             c == policy.cohort - o
             room == Min({a, l})
             more == Max({0, c})
  <2>1. a \in Int /\ l \in Nat /\ c \in Int /\ o \in Nat
    BY <1>1
  <2>2. places = IF policy.segmented THEN Min({room, more}) ELSE room
    BY DEF LanePlaces
  <2>3. a + o = policy.completion /\ c + o = policy.cohort
    BY <1>1
  <2> HIDE DEF places, a, c, l, o
  <2>4. room \in Int /\ room <= a /\ room <= l
    BY <2>1, LesserOf
  <2>5. more \in Int /\ more \in {0, c}
    <3>1. 0 \in Int /\ c \in Int
      BY <2>1
    <3>2. Max({0, c}) \in {0, c} /\ Max({0, c}) \in Int
      BY <3>1, LesserOf
    <3>3. QED
      BY <3>2
  <2> HIDE DEF room, more
  <2>6. Min({room, more}) \in Int /\ Min({room, more}) <= room /\ Min({room, more}) <= more
    BY <2>4, <2>5, LesserOf
  <2>7. places \in Int /\ places <= room /\ (policy.segmented => places <= more)
    BY <2>2, <2>4, <2>6
  <2>8. places <= l /\ (places > 0 => places + o <= policy.completion)
    BY <2>1, <2>3, <2>4, <2>7
  <2>9. places > 0 /\ policy.segmented => places + o <= policy.cohort
    <3>1. CASE places > 0 /\ policy.segmented
      <4>1. more = c
        BY <2>1, <2>5, <2>7, <3>1
      <4>2. QED
        BY <2>1, <2>3, <2>7, <3>1, <4>1
    <3>2. QED
      BY <3>1
  <2>10. QED
    BY <2>7, <2>8, <2>9 DEF l, o
<1>3. fit \in Int /\ (fit <= places \/ (places <= 0 /\ fit = places))
  <2> DEFINE gen == [i \in DOMAIN m.lanes |->
                        [tokens |-> m.lanes[i].size + Produced(m.lanes[i]) - 1,
                         limit |-> m.lanes[i].limit, num |-> m.lanes[i].num]]
  <2>1. fit = Admissible(gen, places)
    BY DEF BudgetedLanes
  <2> HIDE DEF gen, fit, places
  <2>2. /\ places <= 0 => Admissible(gen, places) = places
        /\ places > 0 => Admissible(gen, places) \in 0..places
    BY <1>2, AdmissibleIn
  <2>3. QED
    BY <1>2, <2>1, <2>2
<1>4. fit \in Int /\ fit <= places
  BY <1>2, <1>3
<1> HIDE DEF fit, places
<1>5. n \in Nat /\ (n > 0 => n <= fit)
  <2> DEFINE Prefix(v) == Max({k \in 0..fit : \A i \in 1..k : v.of[queue[i].uid] # Queued})
             Forced(k) == IF k = 0 /\ Occupied(m) = 0 THEN 1 ELSE k
  <2>1. n \in IF fit <= 0 THEN {0} ELSE IF ~policy.admission THEN {fit}
              ELSE {Forced(Prefix(v)) : v \in Asked(m, CycleRows(m) \o JoiningRows(fit))}
    BY DEF AdmitJoining, fit
  <2>2. ASSUME fit > 0, NEW v PROVE Prefix(v) \in 0..fit
    <3> DEFINE K == {k \in 0..fit : \A i \in 1..k : v.of[queue[i].uid] # Queued}
    <3>1. IsFiniteSet(K)
      <4>1. IsFiniteSet(0..fit)
        BY <1>4, FS_Interval
      <4>2. K \in SUBSET (0..fit)
        OBVIOUS
      <4> HIDE DEF K
      <4>3. QED
        BY <4>1, <4>2, FS_Subset
    <3>2. K \subseteq 0..fit /\ K \subseteq Int /\ K # {}
      <4>1. 0 \in K
        BY <1>4, <2>2
      <4>2. QED
        BY <4>1
    <3> HIDE DEF K
    <3>3. Max(K) \in K
      BY <3>1, <3>2, MaxIn
    <3>4. QED
      BY <3>2, <3>3 DEF K
  <2> HIDE DEF Prefix
  <2>3. CASE fit <= 0
    BY <2>1, <2>3
  <2>4. CASE fit > 0 /\ ~policy.admission
    BY <1>4, <2>1, <2>4
  <2>5. CASE fit > 0 /\ policy.admission
    <3>1. PICK v \in Asked(m, CycleRows(m) \o JoiningRows(fit)) : n = Forced(Prefix(v))
      BY <1>4, <2>1, <2>5
    <3>2. Prefix(v) \in 0..fit
      BY <2>2, <2>5
    <3>3. QED
      BY <1>4, <2>5, <3>1, <3>2
  <2>6. QED
    BY <1>4, <2>3, <2>4, <2>5
<1>6. QED
  BY <1>1, <1>2, <1>4, <1>5

--------------------------------------------------------------------------------
(* The inductive invariant.                                                *)

(* Identifiers stay identifiers.                                           *)
LEMMA Wider ==
    ASSUME NEW a \in Nat, NEW b \in Nat, b >= a
    PROVE  0..(a - 1) \subseteq 0..(b - 1)
  OBVIOUS

(* What the callback may remember grows with the requests.                 *)
LEMMA RoundPrimed ==
    ASSUME NEW m, NEW asked, RoundOK(m, asked), policy' = policy,
           inserted \in Nat, inserted' \in Nat, inserted' >= inserted
    PROVE  RoundOK(m, asked)'
<1>1. Going' = Going /\ GoingPlain' = GoingPlain
  BY DEF Going, InOrder, GoingPlain, Lane
<1>2. Demotions \subseteq Demotions'
  <2>1. 0..(inserted - 1) \subseteq 0..(inserted' - 1)
    BY Wider
  <2>2. QED
    BY <2>1 DEF Demotions
<1>3. m \in LaneState'
  <2>1. m \in LaneState /\ m.demoted \in Demotions'
    BY <1>2, PartsOf DEF RoundOK
  <2>2. QED
    BY <1>1, <2>1 DEF LaneState
<1>4. QED
  BY <1>3 DEF RoundOK, Apart

(* A new generator has no lanes.                                           *)
LEMMA GeneratorInitInv == GeneratorInit => GeneratorInv
<1> SUFFICES ASSUME GeneratorInit PROVE GeneratorInv
  OBVIOUS
<1>1. policy \in Policies /\ NoLanes
  BY DEF GeneratorInit, BatchInit, NoLanes
<1>2. /\ queue = <<>> /\ processing = <<>> /\ prompts = <<>> /\ generation = <<>>
      /\ inserted = 0 /\ steps = 0 /\ turn = 0 /\ left = {}
  BY DEF GeneratorInit, BatchInit
<1>3. /\ mtp.lanes = <<>> /\ mtp.paused = <<>> /\ mtp.ready = <<>> /\ mtp.plain = <<>>
      /\ mtp.locked = FALSE /\ mtp.starved = 0 /\ mtp.demoted = <<>> /\ mtp.done = {}
      /\ mtp.depth = 0
  BY <1>1 DEF NoLanes
<1>4. /\ <<>> \in Seq(Going) /\ <<>> \in Seq(GoingPlain) /\ <<>> \in Seq(Waiting)
      /\ Len(<<>>) = 0 /\ Uids(<<>>) = {} /\ Distinct(<<>>)
  BY NoRows
<1>5. 0 \in 0..(Starved - 1) /\ <<>> \in Demotions
  <2>1. Starved \in Nat \ {0}
    BY LanesAssumption
  <2>2. <<>> \in [{} -> 0..MaxHolds]
    OBVIOUS
  <2>3. QED
    BY <2>1, <2>2 DEF Demotions
<1>6. mtp \in LaneState
  BY <1>1, <1>4, <1>5 DEF NoLanes, LaneState
<1>7. Rowed(mtp) = {} /\ Occupied(mtp) = 0
  BY <1>3, <1>4 DEF Rowed, Occupied
<1>8. RoundOK(mtp, Rowed(mtp))
  BY <1>3, <1>4, <1>6, <1>7 DEF RoundOK, Apart
<1>9. policy.completion >= 0 /\ policy.cohort >= 0 /\ MaxJobs \in Nat
  <2>1. policy.completion \in Nat
    BY <1>1, PoliciesAssumption
  <2>2. policy.cohort \in Nat
    BY <1>1, LanesAssumption
  <2>3. QED
    BY <2>1, <2>2, CostAssumption
<1>10. 0..(inserted - 1) = {}
  BY <1>2
<1>11. LanesInv
  BY <1>2, <1>3, <1>4, <1>7, <1>8, <1>9, <1>10 DEF LanesInv, BetweenRounds
<1>12. QED
  BY <1>1, <1>11 DEF GeneratorInv

(* insert_segments, with self-MTP.                                         *)
LEMMA InsertLaneOK ==
    ASSUME GeneratorInv, NEW p \in LanePrompts, InsertLane(p)
    PROVE  LanesInv'
<1> DEFINE job == [uid |-> inserted, segments |-> SplitLast(p.segments), limit |-> p.limit,
                   history |-> p.history, bytes |-> p.bytes, age |-> 0]
<1>1. LanesInv /\ policy.mtp
  BY DEF GeneratorInv, InsertLane
<1>2. /\ inserted < LaneJobs /\ queue' = Append(queue, job) /\ inserted' = inserted + 1
      /\ UNCHANGED <<policy, processing, prompts, generation, steps, left, turn, mtp>>
  BY DEF InsertLane, Insert
<1>3. /\ queue \in Seq(Waiting) /\ Distinct(queue)
      /\ RoundOK(mtp, Rowed(mtp)) /\ BetweenRounds(mtp)
      /\ Uids(queue) \cap Rowed(mtp) = {}
      /\ left \cap (Uids(queue) \cup Rowed(mtp)) = {}
      /\ left \cup Uids(queue) \cup Rowed(mtp) = 0..(inserted - 1)
  BY <1>1 DEF LanesInv
<1>4. inserted \in Nat /\ inserted' \in 0..MaxJobs
  <2>1. inserted \in 0..MaxJobs /\ LaneJobs \in 0..MaxJobs /\ MaxJobs \in Nat
    BY <1>1, LanesAssumption, CostAssumption DEF LanesInv
  <2>2. QED
    BY <1>2, <2>1
<1>5. job \in Waiting
  <2>1. /\ p.segments \in Seq(Nat \ {0}) /\ p.segments # <<>> /\ p.limit \in Nat \ {0}
        /\ p.history \in Nat /\ p.bytes \in Nat
    BY LanesAssumption
  <2>2. /\ SplitLast(p.segments) \in Seq(Nat \ {0}) /\ SplitLast(p.segments) # <<>>
        /\ Last(SplitLast(p.segments)) = 1
    BY <2>1, SplitLastOK
  <2>3. QED
    BY <1>4, <2>1, <2>2 DEF Waiting, Job
<1>6. job.uid = inserted
  OBVIOUS
<1> HIDE DEF job
<1>7. inserted \notin left /\ inserted \notin Uids(queue) /\ inserted \notin Rowed(mtp)
  <2>1. inserted \notin 0..(inserted - 1)
    BY <1>4
  <2>2. QED
    BY <1>3, <2>1
<1>8. queue' \in Seq(Waiting) /\ Distinct(queue') /\ Uids(queue') = Uids(queue) \cup {inserted}
  <2>1. /\ <<job>> \in Seq(Waiting) /\ Uids(<<job>>) = {inserted} /\ Distinct(<<job>>)
    BY <1>5, <1>6, OneRow
  <2>2. queue' = queue \o <<job>>
    BY <1>2, <1>3, <1>5
  <2> DEFINE one == <<job>>
  <2> HIDE DEF one
  <2>3. /\ one \in Seq(Waiting) /\ Uids(one) = {inserted} /\ Distinct(one)
        /\ Uids(queue) \cap Uids(one) = {} /\ queue' = queue \o one
    BY <1>7, <2>1, <2>2 DEF one
  <2>4. QED
    BY <1>3, <2>3, Concat
<1>9. 0..(inserted' - 1) = 0..(inserted - 1) \cup {inserted}
  BY <1>2, <1>4
<1>10. RoundOK(mtp, Rowed(mtp))'
  <2>1. RoundOK(mtp', Rowed(mtp'))
    BY <1>2, <1>3
  <2>2. inserted' \in Nat /\ inserted' >= inserted
    BY <1>2, <1>4
  <2>3. QED
    BY <1>2, <1>4, <2>1, <2>2, RoundPrimed
<1>11. BetweenRounds(mtp)'
  BY <1>2, <1>3 DEF BetweenRounds
<1>12. /\ Uids(queue)' = Uids(queue) \cup {inserted} /\ Rowed(mtp)' = Rowed(mtp)
       /\ Occupied(mtp)' = Occupied(mtp)
  BY <1>2, <1>8 DEF Uids, Rowed, Occupied
<1>13. /\ Occupied(mtp)' <= policy'.completion
       /\ policy'.segmented => Occupied(mtp)' <= policy'.cohort
       /\ processing' = <<>> /\ prompts' = <<>> /\ generation' = <<>> /\ steps' = 0
       /\ turn' \in {0, 1}
  BY <1>1, <1>2, <1>12 DEF LanesInv
<1>14. /\ Uids(queue)' \cap Rowed(mtp)' = {}
       /\ left' \cap (Uids(queue)' \cup Rowed(mtp)') = {}
       /\ left' \cup Uids(queue)' \cup Rowed(mtp)' = 0..(inserted' - 1)
  BY <1>2, <1>3, <1>7, <1>9, <1>12
<1>15. QED
  BY <1>4, <1>8, <1>10, <1>11, <1>13, <1>14 DEF LanesInv

(* remove, with self-MTP.                                                  *)
LEMMA RemoveLaneOK ==
    ASSUME GeneratorInv, NEW u \in Everyone, RemoveLane(u)
    PROVE  LanesInv'
<1> DEFINE lanes == Without(mtp.lanes, u)
           paused == Without(mtp.paused, u)
           plain == Without(mtp.plain, u)
<1>1. LanesInv /\ policy.mtp
  BY DEF GeneratorInv, RemoveLane
<1>2. /\ queue' = Without(queue, u) /\ left' = left \cup {u}
      /\ mtp' = [mtp EXCEPT !.lanes = lanes, !.paused = paused, !.plain = plain]
      /\ UNCHANGED <<policy, inserted, processing, prompts, generation, steps, turn>>
  BY DEF RemoveLane
<1>3. /\ queue \in Seq(Waiting) /\ Distinct(queue)
      /\ RoundOK(mtp, Rowed(mtp)) /\ BetweenRounds(mtp)
      /\ Uids(queue) \cap Rowed(mtp) = {}
      /\ left \cap (Uids(queue) \cup Rowed(mtp)) = {}
      /\ left \cup Uids(queue) \cup Rowed(mtp) = 0..(inserted - 1)
  BY <1>1 DEF LanesInv
<1>4. inserted \in Nat
  BY <1>1, CostAssumption DEF LanesInv
<1>5. /\ mtp \in LaneState /\ mtp.lanes \in Seq(Going) /\ mtp.paused \in Seq(Going)
      /\ mtp.plain \in Seq(GoingPlain)
  BY <1>3, PartsOf DEF RoundOK
<1>6. /\ Distinct(mtp.lanes) /\ Distinct(mtp.paused) /\ Distinct(mtp.plain) /\ Distinct(mtp.ready)
      /\ Apart(Uids(mtp.lanes), Uids(mtp.paused), Uids(mtp.ready), Uids(mtp.plain), mtp.done)
      /\ mtp.locked => policy.segmented
      /\ ~policy.admission /\ ~policy.segmented => mtp.paused = <<>>
  BY <1>3 DEF RoundOK
<1>7. /\ lanes \in Seq(Going) /\ Len(lanes) <= Len(mtp.lanes)
      /\ Uids(lanes) = Uids(mtp.lanes) \ {u} /\ Distinct(lanes)
  BY <1>5, <1>6, WithoutOne
<1>8. /\ paused \in Seq(Going) /\ Len(paused) <= Len(mtp.paused)
      /\ Uids(paused) = Uids(mtp.paused) \ {u} /\ Distinct(paused)
  BY <1>5, <1>6, WithoutOne
<1>9. /\ plain \in Seq(GoingPlain) /\ Len(plain) <= Len(mtp.plain)
      /\ Uids(plain) = Uids(mtp.plain) \ {u} /\ Distinct(plain)
  BY <1>5, <1>6, WithoutOne
<1>10. /\ queue' \in Seq(Waiting) /\ Uids(queue') = Uids(queue) \ {u} /\ Distinct(queue')
  BY <1>2, <1>3, WithoutOne
<1> HIDE DEF lanes, paused, plain
<1>11. /\ mtp' \in LaneState /\ mtp'.lanes = lanes /\ mtp'.paused = paused
       /\ mtp'.plain = plain /\ mtp'.ready = mtp.ready /\ mtp'.done = mtp.done
       /\ mtp'.locked = mtp.locked /\ mtp'.depth = mtp.depth
  BY <1>2, <1>5, <1>7, <1>8, <1>9 DEF LaneState
<1>12. mtp.ready = <<>> /\ mtp.done = {} /\ mtp.depth = 0 /\ Uids(mtp.ready) = {}
  BY <1>3, NoRows DEF BetweenRounds
<1>13. Rowed(mtp') = Rowed(mtp) \ {u} /\ Rowed(mtp') = Uids(lanes) \cup Uids(paused) \cup Uids(plain)
  BY <1>7, <1>8, <1>9, <1>11 DEF Rowed
<1>14. Apart(Uids(lanes), Uids(paused), Uids(mtp.ready), Uids(plain), mtp.done)
  BY <1>6, <1>7, <1>8, <1>9 DEF Apart
<1>15. paused # <<>> => mtp.paused # <<>>
  BY <1>5, <1>8
<1>16. RoundOK(mtp', Rowed(mtp'))
  BY <1>6, <1>7, <1>8, <1>9, <1>11, <1>12, <1>13, <1>14, <1>15 DEF RoundOK
<1>17. RoundOK(mtp, Rowed(mtp))'
  BY <1>2, <1>4, <1>16, RoundPrimed
<1>18. BetweenRounds(mtp)'
  BY <1>11, <1>12 DEF BetweenRounds
<1>19. /\ Uids(queue)' = Uids(queue) \ {u} /\ Rowed(mtp)' = Rowed(mtp) \ {u}
  BY <1>10, <1>13 DEF Uids, Rowed
<1>20. Occupied(mtp)' <= Occupied(mtp) /\ Occupied(mtp) \in Nat /\ Occupied(mtp)' \in Nat
  <2> DEFINE a == Len(mtp.lanes)  b == Len(mtp.paused)  c == Len(mtp.plain)
             d == Len(lanes)  e == Len(paused)  f == Len(plain)
  <2>1. /\ a \in Nat /\ b \in Nat /\ c \in Nat /\ d \in Nat /\ e \in Nat /\ f \in Nat
        /\ d <= a /\ e <= b /\ f <= c
    BY <1>5, <1>7, <1>8, <1>9
  <2>2. Occupied(mtp) = a + b + c /\ Occupied(mtp)' = d + e + f
    BY <1>11 DEF Occupied
  <2> HIDE DEF a, b, c, d, e, f
  <2>3. QED
    BY <2>1, <2>2
<1>21. /\ Occupied(mtp)' <= policy'.completion
       /\ policy'.segmented => Occupied(mtp)' <= policy'.cohort
       /\ processing' = <<>> /\ prompts' = <<>> /\ generation' = <<>> /\ steps' = 0
       /\ turn' \in {0, 1} /\ inserted' \in 0..MaxJobs
  <2>1. policy.completion \in Nat /\ policy.cohort \in Nat
    <3>1. policy \in Policies
      BY DEF GeneratorInv
    <3>2. policy.completion \in Nat
      BY <3>1, PoliciesAssumption
    <3>3. policy.cohort \in Nat
      BY <3>1, LanesAssumption
    <3>4. QED
      BY <3>2, <3>3
  <2>2. Occupied(mtp) <= policy.completion /\ (policy.segmented => Occupied(mtp) <= policy.cohort)
    BY <1>1 DEF LanesInv
  <2>3. /\ Occupied(mtp)' <= policy.completion
        /\ policy.segmented => Occupied(mtp)' <= policy.cohort
    BY <1>20, <2>1, <2>2
  <2>4. QED
    BY <1>1, <1>2, <2>3 DEF LanesInv
<1>22. u \in 0..(inserted - 1)
  <2>1. Everyone = Uids(queue) \cup Rowed(mtp)
    <3>1. prompts = <<>> /\ generation = <<>>
      BY <1>1 DEF LanesInv
    <3>2. Live = Uids(queue)
      BY <3>1, NoRows DEF Live
    <3>3. QED
      BY <3>2 DEF Everyone
  <2>2. QED
    BY <1>3, <2>1
<1>23. /\ Uids(queue)' \cap Rowed(mtp)' = {}
       /\ left' \cap (Uids(queue)' \cup Rowed(mtp)') = {}
       /\ left' \cup Uids(queue)' \cup Rowed(mtp)' = 0..(inserted' - 1)
  BY <1>2, <1>3, <1>19, <1>22
<1>24. QED
  BY <1>10, <1>17, <1>18, <1>21, <1>23 DEF LanesInv

(* The end of a round is one that decoding, the places and joining give.   *)
LEMMA RoundEndOf ==
    ASSUME GeneratorInv, policy.mtp, NEW end \in RoundEnds
    PROVE  \E m, n : /\ RoundOK(m, Rowed(mtp)) /\ JoinOK(end, m, Rowed(mtp), queue, n)
                     /\ n \in 0..Len(queue) /\ end \in JoinLanes(m, n)
                     /\ n > 0 => /\ n + Occupied(m) <= policy.completion
                                 /\ policy.segmented => n + Occupied(m) <= policy.cohort
                     /\ m.ready = <<>>
                     /\ ~policy.admission /\ mtp.locked /\ mtp.lanes # <<>>
                        => m.locked /\ Uids(m.lanes) \subseteq Uids(mtp.lanes)
<1> DEFINE asked == Rowed(mtp)
<1>1. policy \in Policies /\ LanesInv
  BY DEF GeneratorInv
<1>2. /\ queue \in Seq(Waiting) /\ Distinct(queue) /\ RoundOK(mtp, asked)
      /\ Uids(queue) \cap asked = {} /\ inserted \in Nat
      /\ asked \cup Uids(queue) \subseteq 0..(inserted - 1) /\ asked \subseteq 0..(inserted - 1)
  BY <1>1, CostAssumption DEF LanesInv
<1>3. PICK m \in DecodeLanes(mtp) : \E n \in AdmitJoining(m, BudgetedLanes(m)) : end \in JoinLanes(m, n)
  <2> DEFINE Joined(m, fit) == UNION {JoinLanes(m, n) : n \in AdmitJoining(m, fit)}
  <2>1. RoundEnds = UNION {UNION {Joined(m, fit) : fit \in {BudgetedLanes(m)}} : m \in DecodeLanes(mtp)}
    BY DEF RoundEnds
  <2>2. PICK m \in DecodeLanes(mtp) : end \in UNION {Joined(m, fit) : fit \in {BudgetedLanes(m)}}
    BY <2>1
  <2>3. end \in Joined(m, BudgetedLanes(m))
    BY <2>2
  <2>4. QED
    BY <2>3
<1>4. PICK n \in AdmitJoining(m, BudgetedLanes(m)) : end \in JoinLanes(m, n)
  BY <1>3
<1> HIDE DEF asked
<1>5. /\ RoundOK(m, asked) /\ m.ready = <<>>
      /\ ~policy.admission /\ mtp.locked /\ mtp.lanes # <<>>
         => m.locked /\ Uids(m.lanes) \subseteq Uids(mtp.lanes)
  BY <1>2, DecodeLanesOK
<1>6. /\ n \in 0..Len(queue)
      /\ n > 0 => /\ n + Occupied(m) <= policy.completion
                  /\ policy.segmented => n + Occupied(m) <= policy.cohort
  <2>1. Occupied(m) \in Nat
    BY <1>5, OccupiedCount
  <2>2. QED
    BY <1>1, <1>2, <2>1, JoiningFit
<1>7. JoinOK(end, m, asked, queue, n)
  BY <1>1, <1>2, <1>4, <1>5, <1>6, JoinLanesOK
<1>8. QED
  BY <1>4, <1>5, <1>6, <1>7 DEF asked

(* Joining takes requests from the queue, and finished ones leave.         *)
LEMMA Moves ==
    ASSUME NEW Q, NEW A, NEW L, NEW I, Q \cap A = {}, L \cap (Q \cup A) = {}, L \cup Q \cup A = I,
           NEW R, R \subseteq Q, NEW E, E \subseteq A \cup (Q \ R),
           NEW B, B = (A \cup (Q \ R)) \ E
    PROVE  /\ R \cap B = {} /\ (L \cup E) \cap (R \cup B) = {} /\ (L \cup E) \cup R \cup B = I
  OBVIOUS

(* The rows of the next round are no more than those of this one and the   *)
(* requests that left the queue.                                           *)
LEMMA RowsCount ==
    ASSUME NEW s \in Seq(Waiting), Distinct(s), NEW t \in Seq(Waiting), Distinct(t),
           Uids(t) \subseteq Uids(s), NEW n \in Nat, Len(t) + n >= Len(s),
           NEW A, IsFiniteSet(A), NEW B, IsFiniteSet(B),
           B \subseteq A \cup (Uids(s) \ Uids(t))
    PROVE  Cardinality(B) <= Cardinality(A) + n
<1> DEFINE N == Uids(s) \ Uids(t)
           S == Uids(s)  T == Uids(t)
<1>1. /\ IsFiniteSet(S) /\ Cardinality(S) = Len(s) /\ Len(s) \in Nat
      /\ IsFiniteSet(T) /\ Cardinality(T) = Len(t) /\ Len(t) \in Nat
  BY DistinctCount
<1>2. S \cap T = T /\ N = S \ T
  OBVIOUS
<1> HIDE DEF S, T, N
<1>3. IsFiniteSet(N) /\ Cardinality(N) = Len(s) - Len(t)
  <2>1. IsFiniteSet(S \ T) /\ Cardinality(S \ T) = Cardinality(S) - Cardinality(S \cap T)
    BY <1>1, FS_Difference
  <2>2. QED
    BY <1>1, <1>2, <2>1
<1>4. Cardinality(N) \in Nat /\ Cardinality(N) <= n
  <2>1. Cardinality(N) \in Nat
    BY <1>3, FS_CardinalityType
  <2>2. QED
    BY <1>1, <1>3, <2>1
<1>5. /\ IsFiniteSet(A \cup N)
      /\ Cardinality(A \cup N) = Cardinality(A) + Cardinality(N) - Cardinality(A \cap N)
  BY <1>3, FS_Union
<1>6. Cardinality(A \cap N) \in Nat /\ Cardinality(A) \in Nat /\ Cardinality(B) \in Nat
  <2>1. IsFiniteSet(A \cap N)
    BY FS_Subset
  <2>2. QED
    BY <2>1, FS_CardinalityType
<1>7. Cardinality(B) <= Cardinality(A \cup N)
  <2>1. B \in SUBSET (A \cup N)
    BY DEF N
  <2> DEFINE U == A \cup N
  <2> HIDE DEF U
  <2>2. B \in SUBSET U /\ IsFiniteSet(U)
    BY <1>5, <2>1 DEF U
  <2>3. Cardinality(B) <= Cardinality(U)
    BY <2>2, FS_Subset
  <2>4. QED
    BY <2>3 DEF U
<1>8. QED
  BY <1>4, <1>5, <1>6, <1>7

(* next, with self-MTP.                                                    *)
LEMMA RoundOfLanesOK ==
    ASSUME GeneratorInv, RoundOfLanes
    PROVE  LanesInv' /\ policy' = policy
<1> DEFINE asked == Rowed(mtp)
<1>1. policy \in Policies /\ policy.mtp /\ LanesInv
  BY DEF GeneratorInv, RoundOfLanes
<1>2. PICK end \in RoundEnds : /\ mtp' = [end.mtp EXCEPT !.done = {}, !.depth = 0]
                               /\ queue' = end.queue /\ left' = left \cup end.mtp.done
  BY DEF RoundOfLanes
<1>3. /\ turn' = 1 - turn
      /\ UNCHANGED <<policy, inserted, processing, prompts, generation, steps>>
  BY DEF RoundOfLanes
<1>4. PICK m, n : /\ RoundOK(m, asked) /\ JoinOK(end, m, asked, queue, n)
                  /\ n \in 0..Len(queue)
                  /\ n > 0 => /\ n + Occupied(m) <= policy.completion
                              /\ policy.segmented => n + Occupied(m) <= policy.cohort
                  /\ m.ready = <<>>
  BY <1>1, <1>2, RoundEndOf
<1>5. /\ queue \in Seq(Waiting) /\ Distinct(queue) /\ RoundOK(mtp, asked)
      /\ mtp.ready = <<>> /\ mtp.done = {}
      /\ Uids(queue) \cap asked = {} /\ left \cap (Uids(queue) \cup asked) = {}
      /\ left \cup Uids(queue) \cup asked = 0..(inserted - 1)
  BY <1>1 DEF LanesInv, BetweenRounds
<1>6. inserted \in Nat /\ inserted \in 0..MaxJobs /\ turn \in {0, 1}
  BY <1>1, CostAssumption DEF LanesInv
<1> DEFINE new == Uids(queue) \ Uids(queue')
           e == end.mtp
           all == asked \cup new
<1>7. /\ queue' \in Seq(Waiting) /\ Distinct(queue') /\ Uids(queue') \subseteq Uids(queue)
      /\ Len(queue') + n >= Len(queue) /\ RoundOK(e, all) /\ m.done \subseteq e.done
      /\ e.ready = <<>>
  BY <1>2, <1>4 DEF JoinOK
<1> HIDE DEF asked, e, all
<1>8. mtp' = [e EXCEPT !.done = {}, !.depth = 0] /\ left' = left \cup e.done
  BY <1>2 DEF e
<1>9. e \in LaneState
  BY <1>7 DEF RoundOK
<1>10. /\ mtp' \in LaneState /\ mtp'.lanes = e.lanes /\ mtp'.paused = e.paused
       /\ mtp'.ready = e.ready /\ mtp'.plain = e.plain /\ mtp'.locked = e.locked
       /\ mtp'.done = {} /\ mtp'.depth = 0
  <2>1. mtp' = [e EXCEPT !.done = {}, !.depth = 0]
    BY <1>8
  <2>2. 0 \in Int /\ {} \in SUBSET Nat
    OBVIOUS
  <2>3. mtp' \in LaneState
    BY <1>9, <2>1, <2>2 DEF LaneState
  <2>4. /\ mtp'.lanes = e.lanes /\ mtp'.paused = e.paused
        /\ mtp'.ready = e.ready /\ mtp'.plain = e.plain /\ mtp'.locked = e.locked
    BY <1>9, <2>1 DEF LaneState
  <2>5. mtp'.done = {} /\ mtp'.depth = 0
    BY <1>9, <2>1 DEF LaneState
  <2>6. QED
    BY <2>3, <2>4, <2>5
<1>11. Rowed(mtp') = Rowed(e) /\ Occupied(mtp') = Occupied(e)
  BY <1>10 DEF Rowed, Occupied
<1>12. Uids(e.ready) = {}
  BY <1>7, NoRows
<1>13. RoundOK(mtp', Rowed(mtp'))
  <2>1. Apart(Uids(e.lanes), Uids(e.paused), Uids(e.ready), Uids(e.plain), {})
    BY <1>7 DEF RoundOK, Apart
  <2>2. Rowed(e) = Uids(e.lanes) \cup Uids(e.paused) \cup Uids(e.ready) \cup Uids(e.plain) \cup {}
    BY <1>12 DEF Rowed
  <2>3. /\ Distinct(e.lanes) /\ Distinct(e.paused) /\ Distinct(e.ready) /\ Distinct(e.plain)
        /\ e.locked => policy.segmented
        /\ ~policy.admission /\ ~policy.segmented => e.paused = <<>>
    BY <1>7 DEF RoundOK
  <2>4. QED
    BY <1>10, <1>11, <2>1, <2>2, <2>3 DEF RoundOK
<1>14. RoundOK(mtp, Rowed(mtp))'
  BY <1>3, <1>6, <1>13, RoundPrimed
<1>15. BetweenRounds(mtp)'
  BY <1>7, <1>10 DEF BetweenRounds
<1>16. Rowed(e) = all \ e.done /\ e.done \subseteq all
  BY <1>7, OccupiedCount DEF RoundOK
<1>17. Rowed(m) = asked \ m.done /\ m.done \subseteq asked
  BY <1>4, OccupiedCount DEF RoundOK
<1>18. /\ Uids(queue') \cap Rowed(mtp') = {}
       /\ left' \cap (Uids(queue') \cup Rowed(mtp')) = {}
       /\ left' \cup Uids(queue') \cup Rowed(mtp') = 0..(inserted - 1)
  <2> DEFINE Q == Uids(queue)  R == Uids(queue')  E == e.done  B == Rowed(mtp')
             I == 0..(inserted - 1)
  <2>1. /\ Q \cap asked = {} /\ left \cap (Q \cup asked) = {} /\ left \cup Q \cup asked = I
        /\ R \subseteq Q /\ E \subseteq asked \cup (Q \ R) /\ B = (asked \cup (Q \ R)) \ E
    BY <1>5, <1>7, <1>11, <1>16 DEF all
  <2>2. left' = left \cup E
    BY <1>8
  <2> HIDE DEF Q, R, E, B, I
  <2>3. R \cap B = {} /\ (left \cup E) \cap (R \cup B) = {} /\ (left \cup E) \cup R \cup B = I
    BY <2>1, Moves
  <2>4. QED
    BY <2>2, <2>3 DEF Q, R, E, B, I
<1>19. /\ IsFiniteSet(Rowed(e)) /\ Cardinality(Rowed(e)) = Occupied(e) /\ Occupied(e) \in Nat
       /\ IsFiniteSet(Rowed(m)) /\ Cardinality(Rowed(m)) = Occupied(m) /\ Occupied(m) \in Nat
       /\ IsFiniteSet(asked) /\ Cardinality(asked) = Occupied(mtp) /\ Occupied(mtp) \in Nat
  <2>1. IsFiniteSet(Rowed(e)) /\ Cardinality(Rowed(e)) = Occupied(e) /\ Occupied(e) \in Nat
    BY <1>7, OccupiedCount
  <2>2. IsFiniteSet(Rowed(m)) /\ Cardinality(Rowed(m)) = Occupied(m) /\ Occupied(m) \in Nat
    BY <1>4, OccupiedCount
  <2>3. IsFiniteSet(asked) /\ Cardinality(asked) = Occupied(mtp) /\ Occupied(mtp) \in Nat
    BY <1>5, OccupiedCount DEF asked
  <2>4. QED
    BY <2>1, <2>2, <2>3
<1>20. Occupied(e) <= Occupied(m) + n /\ n \in Nat
  <2>1. n \in Nat
    BY <1>4, <1>5
  <2>2. Rowed(e) \subseteq Rowed(m) \cup (Uids(queue) \ Uids(queue'))
    BY <1>7, <1>16, <1>17 DEF all
  <2>3. Cardinality(Rowed(e)) <= Cardinality(Rowed(m)) + n
    BY <1>5, <1>7, <1>19, <2>1, <2>2, RowsCount
  <2>4. QED
    BY <1>19, <2>1, <2>3
<1>21. Occupied(m) <= Occupied(mtp)
  <2>1. Rowed(m) \in SUBSET asked
    BY <1>17
  <2>2. QED
    BY <1>19, <2>1, FS_Subset
<1>22. /\ Occupied(mtp') <= policy.completion
       /\ policy.segmented => Occupied(mtp') <= policy.cohort
  <2>1. policy.completion \in Nat
    BY <1>1, PoliciesAssumption
  <2>2. policy.cohort \in Nat
    BY <1>1, LanesAssumption
  <2>3. Occupied(mtp) <= policy.completion /\ (policy.segmented => Occupied(mtp) <= policy.cohort)
    BY <1>1 DEF LanesInv
  <2>4. CASE n = 0
    BY <1>11, <1>19, <1>20, <1>21, <2>1, <2>2, <2>3, <2>4
  <2>5. CASE n > 0
    BY <1>4, <1>11, <1>19, <1>20, <2>1, <2>2, <2>5
  <2>6. QED
    BY <1>20, <2>4, <2>5
<1>23. /\ processing' = <<>> /\ prompts' = <<>> /\ generation' = <<>> /\ steps' = 0
       /\ turn' \in {0, 1} /\ inserted' \in 0..MaxJobs /\ inserted' = inserted /\ policy' = policy
  BY <1>1, <1>3, <1>6 DEF LanesInv
<1>24. /\ Uids(queue)' = Uids(queue') /\ Rowed(mtp)' = Rowed(mtp') /\ Occupied(mtp)' = Occupied(mtp')
  BY DEF Uids, Rowed, Occupied
<1>25. /\ Uids(queue)' \cap Rowed(mtp)' = {}
       /\ left' \cap (Uids(queue)' \cup Rowed(mtp)') = {}
       /\ left' \cup Uids(queue)' \cup Rowed(mtp)' = 0..(inserted' - 1)
       /\ Occupied(mtp)' <= policy'.completion
       /\ policy'.segmented => Occupied(mtp)' <= policy'.cohort
  BY <1>18, <1>22, <1>23, <1>24
<1>26. QED
  BY <1>7, <1>14, <1>15, <1>23, <1>25 DEF LanesInv

(* A generator without self-MTP has no lanes.                              *)
LEMMA RowsOnly ==
    ASSUME GeneratorInv, ~policy.mtp, BatchNext, UNCHANGED mtp
    PROVE  GeneratorInv'
<1>1. policy' = policy
  BY DEF BatchNext, Insert, RemoveJob, Round, Decode
<1>2. QED
  BY <1>1 DEF GeneratorInv, NoLanes

(* A step that changes nothing.                                            *)
LEMMA GeneratorStill ==
    ASSUME GeneratorInv, UNCHANGED allVars
    PROVE  GeneratorInv'
<1>1. /\ policy' = policy /\ inserted' = inserted /\ queue' = queue /\ processing' = processing
      /\ prompts' = prompts /\ generation' = generation /\ steps' = steps /\ left' = left
      /\ turn' = turn /\ mtp' = mtp
  BY DEF allVars
<1>2. CASE ~policy.mtp
  BY <1>1, <1>2 DEF GeneratorInv, NoLanes
<1>3. CASE policy.mtp
  <2>1. LanesInv
    BY <1>3 DEF GeneratorInv
  <2>2. RoundOK(mtp', Rowed(mtp')) /\ inserted \in Nat
    BY <1>1, <2>1, CostAssumption DEF LanesInv
  <2>3. RoundOK(mtp, Rowed(mtp))'
    BY <1>1, <2>2, RoundPrimed
  <2>4. /\ Uids(queue)' = Uids(queue) /\ Rowed(mtp)' = Rowed(mtp) /\ Occupied(mtp)' = Occupied(mtp)
        /\ Distinct(queue)' = Distinct(queue) /\ BetweenRounds(mtp)' = BetweenRounds(mtp)
    BY <1>1 DEF Uids, Rowed, Occupied, Distinct, BetweenRounds
  <2>5. LanesInv'
    BY <1>1, <2>1, <2>3, <2>4 DEF LanesInv
  <2>6. QED
    BY <1>1, <1>3, <2>5 DEF GeneratorInv
<1>4. QED
  BY <1>2, <1>3

(* Every operation keeps the requests in one place.                        *)
LEMMA GeneratorStep == GeneratorInv /\ [GeneratorNext]_allVars => GeneratorInv'
<1> SUFFICES ASSUME GeneratorInv, [GeneratorNext]_allVars PROVE GeneratorInv'
  OBVIOUS
<1>1. CASE ~policy.mtp /\ BatchNext /\ UNCHANGED mtp
  BY <1>1, RowsOnly
<1>2. ASSUME NEW p \in LanePrompts, InsertLane(p) PROVE GeneratorInv'
  <2>1. LanesInv'
    BY <1>2, InsertLaneOK
  <2>2. policy' = policy /\ policy.mtp /\ policy \in Policies
    BY <1>2 DEF InsertLane, Insert, GeneratorInv
  <2>3. QED
    BY <2>1, <2>2 DEF GeneratorInv
<1>3. ASSUME NEW u \in Everyone, RemoveLane(u) PROVE GeneratorInv'
  <2>1. LanesInv'
    BY <1>3, RemoveLaneOK
  <2>2. policy' = policy /\ policy.mtp /\ policy \in Policies
    BY <1>3 DEF RemoveLane, GeneratorInv
  <2>3. QED
    BY <2>1, <2>2 DEF GeneratorInv
<1>4. CASE RoundOfLanes
  <2>1. LanesInv' /\ policy' = policy
    BY <1>4, RoundOfLanesOK
  <2>2. policy.mtp /\ policy \in Policies
    BY <1>4 DEF RoundOfLanes, GeneratorInv
  <2>3. QED
    BY <2>1, <2>2 DEF GeneratorInv
<1>5. CASE UNCHANGED allVars
  BY <1>5, GeneratorStill
<1>6. QED
  BY <1>1, <1>2, <1>3, <1>4, <1>5 DEF GeneratorNext

(* Between rounds every request of a generator with self-MTP is in one     *)
(* place, and the batch has room for its lanes.                            *)
THEOREM GeneratorInvariant == GeneratorSpec => []GeneratorInv
<1>1. QED
  BY GeneratorInitInv, GeneratorStep, PTL DEF GeneratorSpec

--------------------------------------------------------------------------------
(* What the invariant implies.                                             *)

(* Those who wait are asked about once each.                               *)
LEMMA JoiningRowsOf ==
    ASSUME queue \in Seq(Waiting), Distinct(queue), NEW n \in 0..Len(queue)
    PROVE  /\ JoiningRows(n) \in Seq(Measure) /\ Distinct(JoiningRows(n))
           /\ Uids(JoiningRows(n)) \subseteq Uids(queue)
<1>1. DOMAIN queue = 1..Len(queue) /\ Len(queue) \in Nat
  BY ListDomain
<1>2. n \in Nat /\ \A i \in 1..n : i \in DOMAIN queue
  BY <1>1
<1>3. ASSUME NEW job \in Waiting PROVE JoiningRow(job) \in Measure /\ JoiningRow(job).uid = job.uid
  <2> DEFINE rest == SumFunction(job.segments)
             more == job.history + rest
             cache == IF job.history > 0 /\ rest <= policy.step THEN more ELSE 0
  <2>1. job.uid \in Nat /\ job.history \in Nat /\ job.segments \in Seq(Nat \ {0})
    BY DEF Waiting, Job
  <2>2. rest \in Nat
    BY <2>1, SegmentsSum
  <2>3. more \in Nat
    BY <2>1, <2>2
  <2>4. JoiningRow(job) = [uid |-> job.uid, context |-> more, cache |-> cache,
                           resident |-> FALSE, pending |-> 0]
    BY DEF JoiningRow
  <2> HIDE DEF rest, more
  <2>5. cache \in Nat
    BY <2>3
  <2> HIDE DEF cache
  <2>6. QED
    BY <2>1, <2>3, <2>4, <2>5 DEF Measure
<1> DEFINE t == JoiningRows(n)
<1>4. t = [i \in 1..n |-> JoiningRow(queue[i])]
  BY DEF JoiningRows
<1>5. \A i \in 1..n : t[i] \in Measure /\ t[i].uid = queue[i].uid
  BY <1>2, <1>3, <1>4
<1>6. DOMAIN t = 1..n /\ t \in [1..n -> Measure]
  BY <1>4, <1>5
<1> HIDE DEF t
<1>7. t \in Seq(Measure)
  BY <1>2, <1>6
<1>8. Distinct(t)
  BY <1>2, <1>5, <1>6 DEF Distinct
<1>9. Uids(t) \subseteq Uids(queue)
  BY <1>2, <1>5, <1>6 DEF Uids
<1>10. QED
  BY <1>7, <1>8, <1>9 DEF t

(* The lanes a boundary or a probe asks about satisfy what the             *)
(* controller's theorems assume.                                           *)
LEMMA SafeVerdicts == GeneratorInv => VerdictsAreSafe
<1> SUFFICES ASSUME GeneratorInv, policy.mtp, policy.admission,
                    NEW free \in Readings, NEW n \in 0..Len(queue),
                    NEW rows, rows = CycleRows(mtp) \o JoiningRows(n),
                    NEW answer \in Answers(rows, free, mtp.demoted)
             PROVE  LET verdict == answer.of
                        going == {i \in DOMAIN rows : Speculates(verdict[rows[i].uid])}
                    IN  /\ LargestSafe(rows, free)
                        /\ \A i \in going : CostOf(rows, verdict[rows[i].uid], going) <= free
                        /\ going = {} => \A i \in DOMAIN rows : ~Speculates(Plan(rows, free)[i])
  BY DEF VerdictsAreSafe
<1>1. LanesInv
  BY DEF GeneratorInv
<1>2. /\ queue \in Seq(Waiting) /\ Distinct(queue) /\ RoundOK(mtp, Rowed(mtp))
      /\ Uids(queue) \cap Rowed(mtp) = {}
  BY <1>1 DEF LanesInv
<1>3. /\ CycleRows(mtp) \in Seq(Measure) /\ Distinct(CycleRows(mtp))
      /\ Uids(CycleRows(mtp)) = Uids(mtp.lanes) \cup Uids(mtp.paused)
  BY <1>2, CycleRowsOf
<1>4. /\ JoiningRows(n) \in Seq(Measure) /\ Distinct(JoiningRows(n))
      /\ Uids(JoiningRows(n)) \subseteq Uids(queue)
  BY <1>2, JoiningRowsOf
<1>5. Uids(CycleRows(mtp)) \cap Uids(JoiningRows(n)) = {}
  BY <1>2, <1>3, <1>4 DEF Rowed
<1>6. rows \in Seq(Measure) /\ Distinct(rows)
  <2> DEFINE a == CycleRows(mtp)
             b == JoiningRows(n)
  <2>1. /\ a \in Seq(Measure) /\ b \in Seq(Measure) /\ Distinct(a) /\ Distinct(b)
        /\ Uids(a) \cap Uids(b) = {} /\ rows = a \o b
    BY <1>3, <1>4, <1>5
  <2> HIDE DEF a, b
  <2>2. QED
    BY <2>1, Concat
<1>7. LaneRows(rows) /\ free \in Nat
  BY <1>6, MeasuresAreRows, LanesAssumption
<1>8. LargestSafe(rows, free)
  BY <1>7, PlanIsLargestSafe
<1>9. QED
  BY <1>6, <1>7, <1>8, VerdictIsSafe

(* The controller's promise, at every boundary a generator reaches and at  *)
(* every probe for those who wait.                                         *)
THEOREM VerdictsStaySafe == GeneratorSpec => []VerdictsAreSafe
<1>1. QED
  BY GeneratorInvariant, SafeVerdicts, PTL

(* A lane that must still give its first token gave none.                  *)
LEMMA FirstTokensFirst ==
    GeneratorInv => (policy.admission \/ ~policy.segmented =>
        \A i \in DOMAIN (mtp.lanes \o mtp.paused) :
           (mtp.lanes \o mtp.paused)[i].initial => (mtp.lanes \o mtp.paused)[i].num = 0)
<1> SUFFICES ASSUME GeneratorInv, policy.admission \/ ~policy.segmented,
                    NEW i \in DOMAIN (mtp.lanes \o mtp.paused)
             PROVE  (mtp.lanes \o mtp.paused)[i].initial => (mtp.lanes \o mtp.paused)[i].num = 0
  OBVIOUS
<1>1. mtp.lanes \in Seq(Going) /\ mtp.paused \in Seq(Going)
  <2>1. CASE policy.mtp
    <3>1. RoundOK(mtp, Rowed(mtp))
      BY <2>1 DEF GeneratorInv, LanesInv
    <3>2. QED
      BY <3>1, PartsOf
  <2>2. CASE ~policy.mtp
    <3>1. mtp.lanes = <<>> /\ mtp.paused = <<>>
      BY <2>2 DEF GeneratorInv, NoLanes
    <3>2. QED
      BY <3>1
  <2>3. QED
    BY <2>1, <2>2
<1>2. mtp.lanes \o mtp.paused \in Seq(Going)
  BY <1>1, ConcatAt
<1>3. (mtp.lanes \o mtp.paused)[i] \in Going
  <2> DEFINE all == mtp.lanes \o mtp.paused
  <2>1. all \in Seq(Going) /\ i \in DOMAIN all
    BY <1>2
  <2> HIDE DEF all
  <2>2. all[i] \in Going
    BY <2>1
  <2>3. QED
    BY <2>2 DEF all
<1>4. QED
  BY <1>3 DEF Going, InOrder

(* A segmented batch that ran as one is not widened.                       *)
LEMMA WidthIsKept ==
    ASSUME GeneratorInv, [GeneratorNext]_allVars,
           ~policy.admission, mtp.locked, Uids(mtp.lanes) \cap Uids(mtp'.lanes) # {}
    PROVE  Uids(mtp'.lanes) \subseteq Uids(mtp.lanes)
<1>1. CASE UNCHANGED mtp
  BY <1>1
<1>2. ASSUME NEW u \in Everyone, RemoveLane(u) PROVE Uids(mtp'.lanes) \subseteq Uids(mtp.lanes)
  <2>1. policy.mtp /\ mtp' = [mtp EXCEPT !.lanes = Without(@, u), !.paused = Without(@, u),
                                         !.plain = Without(@, u)]
    BY <1>2 DEF RemoveLane
  <2>2. RoundOK(mtp, Rowed(mtp))
    BY <2>1 DEF GeneratorInv, LanesInv
  <2>3. mtp \in LaneState /\ mtp.lanes \in Seq(Going)
    BY <2>2, PartsOf DEF RoundOK
  <2>4. mtp'.lanes = Without(mtp.lanes, u)
    BY <2>1, <2>3 DEF LaneState
  <2>5. Uids(Without(mtp.lanes, u)) = Uids(mtp.lanes) \ {u}
    BY <2>3, WithoutOne
  <2>6. QED
    BY <2>4, <2>5
<1>3. CASE RoundOfLanes
  <2>1. policy.mtp
    BY <1>3 DEF RoundOfLanes
  <2>2. PICK end \in RoundEnds : mtp' = [end.mtp EXCEPT !.done = {}, !.depth = 0]
    BY <1>3 DEF RoundOfLanes
  <2>3. PICK m, n : /\ JoinOK(end, m, Rowed(mtp), queue, n)
                    /\ mtp.lanes # <<>> => m.locked /\ Uids(m.lanes) \subseteq Uids(mtp.lanes)
    BY <2>1, <2>2, RoundEndOf
  <2>4. end.mtp \in LaneState
    BY <2>3 DEF JoinOK, RoundOK
  <2>5. mtp'.lanes = end.mtp.lanes
    BY <2>2, <2>4 DEF LaneState
  <2>6. mtp.lanes # <<>>
    BY NoRows
  <2>7. Uids(queue) \cap Uids(mtp.lanes) = {}
    BY <2>1 DEF GeneratorInv, LanesInv, Rowed
  <2>8. CASE m.lanes # <<>>
    <3>1. end.mtp.lanes = m.lanes
      BY <2>3, <2>6, <2>8 DEF JoinOK
    <3>2. QED
      BY <2>3, <2>5, <2>6, <3>1
  <2>9. CASE m.lanes = <<>>
    <3>1. Uids(m.lanes) = {}
      BY <2>9, NoRows
    <3>2. Uids(end.mtp.lanes) \subseteq Uids(queue)
      BY <2>3, <3>1 DEF JoinOK
    <3>3. QED
      BY <2>5, <2>7, <3>2
  <2>10. QED
    BY <2>8, <2>9
<1>4. QED
  BY <1>1, <1>2, <1>3 DEF GeneratorNext, InsertLane, allVars

(* First tokens go first, and a segmented batch that ran as one keeps its  *)
(* width while a lane of it is left.                                       *)
THEOREM OrderIsKept == GeneratorSpec => LanesKeepTheirOrder
<1> DEFINE First == policy.admission \/ ~policy.segmented =>
                       \A i \in DOMAIN (mtp.lanes \o mtp.paused) :
                          (mtp.lanes \o mtp.paused)[i].initial => (mtp.lanes \o mtp.paused)[i].num = 0
           Width == ~policy.admission /\ mtp.locked /\ Uids(mtp.lanes) \cap Uids(mtp'.lanes) # {}
                       => Uids(mtp'.lanes) \subseteq Uids(mtp.lanes)
<1>1. GeneratorInv => First
  BY FirstTokensFirst
<1>2. GeneratorInv /\ [GeneratorNext]_allVars => [Width]_allVars
  BY WidthIsKept
<1> HIDE DEF First, Width
<1>3. GeneratorSpec => []First /\ [][Width]_allVars
  BY <1>1, <1>2, GeneratorInvariant, PTL DEF GeneratorSpec
<1>4. QED
  BY <1>3 DEF LanesKeepTheirOrder, First, Width

(* What the runs check of a generator with self-MTP.                       *)
LEMMA LanesTypeOK ==
    ASSUME GeneratorInv, policy.mtp
    PROVE  GeneratorTypeOK
<1>1. LanesInv /\ policy \in Policies
  BY DEF GeneratorInv
<1>2. /\ queue \in Seq(Waiting) /\ processing = <<>> /\ prompts = <<>> /\ generation = <<>>
      /\ inserted \in 0..MaxJobs /\ steps = 0 /\ turn \in {0, 1}
      /\ RoundOK(mtp, Rowed(mtp)) /\ BetweenRounds(mtp)
      /\ left \cup Uids(queue) \cup Rowed(mtp) = 0..(inserted - 1)
  BY <1>1 DEF LanesInv
<1>3. /\ policy.prefill \in Nat \ {0} /\ policy.completion \in Nat /\ policy.cadence \in Nat \ {0}
  BY <1>1, PoliciesAssumption
<1>4. \A i \in DOMAIN queue : /\ queue[i].uid \in 0..(inserted - 1)
                              /\ queue[i].segments # <<>> /\ Last(queue[i].segments) = 1
  <2> TAKE i \in DOMAIN queue
  <2>1. queue[i] \in Waiting /\ queue[i].uid \in Uids(queue)
    BY <1>2 DEF Uids
  <2>2. QED
    BY <1>2, <2>1 DEF Waiting
<1>5. Len(prompts) = 0 /\ Len(generation) = 0
  BY <1>2
<1>6. BatchTypeOK
  <2>1. steps \in 0..(policy.cadence - 1)
    BY <1>2, <1>3
  <2>2. Len(prompts) <= policy.prefill /\ Len(generation) < policy.completion + policy.prefill
    BY <1>3, <1>5
  <2>3. \A i \in DOMAIN processing : FALSE
    BY <1>2
  <2>4. QED
    BY <1>1, <1>2, <1>4, <2>1, <2>2, <2>3 DEF BatchTypeOK
<1>7. mtp.starved \in 0..(Starved - 1) /\ mtp.demoted \in Demotions
  BY <1>2, PartsOf
<1>8. \A u \in DOMAIN mtp.demoted : u \in 0..(inserted - 1) /\ mtp.demoted[u] \in 0..MaxHolds
  BY <1>7 DEF Demotions
<1>9. processing \o prompts \o generation = <<>>
  BY <1>2
<1>10. mtp.locked => policy.segmented
  BY <1>2 DEF RoundOK
<1>11. QED
  BY <1>2, <1>6, <1>7, <1>8, <1>9, <1>10 DEF GeneratorTypeOK, BetweenRounds

(* With self-MTP no request is lost or in two places.                      *)
LEMMA LanesConserved ==
    ASSUME GeneratorInv, policy.mtp
    PROVE  RequestsAreConserved
<1>1. LanesInv /\ policy \in Policies
  BY DEF GeneratorInv
<1>2. /\ queue \in Seq(Waiting) /\ Distinct(queue) /\ prompts = <<>> /\ generation = <<>>
      /\ RoundOK(mtp, Rowed(mtp))
      /\ Uids(queue) \cap Rowed(mtp) = {} /\ left \cap (Uids(queue) \cup Rowed(mtp)) = {}
      /\ left \cup Uids(queue) \cup Rowed(mtp) = 0..(inserted - 1)
      /\ Occupied(mtp) <= policy.completion
      /\ policy.segmented => Occupied(mtp) <= policy.cohort
  BY <1>1 DEF LanesInv
<1>3. Everyone = Uids(queue) \cup Rowed(mtp)
  <2>1. Live = Uids(queue)
    BY <1>2, NoRows DEF Live
  <2>2. QED
    BY <2>1 DEF Everyone
<1>4. Len(queue) + Occupied(mtp) = Cardinality(Everyone)
  <2> DEFINE Q == Uids(queue)
             M == Rowed(mtp)
  <2>1. IsFiniteSet(Q) /\ Cardinality(Q) = Len(queue) /\ Len(queue) \in Nat
    BY <1>2, DistinctCount
  <2>2. IsFiniteSet(M) /\ Cardinality(M) = Occupied(mtp) /\ Occupied(mtp) \in Nat
    BY <1>2, OccupiedCount
  <2>3. Q \cap M = {} /\ Everyone = Q \cup M
    BY <1>2, <1>3
  <2> HIDE DEF Q, M
  <2>4. Cardinality(Q \cup M) = Cardinality(Q) + Cardinality(M) - Cardinality(Q \cap M)
    BY <2>1, <2>2, FS_Union
  <2>5. Cardinality(Q \cap M) = 0
    BY <2>3, FS_EmptySet
  <2>6. QED
    BY <2>1, <2>2, <2>3, <2>4, <2>5
<1>5. /\ mtp.lanes \in Seq(Going) /\ mtp.paused \in Seq(Going) /\ mtp.plain \in Seq(GoingPlain)
  BY <1>2, PartsOf
<1>6. \A i \in DOMAIN mtp.plain : /\ mtp.plain[i].before + mtp.plain[i].limit = mtp.plain[i].asked
                                  /\ mtp.plain[i].num < mtp.plain[i].limit
  <2> TAKE i \in DOMAIN mtp.plain
  <2>1. mtp.plain[i] \in GoingPlain
    BY <1>5
  <2>2. QED
    BY <2>1 DEF GoingPlain
<1>7. \A i \in DOMAIN (mtp.lanes \o mtp.paused) :
         (mtp.lanes \o mtp.paused)[i].num < (mtp.lanes \o mtp.paused)[i].limit
  <2> TAKE i \in DOMAIN (mtp.lanes \o mtp.paused)
  <2>1. mtp.lanes \o mtp.paused \in Seq(Going)
    BY <1>5, ConcatAt
  <2> DEFINE all == mtp.lanes \o mtp.paused
  <2>2. all \in Seq(Going) /\ i \in DOMAIN all
    BY <2>1
  <2> HIDE DEF all
  <2>3. all[i] \in Going
    BY <2>2
  <2>4. QED
    BY <2>3 DEF Going, all
<1>8. Everyone \cup left = 0..(inserted - 1) /\ Everyone \cap left = {}
  BY <1>2, <1>3
<1>9. QED
  BY <1>2, <1>4, <1>6, <1>7, <1>8 DEF RequestsAreConserved

--------------------------------------------------------------------------------
(* Both halves.                                                            *)

(* A generator keeps its requests apart whichever half it runs, and its    *)
(* batches within what the budget lets them grow to.                       *)
WholeInv ==
    /\ GeneratorInv
    /\ ~policy.mtp => RowsInv /\ BudgetInv

(* A step that leaves the variables of BatchGenerator alone.               *)
LEMMA RowsStill ==
    ASSUME RowsInv, BudgetInv, UNCHANGED allVars
    PROVE  RowsInv' /\ BudgetInv'
<1>1. /\ policy' = policy /\ inserted' = inserted /\ queue' = queue /\ processing' = processing
      /\ prompts' = prompts /\ generation' = generation /\ steps' = steps /\ left' = left
      /\ turn' = turn
  BY DEF allVars
<1>2. /\ Uids(queue)' = Uids(queue) /\ Uids(prompts)' = Uids(prompts)
      /\ Uids(generation)' = Uids(generation) /\ Live' = Live
      /\ Distinct(queue)' = Distinct(queue)
      /\ Extents(prompts)' = Extents(prompts) /\ Extents(generation)' = Extents(generation)
  BY <1>1 DEF Uids, Live, Distinct, Extents
<1>3. Batches(generation, prompts, processing)' = Batches(generation, prompts, processing)
  BY <1>1 DEF Batches, Paired, Pair, Distinct, Uids
<1>4. RowsInv'
  BY <1>1, <1>2, <1>3 DEF RowsInv
<1>5. Affordable(Len(generation) + Len(prompts), Extents(generation) \cup Extents(prompts))'
        = Affordable(Len(generation) + Len(prompts), Extents(generation) \cup Extents(prompts))
  BY <1>1, <1>2 DEF Affordable, Charge
<1>6. QED
  BY <1>4, <1>5 DEF BudgetInv

(* No step turns self-MTP on or off. *)
LEMMA PolicyIsKept ==
    ASSUME [GeneratorNext]_allVars
    PROVE  policy' = policy
<1>1. CASE BatchNext
  BY <1>1 DEF BatchNext, Insert, RemoveJob, Round, Decode
<1>2. ASSUME NEW p \in LanePrompts, InsertLane(p) PROVE policy' = policy
  BY <1>2 DEF InsertLane, Insert
<1>3. ASSUME NEW u \in Everyone, RemoveLane(u) PROVE policy' = policy
  BY <1>3 DEF RemoveLane
<1>4. CASE RoundOfLanes
  BY <1>4 DEF RoundOfLanes
<1>5. CASE UNCHANGED allVars
  BY <1>5 DEF allVars
<1>6. QED
  BY <1>1, <1>2, <1>3, <1>4, <1>5 DEF GeneratorNext

(* A new generator is empty.                                               *)
LEMMA WholeInit == GeneratorInit => WholeInv
<1>1. GeneratorInit => RowsInv /\ BudgetInv
  BY BatchInitInv DEF GeneratorInit
<1>2. QED
  BY <1>1, GeneratorInitInv DEF WholeInv

(* Every operation keeps the whole invariant.                              *)
LEMMA WholeStep == WholeInv /\ [GeneratorNext]_allVars => WholeInv'
<1> SUFFICES ASSUME WholeInv, [GeneratorNext]_allVars PROVE WholeInv'
  OBVIOUS
<1>1. GeneratorInv' /\ policy' = policy
  BY GeneratorStep, PolicyIsKept DEF WholeInv
<1>2. ASSUME ~policy.mtp PROVE RowsInv' /\ BudgetInv'
  <2>1. RowsInv /\ BudgetInv
    BY <1>2 DEF WholeInv
  <2>2. BatchNext \/ UNCHANGED allVars
    BY <1>2 DEF GeneratorNext, InsertLane, RemoveLane, RoundOfLanes
  <2>3. QED
    BY <2>1, <2>2, BatchStep, RowsStill
<1>3. QED
  BY <1>1, <1>2 DEF WholeInv

(* Between rounds a generator, with self-MTP or without, holds each of its *)
(* requests in one place.                                                  *)
THEOREM WholeInvariant == GeneratorSpec => []WholeInv
<1>1. QED
  BY WholeInit, WholeStep, PTL DEF GeneratorSpec

(* The lists of a generator hold rows of their kind, and the batches are   *)
(* no larger than their sizes allow.                                       *)
THEOREM GeneratorTypes == GeneratorSpec => []GeneratorTypeOK
<1>1. WholeInv => GeneratorTypeOK
  <2> SUFFICES ASSUME WholeInv PROVE GeneratorTypeOK
    OBVIOUS
  <2>1. CASE policy.mtp
    BY <2>1, LanesTypeOK DEF WholeInv
  <2>2. CASE ~policy.mtp
    <3>1. BatchTypeOK
      BY <2>2, RowsTypeOK DEF WholeInv
    <3>2. /\ mtp.lanes = <<>> /\ mtp.paused = <<>> /\ mtp.ready = <<>> /\ mtp.plain = <<>>
          /\ mtp.locked = FALSE /\ mtp.starved = 0 /\ mtp.demoted = <<>> /\ mtp.done = {}
          /\ mtp.depth = 0
      BY <2>2 DEF WholeInv, GeneratorInv, NoLanes
    <3>3. Len(<<>>) = 0 /\ DOMAIN <<>> = {}
      BY NoRows
    <3>4. Occupied(mtp) = 0
      BY <3>2, <3>3 DEF Occupied
    <3>5. mtp.starved \in 0..(Starved - 1)
      BY <3>2, LanesAssumption
    <3>6. DOMAIN mtp.demoted = {}
      BY <3>2, <3>3
    <3>7. QED
      BY <2>2, <3>1, <3>2, <3>4, <3>5, <3>6 DEF GeneratorTypeOK
  <2>3. QED
    BY <2>1, <2>2
<1>2. QED
  BY <1>1, WholeInvariant, PTL

(* No request is lost, copied or in two places, with self-MTP or without:  *)
(* whatever was queued, sliced, deferred, promoted, paused, demoted or     *)
(* removed in between.                                                     *)
THEOREM RequestsStayConserved == GeneratorSpec => []RequestsAreConserved
<1>1. WholeInv => RequestsAreConserved
  <2> SUFFICES ASSUME WholeInv PROVE RequestsAreConserved
    OBVIOUS
  <2>1. CASE policy.mtp
    BY <2>1, LanesConserved DEF WholeInv
  <2>2. CASE ~policy.mtp
    BY <2>2, RowsConserved DEF WholeInv, RequestsAreConserved
  <2>3. QED
    BY <2>1, <2>2
<1>2. QED
  BY <1>1, WholeInvariant, PTL

(* What the rows in the batches may still grow to stays within the budget, *)
(* whatever was admitted, finished or removed between.                     *)
THEOREM BudgetIsKept == GeneratorSpec => []BudgetHolds
<1>1. WholeInv => BudgetHolds
  <2> SUFFICES ASSUME WholeInv PROVE BudgetHolds
    OBVIOUS
  <2>1. policy \in Policies
    BY DEF WholeInv, GeneratorInv
  <2>2. CASE policy.mtp
    <3>1. processing = <<>> /\ prompts = <<>> /\ generation = <<>>
      BY <2>2 DEF WholeInv, GeneratorInv, LanesInv
    <3>2. /\ <<>> \in Seq(PromptRow) /\ <<>> \in Seq(Working) /\ <<>> \in Seq(Generating)
          /\ Len(<<>>) = 0 /\ Uids(<<>>) = {} /\ Distinct(<<>>)
      BY NoRows
    <3>3. DOMAIN <<>> = {}
      OBVIOUS
    <3>4. Paired(<<>>, <<>>)
      BY <3>2, <3>3 DEF Paired
    <3>5. Batches(generation, prompts, processing)
      BY <3>1, <3>2, <3>4 DEF Batches
    <3>6. BudgetInv
      BY <3>1, <3>2 DEF BudgetInv, Affordable
    <3>7. QED
      BY <2>1, <3>5, <3>6, BudgetFollows
  <2>3. CASE ~policy.mtp
    BY <2>1, <2>3, BudgetFollows DEF WholeInv, RowsInv
  <2>4. QED
    BY <2>2, <2>3
<1>2. QED
  BY <1>1, WholeInvariant, PTL

--------------------------------------------------------------------------------
(* Fairness of a step.                                                     *)

ServedBy(q, job) == \A i \in DOMAIN q : q[i].uid = job.uid => q[i].segments # job.segments

(* A prompt that does not end with its next token.                         *)
LEMMA TwoSegments ==
    ASSUME NEW a \in Nat \ {0}
    PROVE  SumFunction(<<a, 1>>) = a + 1
<1>1. /\ <<a, 1>> \in Seq(Nat \ {0}) /\ <<a, 1>> # <<>> /\ <<a, 1>>[1] = a
      /\ Tail(<<a, 1>>) = <<1>>
  OBVIOUS
<1>2. SumFunction(<<a, 1>>) = a + SumFunction(<<1>>)
  BY <1>1, TailSum
<1>3. QED
  BY <1>2, LastTokenSum

(* Growing older is not being served.                                      *)
LEMMA NoneServed ==
    ASSUME policy \in Policies, queue \in Seq(Waiting), NEW j \in DOMAIN queue
    PROVE  ~ServedBy(Aged(queue), queue[j])
<1>1. /\ DOMAIN Aged(queue) = DOMAIN queue
      /\ Aged(queue)[j].uid = queue[j].uid /\ Aged(queue)[j].segments = queue[j].segments
  BY AgedOK
<1>2. QED
  BY <1>1 DEF ServedBy

(* A list without its first rows lacks the first one.                      *)
LEMMA HeadDropped ==
    ASSUME NEW s \in Seq(Waiting), Distinct(s), NEW n \in 1..Len(s),
           NEW job, job.uid = s[1].uid
    PROVE  ServedBy(SubSeq(s, n + 1, Len(s)), job)
<1> DEFINE rest == SubSeq(s, n + 1, Len(s))
<1>1. /\ DOMAIN s = 1..Len(s) /\ Len(s) \in Nat /\ n \in Nat /\ n >= 1 /\ n <= Len(s)
  BY ListDomain
<1>2. /\ n + 1 \in 1..(Len(s) + 1) /\ Len(s) \in 0..Len(s) /\ n + 1 <= Len(s) + 1
      /\ Len(s) - (n + 1) + 1 = Len(s) - n
  BY <1>1
<1>3. /\ DOMAIN rest = 1..(Len(s) - (n + 1) + 1)
      /\ \A k \in 1..(Len(s) - (n + 1) + 1) : rest[k] = s[k + (n + 1) - 1]
  <2> DEFINE a == n + 1
             b == Len(s)
  <2>1. a \in 1..(Len(s) + 1) /\ b \in 0..Len(s) /\ a <= b + 1
    BY <1>2
  <2> HIDE DEF a, b
  <2>2. /\ DOMAIN SubSeq(s, a, b) = 1..(b - a + 1)
        /\ \A k \in 1..(b - a + 1) : SubSeq(s, a, b)[k] = s[k + a - 1]
    BY <2>1, PartOf
  <2>3. QED
    BY <2>2 DEF a, b
<1> HIDE DEF rest
<1>4. ASSUME NEW k \in DOMAIN rest PROVE rest[k].uid # s[1].uid
  <2>1. k \in 1..(Len(s) - n) /\ k + (n + 1) - 1 = k + n
    BY <1>1, <1>2, <1>3
  <2>2. rest[k] = s[k + n]
    BY <1>2, <1>3, <2>1
  <2>3. k + n \in DOMAIN s /\ 1 \in DOMAIN s /\ k + n # 1
    BY <1>1, <2>1
  <2>4. QED
    BY <2>2, <2>3 DEF Distinct
<1>5. QED
  BY <1>4 DEF ServedBy, rest

(* What is left of the queue when its first n requests join.               *)
LEMMA QueueLeft ==
    ASSUME NEW m, NEW waiting, NEW n, NEW end \in MakeBatch(m, waiting, n)
    PROVE  end.queue = SubSeq(waiting, n + 1, Len(waiting))
<1>1. PICK j : end = [mtp |-> j, queue |-> SubSeq(waiting, n + 1, Len(waiting))]
  BY DEF MakeBatch
<1>2. QED
  BY <1>1

(* A slice given to the first request serves it, whether it then joins or  *)
(* waits on.                                                               *)
LEMMA FirstAdvanced ==
    ASSUME NEW m, NEW waiting \in Seq(Waiting), Distinct(waiting), waiting # <<>>,
           NEW chunk \in Nat \ {0}, NEW end \in Advance(m, waiting, 1, chunk),
           NEW job, job.uid = waiting[1].uid, job.segments = waiting[1].segments
    PROVE  ServedBy(end.queue, job)
<1> DEFINE total == SumFunction(waiting[1].segments)
           done == Min({chunk, total - 1})
           next == Shortened(waiting[1], done, total)
           front == <<next>> \o RemoveAt(waiting, 1)
           same == [k \in DOMAIN waiting |-> IF k = 1 THEN next ELSE waiting[k]]
<1>1. DOMAIN waiting = 1..Len(waiting) /\ Len(waiting) \in Nat /\ 1 \in DOMAIN waiting
  <2>1. DOMAIN waiting = 1..Len(waiting) /\ Len(waiting) \in Nat /\ Len(waiting) # 0
    BY ListDomain
  <2>2. QED
    BY <2>1
<1>2. waiting[1] \in Waiting /\ total \in Nat /\ total >= 1
  <2>1. waiting[1] \in Waiting
    BY <1>1
  <2>2. waiting[1].segments \in Seq(Nat \ {0}) /\ waiting[1].segments # <<>>
    BY <2>1 DEF Waiting, Job
  <2>3. QED
    BY <2>1, <2>2, SegmentsSum
<1>3. done \in Nat /\ done <= total - 1 /\ (done = chunk \/ done = total - 1)
  <2> DEFINE b == total - 1
  <2>1. b \in Int /\ b >= 0 /\ chunk \in Int /\ chunk >= 0
    BY <1>2
  <2> HIDE DEF b
  <2>2. Min({chunk, b}) \in {chunk, b} /\ Min({chunk, b}) <= b
    BY <2>1, LesserOf
  <2>3. done = Min({chunk, b})
    BY DEF b
  <2> HIDE DEF done
  <2>4. QED
    BY <2>1, <2>2, <2>3 DEF b
<1>4. next \in Waiting /\ next.uid = waiting[1].uid
  <2>1. total = SumFunction(waiting[1].segments)
    OBVIOUS
  <2> HIDE DEF done, total
  <2>2. QED
    BY <1>2, <1>3, <2>1, JobSliced
<1>5. end \in IF Ready(next) THEN MakeBatch(m, front, 1) ELSE {[mtp |-> m, queue |-> same]}
  BY DEF Advance, Shortened
<1>6. next.segments = IF total - done = 1 THEN <<1>> ELSE <<total - done - 1, 1>>
  <2> HIDE DEF total, done
  <2>1. waiting[1] \in Job
    BY <1>2 DEF Waiting
  <2>2. QED
    BY <2>1 DEF Shortened, Job
<1> HIDE DEF total, done, next
<1>7. CASE Ready(next)
  <2>1. Moved(waiting, 1, next, front)
    BY <1>1, <1>4 DEF Moved
  <2>2. front[1] = next
    OBVIOUS
  <2> HIDE DEF front
  <2>3. front \in Seq(Waiting) /\ Len(front) = Len(waiting)
    BY <1>4, <2>1, ToTheFront
  <2>4. Distinct(front)
    BY <1>4, <2>1, ToTheFront
  <2>5. 1 \in 1..Len(front) /\ front[1].uid = job.uid
    BY <1>1, <1>4, <2>2, <2>3
  <2>6. end.queue = SubSeq(front, 1 + 1, Len(front))
    <3>1. end \in MakeBatch(m, front, 1)
      BY <1>5, <1>7
    <3>2. QED
      BY <3>1, QueueLeft
  <2>7. ServedBy(SubSeq(front, 1 + 1, Len(front)), job)
    BY <2>3, <2>4, <2>5, HeadDropped
  <2>8. QED
    BY <2>6, <2>7
<1>8. CASE ~Ready(next)
  <2>1. end.queue = same
    BY <1>5, <1>8
  <2>2. total - done # 1
    BY <1>6, <1>8 DEF Ready
  <2>3. done >= 1 /\ total - done - 1 \in Nat \ {0}
    BY <1>2, <1>3, <2>2
  <2>4. next.segments # waiting[1].segments
    <3> DEFINE a == total - done - 1
    <3>1. a \in Nat \ {0} /\ next.segments = <<a, 1>> /\ a + 1 # total
      BY <1>2, <1>3, <1>6, <2>2, <2>3
    <3> HIDE DEF a
    <3>2. SumFunction(<<a, 1>>) = a + 1
      BY <3>1, TwoSegments
    <3>3. QED
      BY <3>1, <3>2 DEF total
  <2>5. ASSUME NEW k \in DOMAIN waiting, same[k].uid = job.uid
        PROVE  same[k] = next
    <3>1. CASE k = 1
      BY <3>1
    <3>2. CASE k # 1
      <4>1. waiting[k].uid = waiting[1].uid
        BY <2>5, <3>2
      <4>2. QED
        BY <1>1, <3>2, <4>1 DEF Distinct
    <3>3. QED
      BY <3>1, <3>2
  <2>6. DOMAIN same = DOMAIN waiting
    OBVIOUS
  <2> HIDE DEF same
  <2>7. QED
    BY <2>1, <2>4, <2>5, <2>6 DEF ServedBy
<1>9. QED
  BY <1>7, <1>8

(* Past the deadline whoever is served, the oldest request is.             *)
LEMMA HeadServed ==
    ASSUME policy \in Policies, queue \in Seq(Waiting), Distinct(queue),
           OldestAge >= policy.maxDefer, NEW m, NEW n \in 0..Len(queue),
           NEW end \in JoinLanes(m, n),
           NEW j \in DOMAIN queue, ServedBy(end.queue, queue[j])
    PROVE  ServedBy(end.queue, queue[1])
<1> DEFINE waiting == Aged(queue)
           sliced == /\ policy.adaptive /\ Occupied(m) > 0
                     /\ \E i \in 1..n : queue[i].history > 0
<1>1. /\ waiting \in Seq(Waiting) /\ Len(waiting) = Len(queue) /\ DOMAIN waiting = DOMAIN queue
      /\ Distinct(waiting)
      /\ \A i \in DOMAIN queue : /\ waiting[i].uid = queue[i].uid
                                 /\ waiting[i].segments = queue[i].segments
  BY AgedOK
<1>2. DOMAIN queue = 1..Len(queue) /\ Len(queue) \in Nat /\ 1 \in DOMAIN queue /\ waiting # <<>>
  <2>1. DOMAIN queue = 1..Len(queue) /\ Len(queue) \in Nat
    BY ListDomain
  <2>2. 1 \in DOMAIN queue
    BY <2>1
  <2> HIDE DEF waiting
  <2>3. waiting # <<>>
    BY <1>1, <2>2
  <2>4. QED
    BY <2>1, <2>2, <2>3
<1>3. end \in IF n = 0 THEN {[mtp |-> m, queue |-> waiting]}
              ELSE IF ~sliced THEN MakeBatch(m, waiting, n)
              ELSE UNION {Advance(m, waiting, Advanced(n), chunk) : chunk \in policy.slices}
  BY DEF JoinLanes
<1>4. Advanced(n) = 1
  BY DEF Advanced
<1> HIDE DEF sliced
<1>5. CASE n = 0
  <2>1. end.queue = waiting
    BY <1>3, <1>5
  <2>2. QED
    BY <2>1, NoneServed
<1> HIDE DEF waiting
<1>6. CASE n # 0 /\ ~sliced
  <2>1. end \in MakeBatch(m, waiting, n)
    BY <1>3, <1>6
  <2>2. end.queue = SubSeq(waiting, n + 1, Len(waiting))
    BY <2>1, QueueLeft
  <2>3. n \in 1..Len(waiting) /\ queue[1].uid = waiting[1].uid
    BY <1>1, <1>2, <1>6
  <2>4. QED
    BY <1>1, <2>2, <2>3, HeadDropped
<1>7. CASE n # 0 /\ sliced
  <2>1. end \in UNION {Advance(m, waiting, 1, chunk) : chunk \in policy.slices}
    BY <1>3, <1>4, <1>7
  <2>2. PICK chunk \in policy.slices : end \in Advance(m, waiting, 1, chunk)
    BY <2>1
  <2>3. chunk \in Nat \ {0}
    BY PoliciesAssumption
  <2>4. queue[1].uid = waiting[1].uid /\ queue[1].segments = waiting[1].segments
    BY <1>1, <1>2
  <2>5. QED
    BY <1>1, <1>2, <2>2, <2>3, <2>4, FirstAdvanced
<1>8. QED
  BY <1>5, <1>6, <1>7

RowsAreFair == HeadGoesFirst /\ OverdueWhenFull
LanesAreFair ==
    policy.mtp /\ turn' # turn /\ OldestAge >= policy.maxDefer
    /\ (\E i \in DOMAIN queue : ServedNow(queue[i])) => ServedNow(queue[1])

(* No step passes the oldest request over.                                 *)
LEMMA WaitersStep == WholeInv /\ [GeneratorNext]_allVars => [RowsAreFair]_vars /\ [LanesAreFair]_allVars
<1> SUFFICES ASSUME WholeInv, [GeneratorNext]_allVars
             PROVE  [RowsAreFair]_vars /\ [LanesAreFair]_allVars
  OBVIOUS
<1>1. CASE UNCHANGED allVars
  BY <1>1 DEF allVars, vars
<1>2. CASE ~policy.mtp /\ GeneratorNext
  <2>1. RowsInv /\ BudgetInv /\ BatchNext
    BY <1>2 DEF WholeInv, GeneratorNext, InsertLane, RemoveLane, RoundOfLanes
  <2>2. RowsAreFair
    BY <2>1, FairStep DEF RowsAreFair
  <2>3. QED
    BY <1>2, <2>2 DEF LanesAreFair
<1>3. CASE policy.mtp /\ GeneratorNext
  <2>1. LanesInv /\ GeneratorInv /\ policy \in Policies
    BY <1>3 DEF WholeInv, GeneratorInv
  <2>2. processing' = <<>> /\ prompts' = <<>> /\ generation' = <<>>
    <3>1. processing' = processing /\ prompts' = prompts /\ generation' = generation
      BY <1>3 DEF GeneratorNext, InsertLane, Insert, RemoveLane, RoundOfLanes
    <3>2. QED
      BY <2>1, <3>1 DEF LanesInv
  <2>3. RowsAreFair
    <3>1. Uids(<<>>) = {} /\ DOMAIN <<>> = {}
      BY NoRows
    <3>2. \A job : ~GoesIn(job)
      BY <2>2, <3>1 DEF GoesIn
    <3>3. DOMAIN processing' = {}
      BY <2>2, <3>1
    <3>4. QED
      BY <3>2, <3>3 DEF RowsAreFair, HeadGoesFirst, OverdueWhenFull
  <2>4. LanesAreFair
    <3> SUFFICES ASSUME turn' # turn, OldestAge >= policy.maxDefer,
                        NEW j \in DOMAIN queue, ServedNow(queue[j])
                 PROVE  ServedNow(queue[1])
      BY DEF LanesAreFair
    <3>1. RoundOfLanes
      BY <1>3 DEF GeneratorNext, InsertLane, Insert, RemoveLane
    <3>2. PICK end \in RoundEnds : queue' = end.queue
      BY <3>1 DEF RoundOfLanes
    <3>3. PICK m, n : n \in 0..Len(queue) /\ end \in JoinLanes(m, n)
      BY <1>3, <2>1, RoundEndOf
    <3>4. queue \in Seq(Waiting) /\ Distinct(queue)
      BY <2>1 DEF LanesInv
    <3>5. ServedBy(end.queue, queue[j])
      BY <3>2 DEF ServedNow, ServedBy
    <3>6. ServedBy(end.queue, queue[1])
      BY <2>1, <3>3, <3>4, <3>5, HeadServed
    <3>7. QED
      BY <3>2, <3>6 DEF ServedNow, ServedBy
  <2>5. QED
    BY <2>3, <2>4
<1>4. QED
  BY <1>1, <1>2, <1>3

(* The oldest request is never passed over: without self-MTP it is in      *)
(* every admission, and a prompt at work waits beyond the deadline only    *)
(* while the decode batch is full; with it no waiting prompt is served     *)
(* past the deadline without the first of the queue.                       *)
THEOREM WaitersStayServed == GeneratorSpec => WaitersAreServed
<1> DEFINE Rounds ==
             /\ (\E i \in DOMAIN queue : queue[i].uid \in Uids(prompts') \cup Uids(generation'))
                  => queue[1].uid \in Uids(prompts') \cup Uids(generation')
             /\ (\E i \in DOMAIN processing' :
                    /\ ~Ready(processing'[i])
                    /\ processing'[i].age > policy.maxDefer
                    /\ \E j \in DOMAIN processing : /\ processing[j].uid = processing'[i].uid
                                                    /\ processing[j].age < processing'[i].age)
                  => Len(generation') >= policy.completion
           Lanes ==
             /\ policy.mtp /\ turn' # turn /\ OldestAge >= policy.maxDefer
             /\ \E i \in DOMAIN queue : ServedNow(queue[i])
             => ServedNow(queue[1])
<1>1. WholeInv /\ [GeneratorNext]_allVars => [Rounds]_vars
  BY WaitersStep DEF RowsAreFair, HeadGoesFirst, OverdueWhenFull, GoesIn, Overdue
<1>2. WholeInv /\ [GeneratorNext]_allVars => [Lanes]_allVars
  BY WaitersStep DEF LanesAreFair
<1> HIDE DEF Rounds, Lanes
<1>3. GeneratorSpec => [][Rounds]_vars /\ [][Lanes]_allVars
  BY <1>1, <1>2, WholeInvariant, PTL DEF GeneratorSpec
<1>4. QED
  BY <1>3 DEF WaitersAreServed, RoundsAreFair, Rounds, Lanes

================================================================================
