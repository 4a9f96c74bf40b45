--------------------------- MODULE SelfMTPAdmission ---------------------------
(* SelfMTPLaneAdmissionController of src/mlx_lm/server.py and the callback *)
(* around it, by which the batch generator asks at every boundary which    *)
(* lanes may speculate, and how deep.  A verdict on a lane is a draft      *)
(* depth, Plain for ordinary decoding or Queued.                           *)
(* A lane is a row [uid, context, cache, resident, pending]: its length,   *)
(* the measured bytes of its cache (0 when unmeasured), whether they are   *)
(* already missing from free memory, and what will be allocated for it.    *)
(* Bytes are counted in units of one token of cache.                       *)
EXTENDS Integers, SequencesExt, FiniteSetsExt, Functions

CONSTANTS MaxDepth,   \* the configured draft depth
          Transient,  \* memory of a verify step by depth, 0 for plain
          Growth,     \* RESIDENT_GROWTH_HORIZON_TOKENS
          LaneCap,    \* saturation_lane_cap
          RowCap,     \* verification_row_cap
          Margin,     \* READMIT_MARGIN_GIB
          MaxHolds    \* READMIT_MAX_HOLDS

ASSUME AdmissionAssumption ==
    /\ MaxDepth \in Nat \ {0} /\ Transient \in [0..MaxDepth -> Nat \ {0}]
    /\ Growth \in Nat \ {0} /\ LaneCap \in Nat \ {0} /\ RowCap \in Nat \ {0}
    /\ Margin \in Nat /\ MaxHolds \in Nat

Queued == -1
Plain == 0
Speculates(verdict) == verdict > 0

(* lane_gib *)
LaneCost(row, depth) ==
    (IF row.cache = 0 THEN row.context
     ELSE IF row.resident THEN Growth ELSE row.cache + Growth)
    + row.pending + Transient[depth]

Costs(rows, depth) == [i \in DOMAIN rows |-> LaneCost(rows[i], depth)]
CostOf(rows, depth, lanes) == SumFunctionOnSet(Costs(rows, depth), lanes)

(* Mutant: the order of the rows counts, not their cost. *)
FitInOrder(rows, depth, free, cap) ==
    {i \in DOMAIN rows : i <= cap /\ CostOf(rows, depth, 1..i) <= free}

(* _fit: the cheapest lanes, as many as fit.  A lane that does not leaves  *)
(* no room for a dearer one.                                               *)
Fit(rows, depth, free, cap) ==
    LET Gib(i) == LaneCost(rows[i], depth)
        UpTo(i) == {j \in DOMAIN rows : Gib(j) < Gib(i) \/ (Gib(j) = Gib(i) /\ j <= i)}
    IN  {i \in DOMAIN rows : /\ Cardinality(UpTo(i)) <= cap
                             /\ CostOf(rows, depth, UpTo(i)) <= free}

(* Every request takes a row of the verify forward, every draft one more. *)
Cap(rows, depth) == Min({LaneCap, Max({0, RowCap - Len(rows)}) \div depth})

(* decide: the largest set of lanes at the greatest depth at which any fits; *)
(* else one lane as plain, which is the first of those that fit; else none.  *)
(* An unreadable amount of free memory is 0.                                 *)
Plan(rows, free) ==
    LET Chosen(d) == Fit(rows, d, free, Cap(rows, d))
        depths == {d \in 1..MaxDepth : Chosen(d) # {}}
        alone == Fit(rows, 0, free, Len(rows))
    IN  [i \in DOMAIN rows |->
            IF depths # {} THEN IF i \in Chosen(Max(depths)) THEN Max(depths) ELSE Queued
            ELSE IF alone # {} /\ i = Min(alone) THEN Plain ELSE Queued]

(* Mutant: a lane is held back even when no other one decodes. *)
HeldAlways(rows, plan, free, demoted) ==
    LET strict == Plan(rows, Max({0, free - Margin}))
    IN  {i \in DOMAIN rows : /\ \A j \in DOMAIN rows : rows[j].resident
                             /\ rows[i].uid \in DOMAIN demoted
                             /\ demoted[rows[i].uid] < MaxHolds
                             /\ Speculates(plan[i]) /\ ~Speculates(strict[i])}

(* A lane queued at the last boundary is held back a few times more, unless *)
(* it also fits with a margin, or no other one would speculate.  demoted    *)
(* counts the holds of the lanes queued at the last boundary.  A question   *)
(* that includes lanes which may join is no boundary.                       *)
Held(rows, plan, free, demoted) ==
    LET rejoining == {i \in DOMAIN rows :
                        /\ \A j \in DOMAIN rows : rows[j].resident
                        /\ rows[i].uid \in DOMAIN demoted
                        /\ demoted[rows[i].uid] < MaxHolds /\ Speculates(plan[i])}
        strict == Plan(rows, Max({0, free - Margin}))
    IN  IF \E i \in DOMAIN rows \ rejoining : Speculates(plan[i])
        THEN {i \in rejoining : ~Speculates(strict[i])} ELSE {}

Answer(rows, plan, held, demoted) ==
    LET queued == {rows[i].uid : i \in held \cup {j \in DOMAIN rows : plan[j] = Queued}}
        holds == {rows[i].uid : i \in held}
    IN  [of |-> [u \in {rows[i].uid : i \in DOMAIN rows} |->
                    IF u \in queued THEN Queued
                    ELSE plan[CHOOSE i \in DOMAIN rows : rows[i].uid = u]],
         demoted |-> IF \E i \in DOMAIN rows : ~rows[i].resident THEN demoted
                     ELSE [u \in queued |-> IF u \in holds THEN demoted[u] + 1 ELSE 0]]

(* admit: the answer for a reading of free memory, as a set of one. *)
Answers(rows, free, demoted) ==
    UNION {{Answer(rows, plan, held, demoted) : held \in {Held(rows, plan, free, demoted)}}
              : plan \in {Plan(rows, free)}}

(* "the largest safe k=2 subset; if no k=2 lane fits, the largest safe k=1 *)
(* subset; if none fits, one safe plain lane; otherwise queue" (server.py: *)
(* 1697-1699), for any depth, stated over all the subsets there are.       *)
LargestSafe(rows, free) ==
    LET plan == Plan(rows, free)
        chosen == {i \in DOMAIN rows : Speculates(plan[i])}
        plain == {i \in DOMAIN rows : plan[i] = Plain}
        Safe(d, set) == CostOf(rows, d, set) <= free /\ Cardinality(set) <= Cap(rows, d)
    IN  IF chosen # {}
        THEN \E d \in 1..MaxDepth :
               /\ \A i \in chosen : plan[i] = d
               /\ Safe(d, chosen) /\ plain = {}
               /\ \A set \in SUBSET DOMAIN rows : Safe(d, set) => Cardinality(set) <= Cardinality(chosen)
               /\ \A k \in (d + 1)..MaxDepth, i \in DOMAIN rows : ~Safe(k, {i})
        ELSE /\ \A k \in 1..MaxDepth, i \in DOMAIN rows : ~Safe(k, {i})
             /\ \A i \in plain : CostOf(rows, 0, {i}) <= free
             /\ Cardinality(plain) = IF \E i \in DOMAIN rows : CostOf(rows, 0, {i}) <= free
                                     THEN 1 ELSE 0
================================================================================
