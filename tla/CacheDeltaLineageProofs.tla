------------------------ MODULE CacheDeltaLineageProofs ------------------------
(***************************************************************************)
(* Proofs about CacheDeltaLineage, for any tokens, segments, branches,     *)
(* compactors and bounds.                                                  *)
(***************************************************************************)
EXTENDS CacheDeltaLineage, SequenceTheorems, TLAPS

--------------------------------------------------------------------------------
(* The order on chains. *)

(* A prefix agrees with the sequence it starts, position by position. *)
LEMMA PrefixPointwise ==
    ASSUME NEW S, NEW s \in Seq(S), NEW t \in Seq(S)
    PROVE  IsPrefix(s, t) <=> Len(s) <= Len(t) /\ \A i \in 1..Len(s) : s[i] = t[i]
<1> USE LenProperties
<1>1. ASSUME Len(s) <= Len(t)
      PROVE  SubSeq(s, 1, Len(s)) = SubSeq(t, 1, Len(s)) <=> \A i \in 1..Len(s) : s[i] = t[i]
  <2>1. /\ SubSeq(s, 1, Len(s)) = [i \in 1..Len(s) |-> s[i]]
        /\ SubSeq(t, 1, Len(s)) = [i \in 1..Len(s) |-> t[i]]
    BY <1>1
  <2> QED BY <2>1
<1> QED BY <1>1 DEF IsPrefix

(* A chain starts itself and is no strict prefix of itself. *)
LEMMA PrefixReflexive ==
    ASSUME NEW S, NEW s \in Seq(S)
    PROVE  IsPrefix(s, s) /\ ~IsStrictPrefix(s, s)
BY PrefixPointwise, LenProperties DEF IsStrictPrefix

(* A strict prefix is shorter. *)
LEMMA StrictPrefixShorter ==
    ASSUME NEW S, NEW s \in Seq(S), NEW t \in Seq(S), IsPrefix(s, t)
    PROVE  Len(s) <= Len(t) /\ (IsStrictPrefix(s, t) <=> Len(s) < Len(t))
BY PrefixPointwise, SeqEqual, LenProperties DEF IsStrictPrefix

(* A checkpoint appended to a chain strictly extends whatever the chain    *)
(* extends.                                                                *)
LEMMA PrefixAppended ==
    ASSUME NEW S, NEW s \in Seq(S), NEW t \in Seq(S), NEW u \in Seq(S) \ {<<>>},
           IsPrefix(s, t)
    PROVE  /\ t \o u \in Seq(S)
           /\ Len(t) < Len(t \o u)
           /\ IsPrefix(s, t \o u)
           /\ IsStrictPrefix(s, t \o u)
<1> DEFINE v == t \o u
<1>1. v \in Seq(S) /\ Len(v) = Len(t) + Len(u) /\ \A i \in 1..Len(t) : v[i] = t[i]
  BY ConcatProperties, LenProperties
<1>2. Len(u) \in Nat \ {0} /\ Len(s) \in Nat /\ Len(t) \in Nat
  BY EmptySeq, LenProperties
<1>3. Len(s) <= Len(t) /\ \A i \in 1..Len(s) : s[i] = t[i]
  BY PrefixPointwise
<1> HIDE DEF v
<1>4. Len(s) <= Len(v) /\ Len(s) < Len(v) /\ \A i \in 1..Len(s) : s[i] = v[i]
  BY <1>1, <1>2, <1>3
<1>5. IsPrefix(s, v)
  BY <1>1, <1>4, PrefixPointwise
<1>6. IsStrictPrefix(s, v)
  BY <1>1, <1>4, <1>5, StrictPrefixShorter
<1>7. v \in Seq(S) /\ Len(t) < Len(v) /\ IsPrefix(s, v) /\ IsStrictPrefix(s, v)
  BY <1>1, <1>2, <1>5, <1>6
<1> QED BY <1>7 DEF v

--------------------------------------------------------------------------------
(* The inductive invariant. *)

(* What the operations keep about the handles they do not name: an active  *)
(* branch holds two checkpoints, its chain starts with its origin, an      *)
(* unforked branch has no checkpoint, and the index points into the arena. *)
Handles ==
    /\ \A b \in Active : /\ origin[b] \in Checkpoints
                         /\ branchTip[b] \in Checkpoints
                         /\ IsPrefix(origin[b].content, branchTip[b].content)
    /\ \A b \in Branches : /\ forkedAt[b] <= generation
                           /\ status[b] = "none" => index[b] = {}
                           /\ \A checkpoint \in index[b] : checkpoint.id \in arena

(* An issued plan is in its owner's hands.  As long as its generation is   *)
(* the current one it is a plan for the committed tip, and if no checkpoint *)
(* was appended since, no active branch holds a delta.                     *)
PlansAreHeld ==
    \A plan \in issued :
        /\ job[plan.owner] = plan
        /\ plan.generation <= generation
        /\ plan.generation = generation => plan.tip = tip /\ plan.version <= arenaVersion
        /\ Valid(plan) => Active \subseteq Empty

LineageInv ==
    /\ LineageTypeOK
    /\ Handles
    /\ PlansAreHeld
    /\ OnePromotionPerGeneration
    /\ IndexFollowsTheChain
    /\ LiveBranchesAreBacked
    /\ DisposedKeepsNothing

(* A checkpoint appended to a current branch is a checkpoint, and strictly *)
(* extends the branch and its origin.                                      *)
LEMMA NewCheckpoint ==
    ASSUME LineageInv, NEW b \in Branches, Current(b), NEW segment \in Segments
    PROVE  LET new == [id |-> fresh, content |-> branchTip[b].content \o segment,
                       depth |-> branchTip[b].depth + 1]
           IN  /\ new \in Checkpoints
               /\ Position(branchTip[b]) < Position(new)
               /\ IsPrefix(branchTip[b].content, new.content)
               /\ \A s \in Seq(Tokens) : IsPrefix(s, branchTip[b].content) =>
                      IsPrefix(s, new.content) /\ IsStrictPrefix(s, new.content)
<1>1. /\ branchTip[b] \in Checkpoints /\ fresh \in Nat
      /\ branchTip[b].content \in Seq(Tokens) /\ branchTip[b].depth + 1 \in Nat
  BY DEF LineageInv, LineageTypeOK, Handles, Active, Current, Checkpoints
<1>2. segment \in Seq(Tokens) \ {<<>>}
  BY SegmentsAssumption
<1>3. branchTip[b].content \o segment \in Seq(Tokens)
  BY <1>1, <1>2, ConcatProperties
<1>4. IsPrefix(branchTip[b].content, branchTip[b].content)
  BY <1>1, PrefixReflexive
<1>5. /\ Len(branchTip[b].content) < Len(branchTip[b].content \o segment)
      /\ \A s \in Seq(Tokens) : IsPrefix(s, branchTip[b].content) =>
            /\ IsPrefix(s, branchTip[b].content \o segment)
            /\ IsStrictPrefix(s, branchTip[b].content \o segment)
  BY <1>1, <1>2, <1>4, PrefixAppended
<1> QED BY <1>1, <1>3, <1>4, <1>5 DEF Checkpoints, Position

(* What an append does to the state, with the new checkpoint named. *)
LEMMA AppendEffect ==
    ASSUME LineageInv, NEW b \in Branches, AppendCheckpoint(b)
    PROVE  \E new \in Checkpoints :
             /\ new.id = fresh
             /\ branchTip' = [branchTip EXCEPT ![b] = new]
             /\ index' = [index EXCEPT ![b] = index[b] \cup {new}]
             /\ Position(branchTip[b]) < Position(new)
             /\ IsPrefix(branchTip[b].content, new.content)
             /\ \A s \in Seq(Tokens) : IsPrefix(s, branchTip[b].content) =>
                    IsPrefix(s, new.content) /\ IsStrictPrefix(s, new.content)
<1> DEFINE Grown(segment) == [id |-> fresh, content |-> branchTip[b].content \o segment,
                             depth |-> branchTip[b].depth + 1]
<1>1. PICK segment \in Segments :
        /\ branchTip' = [branchTip EXCEPT ![b] = Grown(segment)]
        /\ index' = [index EXCEPT ![b] = index[b] \cup {Grown(segment)}]
  BY DEF AppendCheckpoint, Extend
<1>2. Grown(segment).id = fresh
  OBVIOUS
<1>3. /\ Grown(segment) \in Checkpoints
      /\ Position(branchTip[b]) < Position(Grown(segment))
      /\ IsPrefix(branchTip[b].content, Grown(segment).content)
      /\ \A s \in Seq(Tokens) : IsPrefix(s, branchTip[b].content) =>
            IsPrefix(s, Grown(segment).content) /\ IsStrictPrefix(s, Grown(segment).content)
  BY NewCheckpoint DEF AppendCheckpoint
<1> QED BY <1>1, <1>2, <1>3

(* Every step keeps the state well formed. *)
LEMMA TypeStep ==
    ASSUME LineageInv, [Next]_vars
    PROVE  LineageTypeOK'
<1> USE DEF LineageInv, LineageTypeOK
<1>1. ASSUME NEW b \in Branches, Fork(b) PROVE LineageTypeOK'
  BY <1>1 DEF Fork, treeVars, branchVars, Statuses, Active
<1>2. ASSUME NEW b \in Branches, AppendCheckpoint(b) PROVE LineageTypeOK'
  <2>1. PICK new \in Checkpoints :
          /\ branchTip' = [branchTip EXCEPT ![b] = new]
          /\ index' = [index EXCEPT ![b] = index[b] \cup {new}]
    BY <1>2, AppendEffect
  <2>2. /\ fresh' = fresh + 1 /\ arena' = arena \cup {fresh}
        /\ arenaVersion' = arenaVersion + 1
        /\ UNCHANGED <<generation, tip, issued, closed, status, forkedAt, origin, job>>
    BY <1>2 DEF AppendCheckpoint, Extend
  <2>3. arena' \subseteq 0..(fresh' - 1) /\ fresh' \in Nat \ {0} /\ arenaVersion' \in Nat
    BY <2>2
  <2>4. /\ index' \in [Branches -> SUBSET Checkpoints]
        /\ branchTip' \in [Branches -> Checkpoints \cup {NoCheckpoint}]
    BY <2>1
  <2> QED BY <2>2, <2>3, <2>4
<1>3. ASSUME NEW b \in Branches, Promote(b) PROVE LineageTypeOK'
  <2>1. tip' \in Checkpoints
    BY <1>3 DEF Promote
  <2> QED BY <1>3, <2>1, NoCheckpointAssumption DEF Promote, Current, Retire, Statuses
<1>4. ASSUME NEW b \in Branches, Reject(b) PROVE LineageTypeOK'
  BY <1>4 DEF Reject, Retire, treeVars, branchVars, Statuses, Active
<1>5. ASSUME NEW b \in Branches, Drop(b) PROVE LineageTypeOK'
  BY <1>5 DEF Drop, Retire, treeVars, branchVars, Statuses, Active
<1>6. ASSUME NEW k \in Compactors, PrepareCompaction(k) PROVE LineageTypeOK'
  <2>1. tip \in Checkpoints
    BY <1>6 DEF PrepareCompaction, Issue
  <2>2. [owner |-> k, tip |-> tip, version |-> arenaVersion, generation |-> generation] \in Plans
    BY <2>1 DEF Plans
  <2> QED BY <1>6, <2>2 DEF PrepareCompaction, Issue, treeVars, branchVars
<1>7. ASSUME NEW k \in Compactors, GiveUpCompaction(k) PROVE LineageTypeOK'
  BY <1>7 DEF GiveUpCompaction, treeVars, branchVars, Statuses, Active
<1>8. ASSUME NEW k \in Compactors, CommitCompaction(k) PROVE LineageTypeOK'
  <2>1. job[k] \in Plans
    BY <1>8 DEF CommitCompaction
  <2>2. [id |-> fresh, content |-> job[k].tip.content, depth |-> 0] \in Checkpoints
    BY <2>1 DEF Plans, Checkpoints
  <2>3. /\ tip' \in Checkpoints /\ tip' # NoCheckpoint /\ ~closed'
        /\ arena' \subseteq 0..(fresh' - 1)
        /\ fresh' \in Nat \ {0}
    BY <1>8, <2>2, NoCheckpointAssumption DEF CommitCompaction, Publish
  <2>4. /\ status' \in [Branches -> Statuses]
        /\ origin' \in [Branches -> Checkpoints \cup {NoCheckpoint}]
        /\ branchTip' \in [Branches -> Checkpoints \cup {NoCheckpoint}]
    BY <1>8 DEF CommitCompaction, Publish, Statuses
  <2> QED BY <1>8, <2>3, <2>4 DEF CommitCompaction, Publish
<1>9. ASSUME Dispose PROVE LineageTypeOK'
  BY <1>9 DEF Dispose, treeVars, branchVars, Statuses, Active
<1>10. CASE UNCHANGED vars
  BY <1>10 DEF vars, treeVars, branchVars, Statuses, Active
<1> QED BY <1>1, <1>2, <1>3, <1>4, <1>5, <1>6, <1>7, <1>8, <1>9, <1>10 DEF Next

(* A commit finds no branch to harm: its plan is valid, so every active    *)
(* branch is empty, and it retires them all.                               *)
LEMMA CommitRetiresAll ==
    ASSUME LineageInv, NEW k \in Compactors, CommitCompaction(k)
    PROVE  Active' = {}
<1>1. Active \subseteq Empty
  BY DEF LineageInv, PlansAreHeld, CommitCompaction
<1> QED BY <1>1 DEF LineageInv, LineageTypeOK, CommitCompaction, Publish, Active, Empty

(* Every step keeps the handles in order. *)
LEMMA HandlesStep ==
    ASSUME LineageInv, [Next]_vars
    PROVE  Handles'
<1> USE DEF LineageInv, LineageTypeOK, Handles
<1>1. ASSUME NEW b \in Branches, Fork(b) PROVE Handles'
  <2>1. tip \in Checkpoints /\ tip.content \in Seq(Tokens)
    BY <1>1 DEF Fork, Checkpoints
  <2>2. IsPrefix(tip.content, tip.content)
    BY <2>1, PrefixReflexive
  <2> QED BY <1>1, <2>1, <2>2 DEF Fork, treeVars, Active
<1>2. ASSUME NEW b \in Branches, AppendCheckpoint(b) PROVE Handles'
  <2>1. PICK new \in Checkpoints :
          /\ new.id = fresh
          /\ branchTip' = [branchTip EXCEPT ![b] = new]
          /\ index' = [index EXCEPT ![b] = index[b] \cup {new}]
          /\ Position(branchTip[b]) < Position(new)
          /\ IsPrefix(branchTip[b].content, new.content)
          /\ \A s \in Seq(Tokens) : IsPrefix(s, branchTip[b].content) =>
                 IsPrefix(s, new.content) /\ IsStrictPrefix(s, new.content)
    BY <1>2, AppendEffect
  <2>2. origin[b].content \in Seq(Tokens)
    BY <1>2 DEF AppendCheckpoint, Current, Checkpoints, Active
  <2>3. \A c \in Active' : /\ origin'[c] \in Checkpoints
                           /\ branchTip'[c] \in Checkpoints
                           /\ IsPrefix(origin'[c].content, branchTip'[c].content)
    BY <1>2, <2>1, <2>2 DEF AppendCheckpoint, Extend, Current, Active
  <2>4. \A c \in Branches : /\ forkedAt'[c] <= generation'
                            /\ status'[c] = "none" => index'[c] = {}
                            /\ \A checkpoint \in index'[c] : checkpoint.id \in arena'
    BY <1>2, <2>1 DEF AppendCheckpoint, Extend, Current
  <2> QED BY <2>3, <2>4
<1>3. ASSUME NEW b \in Branches, Promote(b) PROVE Handles'
  BY <1>3 DEF Promote, Current, Retire, Active
<1>4. ASSUME NEW b \in Branches, Reject(b) PROVE Handles'
  BY <1>4 DEF Reject, Retire, treeVars, branchVars, Active
<1>5. ASSUME NEW b \in Branches, Drop(b) PROVE Handles'
  BY <1>5 DEF Drop, Retire, treeVars, branchVars, Active
<1>6. ASSUME NEW k \in Compactors, PrepareCompaction(k) PROVE Handles'
  BY <1>6 DEF PrepareCompaction, Issue, Outstanding, treeVars, branchVars, Active
<1>7. ASSUME NEW k \in Compactors, GiveUpCompaction(k) PROVE Handles'
  BY <1>7 DEF GiveUpCompaction, treeVars, branchVars, Active
<1>8. ASSUME NEW k \in Compactors, CommitCompaction(k) PROVE Handles'
  <2>1. Active' = {}
    BY <1>8, CommitRetiresAll
  <2> QED BY <1>8, <2>1 DEF CommitCompaction, Publish
<1>9. ASSUME Dispose PROVE Handles'
  BY <1>9 DEF Dispose, treeVars, branchVars, Active
<1>10. CASE UNCHANGED vars
  BY <1>10 DEF vars, treeVars, branchVars, Active
<1> QED BY <1>1, <1>2, <1>3, <1>4, <1>5, <1>6, <1>7, <1>8, <1>9, <1>10 DEF Next

(* Every step keeps the issued plan in its owner's hands and honest about *)
(* the branches.                                                          *)
LEMMA PlansStep ==
    ASSUME LineageInv, [Next]_vars
    PROVE  PlansAreHeld'
<1> USE DEF LineageInv, LineageTypeOK, PlansAreHeld
<1>1. ASSUME NEW b \in Branches, Fork(b) PROVE PlansAreHeld'
  BY <1>1 DEF Fork, treeVars, Active, Empty, Valid
<1>2. ASSUME NEW b \in Branches, AppendCheckpoint(b) PROVE PlansAreHeld'
  <2>1. arenaVersion' = arenaVersion + 1
    BY <1>2 DEF AppendCheckpoint
  <2>2. UNCHANGED <<issued, job, tip, generation>>
    BY <1>2 DEF AppendCheckpoint, Extend
  <2>3. \A plan \in issued : plan \in Plans /\ ~Valid(plan)'
    BY <2>1, <2>2 DEF Valid, Plans
  <2> QED BY <2>1, <2>2, <2>3 DEF Plans
<1>3. ASSUME NEW b \in Branches, Promote(b) PROVE PlansAreHeld'
  <2>1. \A plan \in issued : plan.generation \in Nat /\ plan.generation < generation'
    BY <1>3 DEF Promote, Plans
  <2>2. UNCHANGED <<issued, job>> /\ generation' \in Nat
    BY <1>3 DEF Promote
  <2>3. \A plan \in issued : ~Valid(plan)'
    BY <2>1, <2>2 DEF Valid
  <2> QED BY <2>1, <2>2, <2>3
<1>4. ASSUME NEW b \in Branches, Reject(b) PROVE PlansAreHeld'
  BY <1>4 DEF Reject, Retire, treeVars, branchVars, Active, Empty, Valid
<1>5. ASSUME NEW b \in Branches, Drop(b) PROVE PlansAreHeld'
  BY <1>5 DEF Drop, Retire, treeVars, branchVars, Active, Empty, Valid
<1>6. ASSUME NEW k \in Compactors, PrepareCompaction(k) PROVE PlansAreHeld'
  <2>1. \A plan \in issued' :
          plan = [owner |-> k, tip |-> tip, version |-> arenaVersion, generation |-> generation]
    BY <1>6 DEF PrepareCompaction, Issue
  <2>2. \A plan \in issued' : job'[plan.owner] = plan
    BY <1>6, <2>1 DEF PrepareCompaction, Issue
  <2>3. UNCHANGED <<generation, tip, arenaVersion, status, origin, branchTip>>
    BY <1>6 DEF PrepareCompaction, Issue, treeVars, branchVars
  <2>4. Active' \subseteq Empty'
    BY <1>6, <2>3 DEF PrepareCompaction, Active, Empty
  <2> QED BY <2>1, <2>2, <2>3, <2>4
<1>7. ASSUME NEW k \in Compactors, GiveUpCompaction(k) PROVE PlansAreHeld'
  <2>1. \A plan \in issued' : plan \in issued /\ plan \in Plans /\ plan # job[k]
    BY <1>7 DEF GiveUpCompaction
  <2>2. \A plan \in issued' : job'[plan.owner] = plan
    BY <1>7, <2>1 DEF GiveUpCompaction, Plans
  <2>3. UNCHANGED <<generation, tip, arenaVersion, status, origin, branchTip>>
    BY <1>7 DEF GiveUpCompaction, treeVars, branchVars
  <2>4. Active' = Active /\ Empty' = Empty /\ \A plan \in issued' : Valid(plan)' = Valid(plan)
    BY <2>3 DEF Active, Empty, Valid
  <2> QED BY <2>1, <2>2, <2>3, <2>4
<1>8. ASSUME NEW k \in Compactors, CommitCompaction(k) PROVE PlansAreHeld'
  <2>1. \A plan \in issued' : plan \in issued /\ plan \in Plans /\ plan # job[k]
    BY <1>8 DEF CommitCompaction, Publish
  <2>2. \A plan \in issued' : job'[plan.owner] = plan
    BY <1>8, <2>1 DEF CommitCompaction, Publish, Plans
  <2>3. \A plan \in issued' : plan.generation < generation'
    BY <1>8, <2>1 DEF CommitCompaction, Publish, Plans
  <2>4. \A plan \in issued' : ~Valid(plan)' /\ plan.generation \in Nat
    BY <2>1, <2>3, <1>8 DEF Valid, Plans, CommitCompaction, Publish
  <2> QED BY <1>8, <2>1, <2>2, <2>3, <2>4 DEF CommitCompaction, Publish
<1>9. ASSUME Dispose PROVE PlansAreHeld'
  BY <1>9 DEF Dispose, treeVars, branchVars, Active, Empty, Valid
<1>10. CASE UNCHANGED vars
  BY <1>10 DEF vars, treeVars, branchVars, Active, Empty, Valid
<1> QED BY <1>1, <1>2, <1>3, <1>4, <1>5, <1>6, <1>7, <1>8, <1>9, <1>10 DEF Next

(* A branch promotes at most once per generation. *)
LEMMA PromotionStep ==
    ASSUME LineageInv, [Next]_vars
    PROVE  OnePromotionPerGeneration'
<1> USE DEF LineageInv, LineageTypeOK, OnePromotionPerGeneration, Handles
<1>1. ASSUME NEW b \in Branches, Fork(b) PROVE OnePromotionPerGeneration'
  BY <1>1 DEF Fork, treeVars, branchVars, Active, Empty
<1>2. ASSUME NEW b \in Branches, AppendCheckpoint(b) PROVE OnePromotionPerGeneration'
  BY <1>2 DEF AppendCheckpoint, Extend
<1>3. ASSUME NEW b \in Branches, Promote(b) PROVE OnePromotionPerGeneration'
  BY <1>3 DEF Promote, Current, Retire, Active
<1>4. ASSUME NEW b \in Branches, Reject(b) PROVE OnePromotionPerGeneration'
  BY <1>4 DEF Reject, Retire, treeVars, branchVars, Active, Empty
<1>5. ASSUME NEW b \in Branches, Drop(b) PROVE OnePromotionPerGeneration'
  BY <1>5 DEF Drop, Retire, treeVars, branchVars, Active, Empty
<1>6. ASSUME NEW k \in Compactors, PrepareCompaction(k) PROVE OnePromotionPerGeneration'
  BY <1>6 DEF PrepareCompaction, Issue, Outstanding, treeVars, branchVars, Active, Empty
<1>7. ASSUME NEW k \in Compactors, GiveUpCompaction(k) PROVE OnePromotionPerGeneration'
  BY <1>7 DEF GiveUpCompaction, treeVars, branchVars, Active, Empty
<1>8. ASSUME NEW k \in Compactors, CommitCompaction(k) PROVE OnePromotionPerGeneration'
  BY <1>8 DEF CommitCompaction, Publish, Valid, treeVars, branchVars, Active, Empty
<1>9. ASSUME Dispose PROVE OnePromotionPerGeneration'
  BY <1>9 DEF Dispose, treeVars, branchVars, Active, Empty
<1>10. CASE UNCHANGED vars
  BY <1>10 DEF vars, treeVars, branchVars, Active, Empty
<1> QED BY <1>1, <1>2, <1>3, <1>4, <1>5, <1>6, <1>7, <1>8, <1>9, <1>10 DEF Next

(* Every step keeps the index on the chains. *)
LEMMA IndexStep ==
    ASSUME LineageInv, [Next]_vars
    PROVE  IndexFollowsTheChain'
<1> USE DEF LineageInv, LineageTypeOK, IndexFollowsTheChain, Handles
<1>1. ASSUME NEW b \in Branches, Fork(b) PROVE IndexFollowsTheChain'
  BY <1>1 DEF Fork, treeVars, branchVars, Active
<1>2. ASSUME NEW b \in Branches, AppendCheckpoint(b) PROVE IndexFollowsTheChain'
  <2>1. PICK new \in Checkpoints :
          /\ new.id = fresh
          /\ branchTip' = [branchTip EXCEPT ![b] = new]
          /\ index' = [index EXCEPT ![b] = index[b] \cup {new}]
          /\ Position(branchTip[b]) < Position(new)
          /\ IsPrefix(branchTip[b].content, new.content)
          /\ \A s \in Seq(Tokens) : IsPrefix(s, branchTip[b].content) =>
                 IsPrefix(s, new.content) /\ IsStrictPrefix(s, new.content)
    BY <1>2, AppendEffect
  <2>2. /\ origin[b].content \in Seq(Tokens) /\ branchTip[b].content \in Seq(Tokens)
        /\ \A x \in index[b] : x \in Checkpoints /\ x.content \in Seq(Tokens)
        /\ b \in Active
        /\ new.content \in Seq(Tokens)
    BY <1>2 DEF AppendCheckpoint, Current, Checkpoints, Active
  <2>3. \A x \in index'[b] : /\ IsStrictPrefix(origin[b].content, x.content)
                             /\ IsPrefix(x.content, new.content)
    BY <2>1, <2>2, PrefixReflexive
  <2>4. \A x \in index[b] : Position(x) <= Position(branchTip[b])
    BY <2>2, StrictPrefixShorter DEF Position
  <2>5. \A x, y \in index'[b] : Position(x) = Position(y) => x = y
    BY <2>1, <2>2, <2>4, LenProperties DEF Position
  <2>6. /\ status' = status /\ origin' = origin /\ forkedAt' = forkedAt
        /\ generation' = generation /\ tip' = tip
        /\ \A c \in Branches \ {b} : index'[c] = index[c] /\ branchTip'[c] = branchTip[c]
    BY <1>2, <2>1 DEF AppendCheckpoint, Extend
  <2>7. branchTip'[b] = new /\ Active' = Active
    BY <2>1, <2>6 DEF Active
  <2> QED BY <2>3, <2>5, <2>6, <2>7 DEF Active
<1>3. ASSUME NEW b \in Branches, Promote(b) PROVE IndexFollowsTheChain'
  BY <1>3 DEF Promote, Current, Retire, Active
<1>4. ASSUME NEW b \in Branches, Reject(b) PROVE IndexFollowsTheChain'
  BY <1>4 DEF Reject, Retire, treeVars, branchVars, Active
<1>5. ASSUME NEW b \in Branches, Drop(b) PROVE IndexFollowsTheChain'
  BY <1>5 DEF Drop, Retire, treeVars, branchVars, Active
<1>6. ASSUME NEW k \in Compactors, PrepareCompaction(k) PROVE IndexFollowsTheChain'
  BY <1>6 DEF PrepareCompaction, Issue, Outstanding, treeVars, branchVars, Active
<1>7. ASSUME NEW k \in Compactors, GiveUpCompaction(k) PROVE IndexFollowsTheChain'
  BY <1>7 DEF GiveUpCompaction, treeVars, branchVars, Active
<1>8. ASSUME NEW k \in Compactors, CommitCompaction(k) PROVE IndexFollowsTheChain'
  BY <1>8, CommitRetiresAll DEF IndexFollowsTheChain
<1>9. ASSUME Dispose PROVE IndexFollowsTheChain'
  BY <1>9 DEF Dispose, treeVars, branchVars, Active
<1>10. CASE UNCHANGED vars
  BY <1>10 DEF vars, treeVars, branchVars, Active
<1> QED BY <1>1, <1>2, <1>3, <1>4, <1>5, <1>6, <1>7, <1>8, <1>9, <1>10 DEF Next

(* Every step keeps the live checkpoints in the arena. *)
LEMMA BackedStep ==
    ASSUME LineageInv, [Next]_vars
    PROVE  LiveBranchesAreBacked'
<1> USE DEF LineageInv, LineageTypeOK, LiveBranchesAreBacked, Handles
<1>1. ASSUME NEW b \in Branches, Fork(b) PROVE LiveBranchesAreBacked'
  BY <1>1 DEF Fork, treeVars, branchVars, Active
<1>2. ASSUME NEW b \in Branches, AppendCheckpoint(b) PROVE LiveBranchesAreBacked'
  <2>1. PICK new \in Checkpoints :
          /\ new.id = fresh
          /\ branchTip' = [branchTip EXCEPT ![b] = new]
          /\ index' = [index EXCEPT ![b] = index[b] \cup {new}]
          /\ Position(branchTip[b]) < Position(new)
          /\ IsPrefix(branchTip[b].content, new.content)
          /\ \A s \in Seq(Tokens) : IsPrefix(s, branchTip[b].content) =>
                 IsPrefix(s, new.content) /\ IsStrictPrefix(s, new.content)
    BY <1>2, AppendEffect
  <2> QED BY <1>2, <2>1 DEF AppendCheckpoint, Extend, Active
<1>3. ASSUME NEW b \in Branches, Promote(b) PROVE LiveBranchesAreBacked'
  BY <1>3 DEF Promote, Current, Retire, Active
<1>4. ASSUME NEW b \in Branches, Reject(b) PROVE LiveBranchesAreBacked'
  BY <1>4 DEF Reject, Retire, treeVars, branchVars, Active
<1>5. ASSUME NEW b \in Branches, Drop(b) PROVE LiveBranchesAreBacked'
  BY <1>5 DEF Drop, Retire, treeVars, branchVars, Active
<1>6. ASSUME NEW k \in Compactors, PrepareCompaction(k) PROVE LiveBranchesAreBacked'
  BY <1>6 DEF PrepareCompaction, Issue, Outstanding, treeVars, branchVars, Active
<1>7. ASSUME NEW k \in Compactors, GiveUpCompaction(k) PROVE LiveBranchesAreBacked'
  BY <1>7 DEF GiveUpCompaction, treeVars, branchVars, Active
<1>8. ASSUME NEW k \in Compactors, CommitCompaction(k) PROVE LiveBranchesAreBacked'
  <2>1. Active' = {}
    BY <1>8, CommitRetiresAll
  <2>2. tip'.id \in arena'
    BY <1>8 DEF CommitCompaction, Publish
  <2> QED BY <2>1, <2>2
<1>9. ASSUME Dispose PROVE LiveBranchesAreBacked'
  BY <1>9 DEF Dispose, treeVars, branchVars, Active
<1>10. CASE UNCHANGED vars
  BY <1>10 DEF vars, treeVars, branchVars, Active
<1> QED BY <1>1, <1>2, <1>3, <1>4, <1>5, <1>6, <1>7, <1>8, <1>9, <1>10 DEF Next

(* Nothing comes back after dispose. *)
LEMMA DisposedStep ==
    ASSUME LineageInv, [Next]_vars
    PROVE  DisposedKeepsNothing'
<1> USE DEF LineageInv, LineageTypeOK, DisposedKeepsNothing
<1>1. ASSUME NEW b \in Branches, Fork(b) PROVE DisposedKeepsNothing'
  BY <1>1 DEF Fork, treeVars, branchVars, Active
<1>2. ASSUME NEW b \in Branches, AppendCheckpoint(b) PROVE DisposedKeepsNothing'
  BY <1>2 DEF AppendCheckpoint, Extend, Current
<1>3. ASSUME NEW b \in Branches, Promote(b) PROVE DisposedKeepsNothing'
  BY <1>3 DEF Promote, Current
<1>4. ASSUME NEW b \in Branches, Reject(b) PROVE DisposedKeepsNothing'
  BY <1>4 DEF Reject, Retire, treeVars, branchVars, Active
<1>5. ASSUME NEW b \in Branches, Drop(b) PROVE DisposedKeepsNothing'
  BY <1>5 DEF Drop, Retire, treeVars, branchVars, Active
<1>6. ASSUME NEW k \in Compactors, PrepareCompaction(k) PROVE DisposedKeepsNothing'
  BY <1>6 DEF PrepareCompaction, Issue
<1>7. ASSUME NEW k \in Compactors, GiveUpCompaction(k) PROVE DisposedKeepsNothing'
  BY <1>7 DEF GiveUpCompaction, treeVars, branchVars, Active
<1>8. ASSUME NEW k \in Compactors, CommitCompaction(k) PROVE DisposedKeepsNothing'
  BY <1>8 DEF CommitCompaction, Publish
<1>9. ASSUME Dispose PROVE DisposedKeepsNothing'
  BY <1>9 DEF Dispose, treeVars, branchVars, Active
<1>10. CASE UNCHANGED vars
  BY <1>10 DEF vars, treeVars, branchVars, Active
<1> QED BY <1>1, <1>2, <1>3, <1>4, <1>5, <1>6, <1>7, <1>8, <1>9, <1>10 DEF Next

(* The initial states satisfy the invariant. *)
LEMMA LineageInitially ==
    ASSUME Init
    PROVE  LineageInv
<1>1. [id |-> 0, content |-> Base, depth |-> 0] \in Checkpoints
  BY BaseAssumption DEF Checkpoints
<1>2. tip \in Checkpoints /\ tip # NoCheckpoint /\ ~closed
  BY <1>1, NoCheckpointAssumption DEF Init
<1>3. /\ arena \subseteq 0..(fresh - 1) /\ fresh \in Nat \ {0}
      /\ status \in [Branches -> Statuses]
  BY DEF Init, Statuses
<1>4. LineageTypeOK
  BY <1>2, <1>3 DEF Init, LineageTypeOK
<1>5. Active = {}
  BY DEF Init, Active
<1> QED BY <1>2, <1>4, <1>5 DEF Init, LineageInv, Handles, PlansAreHeld, OnePromotionPerGeneration,
           IndexFollowsTheChain, LiveBranchesAreBacked, DisposedKeepsNothing

(* LineageInv is an invariant. *)
THEOREM LineageInvariant == Spec => []LineageInv
<1>1. Init => LineageInv
  BY LineageInitially
<1>2. LineageInv /\ [Next]_vars => LineageInv'
  BY TypeStep, HandlesStep, PlansStep, PromotionStep, IndexStep, BackedStep, DisposedStep
     DEF LineageInv
<1> QED BY <1>1, <1>2, PTL DEF Spec

(* The lineage is well formed in every reachable state. *)
THEOREM LineageTypeCorrect == Spec => []LineageTypeOK
<1>1. LineageInv => LineageTypeOK
  BY DEF LineageInv
<1> QED BY <1>1, LineageInvariant, PTL

(* At most one of the branches that race from one tip is ever promoted.   *)
THEOREM LineagePromotesOnce == Spec => []OnePromotionPerGeneration
<1>1. LineageInv => OnePromotionPerGeneration
  BY DEF LineageInv
<1> QED BY <1>1, LineageInvariant, PTL

(* What a branch may promote always extends the committed tip along the    *)
(* branch's own chain.                                                     *)
THEOREM LineageIndexIsSound == Spec => []IndexFollowsTheChain
<1>1. LineageInv => IndexFollowsTheChain
  BY DEF LineageInv
<1> QED BY <1>1, LineageInvariant, PTL

(* Compaction never frees a checkpoint that the lineage or an active branch *)
(* still stands on, and after dispose no late step brings anything back.    *)
THEOREM LineageArenaServesUsers == Spec => []ArenaServesItsUsers
<1>1. LineageInv => ArenaServesItsUsers
  BY DEF LineageInv, ArenaServesItsUsers
<1> QED BY <1>1, LineageInvariant, PTL

(* A plan that blocks the next compaction is always in somebody's hands.   *)
THEOREM LineagePlanIsHeld == Spec => []OutstandingPlanIsHeld
<1>1. LineageInv => OutstandingPlanIsHeld
  BY DEF LineageInv, LineageTypeOK, PlansAreHeld, OutstandingPlanIsHeld, Outstanding, Plans
<1> QED BY <1>1, LineageInvariant, PTL

--------------------------------------------------------------------------------
(* Refinement: the committed tip is a versioned prefix. *)

(* The committed tokens in the successor state, while the lineage is open. *)
LEMMA CommittedUnchanged ==
    ASSUME UNCHANGED <<tip, generation, closed>>
    PROVE  UNCHANGED Prefix!prefixVars
BY DEF Prefix!prefixVars

(* Promotion extends the committed tokens. *)
LEMMA PromoteExtends ==
    ASSUME LineageInv, NEW b \in Branches, Promote(b)
    PROVE  Prefix!Extend
<1>1. b \in Active /\ origin[b] = tip /\ ~closed /\ ~closed'
  BY DEF Promote, Current, Active
<1>2. /\ tip' \in index[b] /\ tip' \in Checkpoints
      /\ IsStrictPrefix(tip.content, tip'.content)
  BY <1>1 DEF Promote, LineageInv, LineageTypeOK, IndexFollowsTheChain
<1>3. tip'.content \in Seq(Tokens)
  BY <1>2 DEF Checkpoints
<1>4. generation' = generation + 1
  BY DEF Promote
<1> QED BY <1>1, <1>2, <1>3, <1>4
        DEF Prefix!Extend, Prefix!IsStrictPrefix, Prefix!IsPrefix, IsStrictPrefix, IsPrefix

(* Compaction replaces the representation and keeps the tokens. *)
LEMMA CommitRewrites ==
    ASSUME LineageInv, NEW k \in Compactors, CommitCompaction(k)
    PROVE  Prefix!Rewrite
<1>1. tip'.content = tip.content /\ ~closed /\ ~closed' /\ generation' = generation + 1
  BY DEF CommitCompaction, Publish, Valid
<1> QED BY <1>1 DEF Prefix!Rewrite

(* Every step publishes an extension, replaces the representation, gives   *)
(* the sequence up, or leaves it alone.                                    *)
LEMMA PrefixStep ==
    ASSUME LineageInv, [Next]_vars
    PROVE  [Prefix!PrefixNext]_(Prefix!prefixVars)
<1>1. ASSUME NEW b \in Branches, Fork(b) \/ AppendCheckpoint(b) \/ Reject(b) \/ Drop(b)
      PROVE  UNCHANGED Prefix!prefixVars
  BY <1>1, CommittedUnchanged
     DEF Fork, AppendCheckpoint, Extend, Reject, Drop, treeVars
<1>2. ASSUME NEW b \in Branches, Promote(b) PROVE Prefix!PrefixNext
  BY <1>2, PromoteExtends DEF Prefix!PrefixNext
<1>3. ASSUME NEW k \in Compactors, PrepareCompaction(k) \/ GiveUpCompaction(k)
      PROVE  UNCHANGED Prefix!prefixVars
  BY <1>3, CommittedUnchanged DEF PrepareCompaction, Issue, GiveUpCompaction, treeVars
<1>4. ASSUME NEW k \in Compactors, CommitCompaction(k) PROVE Prefix!PrefixNext
  BY <1>4, CommitRewrites DEF Prefix!PrefixNext
<1>5. ASSUME Dispose PROVE Prefix!PrefixNext
  BY <1>5 DEF Dispose, Prefix!PrefixNext, Prefix!GiveUp
<1>6. CASE UNCHANGED vars
  BY <1>6, CommittedUnchanged DEF vars, treeVars
<1> QED BY <1>1, <1>2, <1>3, <1>4, <1>5, <1>6 DEF Next

(* The lineage implements the sequence that only grows. *)
THEOREM LineageImplementsPrefix == Spec => ImplementsPrefix
<1>1. Init => Prefix!PrefixInit
  BY BaseAssumption DEF Init, Prefix!PrefixInit
<1>2. LineageInv /\ [Next]_vars => [Prefix!PrefixNext]_(Prefix!prefixVars)
  BY PrefixStep
<1> QED BY <1>1, <1>2, LineageInvariant, PTL DEF Spec, ImplementsPrefix, Prefix!PrefixSpec

================================================================================
