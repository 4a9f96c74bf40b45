--------------------------- MODULE CacheDeltaLineage ---------------------------
(***************************************************************************)
(* CacheDeltaLineage of src/mlx_lm/cache_branch_transaction.py: one        *)
(* committed tip, competing speculative branches that append checkpoints   *)
(* to private chains, promotion by one pointer swap, and compaction in two *)
(* phases with the materialization outside the lineage lock.               *)
(*                                                                         *)
(* Every operation runs under the lineage's lock and is one action; a      *)
(* refusal that raises and changes nothing is a disabled action.           *)
(*                                                                         *)
(* Simplifications.  All cache planes of a checkpoint share one boundary   *)
(* (_normalize_deltas and _append refuse anything else), so one sequence   *)
(* of tokens stands for the planes; layouts, ring coordinates, byte counts *)
(* and the telemetry counters are left out.  A checkpoint carries the      *)
(* tokens of the base and of its whole chain.  The adapter of compact() is *)
(* outside this code: it returns the exact content, something              *)
(* commit_compaction refuses, or raises.                                   *)
(***************************************************************************)
EXTENDS Naturals, SequencesExt

CONSTANTS
    Tokens,         \* what a cache position holds
    Base,           \* the tokens the lineage starts with
    Segments,       \* the tokens one checkpoint may append
    Branches,       \* branch handles, each forked once
    Compactors,     \* the threads that call compact()
    MaxLength,      \* bound: longest chain of tokens
    MaxGeneration,  \* bound: generations
    NoCheckpoint,   \* None in place of a checkpoint
    NoPlan          \* no plan in hand

ASSUME BaseAssumption == Base \in Seq(Tokens)
ASSUME SegmentsAssumption == Segments \subseteq Seq(Tokens) \ {<<>>}
ASSUME BoundsAssumption == MaxLength \in Nat /\ MaxGeneration \in Nat

Checkpoints == [id : Nat, content : Seq(Tokens), depth : Nat]
Plans == [owner : Compactors, tip : Checkpoints, version : Nat, generation : Nat]

ASSUME NoCheckpointAssumption == NoCheckpoint \notin Checkpoints
ASSUME NoPlanAssumption == NoPlan \notin Plans

VARIABLES
    generation,    \* _generation
    tip,           \* _tip
    arena,         \* the keys of _arena
    index,         \* _checkpoint_index, by branch
    arenaVersion,  \* _arena_version
    issued,        \* _issued_compactions
    closed,        \* _closed
    status,        \* the status of each branch; "none" before its fork,
                   \* "dropped" when its owner let the handle go
    forkedAt,      \* generation of each branch
    origin,        \* _origin of each branch
    branchTip,     \* _tip of each branch
    job,           \* the plan each compactor is materializing
    fresh          \* the next checkpoint_id (uuid4)

treeVars == <<tip, arena, index, arenaVersion>>
branchVars == <<status, forkedAt, origin, branchTip>>
vars == <<generation, treeVars, issued, closed, branchVars, job, fresh>>

Statuses == {"none", "active", "promoted", "rejected", "dropped"}

Position(checkpoint) == Len(checkpoint.content)
Active == {b \in Branches : status[b] = "active"}
Empty == {b \in Active : branchTip[b] = origin[b]}

Init ==
    /\ generation = 0
    /\ tip = [id |-> 0, content |-> Base, depth |-> 0]
    /\ arena = {0}
    /\ index = [b \in Branches |-> {}]
    /\ arenaVersion = 0
    /\ issued = {}
    /\ closed = FALSE
    /\ status = [b \in Branches |-> "none"]
    /\ forkedAt = [b \in Branches |-> 0]
    /\ origin = [b \in Branches |-> NoCheckpoint]
    /\ branchTip = [b \in Branches |-> NoCheckpoint]
    /\ job = [k \in Compactors |-> NoPlan]
    /\ fresh = 1

--------------------------------------------------------------------------------
(* Branches. *)

(* _assert_active_current *)
Current(b) ==
    /\ ~closed
    /\ status[b] = "active"
    /\ forkedAt[b] = generation
    /\ origin[b] = tip

Fork(b) ==
    /\ ~closed
    /\ status[b] = "none"
    /\ status' = [status EXCEPT ![b] = "active"]
    /\ forkedAt' = [forkedAt EXCEPT ![b] = generation]
    /\ origin' = [origin EXCEPT ![b] = tip]
    /\ branchTip' = [branchTip EXCEPT ![b] = tip]
    /\ UNCHANGED <<generation, treeVars, issued, closed, job, fresh>>

(* One checkpoint more on the chain of a branch. *)
Extend(b) ==
    /\ \E segment \in Segments :
         LET new == [id |-> fresh, content |-> branchTip[b].content \o segment,
                     depth |-> branchTip[b].depth + 1]
         IN  /\ Position(new) <= MaxLength
             /\ branchTip' = [branchTip EXCEPT ![b] = new]
             /\ index' = [index EXCEPT ![b] = @ \cup {new}]
    /\ arena' = arena \cup {fresh}
    /\ fresh' = fresh + 1
    /\ UNCHANGED <<generation, tip, issued, closed, status, forkedAt, origin, job>>

(* Mutant: the append leaves _arena_version alone. *)
AppendUnversioned(b) == Current(b) /\ Extend(b) /\ UNCHANGED arenaVersion

AppendCheckpoint(b) ==
    /\ Current(b)
    /\ Extend(b)
    /\ arenaVersion' = arenaVersion + 1

(* A branch handle that is no longer active lets go of its chain. *)
Retire(b, outcome) ==
    /\ status' = [status EXCEPT ![b] = outcome]
    /\ origin' = [origin EXCEPT ![b] = NoCheckpoint]
    /\ branchTip' = [branchTip EXCEPT ![b] = NoCheckpoint]

(* Mutant: promotion asks for an active branch, not for a current one. *)
PromoteStale(b) ==
    /\ ~closed
    /\ status[b] = "active"
    /\ generation < MaxGeneration
    /\ \E checkpoint \in index[b] : tip' = checkpoint
    /\ generation' = generation + 1
    /\ Retire(b, "promoted")
    /\ UNCHANGED <<arena, index, arenaVersion, issued, closed, forkedAt, job, fresh>>

(* Mutant: the pointer is swapped, the generation is not. *)
PromoteInPlace(b) ==
    /\ Current(b)
    /\ \E checkpoint \in index[b] : tip' = checkpoint
    /\ Retire(b, "promoted")
    /\ UNCHANGED <<generation, arena, index, arenaVersion, issued, closed, forkedAt, job,
                   fresh>>

Promote(b) ==
    /\ Current(b)
    /\ generation < MaxGeneration
    /\ \E checkpoint \in index[b] :
         /\ Position(checkpoint) # Position(origin[b])
         /\ tip' = checkpoint
    /\ generation' = generation + 1
    /\ Retire(b, "promoted")
    /\ UNCHANGED <<arena, index, arenaVersion, issued, closed, forkedAt, job, fresh>>

(* reject, close and the context manager's exit; no _closed check. *)
Reject(b) ==
    /\ status[b] = "active"
    /\ Retire(b, "rejected")
    /\ UNCHANGED <<generation, treeVars, issued, closed, forkedAt, job, fresh>>

(* The owner drops the handle: the WeakSet _branches forgets it. *)
Drop(b) ==
    /\ status[b] = "active"
    /\ Retire(b, "dropped")
    /\ UNCHANGED <<generation, treeVars, issued, closed, forkedAt, job, fresh>>

--------------------------------------------------------------------------------
(* Compaction. *)

Valid(plan) ==
    /\ plan.generation = generation
    /\ plan.tip = tip
    /\ plan.version = arenaVersion

(* A plan for the committed tip replaces whatever was issued before.  The  *)
(* thread that holds it stands for its plan_id: it holds one at a time.    *)
Issue(k) ==
    /\ ~closed
    /\ job[k] = NoPlan
    /\ job' = [job EXCEPT ![k] = [owner |-> k, tip |-> tip, version |-> arenaVersion,
                                  generation |-> generation]]
    /\ issued' = {job'[k]}
    /\ UNCHANGED <<generation, treeVars, closed, branchVars, fresh>>

Outstanding == \E plan \in issued : plan.tip = tip /\ plan.version = arenaVersion

(* A valid plan refuses the next one; a stale plan is cancelled by it. *)
PrepareCompaction(k) ==
    /\ Active \subseteq Empty
    /\ ~Outstanding
    /\ Issue(k)

(* Mutant: the plan stays issued when the adapter raises. *)
GiveUpCompactionKeeping(k) ==
    /\ job[k] # NoPlan
    /\ job' = [job EXCEPT ![k] = NoPlan]
    /\ UNCHANGED <<generation, treeVars, issued, closed, branchVars, fresh>>

(* The adapter raises and compact() cancels the plan; or commit_compaction *)
(* raises, because the lineage is closed, the plan is consumed or stale,   *)
(* or the replacement is refused, and has used up a plan still issued.     *)
GiveUpCompaction(k) ==
    /\ job[k] # NoPlan
    /\ issued' = issued \ {job[k]}
    /\ job' = [job EXCEPT ![k] = NoPlan]
    /\ UNCHANGED <<generation, treeVars, closed, branchVars, fresh>>

(* The replacement planes become the base of a tip without deltas; the     *)
(* empty branches go with the old arena.                                   *)
Publish(k) ==
    /\ generation < MaxGeneration
    /\ tip' = [id |-> fresh, content |-> job[k].tip.content, depth |-> 0]
    /\ arena' = {fresh}
    /\ index' = [b \in Branches |-> {}]
    /\ arenaVersion' = 0
    /\ generation' = generation + 1
    /\ issued' = issued \ {job[k]}
    /\ status' = [b \in Branches |-> IF b \in Empty THEN "rejected" ELSE status[b]]
    /\ origin' = [b \in Branches |-> IF b \in Empty THEN NoCheckpoint ELSE origin[b]]
    /\ branchTip' = [b \in Branches |-> IF b \in Empty THEN NoCheckpoint ELSE branchTip[b]]
    /\ job' = [job EXCEPT ![k] = NoPlan]
    /\ fresh' = fresh + 1
    /\ UNCHANGED <<closed, forkedAt>>

(* Mutant: the commit trusts the plan it is given. *)
CommitCompactionBlind(k) == ~closed /\ job[k] # NoPlan /\ Publish(k)

CommitCompaction(k) ==
    /\ ~closed
    /\ job[k] \in issued
    /\ Valid(job[k])
    /\ Publish(k)

--------------------------------------------------------------------------------
(* Mutant: dispose shuts the door and frees nothing. *)
DisposeLightly ==
    /\ ~closed
    /\ closed' = TRUE
    /\ UNCHANGED <<generation, treeVars, issued, branchVars, job, fresh>>

Dispose ==
    /\ ~closed
    /\ closed' = TRUE
    /\ status' = [b \in Branches |-> IF b \in Active THEN "rejected" ELSE status[b]]
    /\ origin' = [b \in Branches |-> NoCheckpoint]
    /\ branchTip' = [b \in Branches |-> NoCheckpoint]
    /\ arena' = {}
    /\ index' = [b \in Branches |-> {}]
    /\ issued' = {}
    /\ tip' = NoCheckpoint
    /\ UNCHANGED <<generation, arenaVersion, forkedAt, job, fresh>>

Next ==
    \/ \E b \in Branches : Fork(b) \/ AppendCheckpoint(b) \/ Promote(b) \/ Reject(b) \/ Drop(b)
    \/ \E k \in Compactors :
         PrepareCompaction(k) \/ GiveUpCompaction(k) \/ CommitCompaction(k)
    \/ Dispose

Spec == Init /\ [][Next]_vars

--------------------------------------------------------------------------------
(* The lineage is well formed, and identifiers are handed out in order.    *)
LineageTypeOK ==
    /\ generation \in Nat
    /\ tip \in Checkpoints \cup {NoCheckpoint} /\ (tip = NoCheckpoint <=> closed)
    /\ arena \subseteq 0..(fresh - 1)
    /\ index \in [Branches -> SUBSET Checkpoints]
    /\ arenaVersion \in Nat
    /\ issued \subseteq Plans
    /\ closed \in BOOLEAN
    /\ status \in [Branches -> Statuses]
    /\ forkedAt \in [Branches -> Nat]
    /\ origin \in [Branches -> Checkpoints \cup {NoCheckpoint}]
    /\ branchTip \in [Branches -> Checkpoints \cup {NoCheckpoint}]
    /\ job \in [Compactors -> Plans \cup {NoPlan}]
    /\ fresh \in Nat \ {0}

(* Two branches forked from one tip race to promote: at most one of the    *)
(* branches of a generation ever wins, and a promoted branch belongs to a  *)
(* generation that is over.                                                *)
OnePromotionPerGeneration ==
    \A b \in Branches : status[b] = "promoted" =>
        /\ forkedAt[b] < generation
        /\ \A c \in Branches \ {b} : status[c] = "promoted" => forkedAt[c] # forkedAt[b]

(* Whatever an active branch can promote lies on its own chain, past the   *)
(* tip it forked from, at a position of its own; a branch of the current   *)
(* generation forked from the committed tip.                               *)
IndexFollowsTheChain ==
    \A b \in Active :
        /\ forkedAt[b] = generation => origin[b] = tip
        /\ \A checkpoint \in index[b] :
              /\ IsStrictPrefix(origin[b].content, checkpoint.content)
              /\ IsPrefix(checkpoint.content, branchTip[b].content)
        /\ \A x, y \in index[b] : Position(x) = Position(y) => x = y

(* Compaction frees the arena under nobody: the committed tip and the tip  *)
(* of every active branch, stale ones included, are still in it.           *)
LiveBranchesAreBacked ==
    /\ ~closed => tip.id \in arena
    /\ \A b \in Active : branchTip[b].id \in arena

(* An issued plan that would still refuse a new one is in the hands of a   *)
(* thread that will commit or cancel it: compaction is never blocked by a  *)
(* plan nobody holds.                                                      *)
OutstandingPlanIsHeld ==
    Outstanding => \E k \in Compactors : job[k] \in issued

(* After dispose, however late a compactor or a branch comes back, nothing *)
(* is retained and no handle is active.                                    *)
DisposedKeepsNothing ==
    closed => /\ arena = {} /\ issued = {} /\ Active = {}
              /\ \A b \in Branches : index[b] = {}

(* The arena, as its users need it: whole for as long as one of them may   *)
(* read or promote, and gone for good after dispose.                       *)
ArenaServesItsUsers == LiveBranchesAreBacked /\ DisposedKeepsNothing

(* The lineage implements a committed sequence that only grows, with one   *)
(* version per publication: a stale branch or a stale compaction plan      *)
(* never takes back what was committed.                                    *)
Prefix == INSTANCE VersionedPrefix WITH
              committed <- IF closed THEN <<>> ELSE tip.content,
              version <- generation,
              open <- ~closed
ImplementsPrefix == Prefix!PrefixSpec

================================================================================
