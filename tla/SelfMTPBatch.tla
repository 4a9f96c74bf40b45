------------------------------ MODULE SelfMTPBatch ------------------------------
(***************************************************************************)
(* BatchGenerator of src/mlx_lm/generate.py with self-MTP: a request is a  *)
(* lane of MTPGenerationBatch that gets several tokens in a round, as many *)
(* as the model's own draft head guessed right, and one more.  Before      *)
(* every round, and before lanes join, the admission controller            *)
(* (SelfMTPAdmission) says which lanes may speculate; the others are       *)
(* paused, with their caches, or migrate to an ordinary batch.             *)
(* A generator without self-MTP is BatchGenerator.                         *)
(*                                                                         *)
(* Simplifications.  Async QSA promotion is off, as it is by default.  A   *)
(* token of context is a unit of cache.  Free memory is any reading, at    *)
(* every question.  The admission callback belongs to one generator.       *)
(***************************************************************************)
EXTENDS BatchGenerator, SelfMTPAdmission

CONSTANTS
    LanePrompts,  \* what may be inserted into a generator with self-MTP
    LaneJobs,     \* bound: requests inserted into it
    Readings,     \* free memory, above the hard reserve
    Starved       \* MTP_STARVED_BOUNDARIES_BEFORE_PLAIN

ASSUME LanesAssumption ==
    /\ \A p \in LanePrompts : /\ p.segments \in Seq(Nat \ {0}) /\ p.segments # <<>>
                              /\ p.limit \in Nat \ {0} /\ {p.history, p.bytes} \subseteq Nat
                              /\ p.history = 0 => p.bytes = 0
    /\ LaneJobs \in 0..MaxJobs
    /\ Readings \subseteq Nat /\ Starved \in Nat \ {0}
    /\ \A p \in Policies : /\ {p.mtp, p.admission, p.segmented} \subseteq BOOLEAN
                           /\ p.cohort \in Nat \ {0}
                           /\ p.mtp => p.cadence = 1

VARIABLE mtp  \* the lanes; ready, done and depth are of the round at work:
              \* lanes, paused: rows of _generation_batch, and its _paused
              \* ready, plain:  _plain_ready, and _plain_fallback_batch
              \* locked:        _segmented_compute_width_locked
              \* starved:       _starved_mtp_boundaries
              \* demoted:       the holds the admission callback remembers
              \* done, depth:   requests that finished; the draft depth

allVars == <<policy, inserted, queue, processing, prompts, generation, steps, left,
             turn, mtp>>

GeneratorInit ==
    /\ BatchInit
    /\ mtp = [lanes |-> <<>>, paused |-> <<>>, ready |-> <<>>, plain |-> <<>>,
              locked |-> FALSE, starved |-> 0, demoted |-> <<>>, done |-> {}, depth |-> 0]

Rowed(m) == Uids(m.lanes) \cup Uids(m.paused) \cup Uids(m.plain)
Everyone == Live \cup Rowed(mtp)
Occupied(m) == Len(m.lanes) + Len(m.paused) + Len(m.plain)

(* ntoks: the tokens a lane has produced.  The first one is produced with  *)
(* the lane, and given to the request later.                               *)
Produced(row) == row.num + (IF row.initial THEN 1 ELSE 0)

Pending(m) == \E i \in DOMAIN m.lanes : m.lanes[i].initial

--------------------------------------------------------------------------------
(* Admission. *)

(* mtp_cycle_state: a paused lane that joins a physical batch has every    *)
(* row rebuilt at the greatest width.                                      *)
CycleRows(m) ==
    LET Context(row) == row.size + Produced(row)
        Width(row) == Max({Context(row)} \cup {Context(m.lanes[i]) : i \in DOMAIN m.lanes})
        Measured(row, pending) ==
            [uid |-> row.uid, context |-> Context(row), cache |-> Context(row),
             resident |-> TRUE, pending |-> pending]
    IN  [i \in DOMAIN m.lanes |-> Measured(m.lanes[i], 0)]
        \o [i \in DOMAIN m.paused |->
               Measured(m.paused[i], IF policy.segmented \/ m.lanes = <<>> THEN 0
                                     ELSE (Len(m.lanes) + 1) * Width(m.paused[i]))]

(* A request that may join: its cache is measured when a prefix was        *)
(* restored and the rest of its prompt is one prefill step.                *)
JoiningRow(job) ==
    LET rest == SumFunction(job.segments)
    IN  [uid |-> job.uid, context |-> job.history + rest,
         cache |-> IF job.history > 0 /\ rest <= policy.step THEN job.history + rest ELSE 0,
         resident |-> FALSE, pending |-> 0]

JoiningRows(n) == [i \in 1..n |-> JoiningRow(queue[i])]

Asked(m, rows) == UNION {Answers(lanes, free, m.demoted) : lanes \in {rows}, free \in Readings}

(* Mutant: a batch that ran is widened. *)
AttachAlways(m, rows) == [m EXCEPT !.lanes = @ \o rows]

(* _attach_packages: a segmented batch that ran keeps its width. *)
Attach(m, rows) ==
    IF policy.segmented /\ m.locked /\ m.lanes # <<>>
    THEN [m EXCEPT !.paused = @ \o rows]
    ELSE [m EXCEPT !.lanes = @ \o rows]

(* Mutant: lanes that go on as plain are left paused. *)
AdmittedLosingPlain(m, v) ==
    LET With(s, verdicts) == Rows(s, {i \in DOMAIN s : v.of[s[i].uid] \in verdicts})
        lanes == [m EXCEPT !.lanes = With(@, 1..MaxDepth),
                           !.paused = With(m.paused, {Queued}) \o With(m.lanes, {Queued}),
                           !.ready = @ \o With(m.lanes, {Plain}),
                           !.demoted = v.demoted,
                           !.depth = Max(Range(v.of))]
    IN  Attach(lanes, With(m.paused, 1..MaxDepth))

(* _apply_admission, given the verdicts. *)
Admitted(m, v) ==
    LET With(s, verdicts) == Rows(s, {i \in DOMAIN s : v.of[s[i].uid] \in verdicts})
        lanes == [m EXCEPT !.lanes = With(@, 1..MaxDepth),
                           !.paused = With(m.paused, {Queued}) \o With(m.lanes, {Queued}),
                           !.ready = @ \o With(m.lanes, {Plain}) \o With(m.paused, {Plain}),
                           !.demoted = v.demoted,
                           !.depth = Max(Range(v.of))]
    IN  Attach(lanes, With(m.paused, 1..MaxDepth))

ApplyAdmission(m) ==
    IF policy.admission THEN {Admitted(m, v) : v \in Asked(m, CycleRows(m))}
    ELSE {[m EXCEPT !.depth = MaxDepth]}

--------------------------------------------------------------------------------
(* The decoding part of a round. *)

(* _complete_responses: the lanes that end leave the batch. *)
Complete(m, rows, ended) ==
    [m EXCEPT !.lanes = Rows(rows, DOMAIN rows \ ended),
              !.done = @ \cup {rows[i].uid : i \in ended}]

AtLimit(rows) == {i \in DOMAIN rows : rows[i].num >= rows[i].limit}

(* _emit_initial: the first tokens that were not given yet, any of which   *)
(* may end its request.                                                    *)
EmitInitial(m) ==
    LET emitted == {i \in DOMAIN m.lanes : m.lanes[i].initial}
        rows == [i \in DOMAIN m.lanes |->
                    IF i \in emitted THEN [m.lanes[i] EXCEPT !.num = @ + 1, !.initial = FALSE]
                    ELSE m.lanes[i]]
    IN  {Complete(m, rows, stopped \cup (emitted \cap AtLimit(rows))) : stopped \in SUBSET emitted}

(* One cycle: the drafts that were right, and one token.  A draft never    *)
(* goes past the limit, a stop sequence cuts it short anywhere.  The cache *)
(* decides whether a segmented batch ran as one, which locks its width.    *)
Propose(m) ==
    LET Depth(row) == Min({m.depth, Max({0, row.limit - Produced(row) - 1})})
        counts == {c \in [DOMAIN m.lanes -> 1..(m.depth + 1)] :
                      \A i \in DOMAIN c : c[i] <= Depth(m.lanes[i]) + 1}
        Given(c) == [i \in DOMAIN m.lanes |-> [m.lanes[i] EXCEPT !.num = @ + c[i]]]
    IN  {[Complete(m, Given(c), stopped \cup AtLimit(Given(c))) EXCEPT !.locked = now] :
            c \in counts, stopped \in SUBSET DOMAIN m.lanes,
            now \in IF policy.segmented THEN {m.locked, TRUE} ELSE {FALSE}}

Cycle(m) == UNION {IF a.lanes = <<>> THEN {a} ELSE Propose(a) : a \in {m}}

(* Without a controller the lanes that were held back join when the batch  *)
(* has drained.                                                            *)
Undeferred(m) ==
    IF m.lanes # <<>> THEN m
    ELSE IF policy.admission THEN [m EXCEPT !.locked = FALSE]
    ELSE Attach([m EXCEPT !.locked = FALSE, !.paused = <<>>], m.paused)

(* Mutant: lanes that admission attaches take part at once. *)
NextAtOnce(m) ==
    IF Pending(m) THEN EmitInitial(m)
    ELSE UNION {Cycle(Undeferred(a)) : a \in ApplyAdmission(m)}

(* MTPGenerationBatch.next: first tokens go first, also those of lanes that *)
(* admission attaches.                                                      *)
NextLanes(m) ==
    IF Pending(m) THEN EmitInitial(m)
    ELSE UNION {IF Pending(a) THEN EmitInitial(a) ELSE Cycle(Undeferred(a))
                   : a \in ApplyAdmission(m)}

(* Mutant: paused lanes wait for memory that nobody frees. *)
DemoteNever(m) == [m EXCEPT !.starved = 0]

(* _demote_starved_mtp_lane: paused lanes keep their memory, so when       *)
(* nothing decodes for long enough the oldest goes on as plain.            *)
DemoteStarved(m) ==
    IF ~policy.admission \/ m.paused = <<>> \/ m.lanes \o m.ready \o m.plain # <<>>
    THEN [m EXCEPT !.starved = 0]
    ELSE IF m.starved + 1 < Starved THEN [m EXCEPT !.starved = @ + 1]
    ELSE [m EXCEPT !.starved = 0, !.ready = <<Head(m.paused)>>, !.paused = Tail(m.paused)]

(* Mutant: the first token is not taken off what is left. *)
PlainRowTooLong(row) ==
    [uid |-> row.uid, num |-> 0, limit |-> row.limit - row.num,
     before |-> Produced(row), asked |-> row.limit]

(* The row of a lane in the ordinary batch; before and asked are history.  *)
PlainRow(row) ==
    [uid |-> row.uid, num |-> 0, limit |-> row.limit - Produced(row),
     before |-> Produced(row), asked |-> row.limit]

(* _migrate_plain_fallbacks: gives a first token that was not given yet,   *)
(* which may end the request.                                              *)
MigratePlain(m) ==
    LET emitted == {i \in DOMAIN m.ready : m.ready[i].initial}
        final == {i \in emitted : m.ready[i].num + 1 >= m.ready[i].limit}
        rows == [i \in DOMAIN m.ready |-> PlainRow(m.ready[i])]
        going == {i \in DOMAIN rows : rows[i].limit > 0}
    IN  {[m EXCEPT !.ready = <<>>,
                   !.plain = @ \o Rows(rows, going \ (final \cup stopped)),
                   !.done = @ \cup {rows[i].uid : i \in final \cup stopped}] :
            stopped \in SUBSET emitted}

(* GenerationBatch.next of the ordinary batch. *)
NextPlain(m) ==
    LET rows == [i \in DOMAIN m.plain |-> [m.plain[i] EXCEPT !.num = @ + 1]]
        Ended(stopped) == stopped \cup AtLimit(rows)
    IN  {[m EXCEPT !.plain = Rows(rows, DOMAIN rows \ Ended(stopped)),
                   !.done = @ \cup {rows[i].uid : i \in Ended(stopped)}] :
            stopped \in SUBSET DOMAIN rows}

DecodeLanes(m) ==
    LET next == IF m.lanes \o m.paused = <<>> THEN {m} ELSE NextLanes(m)
        ready == UNION {MigratePlain(d) : d \in {DemoteStarved(n) : n \in next}}
    IN  UNION {NextPlain(r) : r \in ready}

--------------------------------------------------------------------------------
(* The joining part of a round. *)

(* The places in the batch, and in a segmented cohort. *)
LanePlaces(m) ==
    LET places == Min({policy.completion - Occupied(m), Len(queue)})
    IN  IF policy.segmented THEN Min({places, Max({0, policy.cohort - Occupied(m)})})
        ELSE places

(* The budget counts the rows of the batch that speculate. *)
BudgetedLanes(m) ==
    LET gen == [i \in DOMAIN m.lanes |->
                   [tokens |-> m.lanes[i].size + Produced(m.lanes[i]) - 1,
                    limit |-> m.lanes[i].limit, num |-> m.lanes[i].num]]
    IN  Admissible(gen, LanePlaces(m))

(* _admit_mtp_joining: the longest prefix of the queue that the controller *)
(* lets in; the head when nothing runs.                                    *)
AdmitJoining(m, n) ==
    LET Prefix(v) == Max({k \in 0..n : \A i \in 1..k : v.of[queue[i].uid] # Queued})
        Forced(k) == IF k = 0 /\ Occupied(m) = 0 THEN 1 ELSE k
    IN  IF n <= 0 THEN {0} ELSE IF ~policy.admission THEN {n}
        ELSE {Forced(Prefix(v)) : v \in Asked(m, CycleRows(m) \o JoiningRows(n))}

(* MTPGenerationBatch.extend: lanes join as paused ones that admission may *)
(* attach at once; and _migrate_plain_fallbacks after it.                  *)
Extend(m, rows) ==
    LET joined == IF policy.admission
                  THEN UNION {ApplyAdmission(j) : j \in {[m EXCEPT !.paused = @ \o rows]}}
                  ELSE {Attach(m, rows)}
    IN  UNION {MigratePlain(j) : j \in joined}

(* _make_mtp_batch: a lane has its whole prompt processed at once. *)
LaneOf(job) ==
    [uid |-> job.uid, num |-> 0, limit |-> job.limit, initial |-> TRUE,
     size |-> job.history + SumFunction(job.segments)]

(* The outcomes of taking in the first n requests of waiting. *)
MakeBatch(m, waiting, n) ==
    {[mtp |-> j, queue |-> SubSeq(waiting, n + 1, Len(waiting))] :
        j \in Extend(m, [i \in 1..n |-> LaneOf(waiting[i])])}

(* _advance_mtp_prefill: a slice of the prompt of a waiting request, which *)
(* joins when one token is left.                                           *)
Advance(m, waiting, i, chunk) ==
    LET total == SumFunction(waiting[i].segments)
        done == Min({chunk, total - 1})
        job == [waiting[i] EXCEPT !.history = @ + done, !.age = 0,
                                  !.bytes = @ + BytesPerUnit * done,
                                  !.segments = IF total - done = 1 THEN <<1>>
                                               ELSE <<total - done - 1, 1>>]
    IN  IF Ready(job) THEN MakeBatch(m, <<job>> \o RemoveAt(waiting, i), 1)
        ELSE {[mtp |-> m, queue |-> [k \in DOMAIN waiting |-> IF k = i THEN job ELSE waiting[k]]]}

(* Mutant: the cheapest rest goes first, also past the deadline. *)
AdvancedUnforced(n) ==
    LET Rest(i) == <<SumFunction(queue[i].segments), -queue[i].history, i>>
    IN  CHOOSE i \in 1..n : \A j \in (1..n) \ {i} : Before(Rest(i), Rest(j))

(* Which of n requests gets a slice: the cheapest rest, past the deadline  *)
(* the oldest.                                                             *)
Advanced(n) ==
    LET Rest(i) == <<SumFunction(queue[i].segments), -queue[i].history, i>>
    IN  IF OldestAge >= policy.maxDefer THEN 1
        ELSE CHOOSE i \in 1..n : \A j \in (1..n) \ {i} : Before(Rest(i), Rest(j))

(* Prompts are sliced between rounds when others decode and a prefix was   *)
(* restored; before the deadline the slice may be put off.                 *)
JoinLanes(m, n) ==
    LET waiting == Aged(queue)
        sliced == /\ policy.adaptive /\ Occupied(m) > 0
                  /\ \E i \in 1..n : queue[i].history > 0
        same == {[mtp |-> m, queue |-> waiting]}
    IN  IF n = 0 THEN same
        ELSE IF ~sliced THEN MakeBatch(m, waiting, n)
        ELSE (IF OldestAge >= policy.maxDefer THEN {} ELSE same)
             \cup UNION {Advance(m, waiting, Advanced(n), chunk) : chunk \in policy.slices}

(* _next_mtp: the ends a round may have. *)
RoundEnds ==
    LET Joined(m, fit) == UNION {JoinLanes(m, n) : n \in AdmitJoining(m, fit)}
    IN  UNION {UNION {Joined(m, fit) : fit \in {BudgetedLanes(m)}} : m \in DecodeLanes(mtp)}

RoundOfLanes ==
    /\ policy.mtp /\ Everyone # {}
    /\ \E end \in RoundEnds :
          /\ mtp' = [end.mtp EXCEPT !.done = {}, !.depth = 0]
          /\ queue' = end.queue
          /\ left' = left \cup end.mtp.done
    /\ turn' = 1 - turn
    /\ UNCHANGED <<policy, inserted, processing, prompts, generation, steps>>

--------------------------------------------------------------------------------
InsertLane(p) ==
    /\ policy.mtp /\ inserted < LaneJobs
    /\ Insert(p)
    /\ UNCHANGED mtp

(* remove, with remove_uids of the lanes. *)
RemoveLane(u) ==
    /\ policy.mtp
    /\ queue' = Without(queue, u)
    /\ mtp' = [mtp EXCEPT !.lanes = Without(@, u), !.paused = Without(@, u),
                          !.plain = Without(@, u)]
    /\ left' = left \cup {u}
    /\ UNCHANGED <<policy, inserted, processing, prompts, generation, steps, turn>>

RoundOfRows == ~policy.mtp /\ Round /\ UNCHANGED mtp

GeneratorNext ==
    \/ ~policy.mtp /\ BatchNext /\ UNCHANGED mtp
    \/ \E p \in LanePrompts : InsertLane(p)
    \/ \E u \in Everyone : RemoveLane(u)
    \/ RoundOfLanes

GeneratorSpec == GeneratorInit /\ [][GeneratorNext]_allVars

(* The generation thread calls next for as long as there is a request; a   *)
(* round is what changes turn.                                             *)
FairGeneratorSpec == GeneratorSpec /\ WF_turn(Everyone # {} /\ turn' = 1 - turn)

--------------------------------------------------------------------------------
(* The lists of BatchGenerator, and those of the lanes. *)
GeneratorTypeOK ==
    /\ BatchTypeOK
    /\ mtp.ready = <<>> /\ mtp.done = {} /\ mtp.depth = 0
    /\ mtp.locked => policy.segmented
    /\ mtp.starved \in 0..(Starved - 1)
    /\ \A u \in DOMAIN mtp.demoted : u \in 0..(inserted - 1) /\ mtp.demoted[u] \in 0..MaxHolds
    /\ policy.mtp => processing \o prompts \o generation = <<>>
    /\ ~policy.mtp => Occupied(mtp) = 0

(* With self-MTP, too, a request is in one place, or its last response was *)
(* given or it was removed: pausing, joining, deferral, demotion and       *)
(* migration lose and copy none.  The batch and a segmented cohort are     *)
(* never overfilled.  What a lane that went on as plain was given before   *)
(* and may still be given is what was asked for.                           *)
RequestsAreConserved ==
    /\ ~policy.mtp => RowsAreConserved
    /\ policy.mtp =>
         /\ Len(queue) + Occupied(mtp) = Cardinality(Everyone)
         /\ Everyone \cup left = 0..(inserted - 1) /\ Everyone \cap left = {}
         /\ Occupied(mtp) <= policy.completion
         /\ policy.segmented => Occupied(mtp) <= policy.cohort
         /\ \A i \in DOMAIN mtp.plain :
              /\ mtp.plain[i].before + mtp.plain[i].limit = mtp.plain[i].asked
              /\ mtp.plain[i].num < mtp.plain[i].limit
         /\ \A i \in DOMAIN (mtp.lanes \o mtp.paused) :
              (mtp.lanes \o mtp.paused)[i].num < (mtp.lanes \o mtp.paused)[i].limit

ServedNow(job) ==
    \A i \in DOMAIN queue' : queue'[i].uid = job.uid => queue'[i].segments # job.segments

(* Also with self-MTP the oldest request is not passed over for ever: past *)
(* the deadline of adaptive prefill a waiting prompt gets a slice, or      *)
(* joins, only together with or after the first of the queue.              *)
WaitersAreServed ==
    /\ RoundsAreFair
    /\ [][/\ policy.mtp /\ turn' # turn /\ OldestAge >= policy.maxDefer
          /\ \E i \in DOMAIN queue : ServedNow(queue[i])
          => ServedNow(queue[1])]_allVars

(* The first token of a lane, produced with it, is given before any token  *)
(* of a cycle, whenever the lane joined: so it is for every batch the      *)
(* server builds, which never lacks a controller.  Without one, a          *)
(* segmented batch that ran as one is not widened while a lane of it is    *)
(* left; a controller that pauses all its lanes gives the width up.        *)
LanesKeepTheirOrder ==
    /\ [](policy.admission \/ ~policy.segmented =>
            \A i \in DOMAIN (mtp.lanes \o mtp.paused) :
               (mtp.lanes \o mtp.paused)[i].initial => (mtp.lanes \o mtp.paused)[i].num = 0)
    /\ [][~policy.admission /\ mtp.locked /\ Uids(mtp.lanes) \cap Uids(mtp'.lanes) # {}
            => Uids(mtp'.lanes) \subseteq Uids(mtp.lanes)]_allVars

(* At every boundary and every probe for those who wait, whatever free     *)
(* memory reads, the plan is the largest safe set; and holding lanes back  *)
(* keeps the others safe and one of them decoding.                         *)
VerdictsAreSafe ==
    policy.mtp /\ policy.admission =>
        \A free \in Readings, n \in 0..Len(queue) :
        \A rows \in {CycleRows(mtp) \o JoiningRows(n)} :
        \A answer \in Answers(rows, free, mtp.demoted) :
            LET verdict == answer.of
                going == {i \in DOMAIN rows : Speculates(verdict[rows[i].uid])}
            IN  /\ LargestSafe(rows, free)
                /\ \A i \in going : CostOf(rows, verdict[rows[i].uid], going) <= free
                /\ going = {} => \A i \in DOMAIN rows : ~Speculates(Plan(rows, free)[i])

(* As long as there is a request a round can be taken, at least the one in *)
(* which no stop sequence matches, and every request that was inserted     *)
(* leaves: whatever the budget, the cadence and the window, when adaptive  *)
(* prefill puts it off, which its deadline ends or that nobody decodes any *)
(* more, and with self-MTP whatever free memory reads when.                *)
EveryoneLeaves ==
    /\ [](Everyone # {} => IF policy.mtp THEN RoundEnds # {} ELSE RoundIsPossible({}))
    /\ Everyone # {} ~> Everyone = {}

================================================================================
