----------------------------- MODULE BatchGenerator -----------------------------
(***************************************************************************)
(* BatchGenerator of src/mlx_lm/generate.py (without self-MTP) with its    *)
(* PromptProcessingBatch and GenerationBatch, and the state budget of      *)
(* src/mlx_lm/batch_admission.py.                                          *)
(*                                                                         *)
(* A request waits in a queue, has its prompt processed in slices in the   *)
(* prompt batch and is promoted to the generation batch, where each round  *)
(* gives it a token until it has max_tokens or its stop sequence matches.  *)
(* One thread calls insert_segments, next and remove.                      *)
(*                                                                         *)
(* Simplifications.  Tokens are counted, a segment is its length.  What a  *)
(* row samples is left out, but for whether its stop sequence matched.     *)
(* Time is counted in rounds: adaptive prefill may defer or choose any     *)
(* slice until the deadline is reached.  The floor of a projection by the  *)
(* bytes allocated now is left out: a batch cache drops the padding its    *)
(* rows share and keeps less than one allocation step more than its        *)
(* longest row, which the projection charges.                              *)
(***************************************************************************)
EXTENDS Lists, SequencesExt

CONSTANTS
    Prompts,         \* what may be inserted: segments, limit, history, bytes
    Policies,        \* the arguments of the constructor
    MaxJobs,         \* bound: requests inserted
    FixedBytes,      \* the cost of a row,
    BytesPerUnit,    \* of a token of it
    AllocationStep   \* and the step its cache grows by

ASSUME PromptsAssumption ==
    \A p \in Prompts : /\ p.segments \in Seq(Nat \ {0}) /\ p.segments # <<>>
                       /\ p.limit \in Nat \ {0}
                       /\ p.history \in Nat /\ p.bytes \in Nat
ASSUME PoliciesAssumption ==
    \A p \in Policies : /\ p.prefill \in Nat \ {0}
                        /\ p.completion \in Nat /\ p.completion >= p.prefill
                        /\ p.step \in Nat \ {0} /\ p.window \in Nat \ {0}
                        /\ p.cadence \in Nat \ {0} /\ p.maxDefer \in Nat
                        /\ p.adaptive => p.cadence = 1 /\ p.slices # {}
                        /\ p.slices \subseteq 1..p.step /\ p.budget \in Nat
ASSUME CostAssumption == FixedBytes \in Nat /\ BytesPerUnit \in Nat
                         /\ AllocationStep \in Nat \ {0} /\ MaxJobs \in Nat

VARIABLES
    policy,      \* the arguments; a budget of 0 is none
    inserted,    \* _uid_count
    queue,       \* _unprocessed_sequences
    processing,  \* _currently_processing, with the uid it was made for as history
    prompts,     \* _prompt_batch; extent of a row, here and below, is history
    generation,  \* _generation_batch
    steps,       \* _steps_counter modulo the cadence
    left,        \* history: requests whose last response was given, or removed
    turn         \* history: the rounds that were taken, modulo 2

vars == <<policy, inserted, queue, processing, prompts, generation, steps, left, turn>>

BatchInit ==
    /\ policy \in Policies
    /\ inserted = 0
    /\ queue = <<>>
    /\ processing = <<>>
    /\ prompts = <<>>
    /\ generation = <<>>
    /\ steps = 0
    /\ left = {}
    /\ turn = 0

Uids(s) == {s[i].uid : i \in DOMAIN s}
Live == Uids(queue) \cup Uids(prompts) \cup Uids(generation)

(* filter of both batches, and of the lists beside them, is Rows. *)
Without(s, u) == Rows(s, {i \in DOMAIN s : s[i].uid # u})

--------------------------------------------------------------------------------
(* The last token of a prompt is a segment of its own: its forward pass is *)
(* the first step of generation.                                           *)
SplitLast(segments) ==
    IF Last(segments) = 1 THEN segments ELSE Front(segments) \o <<Last(segments) - 1, 1>>

Ready(row) == row.segments = <<1>>

(* insert_segments, of one request. *)
Insert(p) ==
    /\ inserted < MaxJobs
    /\ queue' = Append(queue,
           [uid |-> inserted, segments |-> SplitLast(p.segments), limit |-> p.limit,
            history |-> p.history, bytes |-> p.bytes, age |-> 0])
    /\ inserted' = inserted + 1
    /\ UNCHANGED <<policy, processing, prompts, generation, steps, left, turn>>

(* Mutant: the rows of _currently_processing stay. *)
RemovePromptOnly(u) ==
    /\ u \in Live
    /\ queue' = Without(queue, u)
    /\ prompts' = Without(prompts, u)
    /\ generation' = Without(generation, u)
    /\ left' = left \cup {u}
    /\ UNCHANGED <<policy, inserted, processing, steps, turn>>

(* remove: _currently_processing is filtered by the places in the prompt   *)
(* batch.                                                                  *)
RemoveJob(u) ==
    /\ u \in Live
    /\ queue' = Without(queue, u)
    /\ LET kept == {i \in DOMAIN prompts : prompts[i].uid # u}
       IN  /\ prompts' = Rows(prompts, kept)
           /\ processing' = Rows(processing, kept)
    /\ generation' = Without(generation, u)
    /\ left' = left \cup {u}
    /\ UNCHANGED <<policy, inserted, steps, turn>>

--------------------------------------------------------------------------------
(* The budget. *)

(* cohort_bytes: every row pays for the longest one. *)
CohortBytes(extents) ==
    IF extents = <<>> THEN 0
    ELSE Len(extents) * (FixedBytes + BytesPerUnit * (Max(ToSet(extents)) + AllocationStep - 1))

(* _candidate_admission_state *)
CandidateExtent(job) == job.history + SumFunction(job.segments) + job.limit
Unverified(job) == IF job.history = 0 THEN job.bytes ELSE 0

(* Mutant: a prompt at work is charged for what its cache holds now. *)
GenerationExtentsOnly(gen) ==
    [i \in DOMAIN gen |-> gen[i].tokens + Max({gen[i].limit - gen[i].num, 0})]
    \o [i \in DOMAIN processing |-> prompts[i].tokens]

(* _final_extent_states *)
FinalExtents(gen) ==
    [i \in DOMAIN gen |-> gen[i].tokens + Max({gen[i].limit - gen[i].num, 0})]
    \o [i \in DOMAIN processing |->
            processing[i].history + processing[i].total + prompts[i].limit]

(* _cohort_committed, of the first k requests of the queue. *)
Committed(gen, k) ==
    CohortBytes(FinalExtents(gen) \o [i \in 1..k |-> CandidateExtent(queue[i])])
    + SumFunction([i \in 1..k |-> Unverified(queue[i])])
    + SumFunction([i \in (k + 1)..Len(queue) |-> queue[i].bytes])

(* _budget_admissible and _admit_states: one request is always admitted    *)
(* when nothing runs.                                                      *)
Admissible(gen, n) ==
    IF policy.budget = 0 \/ n <= 0 THEN n
    ELSE LET fit == Max({k \in 0..n : \A j \in 1..k : Committed(gen, j) <= policy.budget})
         IN  IF fit = 0 /\ gen = <<>> /\ prompts = <<>> THEN 1 ELSE fit

--------------------------------------------------------------------------------
(* Which requests of the queue are admitted. *)

(* _prefill_chunk_length *)
Chunk(row) == IF Ready(row) THEN 0 ELSE Min({row.segments[1], policy.step})

(* The padding of the rows at work and the candidates in picked. *)
Padding(picked) ==
    LET width == Max({0} \cup {Chunk(queue[i]) : i \in picked}
                         \cup {Chunk(processing[i]) : i \in DOMAIN processing})
        Waste(row) == IF Chunk(row) = 0 THEN 0 ELSE width - Chunk(row)
    IN  MapThenSumSet(LAMBDA i : Waste(queue[i]), picked)
        + MapThenSumSet(LAMBDA i : Waste(processing[i]), DOMAIN processing)

Cost(picked, i) ==
    IF policy.adaptive
    THEN <<SumFunction(queue[i].segments), -queue[i].history, Padding(picked \cup {i}), i>>
    ELSE <<0, 0, Padding(picked \cup {i}), i>>

Before(a, b) == \E k \in DOMAIN a : a[k] < b[k] /\ \A j \in 1..(k - 1) : a[j] = b[j]

(* Mutant: the cheapest requests of the window, the oldest or not. *)
SelectedCheapest(n) ==
    LET window == Min({Len(queue), Max({n, policy.window})})
        Cheapest(picked) == CHOOSE i \in (1..window) \ picked :
            \A j \in (1..window) \ (picked \cup {i}) : Before(Cost(picked, i), Cost(picked, j))
        selected[k \in 0..n] ==
            IF k = 0 THEN {} ELSE selected[k - 1] \cup {Cheapest(selected[k - 1])}
    IN  selected[n]

(* _select_prefill_indices: the oldest request, then the cheapest ones of  *)
(* the window.                                                             *)
Selected(n) ==
    LET window == Min({Len(queue), Max({n, policy.window})})
        Cheapest(picked) == CHOOSE i \in (1..window) \ picked :
            \A j \in (1..window) \ (picked \cup {i}) : Before(Cost(picked, i), Cost(picked, j))
        selected[k \in 1..n] ==
            IF k = 1 THEN {1} ELSE selected[k - 1] \cup {Cheapest(selected[k - 1])}
    IN  IF n <= 0 THEN {} ELSE IF window = n THEN 1..n ELSE selected[n]

--------------------------------------------------------------------------------
(* One round. *)

(* GenerationBatch.next before its filter: one token for every row. *)
Decoded ==
    [i \in DOMAIN generation |->
        [generation[i] EXCEPT !.num = @ + 1, !.tokens = @ + 1]]

Finished(matched) == matched \cup {i \in DOMAIN Decoded : Decoded[i].num >= Decoded[i].limit}

After(matched) == Rows(Decoded, DOMAIN generation \ Finished(matched))

Decode(matched) ==
    /\ Live # {}
    /\ UNCHANGED <<policy, inserted>>
    /\ turn' = 1 - turn
    /\ steps' = IF generation = <<>> THEN steps ELSE (steps + 1) % policy.cadence
    /\ left' = left \cup {generation[i].uid : i \in Finished(matched)}

Older(age) == IF policy.adaptive THEN Min({age + 1, policy.maxDefer + 1}) ELSE 0
Aged(rows) == [i \in DOMAIN rows |-> [rows[i] EXCEPT !.age = Older(@)]]

(* _promote_ready_prompts, with split and generate: a new row takes the    *)
(* last token of its prompt through the model.                             *)
Promoted(rows, proc) ==
    LET ready == Rows(rows, {i \in DOMAIN proc : Ready(proc[i])})
    IN  [i \in DOMAIN ready |->
            [uid |-> ready[i].uid, tokens |-> ready[i].tokens + 1, num |-> 0,
             limit |-> ready[i].limit, extent |-> ready[i].extent]]

Unpromoted(rows, proc) == Rows(rows, {i \in DOMAIN proc : ~Ready(proc[i])})

(* The decode batch is full: the prompt batch waits, ready rows included.  *)
Full(gen) == Len(gen) >= policy.completion

SkipPrefill(gen) ==
    /\ Full(gen)
    /\ generation' = gen
    /\ queue' = Aged(queue)
    /\ processing' = Aged(processing)
    /\ UNCHANGED prompts

PrefillWork == queue # <<>> \/ \E i \in DOMAIN processing : ~Ready(processing[i])

(* _should_defer_prefill *)
DeferredByCadence(gen) ==
    policy.cadence # 1 /\ gen # <<>> /\ PrefillWork /\ steps' # 0

(* _oldest_prefill_age_ms: the prompts at work, else the queue. *)
OldestAge ==
    LET active == {Older(processing[i].age) :
                      i \in {j \in DOMAIN processing : ~Ready(processing[j])}}
        queued == {Older(queue[i].age) : i \in DOMAIN queue}
    IN  Max({0} \cup (IF active # {} THEN active ELSE queued))

(* Mutant: the deadline does not force a slice. *)
DecisionsUnforced(gen) ==
    IF ~policy.adaptive \/ gen = <<>> \/ ~PrefillWork THEN {policy.step}
    ELSE {0} \cup policy.slices

(* Mutant: nothing ends a deferral, neither the deadline nor that nobody   *)
(* decodes any more.                                                       *)
DecisionsEndless(gen) ==
    IF ~policy.adaptive \/ ~PrefillWork THEN {policy.step} ELSE {0} \cup policy.slices

(* _adaptive_prefill_decision: the slices it may allow, 0 to defer. *)
Decisions(gen) ==
    IF ~policy.adaptive \/ gen = <<>> \/ ~PrefillWork THEN {policy.step}
    ELSE IF OldestAge >= policy.maxDefer THEN {Min(policy.slices)}
    ELSE {0} \cup policy.slices

(* Prefill is put off; ready rows are promoted all the same. *)
DeferPrefill(gen) ==
    /\ ~Full(gen)
    /\ DeferredByCadence(gen) \/ 0 \in Decisions(gen)
    /\ generation' = gen \o Promoted(prompts, processing)
    /\ prompts' = Unpromoted(prompts, processing)
    /\ processing' = Aged(Unpromoted(processing, processing))
    /\ queue' = Aged(queue)

(* Mutant: the rows at work take no place. *)
PlacesOfEmptyBatch(gen) ==
    Admissible(gen, Min({policy.prefill, policy.completion - Len(gen), Len(queue)}))

(* How many requests the prompt batch takes in. *)
Places(gen) ==
    Admissible(gen, Min({policy.prefill - Len(prompts), policy.completion - Len(gen), Len(queue)}))

(* _make_batch: a row of the prompt batch and one of _currently_processing.*)
NewPrompts(jobs) ==
    [i \in DOMAIN jobs |->
        [uid |-> jobs[i].uid, tokens |-> jobs[i].history, limit |-> jobs[i].limit,
         extent |-> CandidateExtent(jobs[i])]]

NewProcessing(jobs) ==
    [i \in DOMAIN jobs |->
        [uid |-> jobs[i].uid, segments |-> jobs[i].segments, done |-> 0,
         total |-> SumFunction(jobs[i].segments), history |-> jobs[i].history,
         age |-> jobs[i].age]]

(* One slice of a prompt: never beyond the end of a segment. *)
SliceOf(row, chunk) == Min({row.segments[1], chunk})
Sliced(row, chunk) ==
    LET n == SliceOf(row, chunk)
    IN  [row EXCEPT !.done = @ + n, !.age = 0,
                    !.segments = IF n = @[1] THEN Tail(@) ELSE [row.segments EXCEPT ![1] = @ - n]]

(* Promotion, then one slice of every prompt that is left. *)
Process(gen, rows, proc, chunk) ==
    /\ generation' = gen \o Promoted(rows, proc)
    /\ LET waiting == Unpromoted(rows, proc)
           working == Unpromoted(proc, proc)
       IN  /\ prompts' = [i \in DOMAIN working |->
                  [waiting[i] EXCEPT !.tokens = @ + SliceOf(working[i], chunk)]]
           /\ processing' = [i \in DOMAIN working |-> Sliced(working[i], chunk)]

Prefill(gen) ==
    /\ ~Full(gen)
    /\ ~DeferredByCadence(gen)
    /\ \E taken \in {Selected(Places(gen))} : \E jobs \in {Rows(queue, taken)} :
         /\ queue' = Aged(Rows(queue, DOMAIN queue \ taken))
         /\ \E rows \in {prompts \o NewPrompts(jobs)}, proc \in {processing \o NewProcessing(jobs)},
               chunk \in Decisions(gen) \ {0} : Process(gen, rows, proc, chunk)

(* _next *)
Round ==
    \E matched \in SUBSET DOMAIN generation :
        /\ Decode(matched)
        /\ \E gen \in {After(matched)} : SkipPrefill(gen) \/ DeferPrefill(gen) \/ Prefill(gen)

BatchNext ==
    \/ \E p \in Prompts : Insert(p)
    \/ \E u \in Live : RemoveJob(u)
    \/ Round

--------------------------------------------------------------------------------
(* The lists hold rows of their kind, within the sizes of the batches but  *)
(* for generation, which prompts ready at the same time may overfill.      *)
BatchTypeOK ==
    /\ policy \in Policies
    /\ inserted \in 0..MaxJobs
    /\ left \subseteq 0..(inserted - 1)
    /\ steps \in 0..(policy.cadence - 1) /\ turn \in {0, 1}
    /\ \A i \in DOMAIN queue :
         /\ queue[i].uid \in 0..(inserted - 1)
         /\ queue[i].segments # <<>> /\ Last(queue[i].segments) = 1
    /\ \A i \in DOMAIN processing :
         /\ processing[i].segments # <<>> /\ Last(processing[i].segments) = 1
         /\ \A k \in DOMAIN processing[i].segments : processing[i].segments[k] > 0
    /\ Len(prompts) <= policy.prefill
    /\ Len(generation) < policy.completion + policy.prefill

(* A request is in one place, and none is lost: it is queued, in one of    *)
(* the batches, or its last response was given or it was removed.  The two *)
(* lists of the prompt batch speak of the same request at every place, and *)
(* what a row's cache holds is what was processed of its prompt and, later,*)
(* generated: the extent promised to the budget never changes, and no row  *)
(* passes its limit.                                                       *)
RowsAreConserved ==
    /\ Len(queue) + Len(prompts) + Len(generation) = Cardinality(Live)
    /\ Live \cup left = 0..(inserted - 1) /\ Live \cap left = {}
    /\ Len(prompts) = Len(processing)
    /\ \A i \in DOMAIN prompts :
         /\ prompts[i].uid = processing[i].uid
         /\ prompts[i].tokens = processing[i].history + processing[i].done
         /\ processing[i].done + SumFunction(processing[i].segments) = processing[i].total
    /\ \A i \in DOMAIN generation : generation[i].num < generation[i].limit
    /\ FinalExtents(generation) = [i \in DOMAIN (generation \o prompts) |->
                                      (generation \o prompts)[i].extent]

(* Without a window, what the rows in the batches may still grow to stays  *)
(* within the budget, whatever was admitted, finished or removed between,  *)
(* unless one request too large for it runs alone.                         *)
BudgetHolds ==
    policy.budget # 0 /\ policy.window = 1 =>
        \/ CohortBytes(FinalExtents(generation)) <= policy.budget
        \/ Len(prompts) + Len(generation) = 1

(* A round is possible: the decode batch is full, or prefill is put off or *)
(* takes one of the slices it may take.                                    *)
RoundIsPossible(matched) ==
    \E gen \in {After(matched)} : Full(gen) \/ Decisions(gen) # {}

(* The oldest request is never passed over when others are admitted, and a *)
(* prompt at work waits beyond the deadline of adaptive prefill only while *)
(* the decode batch is full.                                               *)
RoundsAreFair ==
    [][/\ (\E i \in DOMAIN queue : queue[i].uid \in Uids(prompts') \cup Uids(generation'))
            => queue[1].uid \in Uids(prompts') \cup Uids(generation')
       /\ (\E i \in DOMAIN processing' :
              /\ ~Ready(processing'[i])
              /\ processing'[i].age > policy.maxDefer
              /\ \E j \in DOMAIN processing : /\ processing[j].uid = processing'[i].uid
                                              /\ processing[j].age < processing'[i].age)
            => Len(generation') >= policy.completion]_vars

================================================================================
