# Verification of the mlx-lm serving core

TLA+ models of the stateful parts of `mlx_lm`: the HTTP server's request
path with its soft-reload gate (`mlx_lm/server.py`), the prompt cache and the
automatic prefix cache over it (`mlx_lm/models/cache.py`, `mlx_lm/apc.py`,
`mlx_lm/cow_cache.py`), the batch generator with its state
budget and its self-MTP lanes (`mlx_lm/generate.py`, `mlx_lm/batch_admission.py`,
the lane admission controller of `server.py`), the transactional cache
lineage used by segmented speculative decoding
(`mlx_lm/cache_branch_transaction.py`) and the cache capsules that move a
prompt cache into a batch off-thread (`mlx_lm/cache_capsule.py`). TLC checks
each model on small instances. TLAPS proves the safety properties of all of them
for every value of their constants. `PROJECT.json` lists runs, mutants, the
map from definitions to source lines, findings, hazards and theorems.

Run `tlc -config X.cfg M` for a run, `tlapm M.tla` for a proof module.

## The system

| Component | State | Operations | Talks to | What makes it correct |
|---|---|---|---|---|
| Admission gate (`ResponseGenerator._admit_request`, `_retire_request`, `soft_reload`) | `_inflight`, `_paused`, one condition variable, `_reload_lock`, the live configuration | admit, refuse, wait, retire; plan, close, drain, apply, clear, reopen | HTTP threads, reload route, prompt cache | a reload applies only when nobody is in flight; the count is exact; nobody sleeps for ever; the gate reopens on every path |
| Request threads (`generate`, its stream, the completion handler) | slot, response queue, registry of queues, stop flag | register, submit, receive, cancel, release | gate, generation thread | every slot comes back; answers arrive in order; a dead worker wakes everybody |
| Generation loop (`_generate`, `_serve_single`, `_serve_parallel_samples`) | request queue, put-back list, current batch kind, `drain_batch`, lanes | fetch, join, turn away, start a batch, serve alone, slice, close the batch | prompt cache, batch generator | no request lost, duplicated or put into a batch of another kind; every request is answered |
| Cache-delta lineage (`CacheDeltaLineage`, `CacheDeltaBranch`) | committed tip, generation, arena, checkpoint index, issued plans, branches | fork, append, promote, reject, prepare / commit / cancel compaction, dispose | segmented self-MTP, compaction adapters | one winner per generation; the committed tokens only grow; compaction frees nothing in use |
| Prompt cache (`models/cache.py`: `LRUPromptCache`, `PromptTrie`) | trie, recency order, byte counters by type | insert, fetch, extract, trim | generation loop | trie, order and counters agree; limits hold after every operation |
| Automatic prefix cache (`apc.py`) | resident entries, disk entries, byte counts, idle clock | lookup, insert, spill, restore, evict | generation loop, file system | an entry is resident or on disk; an answer is a prefix of the prompt; whoever holds a lost entry learns of it |
| Cache capsules (`cache_capsule.py`) | tickets, worker slot, owners, leases, generation | submit, build, adopt, fall back, cancel, close, lease | generation loop, worker threads | each built result is adopted or disposed exactly once; nothing stale is adopted |
| Copy-on-write cache (`cow_cache.py`, `cache_planes.py`) | owners and leases of frozen planes | freeze, fork, close | prefix cache | no plane freed while leased |
| Batch generator (`generate.py`, `batch_admission.py`) | queue, prompt and decode batches, step counter | insert, next, remove | generation loop | no row lost or in two places; the budget holds; every row advances and leaves |
| Self-MTP lanes (`MTPGenerationBatch` and `_next_mtp` of `generate.py`) | lanes, paused lanes, plain rows, width lock, starvation count | boundary, cycle, join, demote, migrate, remove | batch generator, lane admission | no lane lost between the three places; tokens in order; somebody always decodes |
| Self-MTP lane admission (`server.py`) | holds of the lanes queued last | decide, hold | batch generator, memory probe | the largest safe set at the greatest depth; holding back unsettles nobody |
| Everything else | | | | see "Not modelled" |

The hard behaviour is of two kinds. Interleavings: HTTP
threads, reload threads and one generation thread share queues, counters and
one condition variable; threads die, time out, cancel; branches and compactors
work against a tip that moves under them; a worker, its callback, a waiter and
`close` reach for one built result. And long sequences of legal calls on
structures that keep one fact in several places: the prefix cache keeps an
entry in a trie, a recency list, counters, a file and an owner, the batch
generator a row in four queues and batches, or a lane in three places. `PROJECT.json` lists each hazard at its line.

## Plan

1. `AdmissionGate` with the abstract `ReloadExclusion`. Done, checked, proved.
2. `Serving`, which extends the gate with the request threads and the
   generation loop. Done, checked, proved.
3. `CacheDeltaLineage` with the abstract `VersionedPrefix`. Done, checked,
   proved.
4. `CacheCapsule`: ticket, worker, waiter and pool close; leases against
   generation changes. Done, checked, proved.
5. `PromptTrie`, `PromptCache` and over them `PrefixCache`: trie, recency and
   byte accounting, then the disk tier (spill, restore, disk limit), the owners
   of frozen entries and the branches of lookups. Done, checked, proved.
6. `BatchGenerator`: insertion, prefill, promotion, decode and removal under
   each scheduling policy. Done, checked, proved.
7. `SelfMTPAdmission`, the server's lane controller as operators, and
   `SelfMTPBatch`, which composes it with `BatchGenerator` and adds the lanes.
   Done, checked in the run that checks `BatchGenerator`, and proved.
8. Later: planes and segments of `cow_cache.py`.

Every invariant, every action property of single steps and every refinement that
a passing run checks is a theorem. What is left to prove is what is left to model.

## Modules

### AdmissionGate, ReloadExclusion

`slot` says how far each request is with its in-flight slot (`new`, `waiting`,
`held`, `refused`, `retired`), `reload` how far each call of `soft_reload` is;
`inflight`, `paused`, `workerError` and `reloadLock` are the fields of the
same names. `asleep` is the set of threads inside `Condition.wait`: a waiting
thread only looks at its loop condition again when it is not in `asleep`, so a
missing `notify_all` shows as a deadlock of the waiters. Each critical section
of `_admission` is one action; `plan_soft_reload`, taking the lock, applying
and clearing happen outside it and are actions of their own. A deadline is an
action that may happen at any time (`RefuseDeadline`, `DrainDeadline`), never
one that must.

`lever` is one soft-reloadable key and `traceEpoch` flips when the compiled
traces are retired. `apply_soft_reload` and the two `clear` calls are taken
not to raise.

`ReloadExclusion` says what the gate is for: users of the configuration come
and go, at most `Limit` at a time, and it is replaced only while there are
none. `users` is mapped to the requests that hold a slot.

### Serving

Extends the gate. `phase` is where the thread of a request stands in
`generate`, its stream `_inner`, `_release` and the handler's `finally`;
`mailbox` is its response queue, `registered` is `_response_queues`, `stopped`
the contexts with `_should_stop`. The generation thread is `wpc` with `cur`,
`requests`, `unprocessed` (a stack, as in the code), `batch`, `drain`, `lanes`
and `toRemove`, the locals of `_generate`. Between two queue operations that
another thread can see lies one action, so the steps "put None" and "store the
prompt cache" are apart, as in the code.

A request has a class: its model, its route (`batch`, `single`, `nway`),
whether it asks for self-MTP and whether it is seeded. A cache entry remembers
who produced it and under which value of the lever; `regime` is that value at
the start of generation. The probe and the insertion path compute the batch
kind separately, as they do in the code: `ProbedKind` depends on memory,
`Kind` does not.

`Crash` is an exception that leaves `_generate`; `FailWaiting` is
`_fail_waiting_requests`, which takes its snapshot of the registry and fills
the queues later than `_generation_error` is set.

Left out: the distributed mode, metrics, injected faults, changes of cache
layout between models, lookup and eviction of the cache. The progress tuples
and the responses are one message, at most `MaxResponses` per request.

### CacheDeltaLineage, VersionedPrefix

Every public operation runs under the lineage's lock and is one action.
`tip`, `arena`, `index`, `arenaVersion`, `issued`, `closed` and `generation`
are the fields; `status`, `forkedAt`, `origin` and `branchTip` are those of the
branch handles; `Drop` is the garbage collection of a handle, which the
`WeakSet` of branches notices. A checkpoint carries the tokens of the base and
of its chain, so "promotion loses nothing" is a statement about prefixes; all
planes share one boundary (the code refuses anything else), so one sequence
stands for all of them. `job` is the plan a thread carries through
`materialize`, outside the lock; a thread holds one plan at a time and stands
for its `plan_id`. The adapter is outside this code: it returns the exact
content, something `commit_compaction` refuses, or raises.

`VersionedPrefix` is what the callers rely on: a committed sequence that only
grows, under a version that moves by one with each publication, until it is
given up.

### CacheCapsule

`thread` is where a request thread stands in `submit` and `_await_ticket`,
`worker` where the worker thread of a ticket and then its callback
`physical_done` are, `canceller` where each caller of `ticket.cancel` is (the
request thread and `close`). `state`, `builtDisposed` and `stageAborted` are the
ticket's fields, `active`, `tickets` and `poolClosed` the pool's, `owner`,
`releaseRequested` and `leases` the owner's. A read under a lock and the step
that depends on it are apart wherever the code releases the lock in between:
`CallbackReads` before `CallbackDisposes`, `LookAtFuture` before `Reclaim`,
`MarkCancelled` before both. `calls` counts what the adapter and the backing see:
adopt, discard, abort and release. `fresh` is the set of tickets whose source is
of the current generation, which is all the code ever asks of the counter. The
adapter is external: each call returns or raises. `product` is what `adopt` or
the fallback returned: a `CacheCapsuleProduct`, or from `adopt` any other value.
A request submits one ticket and awaits it once, on the thread that submitted it.

Limit of the claims, as the code has it: `_accept_product` refuses a product by
releasing it (`RejectProduct`), but a value of another type without releasing
anything (`RejectValue`, 977-978), and the ticket then becomes "cancelled"
without the built result being claimed for disposal (912-914). If the worker's
callback has already looked at the ticket, nobody gives that result back, so
`NothingIsLeft` promises the release of a `CacheCapsuleProduct` only; "exactly when
our ownership ends" (584) is about those. The adapter of the repository,
`e5rt_cache_capsule.py`, returns no other value. That computing a digest for the
check raises is not modelled either; it would leave by the same way.

### PromptTrie, PromptCache

Operators, no state. `Lists` has the list comprehensions of the code, `Rows` by
place and `Only` by value, which they share with `BatchGenerator`. A node of the trie is the sequence that leads to it, so a
trie is a set of nodes, closed under prefixes, and the entries at some of them.
`TrieAdd`, `TriePop` (which prunes the nodes that lead nowhere any more),
`CoveredBy` (`pop_prefixes`) and `TrieSearch` are its methods; the walk of
`search` for the nearest longer entry depends on the order of dictionaries,
for which `favour` stands. `PromptCache` adds `CacheOrder`, the byte counters,
insertion, eviction, `trim_to` and the choice of a lookup among exact, longer
and shorter entries, as operators on one record. Two peculiarities of the code
are kept: a stored prefix of one token is never reported (`last_index > 0`),
and an entry whose caches were spilled counts for no bytes.

### PrefixCache

`apc` is that record with the fields of `AutomaticPrefixCache`: `recent` is the
idle order, `files` and `disk` the disk tier, `owner` the
copy-on-write owners with their pins. `branch` maps every open branch to its
owner; `generation` is the capsule generation, of which only "it moved" is
kept. Each method under `_apc_lock` is one action (`Lookup`, `Store`,
`SpillIdle`, `TrimCache`, `Clear`) that does everything the method does:
restoring before a lookup spills others, which enforces the disk limit, which
may drop entries, and each dropped entry invalidates its owner and moves the
generation. Branches are closed and collected outside the lock at any time, by
`EndBranch`, and copied by `Fork`. `bad` is the set of paths whose disk operation fails in
a step. `Copies` bounds how many entries of one path, old and new, somebody
still remembers. What a lookup gives is compared with the prompt by
`AnswersMatchPrompt`, restated from the tokens alone.

Two behaviours of the code are modelled and not claimed as properties.
`apc.py:609-610` says candidates are hydrated before the selection inspects
them; restoring the shorter candidate makes room first and can spill the longer
one just restored, whose empty list of caches then counts as one that can be
trimmed. Such an answer carries no caches; `AnswersMatchPrompt` is about the
others. `CandidatesAreHydrated` states the comment; TLC refutes it with
`MaxBytes = 2, MaxDisk = 9`, and holds no run of its own. With a small disk
limit the same restore can drop the entry it is for, and the `KeyError` leaves
the lookup (a visit in state "raised"). Entries that cannot be frozen are lost by their
first restore when copy-on-write is on.

### BatchGenerator

`queue`, `processing`, `prompts` and `generation` are
`_unprocessed_sequences`, `_currently_processing`, `_prompt_batch` and
`_generation_batch`. A request is queued, in the prompt phase or in the decode
batch; in the prompt phase it has a row in each of the two parallel lists,
which stay apart as in the code. One call of `next`
is one action, `Round`: it
decodes, decides whether prefill is due, promotes what is finished, admits from
the queue under the budget and processes one slice. The policy (window, cadence, adaptive
prefill with its deadline, budget) is chosen at the start, as by the
constructor. Tokens are counted, not named; what a row samples matters only in
whether its stop sequence matched. Time is counted in rounds: adaptive prefill
may defer or choose any slice until the deadline has passed, and must not defer
after. `left` is history.

Limits of the claims, each as the code has it: `BudgetHolds` is about
`prefill_batch_window = 1`, since a wider window counts the cohort for the head
of the queue and then admits another one (only a library caller can combine the
two); the decode batch may hold `completion_batch_size + prefill_batch_size - 1`
rows, because promotion looks at the size before and not after; a
prompt at work can wait beyond `adaptive_prefill_max_defer_ms` while the decode
batch is full, and only then.

### SelfMTPAdmission, SelfMTPBatch

A generator made with self-MTP holds lanes instead of rows: a lane is given
several tokens a round, and the server's controller is asked, before every
round and before lanes join, which lanes may speculate and how deep. `SelfMTPAdmission` is
`decide` (`Plan`), `_fit` (`Fit`) and the callback around them, which holds a
lane that was queued at the last boundary back for a few more (`Held`,
`demoted`). `SelfMTPBatch` extends it and `BatchGenerator`; `policy.mtp` says
which kind of generator the constructor made, and `GeneratorNext` is the next
step of either. The record `mtp` is `MTPGenerationBatch` with the two lists the generator
keeps for lanes that go on as plain. `RoundOfLanes` is one call of `_next_mtp`,
composed of operators on that record in the order of the code: first tokens that
were not given yet, or else the boundary (`ApplyAdmission`), the first tokens it
attached, or a cycle (`Propose`); `DemoteStarved`; `MigratePlain`; `NextPlain`;
then the queue: places, budget, `AdmitJoining`, slices of adaptive prefill or
`MakeBatch` with `Extend`.

How many drafts were right and where a stop sequence matches is chosen in each
cycle, and what free memory reads at each of the several questions of a round. A token is a unit of cache. Whether a segmented batch ran as one,
which locks its width, depends on its caches and is a choice. `before` and
`asked` of a plain row are history.

`VerdictsAreSafe` compares `Plan` with the rule the docstring states
(`server.py:1697-1699`), restated over all subsets of lanes, for the lanes of
every reachable state with any part of the queue. `LanesKeepTheirOrder` is about
the generators the server builds, which have a controller whenever they have a
segmented batch, and about library use without one only where the code keeps
the order (divergence 2 below).

Divergences from comments met while modelling; the code is modelled as it is,
no property claims otherwise, and none has a run of its own:

1. `_fit` returns indices in the order of the rows, so the one plain lane is the
   first of those that fit and not, as the comment in `decide` has it, "only
   the cheapest lane".
2. Without a controller, a lane deferred by the width lock is attached in `next`
   after the last look for first tokens (`generate.py:4008-4020` says the token
   is given before the lane takes part in a cycle): its drafts overtake it, and
   with a limit of one token it is never given. Only a library caller builds
   such a generator.
3. The width lock is cleared when a boundary pauses every lane, although the
   cohort has not drained; and it stays set when all lanes of a cohort end in
   the cycle after which others join, so the second of these is deferred by a
   cohort that never ran (`generate.py:5476-5481` speaks of the consumer that
   has run).
4. `_final_extent_states` counts the lanes that speculate, not the paused and
   the plain ones. `BudgetHolds` is about generators without self-MTP.
5. The callback's `demoted` is one for the process while the identifiers of a
   new generator start again at 0. The model has one generator.

### Proof modules

`ServingProofs` (the gate, its refinement and the server), `CacheDeltaLineageProofs`,
`CacheCapsuleProofs`, `PrefixCacheProofs` (with the trie and the prompt cache),
`BatchGeneratorProofs` and `SelfMTPBatchProofs` (the lane controller and the lanes)
extend their component; the last one also extends the one before it. `ListTheorems`
holds what they share and what is not about the code: induction on numbers and finite
sets, sums over sets, minima, ranks, lists and list comprehensions. `FoldTheorems`
says that a loop, written as a fold, keeps an invariant that its body keeps; body and
invariant are constants of the module, and each loop has an instance of its own.
The `MC...` modules give the constants values that a `.cfg` cannot write.

## Runs

| Run | What it asks | Bounds and why they are enough |
|---|---|---|
| `gate` | counting, wakeups, reopening, exclusion; liveness of waiters | 3 requests, limit 2, 2 reloads, 2 settings: two requests inside while a third is refused or waits, and a reload that finds another one inside |
| `gate_traces` | finding: a reload planned during another one retires no trace | 1 request, 2 reloads |
| `serving` | ownership of waiting requests, kinds of a batch, order of answers; one setting per held slot; where a stale entry can come from; refinement of the gate | 2 requests of every pair of classes out of seven, both memory verdicts, 2 responses (a first and a last); one reload between 2 settings for the pairs of one class per route, which `ClassesMeet` selects, since a reload looks at no other part of a class |
| `serving_fair` | the worker dies or is stopped at any point: registry, wakeups; every request is answered and every slot returned | 2 requests of kinds that drain each other |
| `serving_stale`, `serving_blocked`, `serving_pressure` | findings (below) | 1 request |
| `capsule` | every build, stage and product given back once, in every order of completion, deadline, cancellation, refusal, close and generation change; leases | 2 tickets (one job, one that finds the slot busy or free again), 2 leases per owner, one close |
| `capsule_discard` | finding (below) | the same |
| `apc` | the places an entry is kept in agree; limits; owners and branches; what a lookup gives; who learns of a loss | 4 things to store (a prefix with and without sidecar, two continuations of it, one that can only be cut at marks), 4 prompts (shorter, longer, equal, diverging), 2 entries and 3 bytes resident, 3 bytes on disk: a third insertion evicts or spills, and a restore makes room by spilling; 2 branches, copy-on-write and disk tier on and off |
| `batch` | requests conserved; budget; verdicts safe; order of a lane's tokens; no request starved; everybody leaves | Without self-MTP: 4 requests of three shapes (one token; two segments after a cached prefix; three slices) under five policies: FIFO under a budget, with a cadence, a window, adaptive with and without budget. `maxDefer = 2` leaves a round in which prefill is put off, or takes any slice and any prompt or lane, before the deadline forces a slice. With 4 requests and 2 or 3 decode rows the batch is full while others wait. With it: 3 requests of three shapes (a restored prefix and four tokens to generate; a long cold prompt; one token) under four: physical, adaptive under a budget, segmented with and without a controller, depth 2. Free memory reads as nothing, enough for one plain lane, or enough for some lanes but, less the margin, not: lanes are paused, held, demoted, deferred and migrated. `Starved = 2` for the code's 8 and `MaxHolds = 1` for its 8 reach both sides of each counter in fewer rounds |
| `lineage` | promotion races, compaction races, dispose; refinement | 3 branches (two of one generation and one of the next), 2 compactors, chains of 3 tokens, 3 generations, a segment of two tokens so that positions are skipped |

Bounds in the models: `MaxResponses` (responses per request), `MaxLength` and
`MaxGeneration` (the lineage), `Copies` (entries of one path remembered),
`MaxJobs` and `LaneJobs` (requests inserted in the batch generator, without and
with self-MTP). A request and a branch handle are used once.
`CHECK_DEADLOCK FALSE` because every run ends or may: all requests served or refused,
the lineage disposed or at its bounds, the tickets through and the pool closed, all jobs out of the batch. Symmetry is used only in runs without
liveness properties; requests, settings, branches and compactors are
interchangeable there.

## Fairness

Weak fairness of each thread's next step: the operating system runs a thread
that can run. Deadlines, cancellation, crash, shutdown, a new reload and the
generation of a token get none of it, so liveness is never bought with a
timeout. One strong fairness condition: a lane that is in the batch at slice
after slice is eventually advanced, which the batch generator does by stepping
every row of its batch. The cancel and resume steps of a handler are one step
`ThreadStep`: a client that never reads is a thread that is not scheduled.

The batch generator has one thread, which calls `next` as long as it has a
request (`server.py`, `_generate`): weak fairness of a step that changes `turn`,
and that is a round of either kind. It is written by its effect so that TLC need not
compute every round twice, and `EveryoneLeaves` also says that a round is
possible as long as there is a request. Insertion and removal
get none. A stop sequence need never match and no draft need be right:
`max_tokens` ends every row. Free memory need never read well. That a deferral of
adaptive prefill ends comes from its deadline, or from nobody decoding any more,
when the code asks for no decision; each alone is enough for `EveryoneLeaves`,
without both it fails, and that the deadline itself is kept is `WaitersAreServed`.
That paused lanes go on comes from their demotion. None of it comes from fairness.

## Findings

1. `serving_stale`: the end of an answer is announced before its cache is
   stored (also for cancelled lanes), so an entry of the old setting can be
   stored after a reload has cleared the cache. `StaleEntryOutlivedItsSlot`
   shows that this gap is the only way in.
2. `serving_blocked`: a request admitted just before the worker dies registers
   its queue after the snapshot and waits for ever.
3. `serving_pressure`: under memory pressure a self-MTP request is put back
   and its batch rebuilt for ever, because the insertion path does not ask
   admission.
4. `gate_traces`: `old` is read before the reload lock, so a lever can move
   without retiring the compiled traces.

5. `capsule_discard`: an adopted result whose product is then refused is also
   discarded by the worker's callback, because that one refusal does not claim
   the disposal.

## Proofs

All from the constants' named assumptions: finite sets of requests and leases,
disjoint thread names, natural limits; tokens and segments are sequences; costs,
policies and prompts are what their constructors accept (no prompt and no stored
path is empty, sizes are natural numbers). Each invariant below was
first checked by TLC as an invariant of the component's run.

*Gate.* The invariant checked by TLC is not inductive: that a reload which
found the count at zero still finds it there when it writes needs the gate to
be closed by that reload. `GateInv` adds `DrainedMeansEmpty` to the counting,
gate and wakeup invariants. Counting uses the cardinality theorems
of `FiniteSetTheorems`. The refinement uses `GateInv`: `Admit` is `Enter`
because the count is the cardinality, `Apply` is `Replace` because nobody holds
a slot, everything else stutters.

*Serving.* `ServingImplementsGate` shows that every step of a handler, of a
reload or of the loop is a step of `AdmissionGate` or leaves its variables alone,
so `GateInv` holds in the server without being proved again. `ServingInv` adds to the
checked invariants: the shape of the state (`ServingShape`, `CacheTyped`), who may
be at work (`HandleIsAlone`: with a request in hand the loop has put none back;
`WorkHasBegun`: what has a lane or is served alone began to be generated, and was
submitted), that while the loop lives it has each waiting request in exactly one
place and no other (`LoopOwnsWaiters`), that a batch that is closed has no lanes
(`NoBatchNoLanes`) and which messages a thread's queue may hold, in which order, given
where the thread stands (`MailIsOrdered`). The proof
splits the steps by who takes them (`ServingSteps`, `BusySteps`), and frame
lemmas discard the steps that do not touch what an invariant speaks of.

*Lineage.* `LineageInv` adds to the checked invariants what a branch handle
means (an active branch holds two checkpoints, its origin a prefix of its tip;
it was forked no later than the current generation; the index points into the
arena) and what a plan means (`PlansAreHeld`: an issued plan is in its owner's
hands; if its generation is current it is for the committed tip and for a
version not newer than the arena's; if it would still be accepted, every active
branch is empty). From it follow the checked invariants and the refinement:
`Promote` extends the sequence because the promoted checkpoint lies on a chain
from the tip, `CommitCompaction` only rewrites it because the plan's tip is the
tip.

*Prefix cache.* The checked invariants are nowhere near inductive: they compare what
the structures say, and an operation reads one structure to change another.
`PrefixInv` is made of parts that each tie one structure to the stored entries:
the trie has just the nodes that lead to an entry (`Planted`), each recency list has
each path of its type once (`Listed`), the byte counts are sums over the entries
(`Weighed`); files and disk bytes are those of the entries on disk (`Stocked`), an owner
is valid for a resident frozen entry only (`Owned`). To this come what keeps an operation
on one entry from touching another one's file or owner (`Apart`: entries have different
identifiers) and what makes it sound to spill or to retire one: only the owner of a live
entry is pinned. The first three are the `Shelf`, the others the `Backed` half; both
together are `Whole`, which holds after every inner step, while the limits (`Ready`) and
the access order hold only when an operation ends.

An operation is a chain of loops: make room, restore, trim, retire what fell out. For each
step on an entry there is one lemma per half; for each loop an invariant, `Whole` and
a relation to the state the loop began in, which `FoldTheorems` carries over all
rounds: `Kept` (of spilling and restoring: entries only go, and what is not resident is
as it was), `Cut` (of eviction: entries and bytes only go), `Retired` (of the owners of the
lost). That a loop ends within its limit is part of its invariant: as long as it is
beyond it, each round took something away (`ByteHolds`, `SizeHolds`, `DiskHolds`). The operations then meet
`Outcome`: ready again, nobody's pins moved, and either nothing left the device or `moved` is set,
from which `LossMovesGeneration` follows. `AnswersMatchPrompt` needs of the search only
what it reports (`Reports`), and that a candidate it found is still stored when it is
answered with (`Found`): where a restore dropped one, the lookup has raised.

*Capsules.* `CapsuleInv` adds to the checked invariants where a ticket comes
from (`Beginnings`), that every pending ticket is one `close` finds
(`PendingIsListed`), that nobody disposes of a ticket before it is cancelled or
while it is adopted (`NobodyDisposes`), which thread an adoption belongs to
(`AdoptedOnce`), that the two claim flags stand for the calls they guard
(`DisposedOnce`), and that `_leases` is the number of open leases and the
release belongs to the last of them (`Owned`). `GivenBackOnce` follows from the
middle three: cancellation leads away from "pending" and so does adoption, and
a ticket takes only one of the two ways. `NothingIsLeft` needs to know who is still on the way: where the worker is
while the future is open (`JobSettles`), where the thread is in each state of the
ticket (`ThreadFollowsTicket`), and that a ticket which was given up is aborted or
disposed of, or else a canceller or the worker's callback has yet to do it
(`GivenUpIsReclaimed`); and that a refused capsule was released on the way out
(`ProductIsReturned`), which holds of no other value. When all are through, it is done.

*Lane controller.* `_fit` takes the cheapest lanes while they fit.
`PlanIsLargestSafe` says that no set of lanes that fits is larger, for any number
of lanes, costs and memory. The chosen lanes are an initial
segment of the order of cost; a larger set that fits would have, lane by lane in
that order, costs no smaller than those of a longer initial segment, which did
not fit (`OrderOfCost`, and sums over ranks in `ListTheorems`). `VerdictIsSafe`
carries this over the callback that holds lanes back: fewer lanes cost no more.

*Batch generator with self-MTP.* A round is a chain of operators on the record
`mtp`. `RoundOK(m, asked)` says that at every stage each request of `asked` is in
exactly one place (attached, paused, ready to go on as plain, plain, ended) and
that each lane still has a token to give; one lemma per stage (`CompleteOK`,
`ProposeOK`, `AdmittedOK`, `MigratePlainOK`, ...) says that the stage keeps it. `JoinOK`
is the same for the stages that move requests from the queue into lanes.
`GeneratorInv` is `RoundOK` between rounds with the queue, the requests that left and
the limits of batch and cohort; the limits need `JoiningFit`, what the admission of
joining lanes may answer. `LanesKeepTheirOrder` follows from it and one lemma on
steps (`WidthIsKept`).

*Batch generator without it.* `RowsInv` says that the lists hold rows of their
kind, that the two lists of the prompt phase stay parallel (`Paired`), and that a
request is in one place; the extent of a row, what it may grow to, never changes.
A round is cut at the points where the code may return: `Ends` says what holds there,
and `DecodeEnds`, the promotion, `TakenEnds` and the slice lead from one to the
next. For the budget, `BudgetInv` charges the rows in both batches for their final
extents (`Charge`); admission compares a sum that is no smaller with the budget
(`CommittedCovers`), and every other stage only shrinks batches (`AffordableLess`).
`WholeInv` joins the halves: a generator is of one kind for its life.

*Who is served.* `WaitersAreServed` speaks of single steps and follows from `WholeInv`.
Of rows, `Selected` has the head of the queue whatever the window is
(`HeadIsTaken`), and past the deadline adaptive prefill may not answer 0
(`DeadlineForces`). Of lanes, past the deadline the slice goes to the head
(`FirstAdvanced`), and a prompt after a slice is never the prompt it was.

Induction over data is out of the provers' reach in general, since the library's
theorems take an operator; where a proof needed one (sums, folds, the window's selection)
it is done by hand as a first-order argument: a set of naturals that contains 0 and
successors is all of them (`NatSet`), from the well-foundedness of `<`.

Only model-checked: liveness (`GateIsLive`, `RequestIsServed`,
`CrashReleasesRegistered`, `EveryoneLeaves`), which needs
fairness and `ENABLED`, and the findings, which are counterexamples.

## Not modelled

Device numerics (models, kernels, quantization, speculative acceptance), since
they are array programs; they are most of the lines of the repository. Training
and conversion tools, tool-call parsers and
chat templates, which are sequential functions of their input; default-off
scheduling policies, which are pure rankings of metadata; telemetry and
statistics. Of the modelled components: the distributed mode of the server, the
prefix cache's other model keys and `apc_backends.py`, planes and segments of
the copy-on-write cache, the n-way sample generator, asynchronous promotion to
QSA (off by default; one path of it raises out of `next` when a request with a
short output joins), and the caches of a segmented batch.
