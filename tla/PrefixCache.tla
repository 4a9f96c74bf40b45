------------------------------ MODULE PrefixCache ------------------------------
(* AutomaticPrefixCache of src/mlx_lm/apc.py over LRUPromptCache: entries  *)
(* that are frozen copy-on-write sources (src/mlx_lm/cow_cache.py), a disk *)
(* tier for the ones that do not fit, and the branches that lookups hand   *)
(* out.  Every operation of the cache runs under _apc_lock and is one      *)
(* action; branches are forked, closed and collected outside of it, at any *)
(* time.  Within an action the loops of the code are folds over the record *)
(* apc.  Which disk operations fail is the set bad of paths.               *)
(* Left out: statistics, the keys of other models, the invalidation of     *)
(* single planes or segments (nothing outside cow_cache.py asks for it),   *)
(* and unlink failing with an OSError, which leaves a file behind.         *)
EXTENDS PromptCache

CONSTANTS Stores,     \* what may be stored: [path, type, trim, marks, sidecar, size, stable]
          Queries,    \* the prompts that may be looked up
          Tokens,     \* the alphabet of the two
          MaxDisk,    \* bytes of the disk tier
          Trims,      \* the limits trim_to may be called with: [sequences, bytes]
          Copies,     \* entries of one path that may be remembered at a time
          Branches    \* the branches that may exist at a time

ASSUME PrefixAssumption ==
    /\ MaxDisk \in Nat
    /\ Copies \in Nat
    /\ Stores \subseteq [path : Seq(Tokens) \ {NoPath}, type : CacheTypes, trim : BOOLEAN,
                         marks : SUBSET Nat, sidecar : BOOLEAN, size : Nat, stable : BOOLEAN]
    /\ Queries \subseteq Seq(Tokens) \ {NoPath}
    /\ Trims \subseteq [sequences : Nat, bytes : Nat]
    /\ IsFiniteSet(Branches)

VARIABLES
    cow,         \* _cow_branching
    tier,        \* an idle_disk_dir was given
    apc,         \* the cache: see EmptyCache
    generation,  \* _capsule_generation modulo 2: moved or not since the last step
    branch       \* the owner of every open branch

vars == <<cow, tier, apc, generation, branch>>

(* An entry, its file and its owner share a name: a later entry of the same *)
(* path has another one as long as a branch or a file remembers the first.  *)
Ids == {s.path : s \in Stores} \X (1..Copies)
NoId == <<NoPath, 0>>
NoOwner == [valid |-> FALSE, pins |-> 0, held |-> FALSE]

(* order, bytes and bytesOf are those of LRUPromptCache; recent lists the  *)
(* paths by _apc_last_access_at; files and disk are the files of the tier  *)
(* and _disk_bytes; an owner is held while it keeps its source; moved says *)
(* that the operation advanced the generation.                             *)
EmptyCache ==
    [trie |-> EmptyTrie, order |-> [t \in CacheTypes |-> <<>>], bytes |-> 0,
     bytesOf |-> [t \in CacheTypes |-> 0], recent |-> <<>>, files |-> {}, disk |-> 0,
     owner |-> [i \in Ids |-> NoOwner], moved |-> FALSE]

Entry(c, p) == c.trie.entry[p]
Entries(c) == {Entry(c, p) : p \in Stored(c.trie)}
Resident(c) == {p \in Stored(c.trie) : Entry(c, p).resident}

Advance(c) == [c EXCEPT !.moved = TRUE]
Touch(c, p) == [c EXCEPT !.recent = Append(Only(@, ToSet(@) \ {p}), p)]
OldestFirst(c, Test(_)) == Only(c.recent, {p \in Stored(c.trie) : Test(p)})

--------------------------------------------------------------------------------
(* Owners and files of single entries *)

(* Mutant: invalidate lets go of the source whoever is still pinning it. *)
InvalidateAlways(c, i) ==
    [c EXCEPT !.owner[i].valid = FALSE, !.owner[i].held = FALSE]

(* COWCacheOwner.invalidate: the source goes when no branch pins it. *)
Invalidate(c, i) ==
    [c EXCEPT !.owner[i].valid = FALSE, !.owner[i].held = @ /\ c.owner[i].pins > 0]

(* _release_pin: the last branch of an invalid owner lets the source go. *)
ReleasePin(c, i) ==
    LET left == c.owner[i].pins - 1
    IN  [c EXCEPT !.owner[i].pins = left,
                  !.owner[i].held = @ /\ (c.owner[i].valid \/ left > 0)]

CloseSource(c, e) == IF e.frozen /\ e.resident THEN Invalidate(c, e.id) ELSE c
Pinned(c, e) == e.frozen /\ c.owner[e.id].pins > 0

RemoveFiles(c, e) ==
    IF e.filed
    THEN [c EXCEPT !.files = @ \ {e.id}, !.disk = Max({0, @ - e.size})]
    ELSE c

(* An entry that is no longer stored closes its source, removes its files. *)
Retire(c, e) == RemoveFiles(CloseSource(c, e), e)

(* _drop_entry_locked *)
Drop(c, p) ==
    LET e == Entry(c, p)
        out == [Uncount(c, e) EXCEPT !.trie = TriePop(@, p), !.order = OrderRemove(@, p)]
    IN  Advance(Retire(out, e))

--------------------------------------------------------------------------------
(* The disk tier *)

MaySpill(c, p, bad) ==
    /\ tier
    /\ Entry(c, p).resident
    /\ ~Pinned(c, Entry(c, p))
    /\ Entry(c, p).filed \/ p \notin bad

(* _spill_entry_locked.  An entry that still has its files is not written  *)
(* again; the names of a new file are fresh.                               *)
SpillQuietly(c, p) ==
    LET e == Entry(c, p)
        gone == [e EXCEPT !.resident = FALSE, !.filed = TRUE]
        filed == IF e.filed THEN c
                 ELSE [c EXCEPT !.files = @ \cup {e.id}, !.disk = @ + e.size]
    IN  [CloseSource(Uncount(filed, e), e) EXCEPT !.trie.entry[p] = gone]

Spill(c, p) == Advance(SpillQuietly(c, p))

Unfile(c, p) == [RemoveFiles(c, Entry(c, p)) EXCEPT !.trie.entry[p].filed = FALSE]

(* Mutant: only files of entries that are resident as well are removed. *)
EnforceDiskOnResident(c) ==
    FoldLeft(LAMBDA d, p : IF d.disk <= MaxDisk \/ ~Entry(d, p).resident THEN d
                           ELSE Unfile(d, p),
             c, OldestFirst(c, LAMBDA p : Entry(c, p).filed))

(* Mutant: an entry that is only on disk keeps its place without its files. *)
EnforceDiskFilesOnly(c) ==
    FoldLeft(LAMBDA d, p : IF d.disk <= MaxDisk THEN d ELSE Unfile(d, p),
             c, OldestFirst(c, LAMBDA p : Entry(c, p).filed))

(* _enforce_disk_limit_locked: the least recently used entries lose their  *)
(* files, and with them their place in the cache when they are not resident. *)
EnforceDisk(c) ==
    FoldLeft(LAMBDA d, p : IF d.disk <= MaxDisk THEN d
                           ELSE IF Entry(d, p).resident THEN Unfile(d, p)
                           ELSE Drop(d, p),
             c, OldestFirst(c, LAMBDA p : Entry(c, p).filed))

(* _spill_resident_budget_locked: spill the least recently used ones until *)
(* the rest fits, sparing the entry at keep unless it is all that is left. *)
(* The loop ends at the first one that cannot be written.                  *)
SpillToFit(c, limit, keep, bad) ==
    LET Spillable(d) == OldestFirst(d, LAMBDA p :
                          /\ Entry(d, p).resident
                          /\ ~Pinned(d, Entry(d, p))
                          /\ p # keep \/ d.bytes = Nbytes(Entry(d, p)))
        SpillOne(d) ==
            LET first == Spillable(d)
            IN  IF first # <<>> /\ MaySpill(d, Head(first), bad)
                THEN Spill(d, Head(first)) ELSE d
        done == Repeat(c, Cardinality(Stored(c.trie)), LAMBDA d : d.bytes > limit, SpillOne)
    IN  IF ~tier \/ done = c THEN c ELSE EnforceDisk(done)

(* _restore_entry_locked: room is made first, and that may drop the very   *)
(* entry that is wanted.  A loaded cache is frozen anew.  Where this fails *)
(* the entry stays as it is.                                               *)
Restore(c, p, bad) ==
    LET e == Entry(c, p)
        room == SpillToFit(c, Max({0, MaxBytes - e.size}), NoPath, bad)
        back == [e EXCEPT !.resident = TRUE, !.frozen = cow]
    IN  IF p \in Stored(room.trie) /\ p \notin bad /\ (cow => e.stable)
        THEN [Count(room, back) EXCEPT
                !.trie.entry[p] = back,
                !.owner[e.id] = IF cow THEN [valid |-> TRUE, pins |-> 0, held |-> TRUE]
                                ELSE NoOwner]
        ELSE room

--------------------------------------------------------------------------------
(* _lookup_locked.  A visit v is the cache, how far the search has come    *)
(* and what it found.  A candidate that was spilled is restored; one that  *)
(* cannot be is dropped, and the search starts again.  Reading or dropping *)
(* an entry that has gone meanwhile raises a KeyError.                     *)

VisitCandidate(v, p, bad) ==
    LET r == Restore(v.c, p, bad)
    IN  IF v.state # "visit" THEN v
        ELSE IF p \notin Stored(v.c.trie) THEN [v EXCEPT !.state = "raised"]
        ELSE IF Entry(v.c, p).resident THEN [v EXCEPT !.c = Touch(v.c, p)]
        ELSE IF p \notin Stored(r.trie) THEN [v EXCEPT !.c = r, !.state = "raised"]
        ELSE IF Entry(r, p).resident THEN [v EXCEPT !.c = Touch(r, p)]
        ELSE [v EXCEPT !.c = Drop(r, p), !.state = "search"]

Candidates(s) ==
    LET found == <<s.exact, s.longer, s.shorter>>
    IN  Only(found, ToSet(found) \ {NoPath})

SearchAndVisit(v, q, favour, bad) ==
    LET s == TrieSearch(v.c.trie, q, favour)
        w == FoldLeft(LAMBDA x, p : VisitCandidate(x, p, bad),
                      [v EXCEPT !.state = "visit", !.found = s], Candidates(s))
        kept == \A p \in ToSet(Candidates(s)) : p \in Stored(w.c.trie)
    IN  IF w.state # "visit" THEN w
        ELSE [w EXCEPT !.state = IF kept THEN "ready" ELSE "raised"]

Hydrate(c, q, favour, bad) ==
    Repeat([c |-> c, state |-> "search", found |-> TrieSearch(c.trie, q, favour)],
           Cardinality(Stored(c.trie)) + 1,
           LAMBDA v : v.state = "search",
           LAMBDA v : SearchAndVisit(v, q, favour, bad))

(* The deepest entry with a sidecar at a prefix of q is preferred to any   *)
(* entry without one: draft and target state compose only where both were  *)
(* taken.                                                                  *)
Answer(c, q, s, favour) ==
    LET joint == {p \in ToSet(Candidates(s)) : /\ Entry(c, p).resident /\ Entry(c, p).sidecar
                                              /\ IsStrictPrefix(p, q)}
        best == CHOOSE p \in joint : \A x \in joint : Len(x) <= Len(p)
    IN  IF joint # {}
        THEN [path |-> best, at |-> Len(best), rest |-> Len(q) - Len(best)]
        ELSE FetchNearest(c.trie, q, TrieSearch(c.trie, q, favour))

(* What the operation d leaves: the cache, and the generation moved or not. *)
Publish(result) == \E d \in {result} :
    /\ apc' = [d EXCEPT !.moved = FALSE,
                        !.recent = Only(@, Stored(d.trie))]
    /\ generation' = IF d.moved THEN 1 - generation ELSE generation
    /\ UNCHANGED <<cow, tier>>

BadSets(c) == {{}} \cup IF tier THEN {{p} : p \in Stored(c.trie)} ELSE {}

(* A branch is taken from the source of the entry; with an ordinary list   *)
(* the caller gets a deep copy, of which the cache keeps no trace.         *)
Lookup(q) ==
    \E favour \in Tokens, bad \in BadSets(apc) : \E h \in {Hydrate(apc, q, favour, bad)} :
      LET r == Answer(h.c, q, h.found, favour)
          e == Entry(h.c, r.path)
      IN  IF h.state = "ready" /\ r.path # NoPath /\ e.resident /\ e.frozen
          THEN \E b \in Branches :
                 /\ branch[b] = NoId
                 /\ Publish([h.c EXCEPT !.owner[e.id].pins = @ + 1])
                 /\ branch' = [branch EXCEPT ![b] = e.id]
          ELSE Publish(h.c) /\ UNCHANGED branch

--------------------------------------------------------------------------------
(* _store_locked *)

FreeIds(c, p) == {n \in 1..Copies : /\ \A e \in Entries(c) : e.id # <<p, n>>
                                    /\ <<p, n>> \notin c.files
                                    /\ \A b \in Branches : branch[b] # <<p, n>>}

NewEntry(s, i) ==
    [id |-> i, size |-> s.size, type |-> s.type, trim |-> s.trim, marks |-> s.marks,
     sidecar |-> s.sidecar, stable |-> s.stable, frozen |-> cow /\ s.stable,
     resident |-> TRUE, filed |-> FALSE]

(* The base class inserts, without a byte limit where the disk tier takes  *)
(* the surplus.  The entries it let go of are retired, and so is the new   *)
(* one when it was evicted at once.  A cache with fields that cannot be     *)
(* frozen is kept as an ordinary list.  Too long a prompt is not stored.    *)
Store(s) ==
    \E bad \in BadSets(apc) :
      LET i == <<s.path, Min(FreeIds(apc, s.path))>>
          e == NewEntry(s, i)
          owned == IF e.frozen
                   THEN [apc EXCEPT !.owner[i] = [valid |-> TRUE, pins |-> 0, held |-> TRUE]]
                   ELSE apc
          limit == IF tier THEN MaxBytes + apc.bytes + e.size ELSE MaxBytes
          stored == Insert(owned, s.path, e, limit)
          dead == (Entries(apc) \cup {e}) \ Entries(stored)
          kept == Advance(FoldSet(LAMBDA x, d : Retire(d, x), stored, dead))
      IN  /\ Len(s.path) <= MaxTokens
          /\ FreeIds(apc, s.path) # {}
          /\ Publish(IF s.path \in Stored(kept.trie)
                     THEN SpillToFit(Touch(kept, s.path), MaxBytes, s.path, bad)
                     ELSE kept)
          /\ UNCHANGED branch

(* spill_idle_entries: the n least recently used ones have been idle long  *)
(* enough.                                                                 *)
SpillIdle ==
    /\ tier
    /\ \E n \in 1..Len(apc.recent), bad \in BadSets(apc) :
         LET idle == Only(SubSeq(apc.recent, 1, n), {p \in Stored(apc.trie) : MaySpill(apc, p, bad)})
         IN  /\ idle # <<>>
             /\ Publish(EnforceDisk(FoldLeft(Spill, apc, idle)))
             /\ UNCHANGED branch

(* _trim_to_locked: the generation moves when an entry went. *)
TrimCache(l) ==
    LET cut == TrimTo(apc, l.sequences, l.bytes)
        dead == Entries(apc) \ Entries(cut)
        kept == FoldSet(LAMBDA x, d : Retire(d, x), cut, dead)
    IN  /\ dead # {}
        /\ Publish(Advance(kept))
        /\ UNCHANGED branch

(* _clear_locked: a new trie and new lists, and every old entry retired. *)
Clear ==
    LET fresh == [apc EXCEPT !.trie = EmptyTrie, !.order = EmptyCache.order,
                             !.bytes = 0, !.bytesOf = EmptyCache.bytesOf]
        kept == FoldSet(LAMBDA x, d : Retire(d, x), fresh, Entries(apc))
    IN  /\ Entries(apc) # {}
        /\ Publish(Advance(kept))
        /\ UNCHANGED branch

--------------------------------------------------------------------------------
(* Branches, outside the lock of the cache *)

(* copy.deepcopy of a branch, under its close lock: branch_live pins the   *)
(* owner again even after the entry has left the cache.                    *)
Fork(b) ==
    /\ branch[b] # NoId
    /\ apc.owner[branch[b]].pins > 0
    /\ \E d \in Branches : branch[d] = NoId /\ branch' = [branch EXCEPT ![d] = branch[b]]
    /\ apc' = [apc EXCEPT !.owner[branch[b]].pins = @ + 1]
    /\ UNCHANGED <<cow, tier, generation>>

(* A branch ends: it is closed, or the garbage collector takes it.  Both    *)
(* run the same weakref.finalize, which gives the pin back once; whatever   *)
(* comes after the first finds the branch closed and does nothing.          *)
EndBranch(b) ==
    /\ branch[b] # NoId
    /\ branch' = [branch EXCEPT ![b] = NoId]
    /\ apc' = ReleasePin(apc, branch[b])
    /\ UNCHANGED <<cow, tier, generation>>

--------------------------------------------------------------------------------

PrefixInit ==
    /\ cow \in BOOLEAN
    /\ tier \in BOOLEAN
    /\ apc = EmptyCache
    /\ generation = 0
    /\ branch = [b \in Branches |-> NoId]

PrefixNext ==
    \/ \E q \in Queries : Lookup(q)
    \/ \E s \in Stores : Store(s)
    \/ SpillIdle
    \/ \E l \in Trims : TrimCache(l)
    \/ Clear
    \/ \E b \in Branches : Fork(b) \/ EndBranch(b)

PrefixSpec == PrefixInit /\ [][PrefixNext]_vars

--------------------------------------------------------------------------------
(* Properties *)

EntryType == [id : Ids, size : Nat, type : CacheTypes, trim : BOOLEAN, marks : SUBSET Nat,
              sidecar : BOOLEAN, stable : BOOLEAN, frozen : BOOLEAN,
              resident : BOOLEAN, filed : BOOLEAN]

(* The state keeps its shape; an entry that is not resident has its files. *)
PrefixTypeOK ==
    /\ cow \in BOOLEAN /\ tier \in BOOLEAN
    /\ generation \in {0, 1}
    /\ branch \in [Branches -> Ids \cup {NoId}]
    /\ apc.owner \in [Ids -> [valid : BOOLEAN, pins : Nat, held : BOOLEAN]]
    /\ \A e \in Entries(apc) : e \in EntryType /\ (e.resident \/ e.filed)
    /\ apc.files \subseteq Ids

(* Trie, recency lists and access times describe the same entries: every   *)
(* node leads to an entry (a search below a node relies on it), and every  *)
(* entry is listed once, in the list of its own type (evictions rely on    *)
(* that).                                                                  *)
StructuresAgree ==
    LET paths == Stored(apc.trie)
        Lists(seq, set) == ToSet(seq) = set /\ Len(seq) = Cardinality(set)
    IN  /\ apc.trie.nodes = {Root} \cup UNION {Prefixes(p) : p \in paths}
        /\ \A t \in CacheTypes : Lists(apc.order[t], {p \in paths : Entry(apc, p).type = t})
        /\ Lists(apc.recent, paths)

(* The counters that evictions, spills and reports go by equal what is     *)
(* there, by type too, and the files of the tier are those of the entries: *)
(* no operation, whatever fails in it, leaves a file or a byte behind.     *)
CountersMatchEntries ==
    LET paths == Stored(apc.trie)
        BytesOf(set) == SumFunction([p \in set |-> Nbytes(Entry(apc, p))])
        filed == {e \in Entries(apc) : e.filed}
    IN  /\ apc.bytes = BytesOf(paths)
        /\ \A t \in CacheTypes : apc.bytesOf[t] = BytesOf({p \in paths : Entry(apc, p).type = t})
        /\ apc.files = {e.id : e \in filed}
        /\ apc.disk = SumFunction([e \in filed |-> e.size])

(* The cache is one thing: what describes the entries and what counts them *)
(* was changed together by every insertion, eviction, spill, restore, drop,*)
(* trim and clear.                                                         *)
CacheIsConsistent == StructuresAgree /\ CountersMatchEntries

(* Whenever the lock is free the cache is within its limits: entries, disk *)
(* bytes, and resident bytes where no disk tier takes the surplus.         *)
LimitsHold ==
    /\ OrderLen(apc.order) <= MaxSize
    /\ apc.disk <= MaxDisk
    /\ tier \/ apc.bytes <= MaxBytes

(* The pins of a source are the branches still open, it is released exactly *)
(* when it is invalid and unpinned, and it is invalid exactly when no entry *)
(* of the cache holds it: neither a live branch nor the cache loses it, and *)
(* nobody leaks it, however forks and closes fall between the operations.   *)
SourcesFollowTheirUsers ==
    \A i \in Ids :
      LET o == apc.owner[i]
          users == {b \in Branches : branch[b] = i}
      IN  /\ o.pins = Cardinality(users)
          /\ o.held = (o.valid \/ o.pins > 0)
          /\ o.valid = (\E e \in Entries(apc) : e.id = i /\ e.resident /\ e.frozen)

(* The answer to any prompt, whatever was spilled, restored or cut back    *)
(* for it and whichever disk operation failed in that, is the state of its *)
(* own first tokens: it stands at a position the entry can be put to, the  *)
(* tokens up to there agree, and at least one token is left to compute the *)
(* next logits from.  Answers from an entry that a later restore spilled   *)
(* again are the subject of CandidatesAreHydrated.                         *)
AnswersMatchPrompt ==
    \A q \in Queries, favour \in Tokens, bad \in BadSets(apc) :
      \A h \in {Hydrate(apc, q, favour, bad)} :
      LET r == Answer(h.c, q, h.found, favour)
          e == Entry(h.c, r.path)
      IN  h.state = "ready" /\ r.path # NoPath /\ e.resident =>
            /\ r.rest > 0
            /\ r.at = Len(q) - r.rest
            /\ IsPrefix(SubSeq(q, 1, r.at), r.path)
            /\ e.trim \/ r.at = Len(r.path) \/ r.at \in e.marks

(* Whoever captured the generation sees it move when an entry it may have  *)
(* taken state from leaves the device, by eviction, replacement, spill,    *)
(* drop or clear, and also where this is the by-product of a lookup.       *)
LossMovesGeneration ==
    [][LET Loaded(c) == {Entry(c, p).id : p \in Resident(c)}
       IN  ~(Loaded(apc) \subseteq Loaded(apc')) => generation' # generation]_vars

(* "Hydrate only the exact/nearest candidates before the established APC   *)
(* selection logic inspects their offsets and trim capabilities"           *)
(* (apc.py:609-610): after the search every candidate is resident.             *)
CandidatesAreHydrated ==
    \A q \in Queries, favour \in Tokens : \A h \in {Hydrate(apc, q, favour, {})} :
          /\ h.state = "ready"
          /\ \A p \in ToSet(Candidates(h.found)) : Entry(h.c, p).resident
================================================================================
