-------------------------------- MODULE Serving --------------------------------
(***************************************************************************)
(* ResponseGenerator of src/mlx_lm/server.py: HTTP threads hand requests   *)
(* to one generation thread through a queue and read the answer from a     *)
(* queue of their own, behind the gate of AdmissionGate.                   *)
(*                                                                         *)
(* An HTTP thread runs generate() and then the completion handler, which   *)
(* iterates over the stream and finally calls ctx.stop() and               *)
(* stream.close().  The generation thread runs _generate: it joins         *)
(* requests of one kind into a continuous batch, drains the batch when a   *)
(* request cannot join, and serves the others one at a time.               *)
(*                                                                         *)
(* Simplifications.  A request is sent once; its model, its route and its  *)
(* need of a seed are fixed when it is sent.  The text of a response and   *)
(* the prompt-progress tuples are one message "token".  A request gets at  *)
(* most MaxResponses of them.  A prompt-cache entry is the lever value it  *)
(* was computed under and, as history, whether it was stored after its     *)
(* request gave the slot back; lookup, eviction and the disk tier are not  *)
(* modelled here.  All models share one cache layout.  Metrics, injected   *)
(* faults and the distributed mode are left out.                           *)
(***************************************************************************)
EXTENDS AdmissionGate, Sequences

CONSTANTS
    Classes,       \* the classes of requests: model, route, mtp, seeded
    MaxResponses,  \* the most responses a request receives (max_tokens)
    Memory,        \* what the memory probe may report: "ample", "tight"
    MayCrash,      \* whether the generation thread may raise
    MayShutDown,   \* whether stop_and_join may be called
    NoBatch,       \* batch_generator is None
    NoRequest,     \* no request in hand
    NoSetting      \* generation of the request has not begun

ASSUME ResponsesAssumption == MaxResponses \in Nat \ {0}
ASSUME NoSettingAssumption == NoSetting \notin Settings
ASSUME NoRequestAssumption == NoRequest \notin Requests
ASSUME ClassesAssumption ==
    \A k \in Classes : /\ k.route \in {"batch", "single", "nway"}
                       /\ k.mtp \in BOOLEAN
                       /\ k.seeded \in BOOLEAN

VARIABLES
    class,        \* the class of each request
    phase,        \* where the thread of each request is
    mailbox,      \* response_queue of each request
    registered,   \* _response_queues
    stopped,      \* the requests whose context has _should_stop set
    requests,     \* self.requests
    unprocessed,  \* unprocessed_requests
    batch,        \* current_batch_kind, or NoBatch
    drain,        \* drain_batch
    lanes,        \* the keys of batch_results
    toRemove,     \* uids_to_remove
    wpc,          \* where the generation thread is
    cur,          \* the request the generation thread has in hand
    remaining,    \* responses a request may still get
    regime,       \* the lever value under which generation of a request began
    cache,        \* prompt_cache
    stopping      \* _stop

threadVars == <<phase, registered, stopped>>
loopVars == <<requests, unprocessed, batch, drain, lanes, toRemove, wpc, cur>>
workVars == <<remaining, regime>>
vars == <<gateVars, class, threadVars, mailbox, loopVars, workVars, cache, stopping>>

Messages == {"context", "token", "none", "error"}
Phases == {"none", "register", "submit", "context", "caller", "next",
           "unregister", "retire", "stop", "closed"}
Alive == {"poll", "handle", "slice", "store", "single", "ended", "announce", "keep"}
Kinds == {<<k.model, m>> : k \in Classes, m \in {"plain", "mtp"}}

ServingInit ==
    /\ GateInit
    /\ class \in [Requests -> Classes]
    /\ phase = [c \in Requests |-> "none"]
    /\ mailbox = [c \in Requests |-> <<>>]
    /\ registered = {}
    /\ stopped = {}
    /\ requests = <<>>
    /\ unprocessed = <<>>
    /\ batch = NoBatch
    /\ drain = FALSE
    /\ lanes = {}
    /\ toRemove = {}
    /\ wpc = "poll"
    /\ cur = NoRequest
    /\ remaining = [c \in Requests |-> MaxResponses]
    /\ regime = [c \in Requests |-> NoSetting]
    /\ cache = {}
    /\ stopping = FALSE

Put(c, m) == mailbox' = [mailbox EXCEPT ![c] = Append(@, m)]
Entry(c) == [setting |-> regime[c], late |-> slot[c] # "held"]

--------------------------------------------------------------------------------
(* The thread of a request: generate, its stream, the completion handler.  *)

Move(c, here, there) ==
    /\ phase[c] = here
    /\ phase' = [phase EXCEPT ![c] = there]

ThreadOnly == UNCHANGED <<class, loopVars, workVars, cache, stopping>>

(* Mutant: generate takes its slot without asking the gate. *)
EnterGateUnchecked(c) ==
    /\ slot[c] = "new"
    /\ slot' = [slot EXCEPT ![c] = "held"]
    /\ inflight' = inflight + 1
    /\ Move(c, "none", "register")
    /\ ThreadOnly
    /\ UNCHANGED <<asleep, paused, workerError, reloadVars, configVars, registered,
                   stopped, mailbox>>

EnterGate(c) ==
    /\ Admit(c)
    /\ Move(c, "none", "register")
    /\ ThreadOnly
    /\ UNCHANGED <<registered, stopped, mailbox>>

Register(c) ==
    /\ Move(c, "register", "submit")
    /\ registered' = registered \cup {c}
    /\ ThreadOnly
    /\ UNCHANGED <<gateVars, stopped, mailbox>>

Submit(c) ==
    /\ Move(c, "submit", "context")
    /\ requests' = Append(requests, c)
    /\ UNCHANGED <<gateVars, class, registered, stopped, mailbox, unprocessed, batch,
                   drain, lanes, toRemove, wpc, cur, workVars, cache, stopping>>

(* generate blocks for the context; the stream blocks for a response.      *)
Receive(c) ==
    /\ phase[c] \in {"context", "next"}
    /\ mailbox[c] # <<>>
    /\ mailbox' = [mailbox EXCEPT ![c] = Tail(@)]
    /\ phase' = [phase EXCEPT ![c] = IF Head(mailbox[c]) \in {"none", "error"}
                                     THEN "unregister" ELSE "caller"]
    /\ ThreadOnly
    /\ UNCHANGED <<gateVars, registered, stopped>>

(* The handler asks for the next response. *)
Resume(c) ==
    /\ Move(c, "caller", "next")
    /\ ThreadOnly
    /\ UNCHANGED <<gateVars, registered, stopped, mailbox>>

(* The handler gives up: ctx.stop(), then close() of the stream. *)
Cancel(c) ==
    /\ Move(c, "caller", "unregister")
    /\ stopped' = stopped \cup {c}
    /\ ThreadOnly
    /\ UNCHANGED <<gateVars, registered, mailbox>>

(* The progress callback raised: the stream releases before ctx.stop().    *)
Abort(c) ==
    /\ Move(c, "caller", "unregister")
    /\ ThreadOnly
    /\ UNCHANGED <<gateVars, registered, stopped, mailbox>>

(* Mutant: _release forgets the registry. *)
UnregisterNever(c) ==
    /\ Move(c, "unregister", "retire")
    /\ ThreadOnly
    /\ UNCHANGED <<gateVars, registered, stopped, mailbox>>

(* _release *)
Unregister(c) ==
    /\ Move(c, "unregister", "retire")
    /\ registered' = registered \ {c}
    /\ ThreadOnly
    /\ UNCHANGED <<gateVars, stopped, mailbox>>

ReleaseSlot(c) ==
    /\ Move(c, "retire", "stop")
    /\ Retire(c)
    /\ ThreadOnly
    /\ UNCHANGED <<registered, stopped, mailbox>>

(* The handler's finally; without a context the flag is never read. *)
StopContext(c) ==
    /\ Move(c, "stop", "closed")
    /\ stopped' = stopped \cup {c}
    /\ ThreadOnly
    /\ UNCHANGED <<gateVars, registered, mailbox>>

--------------------------------------------------------------------------------
(* The generation thread: fetching a request. *)

LoopOnly == UNCHANGED <<gateVars, class, threadVars, stopping>>
Batched == UNCHANGED <<batch, drain, lanes>>

Polling == wpc = "poll" /\ ~stopping

(* Mutant: the request put back is looked at, not popped. *)
DequeuePeeking ==
    /\ Polling
    /\ ~drain
    /\ \/ unprocessed # <<>> /\ cur' = unprocessed[Len(unprocessed)] /\ UNCHANGED requests
       \/ /\ unprocessed = <<>>
          /\ requests # <<>>
          /\ cur' = Head(requests)
          /\ requests' = Tail(requests)
    /\ wpc' = "handle"
    /\ LoopOnly
    /\ Batched
    /\ UNCHANGED <<unprocessed, toRemove, mailbox, workVars, cache>>

(* unprocessed_requests.pop() takes the request put back last. *)
Dequeue ==
    /\ Polling
    /\ ~drain
    /\ \/ /\ unprocessed # <<>>
          /\ cur' = unprocessed[Len(unprocessed)]
          /\ unprocessed' = SubSeq(unprocessed, 1, Len(unprocessed) - 1)
          /\ UNCHANGED requests
       \/ /\ unprocessed = <<>>
          /\ requests # <<>>
          /\ cur' = Head(requests)
          /\ requests' = Tail(requests)
          /\ UNCHANGED unprocessed
    /\ wpc' = "handle"
    /\ LoopOnly
    /\ Batched
    /\ UNCHANGED <<toRemove, mailbox, workVars, cache>>

(* _batch_kind_key of the request as the insertion path computes it.       *)
Kind(c) == <<class[c].model, IF class[c].mtp THEN "mtp" ELSE "plain">>

(* The kind the probe computes: admission may turn self-MTP into plain.    *)
ProbedKind(c, memory) ==
    <<class[c].model, IF class[c].mtp /\ memory = "ample" THEN "mtp" ELSE "plain">>

MayJoin(c) == class[c].model = batch[1] /\ class[c].route = "batch"
(* Mutant: candidate_kind is not compared with current_batch_kind. *)
JoinsAnyKind(c) == MayJoin(c) /\ ~(class[c].seeded /\ ~class[c].mtp)

Joins(c) == MayJoin(c) /\ Kind(c) = batch /\ ~(class[c].seeded /\ ~class[c].mtp)

(* The request becomes a lane of the batch. *)
JoinBatch(c) ==
    /\ wpc = "handle" /\ cur = c
    /\ batch # NoBatch
    /\ Joins(c)
    /\ Put(c, "context")
    /\ lanes' = lanes \cup {c}
    /\ regime' = [regime EXCEPT ![c] = lever]
    /\ wpc' = "poll"
    /\ cur' = NoRequest
    /\ LoopOnly
    /\ UNCHANGED <<requests, unprocessed, batch, drain, toRemove, remaining, cache>>

(* Mutant: the batch is drained, the request is not put back. *)
TurnAwayDropping(c) ==
    /\ wpc = "handle" /\ cur = c
    /\ batch # NoBatch
    /\ ~Joins(c)
    /\ drain' = TRUE
    /\ wpc' = "poll"
    /\ cur' = NoRequest
    /\ LoopOnly
    /\ UNCHANGED <<requests, unprocessed, batch, lanes, toRemove, mailbox, workVars, cache>>

(* The request cannot join: drain the batch and try again without one.     *)
TurnAway(c) ==
    /\ wpc = "handle" /\ cur = c
    /\ batch # NoBatch
    /\ ~Joins(c)
    /\ drain' = TRUE
    /\ unprocessed' = Append(unprocessed, c)
    /\ wpc' = "poll"
    /\ cur' = NoRequest
    /\ LoopOnly
    /\ UNCHANGED <<requests, batch, lanes, toRemove, mailbox, workVars, cache>>

(* A BatchGenerator for the probed kind; the request joins it when it is   *)
(* fetched again.                                                          *)
StartBatch(c) ==
    /\ wpc = "handle" /\ cur = c
    /\ batch = NoBatch
    /\ class[c].route = "batch"
    /\ \E memory \in Memory :
         /\ ~(class[c].seeded /\ ProbedKind(c, memory)[2] = "plain")
         /\ batch' = ProbedKind(c, memory)
    /\ unprocessed' = Append(unprocessed, c)
    /\ wpc' = "poll"
    /\ cur' = NoRequest
    /\ LoopOnly
    /\ UNCHANGED <<requests, drain, lanes, toRemove, mailbox, workVars, cache>>

(* _serve_request, with the context it publishes first.                    *)
ServeAlone(c) ==
    /\ wpc = "handle" /\ cur = c
    /\ batch = NoBatch
    /\ \/ class[c].route # "batch"
       \/ /\ class[c].seeded
          /\ \E memory \in Memory : ProbedKind(c, memory)[2] = "plain"
    /\ Put(c, "context")
    /\ regime' = [regime EXCEPT ![c] = lever]
    /\ wpc' = "single"
    /\ LoopOnly
    /\ Batched
    /\ UNCHANGED <<requests, unprocessed, toRemove, cur, remaining, cache>>

(* Tokenizing, loading the model, the probe, its admission or the          *)
(* constructor raised: the requester gets the exception.                   *)
HandleFails(c) ==
    /\ wpc = "handle" /\ cur = c
    /\ batch # NoBatch => class[c].model = batch[1] /\ class[c].route # "nway"
    /\ Put(c, "error")
    /\ wpc' = "poll"
    /\ cur' = NoRequest
    /\ LoopOnly
    /\ Batched
    /\ UNCHANGED <<requests, unprocessed, toRemove, workVars, cache>>

--------------------------------------------------------------------------------
(* The generation thread: one request alone (_serve_single, and            *)
(* _serve_parallel_samples for n > 1, which stores before it answers).     *)

Alone(c, here, there) ==
    /\ wpc = here /\ cur = c
    /\ wpc' = there
    /\ cur' = IF there = "poll" THEN NoRequest ELSE c
    /\ LoopOnly
    /\ Batched
    /\ UNCHANGED <<requests, unprocessed, toRemove, regime>>

RespondAlone(c) ==
    /\ Put(c, "token")
    /\ remaining[c] > 0
    /\ remaining' = [remaining EXCEPT ![c] = @ - 1]
    /\ \/ Alone(c, "single", "ended")
       \/ Alone(c, "single", "single") /\ c \notin stopped /\ remaining[c] > 1
    /\ UNCHANGED cache

(* rqueue.put(None), before the store of _serve_single and after that of   *)
(* _serve_parallel_samples.                                                *)
AnnounceEnd(c) ==
    /\ Put(c, "none")
    /\ \/ Alone(c, "ended", "keep") /\ class[c].route # "nway"
       \/ Alone(c, "announce", "poll")
    /\ UNCHANGED <<remaining, cache>>

(* A cache that is not publishable is not stored. *)
StoreAlone(c) ==
    /\ cache' \in {cache, cache \cup {Entry(c)}}
    /\ \/ Alone(c, "ended", "announce") /\ class[c].route = "nway"
       \/ Alone(c, "keep", "poll")
    /\ UNCHANGED <<remaining, mailbox>>

AloneFails(c) ==
    /\ Put(c, "error")
    /\ \E here \in {"single", "ended", "announce", "keep"} : Alone(c, here, "poll")
    /\ UNCHANGED <<remaining, cache>>

--------------------------------------------------------------------------------
(* The generation thread: one time slice of the batch. *)

BeginSlice ==
    /\ Polling
    /\ drain \/ (unprocessed = <<>> /\ requests = <<>>)
    /\ lanes # {}
    /\ wpc' = "slice"
    /\ toRemove' = {}
    /\ LoopOnly
    /\ Batched
    /\ UNCHANGED <<requests, unprocessed, cur, mailbox, workVars, cache>>

(* A response that does not end the request.  The first stands for the     *)
(* prompt: the cache of a finished segment, if there is one, is kept.      *)
RespondLane(c) ==
    /\ wpc = "slice"
    /\ c \in lanes
    /\ remaining[c] > 1
    /\ Put(c, "token")
    /\ remaining' = [remaining EXCEPT ![c] = @ - 1]
    /\ \/ UNCHANGED cache
       \/ remaining[c] = MaxResponses /\ cache' = cache \cup {Entry(c)}
    /\ toRemove' = IF c \in stopped THEN toRemove \cup {c} ELSE toRemove
    /\ LoopOnly
    /\ Batched
    /\ UNCHANGED <<requests, unprocessed, wpc, cur, regime>>

(* Mutants: None overtakes the last response; None is never put. *)
FinishLaneSwapped(c) ==
    /\ wpc = "slice"
    /\ c \in lanes
    /\ mailbox' = [mailbox EXCEPT ![c] = @ \o <<"none", "token">>]
    /\ wpc' = "store"
    /\ cur' = c
    /\ LoopOnly
    /\ Batched
    /\ UNCHANGED <<requests, unprocessed, toRemove, workVars, cache>>

FinishLaneSilently(c) ==
    /\ wpc = "slice"
    /\ c \in lanes
    /\ Put(c, "token")
    /\ wpc' = "store"
    /\ cur' = c
    /\ LoopOnly
    /\ Batched
    /\ UNCHANGED <<requests, unprocessed, toRemove, workVars, cache>>

(* The last response, and None after it. *)
FinishLane(c) ==
    /\ wpc = "slice"
    /\ c \in lanes
    /\ mailbox' = [mailbox EXCEPT ![c] = @ \o <<"token", "none">>]
    /\ wpc' = "store"
    /\ cur' = c
    /\ LoopOnly
    /\ Batched
    /\ UNCHANGED <<requests, unprocessed, toRemove, workVars, cache>>

(* insert_cache, then the lane leaves batch_results. *)
StoreLane(c) ==
    /\ wpc = "store" /\ cur = c
    /\ cache' = cache \cup {Entry(c)}
    /\ lanes' = lanes \ {c}
    /\ toRemove' = IF c \in stopped THEN toRemove \cup {c} ELSE toRemove
    /\ wpc' = "slice"
    /\ cur' = NoRequest
    /\ LoopOnly
    /\ UNCHANGED <<requests, unprocessed, batch, drain, mailbox, workVars>>

EndSlice ==
    /\ wpc = "slice"
    /\ lanes' = lanes \ toRemove
    /\ toRemove' = {}
    /\ wpc' = "poll"
    /\ LoopOnly
    /\ UNCHANGED <<requests, unprocessed, batch, drain, cur, mailbox, workVars, cache>>

(* Mutant: drain_batch is not reset with the batch. *)
CloseBatchDraining ==
    /\ Polling
    /\ drain
    /\ batch # NoBatch
    /\ lanes = {}
    /\ batch' = NoBatch
    /\ LoopOnly
    /\ UNCHANGED <<requests, unprocessed, drain, lanes, toRemove, wpc, cur, mailbox,
                   workVars, cache>>

CloseBatch ==
    /\ Polling
    /\ drain
    /\ batch # NoBatch
    /\ lanes = {}
    /\ batch' = NoBatch
    /\ drain' = FALSE
    /\ LoopOnly
    /\ UNCHANGED <<requests, unprocessed, lanes, toRemove, wpc, cur, mailbox, workVars, cache>>

--------------------------------------------------------------------------------
(* The end of the generation thread. *)

(* An exception nobody catches leaves _generate. *)
Crash ==
    /\ MayCrash
    /\ wpc \in Alive
    /\ WorkerFails
    /\ wpc' = "dying"
    /\ UNCHANGED <<class, threadVars, mailbox, requests, unprocessed, batch, drain,
                   lanes, toRemove, cur, workVars, cache, stopping>>

(* Mutant: only the lanes of the batch are told, as if nobody was queued. *)
FailWaitingLanes ==
    /\ wpc = "dying"
    /\ mailbox' = [c \in Requests |-> IF c \in lanes
                                      THEN Append(mailbox[c], "error") ELSE mailbox[c]]
    /\ wpc' = "dead"
    /\ LoopOnly
    /\ UNCHANGED <<requests, unprocessed, batch, drain, lanes, toRemove, cur, workVars, cache>>

(* _fail_waiting_requests: a snapshot of the registry, then one exception  *)
(* into each queue of it.                                                  *)
FailWaiting ==
    /\ wpc = "dying"
    /\ mailbox' = [c \in Requests |-> IF c \in registered
                                      THEN Append(mailbox[c], "error") ELSE mailbox[c]]
    /\ wpc' = "dead"
    /\ LoopOnly
    /\ UNCHANGED <<requests, unprocessed, batch, drain, lanes, toRemove, cur, workVars, cache>>

ShutDown ==
    /\ MayShutDown
    /\ ~stopping
    /\ stopping' = TRUE
    /\ UNCHANGED <<gateVars, class, threadVars, mailbox, loopVars, workVars, cache>>

LeaveLoop ==
    /\ wpc = "poll"
    /\ stopping
    /\ wpc' = "halted"
    /\ LoopOnly
    /\ UNCHANGED <<requests, unprocessed, batch, drain, lanes, toRemove, cur, mailbox,
                   workVars, cache>>

--------------------------------------------------------------------------------
(* Mutant: the entries are kept. *)
DropCacheNever(r) ==
    /\ Clear(r)
    /\ UNCHANGED <<class, threadVars, mailbox, loopVars, workVars, cache, stopping>>

(* The reload: Clear drops every entry of the prompt cache. *)
DropCache(r) ==
    /\ Clear(r)
    /\ cache' = {}
    /\ UNCHANGED <<class, threadVars, mailbox, loopVars, workVars, stopping>>

OutsideGate == UNCHANGED <<class, threadVars, mailbox, loopVars, workVars, cache, stopping>>

AwaitAdmission(c) ==
    \/ OutsideGate /\ (RefuseWorkerStopped(c) \/ RefuseOverloaded(c) \/ WaitAtGate(c))
    \/ EnterGate(c)

GiveUpAdmission(c) == RefuseDeadline(c) /\ OutsideGate

ThreadStep(c) ==
    \/ Register(c) \/ Submit(c) \/ Receive(c) \/ Resume(c) \/ Cancel(c) \/ Abort(c)
    \/ Unregister(c) \/ ReleaseSlot(c) \/ StopContext(c)

ReloadWithoutClear(r) ==
    /\ \/ TakeReloadLock(r) \/ ReloadLockBusy(r) \/ CloseGate(r) \/ WaitForDrain(r)
       \/ Drained(r) \/ Apply(r) \/ OpenGate(r) \/ ReleaseReloadLock(r)
    /\ OutsideGate

RunReload(r) == ReloadWithoutClear(r) \/ DropCache(r)

CallReload(r) == (Plan(r) \/ RejectPlan(r) \/ DrainDeadline(r)) /\ OutsideGate

HandleRequest(c) ==
    \/ JoinBatch(c) \/ TurnAway(c) \/ StartBatch(c) \/ ServeAlone(c)

GenerateAlone(c) == RespondAlone(c) \/ AnnounceEnd(c) \/ StoreAlone(c)

GenerateLane(c) == RespondLane(c) \/ FinishLane(c)

Fails(c) == HandleFails(c) \/ AloneFails(c)

WorkerStep ==
    \/ Dequeue \/ BeginSlice \/ EndSlice \/ CloseBatch \/ FailWaiting \/ LeaveLoop
    \/ \E c \in Requests : HandleRequest(c) \/ GenerateAlone(c) \/ StoreLane(c)

ServingNext ==
    \/ \E c \in Requests : \/ AwaitAdmission(c) \/ GiveUpAdmission(c) \/ ThreadStep(c)
                           \/ GenerateLane(c) \/ Fails(c)
    \/ \E r \in Reloads : RunReload(r) \/ CallReload(r)
    \/ WorkerStep
    \/ Crash
    \/ ShutDown

ServingSpec == ServingInit /\ [][ServingNext]_vars

(* Every thread that can run is run.  The batch generator advances every   *)
(* lane it holds: a lane that is present in slice after slice is not       *)
(* passed over for ever.                                                   *)
ServingFairness ==
    /\ \A c \in Requests : /\ WF_vars(AwaitAdmission(c))
                           /\ WF_vars(ThreadStep(c))
                           /\ SF_vars(GenerateLane(c))
    /\ \A r \in Reloads : WF_vars(RunReload(r))
    /\ WF_vars(WorkerStep)

FairServingSpec == ServingSpec /\ ServingFairness

--------------------------------------------------------------------------------
InSeq(s, x) == \E i \in DOMAIN s : s[i] = x

(* The state of the server is well formed; at most one request is put back.*)
ServingTypeOK ==
    /\ GateTypeOK
    /\ class \in [Requests -> Classes]
    /\ phase \in [Requests -> Phases]
    /\ mailbox \in [Requests -> Seq(Messages)]
    /\ registered \subseteq Requests
    /\ stopped \subseteq Requests
    /\ requests \in Seq(Requests)
    /\ unprocessed \in Seq(Requests) /\ Len(unprocessed) <= 1
    /\ batch \in Kinds \cup {NoBatch}
    /\ drain \in BOOLEAN
    /\ lanes \subseteq Requests
    /\ toRemove \subseteq Requests
    /\ wpc \in Alive \cup {"dying", "dead", "halted"}
    /\ cur \in Requests \cup {NoRequest}
    /\ remaining \in [Requests -> 0..MaxResponses]
    /\ regime \in [Requests -> Settings \cup {NoSetting}]
    /\ cache \subseteq [setting : Settings, late : BOOLEAN]
    /\ stopping \in BOOLEAN

(* A request whose thread is blocked before its first message is in        *)
(* exactly one place of the generation thread while that thread is alive:  *)
(* the queue, the list of requests put back, or in hand.  Requests put     *)
(* back while a batch drains are neither lost nor served twice.            *)
WaitingRequestIsOwned ==
    wpc \in Alive =>
        \A c \in Requests :
            phase[c] = "context" /\ mailbox[c] = <<>> =>
                /\ c \notin lanes
                /\ Cardinality({i \in DOMAIN requests : requests[i] = c})
                   + Cardinality({i \in DOMAIN unprocessed : unprocessed[i] = c})
                   + (IF wpc = "handle" /\ cur = c THEN 1 ELSE 0) = 1

(* The batch is drained for somebody: a draining batch always has the      *)
(* request it turned away put back, and the lanes of a batch are of its    *)
(* kind; a seeded plain request, which needs the global random stream for  *)
(* itself, is never among them.                                            *)
BatchIsOfOneKind ==
    /\ drain => batch # NoBatch /\ unprocessed # <<>>
    /\ \A c \in lanes : batch = Kind(c) /\ ~(class[c].seeded /\ ~class[c].mtp)

(* What a thread finds in its queue: the context first, then responses,    *)
(* one end.  Only an exception may follow an end, and a second one         *)
(* belongs to a dead worker or to a failed store.                          *)
AnswersAreOrdered ==
    \A c \in Requests :
        /\ \A i, j \in DOMAIN mailbox[c] :
              i < j /\ mailbox[c][i] \in {"none", "error"} => mailbox[c][j] = "error"
        /\ mailbox[c] # <<>> /\ phase[c] = "context" =>
              Head(mailbox[c]) \in {"context", "error"}
        /\ phase[c] \in {"caller", "next"} => ~InSeq(mailbox[c], "context")

(* A request that holds its slot sees one value of the lever from its      *)
(* first computation on: soft_reload never lands inside it.                *)
HeldRequestSeesOneSetting ==
    \A c \in Requests :
        slot[c] = "held" /\ regime[c] # NoSetting => regime[c] = lever

(* When the cache holds an entry computed under another value of the       *)
(* lever although no reload is about to drop it, the entry was stored late,*)
(* after its request had given its slot back: that gap is the only way in. *)
Dropping == \E r \in Reloads : reload[r] = "applied"
StaleEntryOutlivedItsSlot ==
    \A e \in cache : e.setting = lever \/ Dropping \/ e.late

(* The registry holds exactly the requests whose thread may block on its   *)
(* queue, and only they and their neighbours in generate hold a slot.      *)
RegistryMatchesThreads ==
    \A c \in Requests :
        /\ c \in registered <=>
              phase[c] \in {"submit", "context", "caller", "next", "unregister"}
        /\ slot[c] = "held" <=> phase[c] \notin {"none", "stop", "closed"}

(* The composed system still runs the gate's protocol. *)
ImplementsGate == GateSpec

(* While the generation thread lives, a request that was submitted gets a  *)
(* context or an exception, whatever batches have to drain before it, and  *)
(* the slot it holds is given back, so a drain needs no deadline.          *)
WorkerEnded == wpc \in {"dying", "dead", "halted"} \/ stopping
RequestIsServed ==
    \A c \in Requests :
        /\ phase[c] = "context" ~> phase[c] # "context" \/ WorkerEnded
        /\ slot[c] = "held" ~> slot[c] = "retired" \/ WorkerEnded

(* The crash of the generation thread wakes the requests registered by     *)
(* then: each of them gives its slot back.                                 *)
CrashReleasesRegistered ==
    \A c \in Requests : wpc = "dying" /\ c \in registered ~> slot[c] = "retired"

(* Under memory pressure self-MTP degrades to one plain lane before it is  *)
(* queued or refused: the request is answered either way.                  *)
DegradedRequestIsAnswered ==
    \A c \in Requests : class[c].mtp /\ phase[c] = "context" ~> phase[c] # "context"

(* soft_reload drops the cache because the same tokens under two settings  *)
(* give different state: outside a reload no entry is of another setting.  *)
NoStaleEntry == \A e \in cache : e.setting = lever \/ Dropping

(* The registry exists so that a dead worker leaves nobody blocked.        *)
DeadWorkerLeavesNobodyBlocked ==
    wpc = "dead" =>
        \A c \in Requests : phase[c] \in {"context", "next"} => mailbox[c] # <<>>

================================================================================
