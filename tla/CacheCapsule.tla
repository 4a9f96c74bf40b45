------------------------------ MODULE CacheCapsule ------------------------------
(***************************************************************************)
(* CacheCapsulePool, CacheCapsuleTicket, CacheCapsuleOwner and             *)
(* CacheCapsuleLease of src/mlx_lm/cache_capsule.py: a request thread      *)
(* stages a cache plane with an external adapter, one worker at a time     *)
(* builds it, and the request thread adopts the result or falls back,      *)
(* while the prefix cache may change its generation and the pool may close.*)
(*                                                                         *)
(* Simplifications.  A request submits one ticket and awaits it once.  The *)
(* adapter stages, builds and adopts or raises; of what it does only the   *)
(* calls that give its buffers back are counted (calls).  Generations are  *)
(* compared for equality only, so the tickets whose source is of the       *)
(* current generation stand for the counter.  What adopt returns is a      *)
(* CacheCapsuleProduct or some other value; the checks of a product's      *)
(* payload pass or fail, and computing a digest for them does not raise.   *)
(* The creator-thread checks hold by the shape of the actions.             *)
(***************************************************************************)
EXTENDS Naturals, FiniteSets

CONSTANTS
    Tickets,   \* the requests; each stages one source
    Leases,    \* lease handles, each opened at most once per owner
    NoTicket   \* nobody occupies the worker slot

ASSUME NoTicketAssumption == NoTicket \notin Tickets
ASSUME LeasesAssumption == IsFiniteSet(Leases)

VARIABLES
    fresh,            \* the tickets whose source.generation is the current one
    active,           \* _active_ticket; a ticket that is staging occupies it too
    tickets,          \* _tickets
    poolClosed,       \* _closed
    toCancel,         \* what close() still has to cancel
    thread,           \* where each request thread is
    worker,           \* where the worker thread of each ticket is
    state,            \* _state of each ticket
    future,           \* the future of each ticket
    canceller,        \* where each thread is in ticket.cancel
    builtDisposed,    \* _built_disposed
    stageAborted,     \* _stage_aborted
    product,          \* what adopt or the fallback returned to _await_ticket
    calls,            \* how often the adapter and the backing were given back
    owner,            \* _product of the owner: "none", "held", "gone"
    releaseRequested, \* _release_requested
    leases,           \* _leases
    lease             \* the lease handles of each owner

poolVars == <<active, tickets, poolClosed, toCancel>>
ticketVars == <<state, future, builtDisposed, stageAborted, product>>
ownerVars == <<owner, releaseRequested, leases, lease>>
vars == <<fresh, poolVars, thread, worker, ticketVars, canceller, calls, ownerVars>>

(* What every step of the request thread, the worker, a caller of cancel   *)
(* and the holder of the owner leaves alone.                               *)
requestFrame == <<poolClosed, toCancel, worker, future, stageAborted, product, canceller>>
workerFrame == <<fresh, tickets, poolClosed, toCancel, thread, state, product, canceller,
                 ownerVars>>
cancelFrame == <<fresh, active, poolClosed, worker, future, product, ownerVars>>
ownerFrame == <<fresh, poolVars, thread, worker, ticketVars, canceller>>

ThreadStates == {"new", "captured", "checked", "staging", "await", "waiting", "built",
                 "cancelStale", "cancelBuild", "fallback", "adopting", "accepting",
                 "done", "failed"}
WorkerStates == {"none", "start", "stale", "build", "callback", "dispose", "free", "done"}
TicketStates == {"none", "pending", "adopting", "adopted", "fallback", "cancelled"}
Products == {"none", "capsule", "other"}
Agents == {"requester", "closer"}
CancelStates == {"idle", "marked", "discard", "abort", "settle"}
Calls == {"discard", "abort", "adopt", "release"}
LeaseStates == {"none", "open", "closing", "closed"}

Init ==
    /\ fresh = {}
    /\ active = NoTicket
    /\ tickets = {}
    /\ poolClosed = FALSE
    /\ toCancel = {}
    /\ thread = [t \in Tickets |-> "new"]
    /\ worker = [t \in Tickets |-> "none"]
    /\ state = [t \in Tickets |-> "none"]
    /\ future = [t \in Tickets |-> "none"]
    /\ canceller = [t \in Tickets |-> [a \in Agents |-> "idle"]]
    /\ builtDisposed = {}
    /\ stageAborted = {}
    /\ product = [t \in Tickets |-> "none"]
    /\ calls = [t \in Tickets |-> [k \in Calls |-> 0]]
    /\ owner = [t \in Tickets |-> "none"]
    /\ releaseRequested = {}
    /\ leases = [t \in Tickets |-> 0]
    /\ lease = [t \in Tickets |-> [l \in Leases |-> "none"]]

Call(t, kinds) ==
    calls' = [calls EXCEPT ![t] = [k \in Calls |-> IF k \in kinds THEN @[k] + 1 ELSE @[k]]]

Goto(t, here, there) ==
    /\ thread[t] = here
    /\ thread' = [thread EXCEPT ![t] = there]

(* The prefix cache dropped, moved or replaced an entry. *)
AdvanceGeneration ==
    /\ fresh # {}
    /\ fresh' = {}
    /\ UNCHANGED <<poolVars, thread, worker, ticketVars, canceller, calls, ownerVars>>

--------------------------------------------------------------------------------
(* submit *)

Capture(t) ==
    /\ Goto(t, "new", "captured")
    /\ fresh' = fresh \cup {t}
    /\ UNCHANGED <<poolVars, worker, ticketVars, canceller, calls, ownerVars>>

CheckSource(t) ==
    /\ \/ t \in fresh /\ Goto(t, "captured", "checked")
       \/ t \notin fresh /\ Goto(t, "captured", "failed")
    /\ UNCHANGED <<fresh, poolVars, worker, ticketVars, canceller, calls, ownerVars>>

(* Mutant: the slot is not looked at. *)
ClaimSlotBusy(t) ==
    /\ ~poolClosed
    /\ Goto(t, "checked", "staging")
    /\ active' = t
    /\ UNCHANGED <<requestFrame, fresh, tickets, state, builtDisposed, calls, ownerVars>>

ClaimSlot(t) ==
    /\ ~poolClosed
    /\ active = NoTicket
    /\ Goto(t, "checked", "staging")
    /\ active' = t
    /\ UNCHANGED <<requestFrame, fresh, tickets, state, builtDisposed, calls, ownerVars>>

RefuseSubmit(t) ==
    /\ poolClosed \/ active # NoTicket
    /\ Goto(t, "checked", "failed")
    /\ UNCHANGED <<fresh, poolVars, worker, ticketVars, canceller, calls, ownerVars>>

StageFails(t) ==
    /\ Goto(t, "staging", "failed")
    /\ active' = NoTicket
    /\ UNCHANGED <<requestFrame, fresh, tickets, state, builtDisposed, calls, ownerVars>>

(* The pool closed while the adapter was staging. *)
StagedTooLate(t) ==
    /\ poolClosed
    /\ Goto(t, "staging", "failed")
    /\ active' = NoTicket
    /\ Call(t, {"abort"})
    /\ UNCHANGED <<requestFrame, fresh, tickets, state, builtDisposed, ownerVars>>

Start(t) ==
    /\ Goto(t, "staging", "await")
    /\ tickets' = tickets \cup {t}
    /\ state' = [state EXCEPT ![t] = "pending"]
    /\ future' = [future EXCEPT ![t] = "running"]
    /\ worker' = [worker EXCEPT ![t] = "start"]
    /\ UNCHANGED <<fresh, active, poolClosed, toCancel, builtDisposed, stageAborted, product,
                   canceller, calls, ownerVars>>

(* Mutant: _closed is not read again after the adapter staged. *)
StartWorkerUnchecked(t) == Start(t)

StartWorker(t) ==
    /\ ~poolClosed
    /\ Start(t)

--------------------------------------------------------------------------------
(* The worker thread, and the callback of its future. *)

Work(t, here, there) ==
    /\ worker[t] = here
    /\ worker' = [worker EXCEPT ![t] = there]

(* _abort_stage and _claim_built_disposal: once per ticket. *)
AbortStage(t) ==
    /\ stageAborted' = stageAborted \cup {t}
    /\ IF t \in stageAborted THEN UNCHANGED calls ELSE Call(t, {"abort"})

DisposeBuilt(t) ==
    /\ builtDisposed' = builtDisposed \cup {t}
    /\ IF t \in builtDisposed THEN UNCHANGED calls ELSE Call(t, {"discard"})

WorkerChecks(t) ==
    /\ \/ t \in fresh /\ Work(t, "start", "build") /\ UNCHANGED <<stageAborted, calls>>
       \/ t \notin fresh /\ Work(t, "start", "stale") /\ AbortStage(t)
    /\ UNCHANGED <<workerFrame, active, future, builtDisposed>>

Settle(t, outcome) == future' = [future EXCEPT ![t] = outcome]

WorkerEnds(t) ==
    /\ \/ Work(t, "build", "callback") /\ Settle(t, "done")
       \/ Work(t, "build", "callback") /\ Settle(t, "failed")
       \/ Work(t, "stale", "callback") /\ Settle(t, "failed")
    /\ UNCHANGED <<workerFrame, active, builtDisposed, stageAborted, calls>>

(* physical_done reads the state, disposes, and frees the slot. *)
CallbackReads(t) ==
    /\ \/ state[t] \in {"cancelled", "fallback"} /\ Work(t, "callback", "dispose")
       \/ state[t] \notin {"cancelled", "fallback"} /\ Work(t, "callback", "free")
    /\ UNCHANGED <<workerFrame, active, future, builtDisposed, stageAborted, calls>>

CallbackDisposes(t) ==
    /\ Work(t, "dispose", "free")
    /\ IF future[t] = "done" THEN DisposeBuilt(t) ELSE UNCHANGED <<builtDisposed, calls>>
    /\ UNCHANGED <<workerFrame, active, future, stageAborted>>

FreeSlot(t) ==
    /\ Work(t, "free", "done")
    /\ active' = IF active = t THEN NoTicket ELSE active
    /\ UNCHANGED <<workerFrame, future, builtDisposed, stageAborted, calls>>

--------------------------------------------------------------------------------
(* cancel: called by the request thread and, for every ticket it found, by *)
(* close.                                                                  *)

Calling(a, t) ==
    \/ a = "requester" /\ thread[t] \in {"cancelStale", "cancelBuild"}
    \/ /\ a = "closer"
       /\ t \in toCancel
       /\ \A u \in Tickets \ {t} : canceller[u]["closer"] = "idle"

CancelStep(a, t, here, there) ==
    /\ Calling(a, t)
    /\ canceller[t][a] = here
    /\ canceller' = [canceller EXCEPT ![t][a] = there]

(* After cancel the request thread raises, or builds with the fallback. *)
Return(a, t) ==
    IF a = "closer"
    THEN toCancel' = toCancel \ {t} /\ UNCHANGED thread
    ELSE /\ \/ thread' = [thread EXCEPT ![t] = "failed"]
            \/ Goto(t, "cancelBuild", "fallback")
         /\ UNCHANGED toCancel

MarkCancelled(a, t) ==
    /\ state[t] = "pending"
    /\ CancelStep(a, t, "idle", "marked")
    /\ state' = [state EXCEPT ![t] = "cancelled"]
    /\ UNCHANGED <<cancelFrame, tickets, toCancel, thread, builtDisposed, stageAborted, calls>>

CancelRefused(a, t) ==
    /\ state[t] # "pending"
    /\ CancelStep(a, t, "idle", "idle")
    /\ Return(a, t)
    /\ UNCHANGED <<cancelFrame, tickets, state, builtDisposed, stageAborted, calls>>

(* Mutant: a job that ended is left to its callback. *)
LookAtFutureOnlyRunning(a, t) ==
    /\ \/ future[t] = "done" /\ CancelStep(a, t, "marked", "settle")
       \/ future[t] # "done" /\ CancelStep(a, t, "marked", "abort")
    /\ UNCHANGED <<fresh, poolVars, thread, worker, ticketVars, calls, ownerVars>>

LookAtFuture(a, t) ==
    /\ \/ future[t] = "done" /\ CancelStep(a, t, "marked", "discard")
       \/ future[t] # "done" /\ CancelStep(a, t, "marked", "abort")
    /\ UNCHANGED <<fresh, poolVars, thread, worker, ticketVars, calls, ownerVars>>

Reclaim(a, t) ==
    /\ \/ CancelStep(a, t, "discard", "settle") /\ DisposeBuilt(t) /\ UNCHANGED stageAborted
       \/ CancelStep(a, t, "abort", "settle") /\ AbortStage(t) /\ UNCHANGED builtDisposed
    /\ UNCHANGED <<cancelFrame, tickets, toCancel, thread, state>>

CancelEnds(a, t) ==
    /\ CancelStep(a, t, "settle", "idle")
    /\ tickets' = tickets \ {t}
    /\ Return(a, t)
    /\ UNCHANGED <<cancelFrame, state, builtDisposed, stageAborted, calls>>

ClosePool ==
    /\ ~poolClosed
    /\ poolClosed' = TRUE
    /\ toCancel' = tickets
    /\ UNCHANGED <<fresh, active, tickets, thread, worker, ticketVars, canceller, calls, ownerVars>>

--------------------------------------------------------------------------------
(* _await_ticket *)

AwaitTicket(t) ==
    /\ \/ state[t] # "pending" /\ Goto(t, "await", "failed")
       \/ state[t] = "pending" /\ t \notin fresh /\ Goto(t, "await", "cancelStale")
       \/ state[t] = "pending" /\ t \in fresh /\ Goto(t, "await", "waiting")
    /\ UNCHANGED <<fresh, poolVars, worker, ticketVars, canceller, calls, ownerVars>>

(* The result, the deadline while the job runs, or the error of the job. *)
WaitEnds(t) ==
    /\ \/ future[t] = "done" /\ Goto(t, "waiting", "built")
       \/ future[t] # "done" /\ Goto(t, "waiting", "cancelBuild")
    /\ UNCHANGED <<fresh, poolVars, worker, ticketVars, canceller, calls, ownerVars>>

(* Mutant: adoption does not look whether the ticket was cancelled. *)
BeginAdoptionUnchecked(t) ==
    /\ Goto(t, "built", "adopting")
    /\ state' = [state EXCEPT ![t] = "adopting"]
    /\ UNCHANGED <<requestFrame, fresh, active, tickets, builtDisposed, calls, ownerVars>>

BeginAdoption(t) ==
    /\ \/ /\ state[t] = "pending"
          /\ Goto(t, "built", "adopting")
          /\ state' = [state EXCEPT ![t] = "adopting"]
       \/ state[t] # "pending" /\ Goto(t, "built", "failed") /\ UNCHANGED state
    /\ UNCHANGED <<requestFrame, fresh, active, tickets, builtDisposed, calls, ownerVars>>

(* What adopt returned, or the fallback. *)
Returned(t, value) ==
    /\ product' = [product EXCEPT ![t] = value]
    /\ UNCHANGED <<fresh, poolVars, worker, state, future, builtDisposed, stageAborted, canceller,
                   ownerVars>>

(* The pool knows nothing of the type of the value before it checks it. *)
Adopt(t) ==
    /\ t \in fresh
    /\ Goto(t, "adopting", "accepting")
    /\ Call(t, {"adopt"})
    /\ \E value \in Products \ {"none"} : Returned(t, value)

(* _finish *)
Finish(t, outcome) ==
    /\ state' = [state EXCEPT ![t] = outcome]
    /\ tickets' = tickets \ {t}

(* The source is stale, or the adapter does not adopt. *)
RefuseAdoption(t) ==
    /\ Goto(t, "adopting", "failed")
    /\ DisposeBuilt(t)
    /\ Finish(t, "cancelled")
    /\ UNCHANGED <<requestFrame, fresh, active, ownerVars>>

(* _build returns a CacheCapsuleProduct, or raises and sets nothing. *)
BuildFallback(t) ==
    /\ \/ t \in fresh /\ Goto(t, "fallback", "accepting") /\ Returned(t, "capsule")
       \/ Goto(t, "fallback", "failed") /\ Returned(t, product[t])
    /\ UNCHANGED calls

(* Only a product of the adapter has a backing to release. *)
Adopting(t) == state[t] = "adopting"

AcceptProduct(t) ==
    /\ product[t] = "capsule"
    /\ t \in fresh
    /\ Goto(t, "accepting", "done")
    /\ Finish(t, IF Adopting(t) THEN "adopted" ELSE "fallback")
    /\ owner' = [owner EXCEPT ![t] = "held"]
    /\ UNCHANGED <<requestFrame, fresh, active, builtDisposed, calls, releaseRequested, leases,
                   lease>>

Refuse(t) ==
    /\ Goto(t, "accepting", "failed")
    /\ IF Adopting(t) THEN Finish(t, "cancelled") ELSE UNCHANGED <<tickets, state>>
    /\ UNCHANGED <<requestFrame, fresh, active, builtDisposed, ownerVars>>

(* A value that is no CacheCapsuleProduct: nothing is released.            *)
RejectValue(t) ==
    /\ product[t] = "other"
    /\ Refuse(t)
    /\ UNCHANGED calls

(* Mutant: a product is refused as any other value is. *)
RejectProductAsValue(t) ==
    /\ product[t] = "capsule"
    /\ Refuse(t)
    /\ UNCHANGED calls

(* The source is stale, or the product fails a check. *)
RejectProduct(t) ==
    /\ product[t] = "capsule"
    /\ Refuse(t)
    /\ Call(t, {"release"})

--------------------------------------------------------------------------------
(* The owner of an adopted capsule, and its leases. *)

DropProduct(t) ==
    /\ owner' = [owner EXCEPT ![t] = "gone"]
    /\ Call(t, {"release"})

OpenLease(t, l) ==
    /\ t \in fresh
    /\ owner[t] = "held"
    /\ t \notin releaseRequested
    /\ lease[t][l] = "none"
    /\ lease' = [lease EXCEPT ![t][l] = "open"]
    /\ leases' = [leases EXCEPT ![t] = @ + 1]
    /\ UNCHANGED <<ownerFrame, calls, owner, releaseRequested>>

(* Mutant: the backing goes whoever still leases it. *)
LetGoEagerly(t) ==
    /\ owner[t] # "none"
    /\ releaseRequested' = releaseRequested \cup {t}
    /\ IF owner[t] = "held" THEN DropProduct(t) ELSE UNCHANGED <<calls, owner>>
    /\ UNCHANGED <<ownerFrame, leases, lease>>

(* release, or a lease or a consumption that finds the generation changed. *)
LetGo(t) ==
    /\ owner[t] # "none"
    /\ releaseRequested' = releaseRequested \cup {t}
    /\ IF owner[t] = "held" /\ leases[t] = 0
       THEN DropProduct(t)
       ELSE UNCHANGED <<calls, owner>>
    /\ UNCHANGED <<ownerFrame, leases, lease>>

(* Mutant: close does not remember that it was called. *)
CloseLeaseAgain(t, l) ==
    /\ lease[t][l] \in {"open", "closed"}
    /\ lease' = [lease EXCEPT ![t][l] = "closing"]
    /\ UNCHANGED <<ownerFrame, calls, owner, releaseRequested, leases>>

(* A lease closes once, whoever calls close, and then unpins its owner. *)
CloseLease(t, l) ==
    /\ lease[t][l] = "open"
    /\ lease' = [lease EXCEPT ![t][l] = "closing"]
    /\ UNCHANGED <<ownerFrame, calls, owner, releaseRequested, leases>>

Unpin(t, l) ==
    /\ lease[t][l] = "closing"
    /\ lease' = [lease EXCEPT ![t][l] = "closed"]
    /\ leases' = [leases EXCEPT ![t] = @ - 1]
    /\ IF t \in releaseRequested /\ leases'[t] = 0 /\ owner[t] = "held"
       THEN DropProduct(t)
       ELSE UNCHANGED <<calls, owner>>
    /\ UNCHANGED <<ownerFrame, releaseRequested>>

--------------------------------------------------------------------------------
Submit(t) ==
    \/ Capture(t) \/ CheckSource(t) \/ ClaimSlot(t) \/ RefuseSubmit(t) \/ StageFails(t)
    \/ StagedTooLate(t) \/ StartWorker(t)

WorkerStep(t) ==
    \/ WorkerChecks(t) \/ WorkerEnds(t) \/ CallbackReads(t) \/ CallbackDisposes(t)
    \/ FreeSlot(t)

Cancel(a, t) ==
    \/ MarkCancelled(a, t) \/ CancelRefused(a, t) \/ LookAtFuture(a, t) \/ Reclaim(a, t)
    \/ CancelEnds(a, t)

Await(t) ==
    \/ AwaitTicket(t) \/ WaitEnds(t) \/ BeginAdoption(t) \/ Adopt(t) \/ RefuseAdoption(t)
    \/ BuildFallback(t) \/ AcceptProduct(t) \/ RejectProduct(t) \/ RejectValue(t)

OwnerStep(t) ==
    \/ LetGo(t)
    \/ \E l \in Leases : OpenLease(t, l) \/ CloseLease(t, l) \/ Unpin(t, l)

Next ==
    \/ \E t \in Tickets : \/ Submit(t) \/ WorkerStep(t) \/ Await(t) \/ OwnerStep(t)
                          \/ \E a \in Agents : Cancel(a, t)
    \/ AdvanceGeneration
    \/ ClosePool

Spec == Init /\ [][Next]_vars

--------------------------------------------------------------------------------
(* The pool, its tickets and the owners are well formed; the lease count   *)
(* never falls below zero ("lease underflow" in _close_lease).             *)
CapsuleTypeOK ==
    /\ fresh \subseteq Tickets
    /\ active \in Tickets \cup {NoTicket}
    /\ tickets \subseteq Tickets
    /\ poolClosed \in BOOLEAN
    /\ toCancel \subseteq Tickets
    /\ thread \in [Tickets -> ThreadStates]
    /\ worker \in [Tickets -> WorkerStates]
    /\ state \in [Tickets -> TicketStates]
    /\ future \in [Tickets -> {"none", "running", "done", "failed"}]
    /\ canceller \in [Tickets -> [Agents -> CancelStates]]
    /\ builtDisposed \subseteq Tickets
    /\ stageAborted \subseteq Tickets
    /\ product \in [Tickets -> Products]
    /\ calls \in [Tickets -> [Calls -> Nat]]
    /\ owner \in [Tickets -> {"none", "held", "gone"}]
    /\ releaseRequested \subseteq Tickets
    /\ leases \in [Tickets -> Nat]
    /\ lease \in [Tickets -> [Leases -> LeaseStates]]

(* Completion, cancellation, close and adoption race for one built result, *)
(* and several of them may reach for it: it is adopted once, discarded at  *)
(* most once, and never taken from under an owner; the staged buffers are  *)
(* aborted and the backing released at most once.                          *)
GivenBackOnce ==
    \A t \in Tickets :
        /\ \A k \in Calls : calls[t][k] <= 1
        /\ calls[t]["adopt"] = 1 /\ owner[t] # "none" => calls[t]["discard"] = 0

(* A result the adapter has adopted belongs to the product: it is released *)
(* through the product when the product is refused, and not discarded.     *)
AdoptedIsNotDiscarded ==
    \A t \in Tickets : product[t] = "capsule" => calls[t]["adopt"] + calls[t]["discard"] <= 1

(* When the request thread, the worker and close are through with a        *)
(* ticket, whatever order they came in, nothing is left with the adapter:  *)
(* a built result was adopted or discarded, a stage that was never built   *)
(* was aborted, and an adopted CacheCapsuleProduct without an owner was    *)
(* released.  Of another value that adopt may return the pool knows nothing*)
(* to release, and about that one this says nothing.                       *)
Through(t) ==
    /\ thread[t] \in {"done", "failed"}
    /\ worker[t] = "done"
    /\ \A a \in Agents : canceller[t][a] = "idle"
NothingIsLeft ==
    \A t \in Tickets : Through(t) =>
        /\ future[t] = "done" => calls[t]["adopt"] + calls[t]["discard"] >= 1
        /\ future[t] = "failed" => calls[t]["abort"] = 1
        /\ calls[t]["adopt"] = 1 /\ product[t] = "capsule" /\ owner[t] # "held" =>
              calls[t]["release"] = 1

(* The slot stays occupied until the physical job has ended, also when its *)
(* ticket timed out or was cancelled long before: one external job at a    *)
(* time.                                                                   *)
OneJobAtATime ==
    \A t \in Tickets :
        thread[t] = "staging" \/ worker[t] \notin {"none", "done"} => active = t

(* Once close has returned no ticket is pending, not even one whose adapter*)
(* was still staging when the pool closed.                                 *)
ClosedPoolIsSettled ==
    poolClosed /\ toCancel = {} => \A t \in Tickets : state[t] # "pending"

(* The pool runs one job, until its physical end, and none once closed     *)
(* that anybody could still wait for.                                      *)
PoolRunsItsJob == OneJobAtATime /\ ClosedPoolIsSettled

(* The backing of a capsule lives exactly as long as somebody may read it: *)
(* through every lease, whatever the owner and the generation do, and not  *)
(* beyond the last one once the owner let go.                              *)
BackingOutlivesLeases ==
    \A t \in Tickets :
        /\ (\E l \in Leases : lease[t][l] \in {"open", "closing"}) => owner[t] = "held"
        /\ owner[t] = "held" /\ t \in releaseRequested =>
              \E l \in Leases : lease[t][l] \in {"open", "closing"}
        /\ owner[t] = "gone" => calls[t]["release"] = 1

================================================================================
