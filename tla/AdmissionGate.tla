----------------------------- MODULE AdmissionGate -----------------------------
(***************************************************************************)
(* The admission gate of ResponseGenerator (src/mlx_lm/server.py):         *)
(* _admit_request and _retire_request, called by the HTTP threads, and     *)
(* soft_reload, called by the threads that serve the reload route.         *)
(*                                                                         *)
(* _admission is one condition variable shared by the requests that wait   *)
(* for the gate to open and by the reload that waits for the in-flight     *)
(* requests to end.  A thread in Condition.wait is in `asleep'; it runs    *)
(* again when somebody calls notify_all, or when its own deadline passes,  *)
(* and then evaluates its loop condition again.  Each action is one        *)
(* critical section of _admission, or one statement outside it.            *)
(*                                                                         *)
(* Simplifications.  One lever stands for the table of soft-reloadable     *)
(* keys.  A deadline may pass at any moment.  What a request does while it *)
(* holds its slot is in Serving, which extends this module.                *)
(***************************************************************************)
EXTENDS Naturals, FiniteSets

CONSTANTS
    Requests,   \* the requests, each sent once by a thread of its own
    Reloads,    \* the calls of soft_reload, each with a thread of its own
    Settings,   \* the values the reloaded lever takes
    Limit,      \* --max-inflight-requests; 0 means no limit
    Free        \* nobody holds _reload_lock

ASSUME RequestsAssumption == IsFiniteSet(Requests)
ASSUME LimitAssumption == Limit \in Nat
ASSUME FreeAssumption == Free \notin Reloads
ASSUME ThreadsAssumption == Requests \cap Reloads = {}

VARIABLES
    slot,         \* how far each request is with its in-flight slot
    asleep,       \* the threads in _admission.wait
    inflight,     \* _inflight
    paused,       \* _paused
    workerError,  \* _generation_error is not None
    reload,       \* how far each call of soft_reload is
    reloadLock,   \* the holder of _reload_lock
    plan,         \* the plan of each reload: value read, value wanted
    lever,        \* the live value of the lever
    traceEpoch    \* _TRACE_EPOCH of the model modules, up to equality of steps

requestVars == <<slot, inflight>>
reloadVars == <<reload, reloadLock, plan>>
configVars == <<lever, traceEpoch>>
gateVars == <<slot, asleep, inflight, paused, workerError, reload, reloadLock,
              plan, lever, traceEpoch>>

SlotStates == {"new", "waiting", "held", "refused", "retired"}
ReloadStates == {"new", "planned", "locked", "draining", "drained", "applied",
                 "reopening", "unlocking", "done", "refused"}
Plans == [old : Settings, new : Settings]

Holders == {c \in Requests : slot[c] = "held"}

GateInit ==
    /\ slot = [c \in Requests |-> "new"]
    /\ asleep = {}
    /\ inflight = 0
    /\ paused = FALSE
    /\ workerError = FALSE
    /\ reload = [r \in Reloads |-> "new"]
    /\ reloadLock = Free
    /\ lever \in Settings
    /\ plan = [r \in Reloads |-> [old |-> lever, new |-> lever]]
    /\ traceEpoch = FALSE

--------------------------------------------------------------------------------
(* _admit_request: the error check comes before the loop, never inside it. *)

AtGate(c) ==
    \/ slot[c] = "new" /\ ~workerError
    \/ slot[c] = "waiting" /\ c \notin asleep

HasRoom == Limit = 0 \/ inflight < Limit

Refuse(c) ==
    /\ slot' = [slot EXCEPT ![c] = "refused"]
    /\ asleep' = asleep \ {c}
    /\ UNCHANGED <<inflight, paused, workerError, reloadVars, configVars>>

RefuseWorkerStopped(c) ==
    /\ slot[c] = "new"
    /\ workerError
    /\ Refuse(c)

WaitAtGate(c) ==
    /\ AtGate(c)
    /\ paused
    /\ slot' = [slot EXCEPT ![c] = "waiting"]
    /\ asleep' = asleep \cup {c}
    /\ UNCHANGED <<inflight, paused, workerError, reloadVars, configVars>>

RefuseDeadline(c) ==
    /\ AtGate(c) \/ slot[c] = "waiting"
    /\ paused
    /\ Refuse(c)

(* Mutant: the request is counted before the limit is checked. *)
RefuseOverloadedCounted(c) ==
    /\ AtGate(c) /\ ~paused /\ ~HasRoom
    /\ slot' = [slot EXCEPT ![c] = "refused"]
    /\ inflight' = inflight + 1
    /\ asleep' = asleep \ {c}
    /\ UNCHANGED <<paused, workerError, reloadVars, configVars>>

RefuseOverloaded(c) ==
    /\ AtGate(c)
    /\ ~paused
    /\ ~HasRoom
    /\ Refuse(c)

(* Mutant: both _admit_request and generate count the request. *)
AdmitCountedTwice(c) ==
    /\ AtGate(c) /\ ~paused /\ HasRoom
    /\ slot' = [slot EXCEPT ![c] = "held"]
    /\ inflight' = inflight + 2
    /\ UNCHANGED <<asleep, paused, workerError, reloadVars, configVars>>

Admit(c) ==
    /\ AtGate(c)
    /\ ~paused
    /\ HasRoom
    /\ slot' = [slot EXCEPT ![c] = "held"]
    /\ inflight' = inflight + 1
    /\ UNCHANGED <<asleep, paused, workerError, reloadVars, configVars>>

(* Mutant: the last request does not notify the reload that drains. *)
RetireSilently(c) ==
    /\ slot[c] = "held"
    /\ slot' = [slot EXCEPT ![c] = "retired"]
    /\ inflight' = IF inflight > 0 THEN inflight - 1 ELSE 0
    /\ UNCHANGED <<asleep, paused, workerError, reloadVars, configVars>>

(* _retire_request *)
Retire(c) ==
    /\ slot[c] = "held"
    /\ slot' = [slot EXCEPT ![c] = "retired"]
    /\ inflight' = IF inflight > 0 THEN inflight - 1 ELSE 0
    /\ asleep' = IF inflight' = 0 THEN {} ELSE asleep
    /\ UNCHANGED <<paused, workerError, reloadVars, configVars>>

(* _run_generation caught an exception: _generation_error is set without   *)
(* the gate's lock.                                                        *)
WorkerFails ==
    /\ ~workerError
    /\ workerError' = TRUE
    /\ UNCHANGED <<requestVars, asleep, paused, reloadVars, configVars>>

--------------------------------------------------------------------------------
(* soft_reload *)

Goto(r, here, there) ==
    /\ reload[r] = here
    /\ reload' = [reload EXCEPT ![r] = there]

(* plan_soft_reload reads the old value before _reload_lock is taken. *)
Plan(r) ==
    /\ Goto(r, "new", "planned")
    /\ \E v \in Settings : plan' = [plan EXCEPT ![r] = [old |-> lever, new |-> v]]
    /\ UNCHANGED <<requestVars, asleep, paused, workerError, reloadLock, configVars>>

RejectPlan(r) ==
    /\ Goto(r, "new", "refused")
    /\ UNCHANGED <<requestVars, asleep, paused, workerError, reloadLock, plan, configVars>>

TakeReloadLock(r) ==
    /\ reloadLock = Free
    /\ Goto(r, "planned", "locked")
    /\ reloadLock' = r
    /\ UNCHANGED <<requestVars, asleep, paused, workerError, plan, configVars>>

ReloadLockBusy(r) ==
    /\ reloadLock # Free
    /\ Goto(r, "planned", "refused")
    /\ UNCHANGED <<requestVars, asleep, paused, workerError, reloadLock, plan, configVars>>

(* Mutant: the reload drains with the door open. *)
CloseGateNever(r) ==
    /\ Goto(r, "locked", "draining")
    /\ UNCHANGED <<requestVars, asleep, paused, workerError, reloadLock, plan, configVars>>

CloseGate(r) ==
    /\ Goto(r, "locked", "draining")
    /\ paused' = TRUE
    /\ UNCHANGED <<requestVars, asleep, workerError, reloadLock, plan, configVars>>

WaitForDrain(r) ==
    /\ reload[r] = "draining"
    /\ r \notin asleep
    /\ inflight > 0
    /\ asleep' = asleep \cup {r}
    /\ UNCHANGED <<requestVars, paused, workerError, reloadVars, configVars>>

(* Mutant: a woken reload does not look at the count again. *)
DrainedUnchecked(r) ==
    /\ r \notin asleep
    /\ Goto(r, "draining", "drained")
    /\ UNCHANGED <<requestVars, asleep, paused, workerError, reloadLock, plan, configVars>>

Drained(r) ==
    /\ r \notin asleep
    /\ inflight = 0
    /\ Goto(r, "draining", "drained")
    /\ UNCHANGED <<requestVars, asleep, paused, workerError, reloadLock, plan, configVars>>

(* Mutant: the exception of a failed drain skips the finally. *)
DrainDeadlineNoFinally(r) ==
    /\ inflight > 0
    /\ Goto(r, "draining", "unlocking")
    /\ asleep' = asleep \ {r}
    /\ UNCHANGED <<requestVars, paused, workerError, reloadLock, plan, configVars>>

DrainDeadline(r) ==
    /\ inflight > 0
    /\ Goto(r, "draining", "reopening")
    /\ asleep' = asleep \ {r}
    /\ UNCHANGED <<requestVars, paused, workerError, reloadLock, plan, configVars>>

(* apply_soft_reload retires the compiled traces when the value the plan   *)
(* read differs from the value it writes.                                  *)
Apply(r) ==
    /\ Goto(r, "drained", "applied")
    /\ lever' = plan[r].new
    /\ traceEpoch' = IF plan[r].old # plan[r].new THEN ~traceEpoch ELSE traceEpoch
    /\ UNCHANGED <<requestVars, asleep, paused, workerError, reloadLock, plan>>

(* clear_prompt_cache; the cache itself is a variable of Serving. *)
Clear(r) ==
    /\ Goto(r, "applied", "reopening")
    /\ UNCHANGED <<requestVars, asleep, paused, workerError, reloadLock, plan, configVars>>

(* Mutants: the gate opens and nobody is told; the gate stays shut. *)
OpenGateSilently(r) ==
    /\ Goto(r, "reopening", "unlocking")
    /\ paused' = FALSE
    /\ UNCHANGED <<requestVars, asleep, workerError, reloadLock, plan, configVars>>

OpenGateNever(r) ==
    /\ Goto(r, "reopening", "unlocking")
    /\ asleep' = {}
    /\ UNCHANGED <<requestVars, paused, workerError, reloadLock, plan, configVars>>

OpenGate(r) ==
    /\ Goto(r, "reopening", "unlocking")
    /\ paused' = FALSE
    /\ asleep' = {}
    /\ UNCHANGED <<requestVars, workerError, reloadLock, plan, configVars>>

ReleaseReloadLock(r) ==
    /\ Goto(r, "unlocking", "done")
    /\ reloadLock' = Free
    /\ UNCHANGED <<requestVars, asleep, paused, workerError, plan, configVars>>

--------------------------------------------------------------------------------
PassGate(c) ==
    \/ RefuseWorkerStopped(c) \/ RefuseOverloaded(c) \/ WaitAtGate(c) \/ Admit(c)

ReloadStep(r) ==
    \/ TakeReloadLock(r) \/ ReloadLockBusy(r) \/ CloseGate(r) \/ WaitForDrain(r)
    \/ Drained(r) \/ Apply(r) \/ Clear(r) \/ OpenGate(r) \/ ReleaseReloadLock(r)

GateNext ==
    \/ \E c \in Requests : PassGate(c) \/ RefuseDeadline(c) \/ Retire(c)
    \/ \E r \in Reloads :
         Plan(r) \/ RejectPlan(r) \/ DrainDeadline(r) \/ ReloadStep(r)
    \/ WorkerFails

GateSpec == GateInit /\ [][GateNext]_gateVars

(* Threads that can run are run; generate's caller always ends its stream, *)
(* so a held slot is retired.  No deadline is ever obliged to pass.        *)
GateFairness ==
    /\ \A c \in Requests : WF_gateVars(PassGate(c)) /\ WF_gateVars(Retire(c))
    /\ \A r \in Reloads : WF_gateVars(ReloadStep(r))

FairGateSpec == GateSpec /\ GateFairness

--------------------------------------------------------------------------------
(* The state of the gate is well formed; the counter never exceeds the     *)
(* number of requests, nor --max-inflight-requests.                        *)
GateTypeOK ==
    /\ slot \in [Requests -> SlotStates]
    /\ asleep \subseteq Requests \cup Reloads
    /\ inflight \in 0..Cardinality(Requests)
    /\ Limit # 0 => inflight <= Limit
    /\ paused \in BOOLEAN
    /\ workerError \in BOOLEAN
    /\ reload \in [Reloads -> ReloadStates]
    /\ reloadLock \in Reloads \cup {Free}
    /\ plan \in [Reloads -> Plans]
    /\ lever \in Settings
    /\ traceEpoch \in BOOLEAN

(* _inflight is exactly the number of requests between a successful        *)
(* _admit_request and their _retire_request, whatever was refused, timed   *)
(* out or woken in between; the max(0, ...) of _retire_request never acts. *)
InflightCountsHolders == inflight = Cardinality(Holders)

(* The gate is closed exactly while the one reload that holds _reload_lock *)
(* is between closing it and reopening it, on every path out of            *)
(* soft_reload: a failed drain cannot leave the door shut, and two reloads *)
(* cannot interleave inside it.                                            *)
Inside == {"draining", "drained", "applied", "reopening"}
GateClosedByItsReload ==
    /\ \A r \in Reloads :
         reload[r] \in Inside \cup {"locked", "unlocking"} <=> reloadLock = r
    /\ paused <=> \E r \in Reloads : reload[r] \in Inside

(* No wakeup of the shared condition is lost: a request asleep at the gate *)
(* sleeps because the gate is closed, a reload asleep in _wait_for_drain   *)
(* because requests are in flight.  Neither needs its deadline to go on.   *)
NoLostWakeup ==
    /\ \A c \in Requests \cap asleep : slot[c] = "waiting" /\ paused
    /\ \A r \in Reloads \cap asleep : reload[r] = "draining" /\ inflight > 0

(* The gate implements the exclusion its callers rely on: requests share   *)
(* the configuration, never more than the limit, and soft_reload replaces  *)
(* it only when none of them is in flight.                                 *)
Exclusion == INSTANCE ReloadExclusion WITH users <- Holders
ImplementsExclusion == Exclusion!ExclusionSpec

(* A request that waits at the gate is let in or refused even if no        *)
(* deadline ever passes, since the reload ahead of it drains and reopens;  *)
(* and a gate that was closed is reopened on every path out of soft_reload.*)
GateIsLive ==
    /\ \A c \in Requests : slot[c] = "waiting" ~> slot[c] # "waiting"
    /\ paused ~> ~paused

(* What _invalidate_compiled_traces is for: a write that moves the lever   *)
(* retires the traces compiled under the old value.                        *)
MovedLeverRetiresTraces == [][lever' # lever => traceEpoch' # traceEpoch]_gateVars

================================================================================
