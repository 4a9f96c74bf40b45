--------------------------- MODULE CacheCapsuleProofs ---------------------------
(***************************************************************************)
(* Proofs about CacheCapsule, for any set of tickets and any finite set of *)
(* leases.  The inductive invariant CapsuleInv implies every invariant the *)
(* runs check; it says where a ticket comes from and which thread follows  *)
(* it, who may still dispose of it and who is still on the way to do so,   *)
(* and what the lease counter counts.                                      *)
(***************************************************************************)
EXTENDS CacheCapsule, FiniteSetTheorems, TLAPS

(* Until its ticket exists a request has no worker, no state, no aborted   *)
(* stage; a worker has a ticket.                                           *)
Before == {"new", "captured", "checked", "staging"}
Beginnings ==
    \A t \in Tickets :
        /\ thread[t] \in Before => worker[t] = "none" /\ state[t] = "none"
        /\ worker[t] # "none" => state[t] # "none"
        /\ thread[t] \notin Before \cup {"failed"} => state[t] # "none"

(* close finds every pending ticket. *)
PendingIsListed ==
    \A t \in Tickets :
        state[t] = "pending" => t \in tickets /\ (poolClosed => t \in toCancel)

(* Before it is cancelled, and while it is adopted, nobody disposes of a   *)
(* ticket.                                                                 *)
Untouched == {"none", "pending", "adopting", "adopted"}
NobodyDisposes ==
    \A t \in Tickets : state[t] \in Untouched =>
        /\ \A a \in Agents : canceller[t][a] = "idle"
        /\ worker[t] # "dispose"
        /\ t \notin builtDisposed

(* Adoption belongs to one waiter, from "adopting" to "adopted". *)
AdoptedOnce ==
    \A t \in Tickets :
        /\ thread[t] = "adopting" => state[t] = "adopting"
        /\ \/ calls[t]["adopt"] = 0
           \/ /\ calls[t]["adopt"] = 1
              /\ \/ thread[t] = "accepting" /\ state[t] = "adopting"
                 \/ thread[t] = "done" /\ state[t] = "adopted"
                 \/ thread[t] = "failed"

(* The two claim flags stand for the calls they guard. *)
DisposedOnce ==
    \A t \in Tickets :
        /\ calls[t]["abort"] <= 1
        /\ calls[t]["discard"] <= 1
        /\ thread[t] \in Before => calls[t]["abort"] = 0
        /\ state[t] # "none" /\ t \notin stageAborted => calls[t]["abort"] = 0
        /\ t \notin builtDisposed => calls[t]["discard"] = 0

(* _leases counts the leases that are not closed. *)
Pinning(t) == {l \in Leases : lease[t][l] \in {"open", "closing"}}
LeasesCounted == \A t \in Tickets : leases[t] = Cardinality(Pinning(t))

(* The backing is released by the owner, or by the check that refused it.  *)
ReleasedOnce ==
    \A t \in Tickets :
        /\ calls[t]["release"] <= 1
        /\ owner[t] # "none" => thread[t] = "done"
        /\ owner[t] = "none" => t \notin releaseRequested /\ Pinning(t) = {}
        /\ owner[t] = "held" \/ (owner[t] = "none" /\ thread[t] # "failed") =>
              calls[t]["release"] = 0

(* BackingOutlivesLeases in terms of Pinning. *)
PinningIsHeld ==
    \A t \in Tickets :
        /\ Pinning(t) # {} => owner[t] = "held"
        /\ owner[t] = "held" /\ t \in releaseRequested => Pinning(t) # {}
        /\ owner[t] = "gone" => calls[t]["release"] = 1

Owned == LeasesCounted /\ ReleasedOnce /\ PinningIsHeld

(* The future of a ticket tells where its worker is. *)
JobSettles ==
    \A t \in Tickets :
        /\ worker[t] = "none" <=> future[t] = "none"
        /\ worker[t] \in {"start", "stale", "build"} <=> future[t] = "running"

(* Where the thread of a ticket is while the ticket is in a given state;   *)
(* only a result that was built is adopted.                                *)
ThreadFollowsTicket ==
    \A t \in Tickets :
        /\ state[t] = "pending" =>
              thread[t] \in {"await", "waiting", "built", "cancelStale", "cancelBuild"}
        /\ state[t] = "adopting" => thread[t] \in {"adopting", "accepting"}
        /\ state[t] \in {"adopted", "fallback"} => thread[t] = "done"
        /\ thread[t] = "built" \/ state[t] \in {"adopting", "adopted"} => future[t] = "done"
        /\ state[t] = "adopted" \/ (state[t] = "adopting" /\ thread[t] = "accepting") =>
              calls[t]["adopt"] = 1

(* A ticket that is given up is aborted unless it was built, and discarded *)
(* if it was and nobody adopted it; where this has not happened yet, a     *)
(* canceller or the callback of the worker is on its way to do it.  The    *)
(* canceller that found the job running aborts; the callback of the job,   *)
(* which then finds the ticket cancelled, disposes of what it still built. *)
Reclaimed(t) ==
    \/ /\ future[t] # "done"
       /\ t \in stageAborted
    \/ /\ future[t] # "done"
       /\ \E a \in Agents : canceller[t][a] \in {"marked", "abort"}
    \/ /\ future[t] = "done"
       /\ \/ t \in builtDisposed
          \/ calls[t]["adopt"] = 1
          \/ worker[t] \in {"callback", "dispose"}
          \/ \E a \in Agents : canceller[t][a] \in {"marked", "discard"}
ClaimsAreCalls(t) ==
    /\ t \in stageAborted => calls[t]["abort"] >= 1
    /\ t \in builtDisposed => calls[t]["discard"] >= 1
GivenUpIsReclaimed ==
    \A t \in Tickets :
        /\ state[t] \in {"cancelled", "fallback"} => Reclaimed(t)
        /\ ClaimsAreCalls(t)

(* An adopted capsule has an owner or was released when it was refused.   *)
ProductIsReturned ==
    \A t \in Tickets :
        /\ thread[t] = "done" => owner[t] # "none"
        /\ thread[t] = "failed" /\ calls[t]["adopt"] = 1 /\ product[t] = "capsule" =>
              calls[t]["release"] = 1

CapsuleInv ==
    /\ CapsuleTypeOK
    /\ Beginnings
    /\ OneJobAtATime
    /\ PendingIsListed
    /\ NobodyDisposes
    /\ AdoptedOnce
    /\ DisposedOnce
    /\ Owned
    /\ JobSettles
    /\ ThreadFollowsTicket
    /\ GivenUpIsReclaimed
    /\ ProductIsReturned

(* What a call of the adapter, and a call guarded by a claim, counts. *)
CallsOK == calls \in [Tickets -> [Calls -> Nat]]

(* A call is counted once and for its ticket only.                         *)
LEMMA CallEffect ==
    ASSUME CallsOK, NEW t \in Tickets, NEW kinds, Call(t, kinds)
    PROVE  /\ CallsOK'
           /\ \A u \in Tickets, k \in Calls :
                 calls'[u][k] = IF u = t /\ k \in kinds THEN calls[u][k] + 1 ELSE calls[u][k]
<1> DEFINE row == [k \in Calls |-> IF k \in kinds THEN calls[t][k] + 1 ELSE calls[t][k]]
<1>1. calls' = [calls EXCEPT ![t] = row]
  BY DEF Call
<1>2. row \in [Calls -> Nat]
  BY DEF CallsOK
<1>3. calls' \in [Tickets -> [Calls -> Nat]]
  BY <1>1, <1>2 DEF CallsOK
<1>4. ASSUME NEW u \in Tickets, NEW k \in Calls
      PROVE  calls'[u][k] = IF u = t /\ k \in kinds THEN calls[u][k] + 1 ELSE calls[u][k]
  BY <1>1, <1>4 DEF CallsOK
<1>5. QED
  BY <1>3, <1>4 DEF CallsOK

(* The stage of a ticket is aborted at most once.                          *)
LEMMA AbortEffect ==
    ASSUME CallsOK, NEW t \in Tickets, AbortStage(t)
    PROVE  /\ CallsOK'
           /\ stageAborted' = stageAborted \cup {t}
           /\ \A u \in Tickets, k \in Calls :
                 calls'[u][k] = IF u = t /\ k = "abort" /\ t \notin stageAborted
                                THEN calls[u][k] + 1 ELSE calls[u][k]
<1>1. CASE t \in stageAborted
  BY <1>1 DEF AbortStage, CallsOK
<1>2. CASE t \notin stageAborted
  BY <1>2, CallEffect DEF AbortStage
<1>3. QED
  BY <1>1, <1>2

(* A product dropped is one release of the backing.                        *)
LEMMA DropEffect ==
    ASSUME CallsOK, NEW t \in Tickets, DropProduct(t)
    PROVE  /\ CallsOK'
           /\ \A u \in Tickets, k \in Calls :
                 calls'[u][k] = IF u = t /\ k = "release" THEN calls[u][k] + 1 ELSE calls[u][k]
<1>1. Call(t, {"release"})
  BY DEF DropProduct
<1>2. QED
  BY <1>1, CallEffect

(* A built result is discarded at most once.                               *)
LEMMA DisposeEffect ==
    ASSUME CallsOK, NEW t \in Tickets, DisposeBuilt(t)
    PROVE  /\ CallsOK'
           /\ builtDisposed' = builtDisposed \cup {t}
           /\ \A u \in Tickets, k \in Calls :
                 calls'[u][k] = IF u = t /\ k = "discard" /\ t \notin builtDisposed
                                THEN calls[u][k] + 1 ELSE calls[u][k]
<1>1. CASE t \in builtDisposed
  BY <1>1 DEF DisposeBuilt, CallsOK
<1>2. CASE t \notin builtDisposed
  BY <1>2, CallEffect DEF DisposeBuilt
<1>3. QED
  BY <1>1, <1>2

(* A ticket and its worker come into being together. *)
LEMMA BeginningsStep == CapsuleTypeOK /\ Beginnings /\ [Next]_vars => Beginnings'
<1> SUFFICES ASSUME CapsuleTypeOK /\ Beginnings, [Next]_vars
             PROVE  Beginnings'
  OBVIOUS
<1> USE DEF Beginnings, Before, CapsuleTypeOK, requestFrame, workerFrame, cancelFrame,
           ownerFrame, poolVars, ticketVars, ownerVars
<1>1. ASSUME NEW t \in Tickets, Capture(t)
      PROVE  Beginnings'
  BY <1>1 DEF Capture, Goto
<1>2. ASSUME NEW t \in Tickets, CheckSource(t)
      PROVE  Beginnings'
  BY <1>2 DEF CheckSource, Goto
<1>3. ASSUME NEW t \in Tickets, ClaimSlot(t)
      PROVE  Beginnings'
  BY <1>3 DEF ClaimSlot, Goto
<1>4. ASSUME NEW t \in Tickets, RefuseSubmit(t)
      PROVE  Beginnings'
  BY <1>4 DEF RefuseSubmit, Goto
<1>5. ASSUME NEW t \in Tickets, StageFails(t)
      PROVE  Beginnings'
  BY <1>5 DEF StageFails, Goto
<1>6. ASSUME NEW t \in Tickets, StagedTooLate(t)
      PROVE  Beginnings'
  BY <1>6 DEF StagedTooLate, Goto
<1>7. ASSUME NEW t \in Tickets, StartWorker(t)
      PROVE  Beginnings'
  BY <1>7 DEF StartWorker, Start, Goto
<1>8. ASSUME NEW t \in Tickets, WorkerChecks(t)
      PROVE  Beginnings'
  BY <1>8 DEF WorkerChecks, Work
<1>9. ASSUME NEW t \in Tickets, WorkerEnds(t)
      PROVE  Beginnings'
  BY <1>9 DEF WorkerEnds, Work, Settle
<1>10. ASSUME NEW t \in Tickets, CallbackReads(t)
      PROVE  Beginnings'
  BY <1>10 DEF CallbackReads, Work
<1>11. ASSUME NEW t \in Tickets, CallbackDisposes(t)
      PROVE  Beginnings'
  BY <1>11 DEF CallbackDisposes, Work
<1>12. ASSUME NEW t \in Tickets, FreeSlot(t)
      PROVE  Beginnings'
  BY <1>12 DEF FreeSlot, Work
<1>13. ASSUME NEW t \in Tickets, AwaitTicket(t)
      PROVE  Beginnings'
  BY <1>13 DEF AwaitTicket, Goto
<1>14. ASSUME NEW t \in Tickets, WaitEnds(t)
      PROVE  Beginnings'
  BY <1>14 DEF WaitEnds, Goto
<1>15. ASSUME NEW t \in Tickets, BeginAdoption(t)
      PROVE  Beginnings'
  BY <1>15 DEF BeginAdoption, Goto
<1>16. ASSUME NEW t \in Tickets, Adopt(t)
      PROVE  Beginnings'
  BY <1>16 DEF Adopt, Returned, Goto
<1>17. ASSUME NEW t \in Tickets, RefuseAdoption(t)
      PROVE  Beginnings'
  BY <1>17 DEF RefuseAdoption, Goto, Finish
<1>18. ASSUME NEW t \in Tickets, BuildFallback(t)
      PROVE  Beginnings'
  BY <1>18 DEF BuildFallback, Returned, Goto
<1>19. ASSUME NEW t \in Tickets, AcceptProduct(t)
      PROVE  Beginnings'
  BY <1>19 DEF AcceptProduct, Goto, Finish, Adopting
<1>20. ASSUME NEW t \in Tickets, RejectProduct(t) \/ RejectValue(t)
      PROVE  Beginnings'
  BY <1>20 DEF RejectProduct, RejectValue, Refuse, Goto, Finish, Adopting
<1>21. ASSUME NEW t \in Tickets, LetGo(t)
      PROVE  Beginnings'
  BY <1>21 DEF LetGo
<1>22. ASSUME NEW t \in Tickets, NEW l \in Leases, OpenLease(t, l)
      PROVE  Beginnings'
  BY <1>22 DEF OpenLease
<1>23. ASSUME NEW t \in Tickets, NEW l \in Leases, CloseLease(t, l)
      PROVE  Beginnings'
  BY <1>23 DEF CloseLease
<1>24. ASSUME NEW t \in Tickets, NEW l \in Leases, Unpin(t, l)
      PROVE  Beginnings'
  BY <1>24 DEF Unpin
<1>25. ASSUME NEW a \in Agents, NEW t \in Tickets, MarkCancelled(a, t)
      PROVE  Beginnings'
  BY <1>25 DEF MarkCancelled, CancelStep, Calling
<1>26. ASSUME NEW a \in Agents, NEW t \in Tickets, CancelRefused(a, t)
      PROVE  Beginnings'
  BY <1>26 DEF CancelRefused, CancelStep, Calling, Return, Goto
<1>27. ASSUME NEW a \in Agents, NEW t \in Tickets, LookAtFuture(a, t)
      PROVE  Beginnings'
  BY <1>27 DEF LookAtFuture, CancelStep, Calling
<1>28. ASSUME NEW a \in Agents, NEW t \in Tickets, Reclaim(a, t)
      PROVE  Beginnings'
  BY <1>28 DEF Reclaim, CancelStep, Calling
<1>29. ASSUME NEW a \in Agents, NEW t \in Tickets, CancelEnds(a, t)
      PROVE  Beginnings'
  BY <1>29 DEF CancelEnds, CancelStep, Calling, Return, Goto
<1>30. CASE AdvanceGeneration
  BY <1>30 DEF AdvanceGeneration
<1>31. CASE ClosePool
  BY <1>31 DEF ClosePool
<1>32. CASE UNCHANGED vars
  BY <1>32 DEF vars
<1>33. QED
  BY <1>1, <1>2, <1>3, <1>4, <1>5, <1>6, <1>7, <1>8, <1>9, <1>10, <1>11, <1>12, <1>13,
     <1>14, <1>15, <1>16, <1>17, <1>18, <1>19, <1>20, <1>21, <1>22, <1>23, <1>24, <1>25,
     <1>26, <1>27, <1>28, <1>29, <1>30, <1>31, <1>32
     DEF Next, Submit, WorkerStep, Await, OwnerStep, Cancel

(* The slot follows the physical job. *)
LEMMA OneJobStep ==
    CapsuleTypeOK /\ Beginnings /\ OneJobAtATime /\ [Next]_vars => OneJobAtATime'
<1> SUFFICES ASSUME CapsuleTypeOK /\ Beginnings /\ OneJobAtATime, [Next]_vars
             PROVE  OneJobAtATime'
  OBVIOUS
<1> USE DEF Beginnings, Before, CapsuleTypeOK, OneJobAtATime, requestFrame, workerFrame,
           cancelFrame, ownerFrame, poolVars, ticketVars, ownerVars
<1>1. ASSUME NEW t \in Tickets,
             \/ Capture(t) \/ CheckSource(t)
      PROVE  OneJobAtATime'
  BY <1>1, SMTT(30) DEF Capture, CheckSource, Goto
<1>2. ASSUME NEW t \in Tickets, ClaimSlot(t)
      PROVE  OneJobAtATime'
  BY <1>2, NoTicketAssumption DEF ClaimSlot, Goto
<1>3. ASSUME NEW t \in Tickets,
             \/ RefuseSubmit(t) \/ StageFails(t) \/ StagedTooLate(t) \/ StartWorker(t)
             \/ WorkerChecks(t)
      PROVE  OneJobAtATime'
  BY <1>3, SMTT(30) DEF RefuseSubmit, StageFails, StagedTooLate, StartWorker, WorkerChecks,
     Goto, Start, Work
<1>4. ASSUME NEW t \in Tickets,
             \/ WorkerEnds(t) \/ CallbackReads(t) \/ CallbackDisposes(t) \/ FreeSlot(t)
             \/ AwaitTicket(t)
      PROVE  OneJobAtATime'
  BY <1>4, SMTT(30) DEF WorkerEnds, CallbackReads, CallbackDisposes, FreeSlot, AwaitTicket,
     Work, Settle, Goto
<1>5. ASSUME NEW t \in Tickets,
             \/ WaitEnds(t) \/ BeginAdoption(t) \/ Adopt(t) \/ RefuseAdoption(t)
             \/ BuildFallback(t)
      PROVE  OneJobAtATime'
  BY <1>5, SMTT(30) DEF WaitEnds, BeginAdoption, Adopt, RefuseAdoption, BuildFallback, Returned,
     Goto, Finish
<1>6. ASSUME NEW t \in Tickets,
             \/ AcceptProduct(t) \/ RejectProduct(t) \/ RejectValue(t) \/ LetGo(t)
      PROVE  OneJobAtATime'
  BY <1>6, SMTT(30) DEF AcceptProduct, RejectProduct, RejectValue, Refuse, LetGo, Goto,
     Finish, Adopting
<1>7. ASSUME NEW t \in Tickets, NEW l \in Leases,
             \/ OpenLease(t, l) \/ CloseLease(t, l) \/ Unpin(t, l)
      PROVE  OneJobAtATime'
  BY <1>7, SMTT(30) DEF OpenLease, CloseLease, Unpin
<1>8. ASSUME NEW a \in Agents, NEW t \in Tickets,
             \/ MarkCancelled(a, t) \/ CancelRefused(a, t) \/ LookAtFuture(a, t)
             \/ Reclaim(a, t) \/ CancelEnds(a, t)
      PROVE  OneJobAtATime'
  BY <1>8, SMTT(30) DEF MarkCancelled, CancelRefused, LookAtFuture, Reclaim, CancelEnds,
     CancelStep, Calling, Return, Goto
<1>9. CASE AdvanceGeneration
  BY <1>9 DEF AdvanceGeneration
<1>10. CASE ClosePool
  BY <1>10 DEF ClosePool
<1>11. CASE UNCHANGED vars
  BY <1>11 DEF vars
<1>12. QED
  BY <1>1, <1>2, <1>3, <1>4, <1>5, <1>6, <1>7, <1>8, <1>9, <1>10, <1>11
     DEF Next, Submit, WorkerStep, Await, OwnerStep, Cancel

(* No pending ticket escapes close. *)
LEMMA PendingStep ==
    CapsuleTypeOK /\ PendingIsListed /\ NobodyDisposes /\ [Next]_vars => PendingIsListed'
<1> SUFFICES ASSUME CapsuleTypeOK /\ PendingIsListed /\ NobodyDisposes, [Next]_vars
             PROVE  PendingIsListed'
  OBVIOUS
<1> USE DEF CapsuleTypeOK, PendingIsListed, NobodyDisposes, Untouched, requestFrame,
           workerFrame, cancelFrame, ownerFrame, poolVars, ticketVars, ownerVars
<1>1. ASSUME NEW t \in Tickets,
             \/ Capture(t) \/ CheckSource(t) \/ ClaimSlot(t) \/ RefuseSubmit(t)
             \/ StageFails(t)
      PROVE  PendingIsListed'
  BY <1>1, SMTT(30) DEF Capture, CheckSource, ClaimSlot, RefuseSubmit, StageFails, Goto
<1>2. ASSUME NEW t \in Tickets,
             \/ StagedTooLate(t) \/ StartWorker(t) \/ WorkerChecks(t) \/ WorkerEnds(t)
             \/ CallbackReads(t)
      PROVE  PendingIsListed'
  BY <1>2, SMTT(30) DEF StagedTooLate, StartWorker, WorkerChecks, WorkerEnds, CallbackReads,
     Goto, Start, Work, Settle
<1>3. ASSUME NEW t \in Tickets,
             \/ CallbackDisposes(t) \/ FreeSlot(t) \/ AwaitTicket(t) \/ WaitEnds(t)
             \/ BeginAdoption(t)
      PROVE  PendingIsListed'
  BY <1>3, SMTT(30) DEF CallbackDisposes, FreeSlot, AwaitTicket, WaitEnds, BeginAdoption,
     Work, Goto
<1>4. ASSUME NEW t \in Tickets,
             \/ Adopt(t) \/ RefuseAdoption(t) \/ BuildFallback(t) \/ AcceptProduct(t)
             \/ RejectProduct(t) \/ RejectValue(t)
      PROVE  PendingIsListed'
  BY <1>4, SMTT(30) DEF Adopt, RefuseAdoption, BuildFallback, Returned, AcceptProduct,
     RejectProduct, RejectValue, Refuse, Goto, Finish, Adopting
<1>5. ASSUME NEW t \in Tickets, LetGo(t)
      PROVE  PendingIsListed'
  BY <1>5 DEF LetGo
<1>6. ASSUME NEW t \in Tickets, NEW l \in Leases,
             \/ OpenLease(t, l) \/ CloseLease(t, l) \/ Unpin(t, l)
      PROVE  PendingIsListed'
  BY <1>6, SMTT(30) DEF OpenLease, CloseLease, Unpin
<1>7. ASSUME NEW a \in Agents, NEW t \in Tickets,
             \/ MarkCancelled(a, t) \/ CancelRefused(a, t) \/ LookAtFuture(a, t)
             \/ Reclaim(a, t) \/ CancelEnds(a, t)
      PROVE  PendingIsListed'
  BY <1>7, SMTT(30) DEF MarkCancelled, CancelRefused, LookAtFuture, Reclaim, CancelEnds,
     CancelStep, Calling, Return, Goto
<1>8. CASE AdvanceGeneration
  BY <1>8 DEF AdvanceGeneration
<1>9. CASE ClosePool
  BY <1>9 DEF ClosePool
<1>10. CASE UNCHANGED vars
  BY <1>10 DEF vars
<1>11. QED
  BY <1>1, <1>2, <1>3, <1>4, <1>5, <1>6, <1>7, <1>8, <1>9, <1>10
     DEF Next, Submit, WorkerStep, Await, OwnerStep, Cancel

(* Disposal starts with a cancellation, and cancellation with "pending". *)
LEMMA NobodyStep ==
    CapsuleTypeOK /\ Beginnings /\ NobodyDisposes /\ [Next]_vars => NobodyDisposes'
<1> SUFFICES ASSUME CapsuleTypeOK /\ Beginnings /\ NobodyDisposes, [Next]_vars
             PROVE  NobodyDisposes'
  OBVIOUS
<1> USE DEF CapsuleTypeOK, NobodyDisposes, Untouched, Beginnings, Before, CancelStates,
           Agents, requestFrame, workerFrame, cancelFrame, ownerFrame, poolVars, ticketVars,
           ownerVars
<1>1. ASSUME NEW t \in Tickets,
             \/ Capture(t) \/ CheckSource(t) \/ ClaimSlot(t)
      PROVE  NobodyDisposes'
  BY <1>1, SMTT(30) DEF Capture, CheckSource, ClaimSlot, Goto
<1>2. ASSUME NEW t \in Tickets,
             \/ RefuseSubmit(t) \/ StageFails(t) \/ StagedTooLate(t)
      PROVE  NobodyDisposes'
  BY <1>2, SMTT(30) DEF RefuseSubmit, StageFails, StagedTooLate, Goto
<1>3. ASSUME NEW t \in Tickets,
             \/ StartWorker(t) \/ WorkerChecks(t) \/ WorkerEnds(t)
      PROVE  NobodyDisposes'
  BY <1>3, SMTT(30) DEF StartWorker, WorkerChecks, WorkerEnds, Start, Goto, Work, Settle
<1>4. ASSUME NEW t \in Tickets,
             \/ CallbackReads(t) \/ CallbackDisposes(t) \/ FreeSlot(t)
      PROVE  NobodyDisposes'
  BY <1>4, SMTT(30) DEF CallbackReads, CallbackDisposes, FreeSlot, Work, DisposeBuilt
<1>5. ASSUME NEW t \in Tickets,
             \/ AwaitTicket(t) \/ WaitEnds(t) \/ BeginAdoption(t)
      PROVE  NobodyDisposes'
  BY <1>5, SMTT(30) DEF AwaitTicket, WaitEnds, BeginAdoption, Goto
<1>6. ASSUME NEW t \in Tickets,
             \/ Adopt(t) \/ RefuseAdoption(t) \/ BuildFallback(t)
      PROVE  NobodyDisposes'
  BY <1>6, SMTT(30) DEF Adopt, RefuseAdoption, BuildFallback, Returned, Goto, DisposeBuilt, Finish
<1>7. ASSUME NEW t \in Tickets,
             \/ AcceptProduct(t) \/ RejectProduct(t) \/ RejectValue(t) \/ LetGo(t)
      PROVE  NobodyDisposes'
  BY <1>7, SMTT(30) DEF AcceptProduct, RejectProduct, RejectValue, Refuse, LetGo, Goto,
     Finish, Adopting
<1>8. ASSUME NEW t \in Tickets, NEW l \in Leases,
             \/ OpenLease(t, l) \/ CloseLease(t, l) \/ Unpin(t, l)
      PROVE  NobodyDisposes'
  BY <1>8, SMTT(30) DEF OpenLease, CloseLease, Unpin
<1>9. ASSUME NEW a \in Agents, NEW t \in Tickets,
             \/ MarkCancelled(a, t) \/ CancelRefused(a, t)
      PROVE  NobodyDisposes'
  BY <1>9, SMTT(30) DEF MarkCancelled, CancelRefused, CancelStep, Calling, Return, Goto
<1>10. ASSUME NEW a \in Agents, NEW t \in Tickets, LookAtFuture(a, t)
      PROVE  NobodyDisposes'
  <2>1. state[t] \notin Untouched
    BY <1>10 DEF LookAtFuture, CancelStep
  <2>2. \A u \in Tickets \ {t} : canceller'[u] = canceller[u]
    BY <1>10 DEF LookAtFuture, CancelStep
  <2>3. UNCHANGED <<state, worker, builtDisposed>>
    BY <1>10 DEF LookAtFuture
  <2>4. QED
    BY <2>1, <2>2, <2>3, ZenonT(40)
<1>11. ASSUME NEW a \in Agents, NEW t \in Tickets,
             \/ Reclaim(a, t) \/ CancelEnds(a, t)
      PROVE  NobodyDisposes'
  BY <1>11, SMTT(30) DEF Reclaim, CancelEnds, CancelStep, Calling, DisposeBuilt, Return,
     Goto
<1>12. CASE AdvanceGeneration
  BY <1>12 DEF AdvanceGeneration
<1>13. CASE ClosePool
  BY <1>13 DEF ClosePool
<1>14. CASE UNCHANGED vars
  BY <1>14 DEF vars
<1>15. QED
  BY <1>1, <1>2, <1>3, <1>4, <1>5, <1>6, <1>7, <1>8, <1>9, <1>10, <1>11, <1>12, <1>13, <1>14
     DEF Next, Submit, WorkerStep, Await, OwnerStep, Cancel

(* Only the waiter moves a ticket that is being adopted. *)
LEMMA AdoptedStep ==
    CapsuleTypeOK /\ Beginnings /\ NobodyDisposes /\ AdoptedOnce /\ [Next]_vars => AdoptedOnce'
<1> SUFFICES ASSUME CapsuleTypeOK /\ Beginnings /\ NobodyDisposes /\ AdoptedOnce, [Next]_vars
             PROVE  AdoptedOnce'
  OBVIOUS
<1> USE DEF CapsuleTypeOK, AdoptedOnce, NobodyDisposes, Untouched, Beginnings, Before,
           Calls, CallsOK, requestFrame, workerFrame, cancelFrame, ownerFrame, poolVars,
           ticketVars, ownerVars
<1>1. ASSUME NEW t \in Tickets, Capture(t)
      PROVE  AdoptedOnce'
  BY <1>1 DEF Capture, Goto
<1>2. ASSUME NEW t \in Tickets, CheckSource(t)
      PROVE  AdoptedOnce'
  BY <1>2 DEF CheckSource, Goto
<1>3. ASSUME NEW t \in Tickets, ClaimSlot(t)
      PROVE  AdoptedOnce'
  BY <1>3 DEF ClaimSlot, Goto
<1>4. ASSUME NEW t \in Tickets, RefuseSubmit(t)
      PROVE  AdoptedOnce'
  BY <1>4 DEF RefuseSubmit, Goto
<1>5. ASSUME NEW t \in Tickets, StageFails(t)
      PROVE  AdoptedOnce'
  BY <1>5 DEF StageFails, Goto
<1>6. ASSUME NEW t \in Tickets, StagedTooLate(t)
      PROVE  AdoptedOnce'
  BY <1>6, CallEffect DEF StagedTooLate, Goto
<1>7. ASSUME NEW t \in Tickets, StartWorker(t)
      PROVE  AdoptedOnce'
  BY <1>7 DEF StartWorker, Start, Goto
<1>8. ASSUME NEW t \in Tickets, WorkerChecks(t)
      PROVE  AdoptedOnce'
  BY <1>8, AbortEffect DEF WorkerChecks, Work
<1>9. ASSUME NEW t \in Tickets, WorkerEnds(t)
      PROVE  AdoptedOnce'
  BY <1>9 DEF WorkerEnds, Work, Settle
<1>10. ASSUME NEW t \in Tickets, CallbackReads(t)
      PROVE  AdoptedOnce'
  BY <1>10 DEF CallbackReads, Work
<1>11. ASSUME NEW t \in Tickets, CallbackDisposes(t)
      PROVE  AdoptedOnce'
  BY <1>11, DisposeEffect DEF CallbackDisposes, Work
<1>12. ASSUME NEW t \in Tickets, FreeSlot(t)
      PROVE  AdoptedOnce'
  BY <1>12 DEF FreeSlot, Work
<1>13. ASSUME NEW t \in Tickets, AwaitTicket(t)
      PROVE  AdoptedOnce'
  BY <1>13 DEF AwaitTicket, Goto
<1>14. ASSUME NEW t \in Tickets, WaitEnds(t)
      PROVE  AdoptedOnce'
  BY <1>14 DEF WaitEnds, Goto
<1>15. ASSUME NEW t \in Tickets, BeginAdoption(t)
      PROVE  AdoptedOnce'
  BY <1>15 DEF BeginAdoption, Goto
<1>16. ASSUME NEW t \in Tickets, Adopt(t)
      PROVE  AdoptedOnce'
  BY <1>16, CallEffect DEF Adopt, Returned, Goto
<1>17. ASSUME NEW t \in Tickets, RefuseAdoption(t)
      PROVE  AdoptedOnce'
  BY <1>17, DisposeEffect DEF RefuseAdoption, Goto, Finish
<1>18. ASSUME NEW t \in Tickets, BuildFallback(t)
      PROVE  AdoptedOnce'
  BY <1>18 DEF BuildFallback, Returned, Goto
<1>19. ASSUME NEW t \in Tickets, AcceptProduct(t)
      PROVE  AdoptedOnce'
  BY <1>19 DEF AcceptProduct, Goto, Finish, Adopting
<1>20. ASSUME NEW t \in Tickets, RejectProduct(t) \/ RejectValue(t)
      PROVE  AdoptedOnce'
  BY <1>20, CallEffect DEF RejectProduct, RejectValue, Refuse, Goto, Finish, Adopting
<1>21. ASSUME NEW t \in Tickets, LetGo(t)
      PROVE  AdoptedOnce'
  <2>1. \A u \in Tickets, k \in Calls : k # "release" => calls'[u][k] = calls[u][k]
    <3>1. CASE DropProduct(t)
      BY <3>1, DropEffect
    <3>2. CASE UNCHANGED calls
      BY <3>2
    <3>3. QED
      BY <3>1, <3>2, <1>21 DEF LetGo
  <2>2. UNCHANGED <<thread, state, stageAborted, builtDisposed>>
    BY <1>21 DEF LetGo
  <2>3. QED
    BY <2>1, <2>2
<1>22. ASSUME NEW t \in Tickets, NEW l \in Leases, OpenLease(t, l)
      PROVE  AdoptedOnce'
  BY <1>22 DEF OpenLease
<1>23. ASSUME NEW t \in Tickets, NEW l \in Leases, CloseLease(t, l)
      PROVE  AdoptedOnce'
  BY <1>23 DEF CloseLease
<1>24. ASSUME NEW t \in Tickets, NEW l \in Leases, Unpin(t, l)
      PROVE  AdoptedOnce'
  <2>1. \A u \in Tickets, k \in Calls : k # "release" => calls'[u][k] = calls[u][k]
    <3>1. CASE DropProduct(t)
      BY <3>1, DropEffect
    <3>2. CASE UNCHANGED calls
      BY <3>2
    <3>3. QED
      BY <3>1, <3>2, <1>24 DEF Unpin
  <2>2. UNCHANGED <<thread, state, stageAborted, builtDisposed>>
    BY <1>24 DEF Unpin
  <2>3. QED
    BY <2>1, <2>2
<1>25. ASSUME NEW a \in Agents, NEW t \in Tickets, MarkCancelled(a, t)
      PROVE  AdoptedOnce'
  BY <1>25 DEF MarkCancelled, CancelStep, Calling
<1>26. ASSUME NEW a \in Agents, NEW t \in Tickets, CancelRefused(a, t)
      PROVE  AdoptedOnce'
  BY <1>26 DEF CancelRefused, CancelStep, Calling, Return, Goto
<1>27. ASSUME NEW a \in Agents, NEW t \in Tickets, LookAtFuture(a, t)
      PROVE  AdoptedOnce'
  BY <1>27 DEF LookAtFuture, CancelStep, Calling
<1>28. ASSUME NEW a \in Agents, NEW t \in Tickets, Reclaim(a, t)
      PROVE  AdoptedOnce'
  BY <1>28, AbortEffect, DisposeEffect DEF Reclaim, CancelStep, Calling
<1>29. ASSUME NEW a \in Agents, NEW t \in Tickets, CancelEnds(a, t)
      PROVE  AdoptedOnce'
  BY <1>29 DEF CancelEnds, CancelStep, Calling, Return, Goto
<1>30. CASE AdvanceGeneration
  BY <1>30 DEF AdvanceGeneration
<1>31. CASE ClosePool
  BY <1>31 DEF ClosePool
<1>32. CASE UNCHANGED vars
  BY <1>32 DEF vars
<1>33. QED
  BY <1>1, <1>2, <1>3, <1>4, <1>5, <1>6, <1>7, <1>8, <1>9, <1>10, <1>11, <1>12, <1>13,
     <1>14, <1>15, <1>16, <1>17, <1>18, <1>19, <1>20, <1>21, <1>22, <1>23, <1>24, <1>25,
     <1>26, <1>27, <1>28, <1>29, <1>30, <1>31, <1>32
     DEF Next, Submit, WorkerStep, Await, OwnerStep, Cancel

(* The claims are taken once. *)
LEMMA DisposedStep ==
    CapsuleTypeOK /\ Beginnings /\ NobodyDisposes /\ DisposedOnce /\ [Next]_vars => DisposedOnce'
<1> SUFFICES ASSUME CapsuleTypeOK /\ Beginnings /\ NobodyDisposes /\ DisposedOnce, [Next]_vars
             PROVE  DisposedOnce'
  OBVIOUS
<1> USE DEF CapsuleTypeOK, DisposedOnce, NobodyDisposes, Untouched, Beginnings, Before,
           Calls, CallsOK, requestFrame, workerFrame, cancelFrame, ownerFrame, poolVars,
           ticketVars, ownerVars
<1>1. ASSUME NEW t \in Tickets, Capture(t)
      PROVE  DisposedOnce'
  BY <1>1 DEF Capture, Goto
<1>2. ASSUME NEW t \in Tickets, CheckSource(t)
      PROVE  DisposedOnce'
  BY <1>2 DEF CheckSource, Goto
<1>3. ASSUME NEW t \in Tickets, ClaimSlot(t)
      PROVE  DisposedOnce'
  BY <1>3 DEF ClaimSlot, Goto
<1>4. ASSUME NEW t \in Tickets, RefuseSubmit(t)
      PROVE  DisposedOnce'
  BY <1>4 DEF RefuseSubmit, Goto
<1>5. ASSUME NEW t \in Tickets, StageFails(t)
      PROVE  DisposedOnce'
  BY <1>5 DEF StageFails, Goto
<1>6. ASSUME NEW t \in Tickets, StagedTooLate(t)
      PROVE  DisposedOnce'
  BY <1>6, CallEffect DEF StagedTooLate, Goto
<1>7. ASSUME NEW t \in Tickets, StartWorker(t)
      PROVE  DisposedOnce'
  BY <1>7 DEF StartWorker, Start, Goto
<1>8. ASSUME NEW t \in Tickets, WorkerChecks(t)
      PROVE  DisposedOnce'
  BY <1>8, AbortEffect DEF WorkerChecks, Work
<1>9. ASSUME NEW t \in Tickets, WorkerEnds(t)
      PROVE  DisposedOnce'
  BY <1>9 DEF WorkerEnds, Work, Settle
<1>10. ASSUME NEW t \in Tickets, CallbackReads(t)
      PROVE  DisposedOnce'
  BY <1>10 DEF CallbackReads, Work
<1>11. ASSUME NEW t \in Tickets, CallbackDisposes(t)
      PROVE  DisposedOnce'
  BY <1>11, DisposeEffect DEF CallbackDisposes, Work
<1>12. ASSUME NEW t \in Tickets, FreeSlot(t)
      PROVE  DisposedOnce'
  BY <1>12 DEF FreeSlot, Work
<1>13. ASSUME NEW t \in Tickets, AwaitTicket(t)
      PROVE  DisposedOnce'
  BY <1>13 DEF AwaitTicket, Goto
<1>14. ASSUME NEW t \in Tickets, WaitEnds(t)
      PROVE  DisposedOnce'
  BY <1>14 DEF WaitEnds, Goto
<1>15. ASSUME NEW t \in Tickets, BeginAdoption(t)
      PROVE  DisposedOnce'
  BY <1>15 DEF BeginAdoption, Goto
<1>16. ASSUME NEW t \in Tickets, Adopt(t)
      PROVE  DisposedOnce'
  BY <1>16, CallEffect DEF Adopt, Returned, Goto
<1>17. ASSUME NEW t \in Tickets, RefuseAdoption(t)
      PROVE  DisposedOnce'
  BY <1>17, DisposeEffect DEF RefuseAdoption, Goto, Finish
<1>18. ASSUME NEW t \in Tickets, BuildFallback(t)
      PROVE  DisposedOnce'
  BY <1>18 DEF BuildFallback, Returned, Goto
<1>19. ASSUME NEW t \in Tickets, AcceptProduct(t)
      PROVE  DisposedOnce'
  BY <1>19 DEF AcceptProduct, Goto, Finish, Adopting
<1>20. ASSUME NEW t \in Tickets, RejectProduct(t) \/ RejectValue(t)
      PROVE  DisposedOnce'
  BY <1>20, CallEffect DEF RejectProduct, RejectValue, Refuse, Goto, Finish, Adopting
<1>21. ASSUME NEW t \in Tickets, LetGo(t)
      PROVE  DisposedOnce'
  <2>1. \A u \in Tickets, k \in Calls : k # "release" => calls'[u][k] = calls[u][k]
    <3>1. CASE DropProduct(t)
      BY <3>1, DropEffect
    <3>2. CASE UNCHANGED calls
      BY <3>2
    <3>3. QED
      BY <3>1, <3>2, <1>21 DEF LetGo
  <2>2. UNCHANGED <<thread, state, stageAborted, builtDisposed>>
    BY <1>21 DEF LetGo
  <2>3. QED
    BY <2>1, <2>2
<1>22. ASSUME NEW t \in Tickets, NEW l \in Leases, OpenLease(t, l)
      PROVE  DisposedOnce'
  BY <1>22 DEF OpenLease
<1>23. ASSUME NEW t \in Tickets, NEW l \in Leases, CloseLease(t, l)
      PROVE  DisposedOnce'
  BY <1>23 DEF CloseLease
<1>24. ASSUME NEW t \in Tickets, NEW l \in Leases, Unpin(t, l)
      PROVE  DisposedOnce'
  <2>1. \A u \in Tickets, k \in Calls : k # "release" => calls'[u][k] = calls[u][k]
    <3>1. CASE DropProduct(t)
      BY <3>1, DropEffect
    <3>2. CASE UNCHANGED calls
      BY <3>2
    <3>3. QED
      BY <3>1, <3>2, <1>24 DEF Unpin
  <2>2. UNCHANGED <<thread, state, stageAborted, builtDisposed>>
    BY <1>24 DEF Unpin
  <2>3. QED
    BY <2>1, <2>2
<1>25. ASSUME NEW a \in Agents, NEW t \in Tickets, MarkCancelled(a, t)
      PROVE  DisposedOnce'
  BY <1>25 DEF MarkCancelled, CancelStep, Calling
<1>26. ASSUME NEW a \in Agents, NEW t \in Tickets, CancelRefused(a, t)
      PROVE  DisposedOnce'
  BY <1>26 DEF CancelRefused, CancelStep, Calling, Return, Goto
<1>27. ASSUME NEW a \in Agents, NEW t \in Tickets, LookAtFuture(a, t)
      PROVE  DisposedOnce'
  BY <1>27 DEF LookAtFuture, CancelStep, Calling
<1>28. ASSUME NEW a \in Agents, NEW t \in Tickets, Reclaim(a, t)
      PROVE  DisposedOnce'
  BY <1>28, AbortEffect, DisposeEffect DEF Reclaim, CancelStep, Calling
<1>29. ASSUME NEW a \in Agents, NEW t \in Tickets, CancelEnds(a, t)
      PROVE  DisposedOnce'
  BY <1>29 DEF CancelEnds, CancelStep, Calling, Return, Goto
<1>30. CASE AdvanceGeneration
  BY <1>30 DEF AdvanceGeneration
<1>31. CASE ClosePool
  BY <1>31 DEF ClosePool
<1>32. CASE UNCHANGED vars
  BY <1>32 DEF vars
<1>33. QED
  BY <1>1, <1>2, <1>3, <1>4, <1>5, <1>6, <1>7, <1>8, <1>9, <1>10, <1>11, <1>12, <1>13,
     <1>14, <1>15, <1>16, <1>17, <1>18, <1>19, <1>20, <1>21, <1>22, <1>23, <1>24, <1>25,
     <1>26, <1>27, <1>28, <1>29, <1>30, <1>31, <1>32
     DEF Next, Submit, WorkerStep, Await, OwnerStep, Cancel

(* The owner of a ticket is left alone by every step that takes no thread  *)
(* back from "done" or "failed" and releases nothing.                      *)
LEMMA OwnedFrame ==
    ASSUME Owned, UNCHANGED ownerVars,
           \A u \in Tickets : calls'[u]["release"] = calls[u]["release"],
           \A u \in Tickets : thread[u] \in {"done", "failed"} => thread'[u] = thread[u]
    PROVE  Owned'
<1>1. \A u \in Tickets : Pinning(u)' = Pinning(u)
  BY DEF Pinning, ownerVars
<1>2. LeasesCounted'
  BY <1>1 DEF Owned, LeasesCounted, ownerVars
<1>3. ReleasedOnce'
  BY <1>1 DEF Owned, ReleasedOnce, ownerVars
<1>4. PinningIsHeld'
  BY <1>1 DEF Owned, PinningIsHeld, ownerVars
<1>5. QED
  BY <1>2, <1>3, <1>4 DEF Owned

(* The leases that pin a ticket's backing are finitely many.               *)
LEMMA PinningFinite == \A t \in Tickets : IsFiniteSet(Pinning(t)) /\ Cardinality(Pinning(t)) \in Nat
<1>1. ASSUME NEW t \in Tickets PROVE IsFiniteSet(Pinning(t))
  <2>1. Pinning(t) \subseteq Leases
    BY DEF Pinning
  <2>2. QED
    BY <2>1, LeasesAssumption, FS_Subset
<1>2. QED
  BY <1>1, FS_CardinalityType

(* The owner that drops its product releases the backing, nobody else does.*)
LEMMA DroppedOnce ==
    ASSUME owner \in [Tickets -> {"none", "held", "gone"}], ReleasedOnce, UNCHANGED thread,
           NEW t \in Tickets, owner[t] = "held", owner' = [owner EXCEPT ![t] = "gone"],
           \A u \in Tickets : calls'[u]["release"] = IF u = t THEN calls[u]["release"] + 1
                                                     ELSE calls[u]["release"],
           \A u \in Tickets \ {t} : /\ Pinning(u)' = Pinning(u)
                                    /\ u \in releaseRequested' <=> u \in releaseRequested
    PROVE  ReleasedOnce'
<1> DEFINE Clauses(u) ==
       /\ calls[u]["release"] <= 1
       /\ owner[u] # "none" => thread[u] = "done"
       /\ owner[u] = "none" => u \notin releaseRequested /\ Pinning(u) = {}
       /\ owner[u] = "held" \/ (owner[u] = "none" /\ thread[u] # "failed") =>
             calls[u]["release"] = 0
<1>1. ASSUME NEW u \in Tickets PROVE Clauses(u)
  BY DEF ReleasedOnce
<1>2. Clauses(t)'
  <2>1. owner'[t] = "gone" /\ thread'[t] = "done" /\ calls'[t]["release"] = 1
    BY <1>1
  <2>2. QED
    BY <2>1
<1>3. ASSUME NEW u \in Tickets \ {t} PROVE Clauses(u)'
  <2>1. /\ owner'[u] = owner[u]
        /\ thread'[u] = thread[u]
        /\ calls'[u]["release"] = calls[u]["release"]
        /\ Pinning(u)' = Pinning(u)
        /\ u \in releaseRequested' <=> u \in releaseRequested
    BY <1>3
  <2>2. QED
    BY <1>1, <1>3, <2>1
<1>4. \A u \in Tickets : Clauses(u)'
  BY <1>2, <1>3
<1>5. QED
  BY <1>4 DEF ReleasedOnce

(* The owner, its leases and the backing. *)
LEMMA OwnedStep == CapsuleTypeOK /\ Owned /\ [Next]_vars => Owned'
<1> SUFFICES ASSUME CapsuleTypeOK /\ Owned, [Next]_vars
             PROVE  Owned'
  OBVIOUS
<1> USE DEF CapsuleTypeOK, CallsOK, requestFrame, workerFrame, cancelFrame, ownerFrame,
           poolVars, ticketVars, ownerVars
<1>0. LeasesCounted /\ ReleasedOnce /\ PinningIsHeld
  BY DEF Owned
<1> USE <1>0
<1>1. ASSUME NEW t \in Tickets,
             \/ Capture(t) \/ CheckSource(t) \/ ClaimSlot(t) \/ RefuseSubmit(t)
             \/ StageFails(t)
      PROVE  Owned'
  BY <1>1, OwnedFrame, SMTT(30) DEF Capture, CheckSource, ClaimSlot, RefuseSubmit,
     StageFails, Goto
<1>2. ASSUME NEW t \in Tickets, StagedTooLate(t)
      PROVE  Owned'
  <2>1. \A u \in Tickets : calls'[u]["release"] = calls[u]["release"]
    BY <1>2, CallEffect DEF StagedTooLate, Goto, Calls
  <2>2. QED
    BY <1>2, <2>1, OwnedFrame DEF StagedTooLate, Goto
<1>3. ASSUME NEW t \in Tickets, StartWorker(t)
      PROVE  Owned'
  BY <1>3, OwnedFrame DEF StartWorker, Start, Goto
<1>4. ASSUME NEW t \in Tickets, WorkerChecks(t)
      PROVE  Owned'
  <2>1. \A u \in Tickets : calls'[u]["release"] = calls[u]["release"]
    BY <1>4, AbortEffect DEF WorkerChecks, Work, Calls
  <2>2. QED
    BY <1>4, <2>1, OwnedFrame DEF WorkerChecks, Work
<1>5. ASSUME NEW t \in Tickets,
             \/ WorkerEnds(t) \/ CallbackReads(t)
      PROVE  Owned'
  BY <1>5, OwnedFrame, SMTT(30) DEF WorkerEnds, CallbackReads, Work, Settle
<1>6. ASSUME NEW t \in Tickets, CallbackDisposes(t)
      PROVE  Owned'
  <2>1. \A u \in Tickets : calls'[u]["release"] = calls[u]["release"]
    BY <1>6, DisposeEffect DEF CallbackDisposes, Work, Calls
  <2>2. QED
    BY <1>6, <2>1, OwnedFrame DEF CallbackDisposes, Work
<1>7. ASSUME NEW t \in Tickets,
             \/ FreeSlot(t) \/ AwaitTicket(t) \/ WaitEnds(t) \/ BeginAdoption(t)
      PROVE  Owned'
  BY <1>7, OwnedFrame, SMTT(30) DEF FreeSlot, AwaitTicket, WaitEnds, BeginAdoption, Work,
     Goto
<1>8. ASSUME NEW t \in Tickets, Adopt(t)
      PROVE  Owned'
  <2>1. \A u \in Tickets : calls'[u]["release"] = calls[u]["release"]
    BY <1>8, CallEffect DEF Adopt, Returned, Goto, Calls
  <2>2. QED
    BY <1>8, <2>1, OwnedFrame DEF Adopt, Returned, Goto
<1>9. ASSUME NEW t \in Tickets, RefuseAdoption(t)
      PROVE  Owned'
  <2>1. \A u \in Tickets : calls'[u]["release"] = calls[u]["release"]
    BY <1>9, DisposeEffect DEF RefuseAdoption, Goto, Finish, Calls
  <2>2. QED
    BY <1>9, <2>1, OwnedFrame DEF RefuseAdoption, Goto, Finish
<1>10. ASSUME NEW t \in Tickets, BuildFallback(t)
      PROVE  Owned'
  BY <1>10, OwnedFrame DEF BuildFallback, Returned, Goto
<1>11. ASSUME NEW t \in Tickets, AcceptProduct(t)
      PROVE  Owned'
  <2>1. \A u \in Tickets : Pinning(u)' = Pinning(u)
    BY <1>11 DEF AcceptProduct, Pinning
  <2>2. LeasesCounted'
    BY <1>11, <2>1 DEF AcceptProduct, LeasesCounted
  <2>3. ReleasedOnce'
    BY <1>11, <2>1 DEF AcceptProduct, Goto, ReleasedOnce
  <2>4. PinningIsHeld'
    BY <1>11, <2>1 DEF AcceptProduct, Goto, PinningIsHeld, ReleasedOnce
  <2>5. QED
    BY <2>2, <2>3, <2>4 DEF Owned
<1>12. ASSUME NEW t \in Tickets, RejectProduct(t) \/ RejectValue(t)
      PROVE  Owned'
  <2>1. \A u \in Tickets : Pinning(u)' = Pinning(u)
    BY <1>12 DEF RejectProduct, RejectValue, Refuse, Pinning
  <2>2. LeasesCounted'
    BY <1>12, <2>1 DEF RejectProduct, RejectValue, Refuse, LeasesCounted
  <2>3. \A u \in Tickets :
          calls'[u]["release"] \in {calls[u]["release"], IF u = t THEN calls[u]["release"] + 1
                                                          ELSE calls[u]["release"]}
    BY <1>12, CallEffect DEF RejectProduct, RejectValue, Refuse, Calls
  <2>4. owner[t] = "none"
    BY <1>12 DEF RejectProduct, RejectValue, Refuse, Goto, ReleasedOnce
  <2>5. ReleasedOnce'
    BY <1>12, <2>1, <2>3, <2>4 DEF RejectProduct, RejectValue, Refuse, Goto, ReleasedOnce, Calls
  <2>6. PinningIsHeld'
    BY <1>12, <2>1, <2>3, <2>4 DEF RejectProduct, RejectValue, Refuse, Goto, PinningIsHeld
  <2>7. QED
    BY <2>2, <2>5, <2>6 DEF Owned
<1>13. ASSUME NEW t \in Tickets, LetGo(t)
      PROVE  Owned'
  <2>1. \A u \in Tickets : Pinning(u)' = Pinning(u)
    BY <1>13 DEF LetGo, Pinning
  <2>2. LeasesCounted'
    BY <1>13, <2>1 DEF LetGo, LeasesCounted
  <2>3. ASSUME owner[t] = "held", leases[t] = 0
        PROVE  ReleasedOnce' /\ PinningIsHeld'
    <3>1. Pinning(t) = {}
      BY <2>3, PinningFinite, FS_EmptySet DEF LeasesCounted
    <3>2. \A u \in Tickets :
            calls'[u]["release"] = IF u = t THEN calls[u]["release"] + 1
                                   ELSE calls[u]["release"]
      BY <1>13, <2>3, DropEffect DEF LetGo, Calls
    <3>3. owner' = [owner EXCEPT ![t] = "gone"]
      BY <1>13, <2>3 DEF LetGo, DropProduct
    <3>4. UNCHANGED thread /\ releaseRequested' = releaseRequested \cup {t}
      BY <1>13 DEF LetGo
    <3>5. ReleasedOnce'
      BY <2>1, <2>3, <3>2, <3>3, <3>4, DroppedOnce
    <3>6. PinningIsHeld'
      BY <2>1, <2>3, <3>1, <3>2, <3>3, <3>4 DEF PinningIsHeld, ReleasedOnce
    <3>7. QED
      BY <3>5, <3>6
  <2>4. ASSUME ~(owner[t] = "held" /\ leases[t] = 0)
        PROVE  ReleasedOnce' /\ PinningIsHeld'
    <3>1. owner[t] = "held" => Pinning(t) # {}
      BY <2>4, FS_EmptySet DEF LeasesCounted
    <3>2. QED
      BY <1>13, <2>1, <2>4, <3>1 DEF LetGo, ReleasedOnce, PinningIsHeld
  <2>5. QED
    BY <2>2, <2>3, <2>4 DEF Owned
<1>14. ASSUME NEW t \in Tickets, NEW l \in Leases, OpenLease(t, l)
      PROVE  Owned'
  <2>1. /\ Pinning(t)' = Pinning(t) \cup {l}
        /\ l \notin Pinning(t)
        /\ \A u \in Tickets \ {t} : Pinning(u)' = Pinning(u)
    BY <1>14 DEF OpenLease, Pinning
  <2>2. Cardinality(Pinning(t)') = Cardinality(Pinning(t)) + 1
    BY <2>1, PinningFinite, FS_AddElement
  <2>3. LeasesCounted'
    BY <1>14, <2>1, <2>2 DEF OpenLease, LeasesCounted
  <2>4. ReleasedOnce'
    BY <1>14, <2>1 DEF OpenLease, ReleasedOnce
  <2>5. PinningIsHeld'
    BY <1>14, <2>1 DEF OpenLease, PinningIsHeld
  <2>6. QED
    BY <2>3, <2>4, <2>5 DEF Owned
<1>15. ASSUME NEW t \in Tickets, NEW l \in Leases, CloseLease(t, l)
      PROVE  Owned'
  <2>1. \A u \in Tickets : Pinning(u)' = Pinning(u)
    BY <1>15 DEF CloseLease, Pinning
  <2>2. LeasesCounted'
    BY <1>15, <2>1 DEF CloseLease, LeasesCounted
  <2>3. ReleasedOnce' /\ PinningIsHeld'
    BY <1>15, <2>1 DEF CloseLease, ReleasedOnce, PinningIsHeld
  <2>4. QED
    BY <2>2, <2>3 DEF Owned
<1>16. ASSUME NEW t \in Tickets, NEW l \in Leases, Unpin(t, l)
      PROVE  Owned'
  <2>1. /\ Pinning(t)' = Pinning(t) \ {l}
        /\ l \in Pinning(t)
        /\ \A u \in Tickets \ {t} : Pinning(u)' = Pinning(u)
    BY <1>16 DEF Unpin, Pinning
  <2>2. Cardinality(Pinning(t)') = Cardinality(Pinning(t)) - 1
    BY <2>1, PinningFinite, FS_RemoveElement
  <2>3. LeasesCounted'
    BY <1>16, <2>1, <2>2 DEF Unpin, LeasesCounted
  <2>4. owner[t] = "held" /\ leases'[t] \in Nat
    BY <1>16, <2>1, <2>2, PinningFinite, FS_CardinalityType, FS_RemoveElement
       DEF Unpin, PinningIsHeld, LeasesCounted
  <2>5. ASSUME t \in releaseRequested, leases'[t] = 0
        PROVE  ReleasedOnce' /\ PinningIsHeld'
    <3>0. IsFiniteSet(Pinning(t)') /\ Cardinality(Pinning(t)') = 0
      <4>1. IsFiniteSet(Pinning(t)')
        BY <2>1, PinningFinite, FS_RemoveElement
      <4>2. leases'[t] = Cardinality(Pinning(t)')
        BY <2>3 DEF LeasesCounted
      <4>3. QED
        BY <2>5, <4>1, <4>2
    <3>1. Pinning(t)' = {}
      BY <3>0, FS_EmptySet
    <3>2. \A u \in Tickets :
            calls'[u]["release"] = IF u = t THEN calls[u]["release"] + 1
                                   ELSE calls[u]["release"]
      BY <1>16, <2>4, <2>5, DropEffect DEF Unpin, Calls
    <3>3. owner' = [owner EXCEPT ![t] = "gone"]
      BY <1>16, <2>4, <2>5 DEF Unpin, DropProduct
    <3>4. UNCHANGED <<thread, releaseRequested>>
      BY <1>16 DEF Unpin
    <3>5. ReleasedOnce'
      BY <2>1, <2>4, <3>2, <3>3, <3>4, DroppedOnce
    <3>6. PinningIsHeld'
      BY <2>1, <2>4, <3>1, <3>2, <3>3, <3>4 DEF PinningIsHeld, ReleasedOnce
    <3>7. QED
      BY <3>5, <3>6
  <2>6. ASSUME ~(t \in releaseRequested /\ leases'[t] = 0)
        PROVE  ReleasedOnce' /\ PinningIsHeld'
    <3>1. t \in releaseRequested => Pinning(t)' # {}
      BY <2>3, <2>6, FS_EmptySet DEF LeasesCounted
    <3>2. UNCHANGED <<calls, owner, releaseRequested, thread>>
      BY <1>16, <2>6 DEF Unpin
    <3>3. QED
      BY <2>1, <2>4, <3>1, <3>2 DEF ReleasedOnce, PinningIsHeld
  <2>7. QED
    BY <2>3, <2>5, <2>6 DEF Owned
<1>17. ASSUME NEW a \in Agents, NEW t \in Tickets,
             \/ MarkCancelled(a, t) \/ CancelRefused(a, t) \/ LookAtFuture(a, t)
      PROVE  Owned'
  BY <1>17, OwnedFrame, SMTT(30) DEF MarkCancelled, CancelRefused, LookAtFuture, CancelStep,
     Calling, Return, Goto
<1>18. ASSUME NEW a \in Agents, NEW t \in Tickets, Reclaim(a, t)
      PROVE  Owned'
  <2>1. \A u \in Tickets : calls'[u]["release"] = calls[u]["release"]
    BY <1>18, AbortEffect, DisposeEffect DEF Reclaim, CancelStep, Calling, Calls
  <2>2. QED
    BY <1>18, <2>1, OwnedFrame DEF Reclaim, CancelStep, Calling
<1>19. ASSUME NEW a \in Agents, NEW t \in Tickets, CancelEnds(a, t)
      PROVE  Owned'
  BY <1>19, OwnedFrame DEF CancelEnds, CancelStep, Calling, Return, Goto
<1>20. CASE AdvanceGeneration
  BY <1>20, OwnedFrame DEF AdvanceGeneration
<1>21. CASE ClosePool
  BY <1>21, OwnedFrame DEF ClosePool
<1>22. CASE UNCHANGED vars
  BY <1>22, OwnedFrame DEF vars
<1>23. QED
  BY <1>1, <1>2, <1>3, <1>4, <1>5, <1>6, <1>7, <1>8, <1>9, <1>10, <1>11, <1>12, <1>13,
     <1>14, <1>15, <1>16, <1>17, <1>18, <1>19, <1>20, <1>21, <1>22
     DEF Next, Submit, WorkerStep, Await, OwnerStep, Cancel

(* A step of cancel keeps its caller's place a place. *)
LEMMA CancelEffect ==
    ASSUME canceller \in [Tickets -> [Agents -> CancelStates]],
           NEW a \in Agents, NEW t \in Tickets, NEW here \in CancelStates,
           NEW there \in CancelStates, CancelStep(a, t, here, there)
    PROVE  canceller' \in [Tickets -> [Agents -> CancelStates]]
BY DEF CancelStep

(* Every action keeps the variables in their domains. *)
LEMMA ShapeStep == CapsuleTypeOK /\ LeasesCounted /\ [Next]_vars => CapsuleTypeOK'
<1> SUFFICES ASSUME CapsuleTypeOK /\ LeasesCounted, [Next]_vars
             PROVE  CapsuleTypeOK'
  OBVIOUS
<1> USE DEF CapsuleTypeOK, CallsOK, ThreadStates, WorkerStates, TicketStates, CancelStates,
           Agents, LeaseStates, requestFrame, workerFrame, cancelFrame, ownerFrame,
           poolVars, ticketVars, ownerVars
<1>1. ASSUME NEW t \in Tickets, Capture(t)
      PROVE  CapsuleTypeOK'
  BY <1>1 DEF Capture, Goto
<1>2. ASSUME NEW t \in Tickets, CheckSource(t)
      PROVE  CapsuleTypeOK'
  BY <1>2 DEF CheckSource, Goto
<1>3. ASSUME NEW t \in Tickets, ClaimSlot(t)
      PROVE  CapsuleTypeOK'
  BY <1>3 DEF ClaimSlot, Goto
<1>4. ASSUME NEW t \in Tickets, RefuseSubmit(t)
      PROVE  CapsuleTypeOK'
  BY <1>4 DEF RefuseSubmit, Goto
<1>5. ASSUME NEW t \in Tickets, StageFails(t)
      PROVE  CapsuleTypeOK'
  BY <1>5 DEF StageFails, Goto
<1>6. ASSUME NEW t \in Tickets, StagedTooLate(t)
      PROVE  CapsuleTypeOK'
  BY <1>6, CallEffect DEF StagedTooLate, Goto
<1>7. ASSUME NEW t \in Tickets, StartWorker(t)
      PROVE  CapsuleTypeOK'
  BY <1>7 DEF StartWorker, Start, Goto
<1>8. ASSUME NEW t \in Tickets, WorkerChecks(t)
      PROVE  CapsuleTypeOK'
  <2>1. CallsOK' /\ stageAborted' \subseteq Tickets
    <3>1. CASE AbortStage(t)
      BY <3>1, AbortEffect
    <3>2. CASE UNCHANGED <<stageAborted, calls>>
      BY <3>2
    <3>3. QED
      BY <3>1, <3>2, <1>8 DEF WorkerChecks
  <2>2. worker' \in [Tickets -> WorkerStates]
    <3>1. \/ worker' = [worker EXCEPT ![t] = "build"]
          \/ worker' = [worker EXCEPT ![t] = "stale"]
      BY <1>8 DEF WorkerChecks, Work
    <3>2. QED
      BY <3>1
  <2>3. QED
    BY <1>8, <2>1, <2>2 DEF WorkerChecks
<1>9. ASSUME NEW t \in Tickets, WorkerEnds(t)
      PROVE  CapsuleTypeOK'
  BY <1>9 DEF WorkerEnds, Work, Settle
<1>10. ASSUME NEW t \in Tickets, CallbackReads(t)
      PROVE  CapsuleTypeOK'
  BY <1>10 DEF CallbackReads, Work
<1>11. ASSUME NEW t \in Tickets, CallbackDisposes(t)
      PROVE  CapsuleTypeOK'
  BY <1>11, DisposeEffect DEF CallbackDisposes, Work
<1>12. ASSUME NEW t \in Tickets, FreeSlot(t)
      PROVE  CapsuleTypeOK'
  BY <1>12 DEF FreeSlot, Work
<1>13. ASSUME NEW t \in Tickets, AwaitTicket(t)
      PROVE  CapsuleTypeOK'
  BY <1>13 DEF AwaitTicket, Goto
<1>14. ASSUME NEW t \in Tickets, WaitEnds(t)
      PROVE  CapsuleTypeOK'
  BY <1>14 DEF WaitEnds, Goto
<1>15. ASSUME NEW t \in Tickets, BeginAdoption(t)
      PROVE  CapsuleTypeOK'
  BY <1>15 DEF BeginAdoption, Goto
<1>16. ASSUME NEW t \in Tickets, Adopt(t)
      PROVE  CapsuleTypeOK'
  BY <1>16, CallEffect DEF Adopt, Returned, Goto
<1>17. ASSUME NEW t \in Tickets, RefuseAdoption(t)
      PROVE  CapsuleTypeOK'
  BY <1>17, DisposeEffect DEF RefuseAdoption, Goto, Finish
<1>18. ASSUME NEW t \in Tickets, BuildFallback(t)
      PROVE  CapsuleTypeOK'
  <2>1. product' \in [Tickets -> Products] /\ thread' \in [Tickets -> ThreadStates]
    BY <1>18 DEF BuildFallback, Returned, Goto, Products
  <2>2. QED
    BY <1>18, <2>1 DEF BuildFallback, Returned
<1>19. ASSUME NEW t \in Tickets, AcceptProduct(t)
      PROVE  CapsuleTypeOK'
  BY <1>19 DEF AcceptProduct, Goto, Finish, Adopting
<1>20. ASSUME NEW t \in Tickets, RejectProduct(t) \/ RejectValue(t)
      PROVE  CapsuleTypeOK'
  <2>1. CallsOK'
    BY <1>20, CallEffect DEF RejectProduct, RejectValue, Refuse
  <2>2. state' \in [Tickets -> TicketStates] /\ tickets' \subseteq Tickets
    BY <1>20 DEF RejectProduct, RejectValue, Refuse, Finish
  <2>3. thread' \in [Tickets -> ThreadStates]
    BY <1>20 DEF RejectProduct, RejectValue, Refuse, Goto
  <2>4. QED
    BY <1>20, <2>1, <2>2, <2>3 DEF RejectProduct, RejectValue, Refuse
<1>21. ASSUME NEW t \in Tickets, LetGo(t)
      PROVE  CapsuleTypeOK'
  <2>1. CallsOK'
    <3>1. CASE DropProduct(t)
      BY <3>1, DropEffect
    <3>2. CASE UNCHANGED calls
      BY <3>2
    <3>3. QED
      BY <3>1, <3>2, <1>21 DEF LetGo
  <2>2. owner' \in [Tickets -> {"none", "held", "gone"}]
    <3>1. owner' = owner \/ owner' = [owner EXCEPT ![t] = "gone"]
      BY <1>21 DEF LetGo, DropProduct
    <3>2. QED
      BY <3>1
  <2>3. QED
    BY <1>21, <2>1, <2>2 DEF LetGo
<1>22. ASSUME NEW t \in Tickets, NEW l \in Leases, OpenLease(t, l)
      PROVE  CapsuleTypeOK'
  BY <1>22 DEF OpenLease
<1>23. ASSUME NEW t \in Tickets, NEW l \in Leases, CloseLease(t, l)
      PROVE  CapsuleTypeOK'
  BY <1>23 DEF CloseLease
<1>24. ASSUME NEW t \in Tickets, NEW l \in Leases, Unpin(t, l)
      PROVE  CapsuleTypeOK'
  <2>1. l \in Pinning(t) /\ leases[t] \in Nat \ {0}
    <3>1. l \in Pinning(t)
      BY <1>24 DEF Unpin, Pinning
    <3>2. Cardinality(Pinning(t)) # 0
      BY <3>1, PinningFinite, FS_EmptySet
    <3>3. QED
      BY <3>1, <3>2, PinningFinite DEF LeasesCounted
  <2>2. CallsOK'
    <3>1. CASE DropProduct(t)
      BY <3>1, DropEffect
    <3>2. CASE UNCHANGED calls
      BY <3>2
    <3>3. QED
      BY <3>1, <3>2, <1>24 DEF Unpin
  <2>3. lease' \in [Tickets -> [Leases -> LeaseStates]]
    BY <1>24 DEF Unpin, LeaseStates
  <2>4. leases' \in [Tickets -> Nat]
    <3>1. leases' = [leases EXCEPT ![t] = leases[t] - 1]
      BY <1>24 DEF Unpin
    <3>2. leases[t] - 1 \in Nat
      BY <2>1
    <3>3. QED
      BY <3>1, <3>2
  <2>5. owner' \in [Tickets -> {"none", "held", "gone"}]
    <3>1. owner' = owner \/ owner' = [owner EXCEPT ![t] = "gone"]
      BY <1>24 DEF Unpin, DropProduct
    <3>2. QED
      BY <3>1
  <2>6. QED
    BY <1>24, <2>2, <2>3, <2>4, <2>5 DEF Unpin
<1>25. ASSUME NEW a \in Agents, NEW t \in Tickets, MarkCancelled(a, t)
      PROVE  CapsuleTypeOK'
  BY <1>25 DEF MarkCancelled, CancelStep, Calling
<1>26. ASSUME NEW a \in Agents, NEW t \in Tickets, CancelRefused(a, t)
      PROVE  CapsuleTypeOK'
  BY <1>26 DEF CancelRefused, CancelStep, Calling, Return, Goto
<1>27. ASSUME NEW a \in Agents, NEW t \in Tickets, LookAtFuture(a, t)
      PROVE  CapsuleTypeOK'
  <2>1. canceller' \in [Tickets -> [Agents -> CancelStates]]
    BY <1>27, CancelEffect DEF LookAtFuture
  <2>2. QED
    BY <1>27, <2>1 DEF LookAtFuture
<1>28. ASSUME NEW a \in Agents, NEW t \in Tickets, Reclaim(a, t)
      PROVE  CapsuleTypeOK'
  <2>1. canceller' \in [Tickets -> [Agents -> CancelStates]]
    BY <1>28, CancelEffect DEF Reclaim
  <2>2. ASSUME DisposeBuilt(t), UNCHANGED stageAborted
        PROVE  CallsOK' /\ builtDisposed' \subseteq Tickets /\ stageAborted' \subseteq Tickets
    BY <2>2, DisposeEffect
  <2>3. ASSUME AbortStage(t), UNCHANGED builtDisposed
        PROVE  CallsOK' /\ builtDisposed' \subseteq Tickets /\ stageAborted' \subseteq Tickets
    BY <2>3, AbortEffect
  <2>4. QED
    BY <1>28, <2>1, <2>2, <2>3 DEF Reclaim
<1>29. ASSUME NEW a \in Agents, NEW t \in Tickets, CancelEnds(a, t)
      PROVE  CapsuleTypeOK'
  BY <1>29 DEF CancelEnds, CancelStep, Calling, Return, Goto
<1>30. CASE AdvanceGeneration
  BY <1>30 DEF AdvanceGeneration
<1>31. CASE ClosePool
  BY <1>31 DEF ClosePool
<1>32. CASE UNCHANGED vars
  BY <1>32 DEF vars
<1>33. QED
  BY <1>1, <1>2, <1>3, <1>4, <1>5, <1>6, <1>7, <1>8, <1>9, <1>10, <1>11, <1>12, <1>13,
     <1>14, <1>15, <1>16, <1>17, <1>18, <1>19, <1>20, <1>21, <1>22, <1>23, <1>24, <1>25,
     <1>26, <1>27, <1>28, <1>29, <1>30, <1>31, <1>32
     DEF Next, Submit, WorkerStep, Await, OwnerStep, Cancel

(* The owner and its leases leave the thread, the worker and the ticket    *)
(* alone, and call the adapter for nothing but the backing.                *)
LEMMA OwnerFrame ==
    ASSUME CapsuleTypeOK, NEW t \in Tickets, OwnerStep(t)
    PROVE  /\ UNCHANGED <<thread, worker, state, future, canceller, stageAborted, builtDisposed,
                           product>>
           /\ CallsOK'
           /\ \A u \in Tickets, k \in Calls : k # "release" => calls'[u][k] = calls[u][k]
           /\ \A u \in Tickets : owner[u] = "none" => UNCHANGED <<owner[u], calls[u]["release"]>>
           /\ \A u \in Tickets : owner[u] # "none" => owner'[u] # "none"
<1> USE DEF CapsuleTypeOK, CallsOK, Calls, ownerFrame, poolVars, ticketVars
<1>1. (DropProduct(t) /\ owner[t] # "none") \/ UNCHANGED <<calls, owner>>
  BY DEF OwnerStep, LetGo, OpenLease, CloseLease, Unpin
<1>2. UNCHANGED <<thread, worker, state, future, canceller, stageAborted, builtDisposed, product>>
  BY DEF OwnerStep, LetGo, OpenLease, CloseLease, Unpin
<1>3. CASE DropProduct(t) /\ owner[t] # "none"
  <2>1. owner' = [owner EXCEPT ![t] = "gone"]
    BY <1>3 DEF DropProduct
  <2>2. /\ CallsOK'
        /\ \A u \in Tickets, k \in Calls :
              calls'[u][k] = IF u = t /\ k = "release" THEN calls[u][k] + 1 ELSE calls[u][k]
    BY <1>3, DropEffect
  <2>3. QED
    BY <1>2, <1>3, <2>1, <2>2
<1>4. QED
  BY <1>1, <1>2, <1>3

(* The worker settles the future when its job ends. *)
LEMMA JobStep ==
    CapsuleTypeOK /\ Beginnings /\ JobSettles /\ [Next]_vars => JobSettles'
<1> SUFFICES ASSUME CapsuleTypeOK /\ Beginnings /\ JobSettles, [Next]_vars
             PROVE  JobSettles'
  OBVIOUS
<1> USE DEF CapsuleTypeOK, Beginnings, JobSettles, Before, Untouched, CallsOK, Calls,
           requestFrame, workerFrame, cancelFrame, ownerFrame, poolVars, ticketVars, ownerVars
<1>1. ASSUME NEW t \in Tickets, Submit(t)
      PROVE  JobSettles'
  BY <1>1, CallEffect
     DEF Submit, Capture, CheckSource, ClaimSlot, RefuseSubmit, StageFails,
          StagedTooLate, StartWorker, Start, Goto
<1>2. ASSUME NEW t \in Tickets, WorkerChecks(t) \/ CallbackDisposes(t)
      PROVE  JobSettles'
  BY <1>2, AbortEffect, DisposeEffect
     DEF WorkerChecks, CallbackDisposes, Work
<1>3. ASSUME NEW t \in Tickets, WorkerEnds(t) \/ CallbackReads(t) \/ FreeSlot(t)
      PROVE  JobSettles'
  BY <1>3
     DEF WorkerEnds, CallbackReads, FreeSlot, Work, Settle
<1>4. ASSUME NEW t \in Tickets, AwaitTicket(t) \/ WaitEnds(t) \/ BeginAdoption(t)
      PROVE  JobSettles'
  BY <1>4
     DEF AwaitTicket, WaitEnds, BeginAdoption, Goto
<1>5. ASSUME NEW t \in Tickets, Adopt(t)
      PROVE  JobSettles'
  BY <1>5, CallEffect
     DEF Adopt, Returned, Goto
<1>6. ASSUME NEW t \in Tickets, RefuseAdoption(t)
      PROVE  JobSettles'
  BY <1>6, DisposeEffect
     DEF RefuseAdoption, Goto, Finish
<1>7. ASSUME NEW t \in Tickets, BuildFallback(t) \/ AcceptProduct(t)
      PROVE  JobSettles'
  BY <1>7
     DEF BuildFallback, Returned, AcceptProduct, Goto, Finish, Adopting
<1>8. ASSUME NEW t \in Tickets, RejectProduct(t) \/ RejectValue(t)
      PROVE  JobSettles'
  BY <1>8, CallEffect
     DEF RejectProduct, RejectValue, Refuse, Goto, Finish, Adopting
<1>9. ASSUME NEW t \in Tickets, OwnerStep(t)
      PROVE  JobSettles'
  BY <1>9, OwnerFrame
<1>10. ASSUME NEW a \in Agents, NEW t \in Tickets, MarkCancelled(a, t) \/ LookAtFuture(a, t)
      PROVE  JobSettles'
  BY <1>10
     DEF MarkCancelled, LookAtFuture, CancelStep, Calling
<1>11. ASSUME NEW a \in Agents, NEW t \in Tickets, CancelRefused(a, t) \/ CancelEnds(a, t)
      PROVE  JobSettles'
  BY <1>11
     DEF CancelRefused, CancelEnds, CancelStep, Calling, Return, Goto
<1>12. ASSUME NEW a \in Agents, NEW t \in Tickets, Reclaim(a, t)
      PROVE  JobSettles'
  BY <1>12, AbortEffect, DisposeEffect
     DEF Reclaim, CancelStep, Calling
<1>13. CASE AdvanceGeneration \/ ClosePool \/ UNCHANGED vars
  BY <1>13 DEF AdvanceGeneration, ClosePool, vars
<1>14. QED
  BY <1>1, <1>2, <1>3, <1>4, <1>5, <1>6, <1>7, <1>8, <1>9, <1>10, <1>11, <1>12, <1>13
     DEF Next, WorkerStep, Await, Cancel

(* The ticket moves with its thread, but for the cancellations of close.   *)
LEMMA FollowStep ==
    /\ CapsuleTypeOK /\ Beginnings /\ NobodyDisposes /\ JobSettles /\ AdoptedOnce
    /\ ThreadFollowsTicket /\ [Next]_vars
    => ThreadFollowsTicket'
<1> SUFFICES ASSUME CapsuleTypeOK, Beginnings, NobodyDisposes, JobSettles, AdoptedOnce,
                    ThreadFollowsTicket, [Next]_vars
             PROVE  ThreadFollowsTicket'
  OBVIOUS
<1> USE DEF CapsuleTypeOK, Beginnings, NobodyDisposes, JobSettles, AdoptedOnce,
           ThreadFollowsTicket, Before, Untouched, CallsOK, Calls, requestFrame,
           workerFrame, cancelFrame, ownerFrame, poolVars, ticketVars, ownerVars
<1>1. ASSUME NEW t \in Tickets, Submit(t)
      PROVE  ThreadFollowsTicket'
  BY <1>1, CallEffect
     DEF Submit, Capture, CheckSource, ClaimSlot, RefuseSubmit, StageFails,
          StagedTooLate, StartWorker, Start, Goto
<1>2. ASSUME NEW t \in Tickets, WorkerChecks(t) \/ CallbackDisposes(t)
      PROVE  ThreadFollowsTicket'
  BY <1>2, AbortEffect, DisposeEffect
     DEF WorkerChecks, CallbackDisposes, Work
<1>3. ASSUME NEW t \in Tickets, WorkerEnds(t) \/ CallbackReads(t) \/ FreeSlot(t)
      PROVE  ThreadFollowsTicket'
  BY <1>3
     DEF WorkerEnds, CallbackReads, FreeSlot, Work, Settle
<1>4. ASSUME NEW t \in Tickets, AwaitTicket(t) \/ WaitEnds(t) \/ BeginAdoption(t)
      PROVE  ThreadFollowsTicket'
  BY <1>4
     DEF AwaitTicket, WaitEnds, BeginAdoption, Goto
<1>5. ASSUME NEW t \in Tickets, Adopt(t)
      PROVE  ThreadFollowsTicket'
  BY <1>5, CallEffect
     DEF Adopt, Returned, Goto
<1>6. ASSUME NEW t \in Tickets, RefuseAdoption(t)
      PROVE  ThreadFollowsTicket'
  BY <1>6, DisposeEffect
     DEF RefuseAdoption, Goto, Finish
<1>7. ASSUME NEW t \in Tickets, BuildFallback(t) \/ AcceptProduct(t)
      PROVE  ThreadFollowsTicket'
  BY <1>7
     DEF BuildFallback, Returned, AcceptProduct, Goto, Finish, Adopting
<1>8. ASSUME NEW t \in Tickets, RejectProduct(t) \/ RejectValue(t)
      PROVE  ThreadFollowsTicket'
  BY <1>8, CallEffect
     DEF RejectProduct, RejectValue, Refuse, Goto, Finish, Adopting
<1>9. ASSUME NEW t \in Tickets, OwnerStep(t)
      PROVE  ThreadFollowsTicket'
  BY <1>9, OwnerFrame
<1>10. ASSUME NEW a \in Agents, NEW t \in Tickets, MarkCancelled(a, t) \/ LookAtFuture(a, t)
      PROVE  ThreadFollowsTicket'
  BY <1>10
     DEF MarkCancelled, LookAtFuture, CancelStep, Calling
<1>11. ASSUME NEW a \in Agents, NEW t \in Tickets, CancelRefused(a, t) \/ CancelEnds(a, t)
      PROVE  ThreadFollowsTicket'
  BY <1>11
     DEF CancelRefused, CancelEnds, CancelStep, Calling, Return, Goto
<1>12. ASSUME NEW a \in Agents, NEW t \in Tickets, Reclaim(a, t)
      PROVE  ThreadFollowsTicket'
  BY <1>12, AbortEffect, DisposeEffect
     DEF Reclaim, CancelStep, Calling
<1>13. CASE AdvanceGeneration \/ ClosePool \/ UNCHANGED vars
  BY <1>13 DEF AdvanceGeneration, ClosePool, vars
<1>14. QED
  BY <1>1, <1>2, <1>3, <1>4, <1>5, <1>6, <1>7, <1>8, <1>9, <1>10, <1>11, <1>12, <1>13
     DEF Next, WorkerStep, Await, Cancel

(* Whoever gives a ticket up, and whoever finds it given up, reclaims it.  *)
LEMMA ReclaimStep ==
    /\ CapsuleTypeOK /\ Beginnings /\ DisposedOnce /\ AdoptedOnce /\ JobSettles
    /\ ThreadFollowsTicket /\ GivenUpIsReclaimed /\ [Next]_vars
    => GivenUpIsReclaimed'
<1> SUFFICES ASSUME CapsuleTypeOK, Beginnings, DisposedOnce, AdoptedOnce, JobSettles,
                    ThreadFollowsTicket, GivenUpIsReclaimed, [Next]_vars, NEW u \in Tickets
             PROVE  /\ state'[u] \in {"cancelled", "fallback"} => Reclaimed(u)'
                    /\ ClaimsAreCalls(u)'
  BY DEF GivenUpIsReclaimed
<1> DEFINE Goal == /\ state'[u] \in {"cancelled", "fallback"} => Reclaimed(u)'
                   /\ ClaimsAreCalls(u)'
<1>0. /\ state[u] \in {"cancelled", "fallback"} => Reclaimed(u)
      /\ ClaimsAreCalls(u)
      /\ CallsOK
      /\ \A k \in Calls : calls[u][k] \in Nat
  BY DEF GivenUpIsReclaimed, CapsuleTypeOK, CallsOK
<1> USE DEF Reclaimed, ClaimsAreCalls, Calls, Agents, requestFrame, workerFrame,
            cancelFrame, ownerFrame, poolVars, ticketVars, ownerVars
<1>1. ASSUME NEW t \in Tickets, Submit(t)
      PROVE  Goal
  <2>1. CASE Capture(t) \/ CheckSource(t) \/ ClaimSlot(t) \/ RefuseSubmit(t) \/ StageFails(t)
    BY <1>0, <2>1 DEF Capture, CheckSource, ClaimSlot, RefuseSubmit, StageFails, Goto
  <2>2. CASE StagedTooLate(t)
    <3>1. \A k \in Calls : calls'[u][k] = IF u = t /\ k \in {"abort"} THEN calls[u][k] + 1
                                                                     ELSE calls[u][k]
      BY <1>0, <2>2, CallEffect DEF StagedTooLate
    <3>2. QED
      BY <1>0, <2>2, <3>1 DEF StagedTooLate, Goto
  <2>3. CASE StartWorker(t)
    <3>1. CASE u = t
      BY <1>0, <2>3, <3>1 DEF StartWorker, Start, CapsuleTypeOK
    <3>2. CASE u # t
      BY <1>0, <2>3, <3>2 DEF StartWorker, Start, CapsuleTypeOK
    <3>3. QED
      BY <3>1, <3>2
  <2>4. QED
    BY <1>1, <2>1, <2>2, <2>3 DEF Submit
<1>2. ASSUME NEW t \in Tickets, WorkerChecks(t)
      PROVE  Goal
  <2>1. CASE t \in fresh
    BY <1>0, <1>2, <2>1 DEF WorkerChecks, Work, CapsuleTypeOK
  <2>2. CASE t \notin fresh
    <3>1. AbortStage(t) /\ Work(t, "start", "stale")
      BY <1>2, <2>2 DEF WorkerChecks
    <3>2. /\ stageAborted' = stageAborted \cup {t}
          /\ \A k \in Calls : calls'[u][k] = IF u = t /\ k = "abort" /\ t \notin stageAborted
                                             THEN calls[u][k] + 1 ELSE calls[u][k]
      BY <1>0, <3>1, AbortEffect
    <3>3. QED
      BY <1>0, <1>2, <3>1, <3>2 DEF WorkerChecks, Work, CapsuleTypeOK
  <2>3. QED
    BY <2>1, <2>2
<1>3. ASSUME NEW t \in Tickets, CallbackDisposes(t)
      PROVE  Goal
  <2>1. CASE future[t] = "done"
    <3>1. /\ builtDisposed' = builtDisposed \cup {t}
          /\ \A k \in Calls : calls'[u][k] = IF u = t /\ k = "discard" /\ t \notin builtDisposed
                                             THEN calls[u][k] + 1 ELSE calls[u][k]
      BY <1>0, <1>3, <2>1, DisposeEffect DEF CallbackDisposes
    <3>2. QED
      BY <1>0, <1>3, <2>1, <3>1 DEF CallbackDisposes, Work, CapsuleTypeOK
  <2>2. CASE future[t] # "done"
    BY <1>0, <1>3, <2>2 DEF CallbackDisposes, Work, CapsuleTypeOK
  <2>3. QED
    BY <2>1, <2>2
<1>4. ASSUME NEW t \in Tickets, WorkerEnds(t)
      PROVE  Goal
  <2>1. worker' = [worker EXCEPT ![t] = "callback"]
    BY <1>4 DEF WorkerEnds, Work
  <2>2. PICK outcome \in {"done", "failed"} : future' = [future EXCEPT ![t] = outcome]
    BY <1>4 DEF WorkerEnds, Settle
  <2>3. worker[t] \in {"build", "stale"} /\ future[t] = "running"
    BY <1>4 DEF WorkerEnds, Work, JobSettles
  <2>4. CASE u = t
    BY <1>0, <1>4, <2>1, <2>2, <2>3, <2>4 DEF WorkerEnds, CapsuleTypeOK
  <2>5. CASE u # t
    BY <1>0, <1>4, <2>1, <2>2, <2>5 DEF WorkerEnds, CapsuleTypeOK
  <2>6. QED
    BY <2>4, <2>5
<1>5. ASSUME NEW t \in Tickets, CallbackReads(t)
      PROVE  Goal
  BY <1>0, <1>5 DEF CallbackReads, Work, CapsuleTypeOK
<1>6. ASSUME NEW t \in Tickets, FreeSlot(t)
      PROVE  Goal
  BY <1>0, <1>6 DEF FreeSlot, Work, CapsuleTypeOK
<1>7. ASSUME NEW t \in Tickets, AwaitTicket(t) \/ WaitEnds(t) \/ BuildFallback(t)
      PROVE  Goal
  BY <1>0, <1>7 DEF AwaitTicket, WaitEnds, BuildFallback, Returned, Goto
<1>8. ASSUME NEW t \in Tickets, BeginAdoption(t)
      PROVE  Goal
  BY <1>0, <1>8 DEF BeginAdoption, Goto, CapsuleTypeOK
<1>9. ASSUME NEW t \in Tickets, Adopt(t)
      PROVE  Goal
  <2>1. \A k \in Calls : calls'[u][k] = IF u = t /\ k \in {"adopt"} THEN calls[u][k] + 1
                                                                   ELSE calls[u][k]
    BY <1>0, <1>9, CallEffect DEF Adopt, Returned
  <2>2. u = t => state[u] = "adopting"
    BY <1>9 DEF Adopt, Returned, Goto, AdoptedOnce
  <2>3. QED
    BY <1>0, <1>9, <2>1, <2>2 DEF Adopt, Returned
<1>10. ASSUME NEW t \in Tickets, RefuseAdoption(t)
       PROVE  Goal
  <2>1. /\ builtDisposed' = builtDisposed \cup {t}
        /\ \A k \in Calls : calls'[u][k] = IF u = t /\ k = "discard" /\ t \notin builtDisposed
                                           THEN calls[u][k] + 1 ELSE calls[u][k]
    BY <1>0, <1>10, DisposeEffect DEF RefuseAdoption
  <2>2. future[t] = "done"
    BY <1>10 DEF RefuseAdoption, Goto, AdoptedOnce, ThreadFollowsTicket
  <2>3. QED
    BY <1>0, <1>10, <2>1, <2>2 DEF RefuseAdoption, Finish, CapsuleTypeOK
<1>11. ASSUME NEW t \in Tickets, AcceptProduct(t)
       PROVE  Goal
  <2>1. thread[t] = "accepting"
    BY <1>11 DEF AcceptProduct, Goto
  <2>2. state[t] = "adopting" \/ state[t] \in {"cancelled", "fallback"}
    BY <2>1 DEF Beginnings, Before, ThreadFollowsTicket, CapsuleTypeOK, TicketStates
  <2>3. CASE u = t
    <3>1. CASE state[t] = "adopting"
      BY <1>0, <1>11, <2>3, <3>1 DEF AcceptProduct, Adopting, Finish, CapsuleTypeOK
    <3>2. CASE state[t] \in {"cancelled", "fallback"}
      BY <1>0, <1>11, <2>3, <3>2 DEF AcceptProduct, Adopting, Finish, CapsuleTypeOK
    <3>3. QED
      BY <2>2, <3>1, <3>2
  <2>4. CASE u # t
    BY <1>0, <1>11, <2>4 DEF AcceptProduct, Finish, CapsuleTypeOK
  <2>5. QED
    BY <2>3, <2>4
<1>12. ASSUME NEW t \in Tickets, RejectProduct(t) \/ RejectValue(t)
       PROVE  Goal
  <2>1. \A k \in Calls : k # "release" => calls'[u][k] = calls[u][k]
    <3>1. CASE Call(t, {"release"})
      BY <1>0, <3>1, CallEffect
    <3>2. CASE UNCHANGED calls
      BY <3>2
    <3>3. QED
      BY <1>12, <3>1, <3>2 DEF RejectProduct, RejectValue
  <2>2. Refuse(t)
    BY <1>12 DEF RejectProduct, RejectValue
  <2>3. CASE state[t] = "adopting"
    <3>1. thread[t] = "accepting"
      BY <2>2 DEF Refuse, Goto
    <3>2. future[t] = "done" /\ calls[t]["adopt"] = 1
      BY <2>3, <3>1 DEF ThreadFollowsTicket
    <3>3. QED
      BY <1>0, <2>1, <2>2, <2>3, <3>2 DEF Refuse, Adopting, Finish, CapsuleTypeOK
  <2>4. CASE state[t] # "adopting"
    BY <1>0, <2>1, <2>2, <2>4 DEF Refuse, Adopting
  <2>5. QED
    BY <2>3, <2>4
<1>13. ASSUME NEW t \in Tickets, OwnerStep(t)
       PROVE  Goal
  BY <1>0, <1>13, OwnerFrame
<1>14. ASSUME NEW a \in Agents, NEW t \in Tickets, MarkCancelled(a, t)
       PROVE  Goal
  <2>1. canceller'[t][a] = "marked"
    BY <1>14 DEF MarkCancelled, CancelStep, CapsuleTypeOK
  <2>2. CASE u = t
    <3>1. Reclaimed(u)'
      BY <1>14, <2>1, <2>2 DEF MarkCancelled
    <3>2. ClaimsAreCalls(u)'
      BY <1>0, <1>14 DEF MarkCancelled
    <3>3. QED
      BY <3>1, <3>2
  <2>3. CASE u # t
    BY <1>0, <1>14, <2>3 DEF MarkCancelled, CancelStep, CapsuleTypeOK
  <2>4. QED
    BY <2>2, <2>3
<1>15. ASSUME NEW a \in Agents, NEW t \in Tickets, CancelRefused(a, t) \/ CancelEnds(a, t)
       PROVE  Goal
  <2>1. canceller' = [canceller EXCEPT ![t][a] = "idle"]
    BY <1>15 DEF CancelRefused, CancelEnds, CancelStep
  <2>2. canceller[t][a] \in {"idle", "settle"}
    BY <1>15 DEF CancelRefused, CancelEnds, CancelStep
  <2>3. UNCHANGED <<state, future, worker, stageAborted, builtDisposed, calls>>
    BY <1>15 DEF CancelRefused, CancelEnds
  <2>4. \A b \in Agents : canceller[u][b] \in {"marked", "abort", "discard"}
                          => canceller'[u][b] = canceller[u][b]
    BY <2>1, <2>2 DEF CapsuleTypeOK
  <2>5. QED
    BY <1>0, <2>3, <2>4
<1>16. ASSUME NEW a \in Agents, NEW t \in Tickets, LookAtFuture(a, t)
       PROVE  Goal
  <2>1. UNCHANGED <<state, future, worker, stageAborted, builtDisposed, calls>>
    BY <1>16 DEF LookAtFuture
  <2>2. \A b \in Agents : (u # t \/ b # a) => canceller'[u][b] = canceller[u][b]
    BY <1>16 DEF LookAtFuture, CancelStep, CapsuleTypeOK
  <2>3. canceller'[t][a] = (IF future[t] = "done" THEN "discard" ELSE "abort")
    BY <1>16 DEF LookAtFuture, CancelStep, CapsuleTypeOK
  <2>4. canceller[t][a] = "marked"
    BY <1>16 DEF LookAtFuture, CancelStep
  <2>5. QED
    BY <1>0, <2>1, <2>2, <2>3, <2>4
<1>17. ASSUME NEW a \in Agents, NEW t \in Tickets, Reclaim(a, t)
       PROVE  Goal
  <2>1. \A b \in Agents : (u # t \/ b # a) => canceller'[u][b] = canceller[u][b]
    BY <1>17 DEF Reclaim, CancelStep, CapsuleTypeOK
  <2>2. UNCHANGED <<state, future, worker>>
    BY <1>17 DEF Reclaim
  <2>3. CASE canceller[t][a] = "discard"
    <3>1. DisposeBuilt(t) /\ UNCHANGED stageAborted
      BY <1>17, <2>3 DEF Reclaim, CancelStep
    <3>2. /\ builtDisposed' = builtDisposed \cup {t}
          /\ \A k \in Calls : calls'[u][k] = IF u = t /\ k = "discard" /\ t \notin builtDisposed
                                             THEN calls[u][k] + 1 ELSE calls[u][k]
      BY <1>0, <3>1, DisposeEffect
    <3>3. QED
      BY <1>0, <2>1, <2>2, <2>3, <3>1, <3>2
  <2>4. CASE canceller[t][a] = "abort"
    <3>1. AbortStage(t) /\ UNCHANGED builtDisposed
      BY <1>17, <2>4 DEF Reclaim, CancelStep
    <3>2. /\ stageAborted' = stageAborted \cup {t}
          /\ \A k \in Calls : calls'[u][k] = IF u = t /\ k = "abort" /\ t \notin stageAborted
                                             THEN calls[u][k] + 1 ELSE calls[u][k]
      BY <1>0, <3>1, AbortEffect
    <3>3. QED
      BY <1>0, <2>1, <2>2, <2>4, <3>1, <3>2
  <2>5. QED
    BY <1>17, <2>3, <2>4 DEF Reclaim, CancelStep
<1>18. CASE AdvanceGeneration \/ ClosePool \/ UNCHANGED vars
  BY <1>0, <1>18 DEF AdvanceGeneration, ClosePool, vars
<1>19. QED
  BY <1>1, <1>2, <1>3, <1>4, <1>5, <1>6, <1>7, <1>8, <1>9, <1>10, <1>11, <1>12, <1>13, <1>14,
     <1>15, <1>16, <1>17, <1>18 DEF Next, WorkerStep, Await, Cancel

(* A refused product is released, an accepted one has an owner.            *)
LEMMA ReturnStep ==
    /\ CapsuleTypeOK /\ AdoptedOnce /\ ReleasedOnce /\ ProductIsReturned /\ [Next]_vars
    => ProductIsReturned'
<1> SUFFICES ASSUME CapsuleTypeOK /\ AdoptedOnce /\ ReleasedOnce /\ ProductIsReturned, [Next]_vars
             PROVE  ProductIsReturned'
  OBVIOUS
<1> USE DEF CapsuleTypeOK, AdoptedOnce, ReleasedOnce, ProductIsReturned, Before, Untouched,
           CallsOK, Calls, requestFrame, workerFrame, cancelFrame, ownerFrame, poolVars,
           ticketVars, ownerVars
<1>1. ASSUME NEW t \in Tickets, Submit(t)
      PROVE  ProductIsReturned'
  <2>1. CASE StagedTooLate(t)
    <3>1. \A u \in Tickets, k \in Calls :
            calls'[u][k] = IF u = t /\ k \in {"abort"} THEN calls[u][k] + 1 ELSE calls[u][k]
      BY <2>1, CallEffect DEF StagedTooLate
    <3>2. thread[t] = "staging" /\ calls[t]["adopt"] = 0
      BY <2>1 DEF StagedTooLate, Goto
    <3>3. \A u \in Tickets : calls'[u]["adopt"] = calls[u]["adopt"]
                            /\ calls'[u]["release"] = calls[u]["release"]
      BY <3>1
    <3>4. \A u \in Tickets : u # t => thread'[u] = thread[u]
      BY <2>1 DEF StagedTooLate, Goto
    <3>5. thread'[t] = "failed" /\ UNCHANGED <<owner, product>>
      BY <2>1 DEF StagedTooLate, Goto
    <3>6. QED
      BY <3>2, <3>3, <3>4, <3>5
  <2>2. CASE ~StagedTooLate(t)
    BY <1>1, <2>2 DEF Submit, Capture, CheckSource, ClaimSlot, RefuseSubmit, StageFails,
                      StartWorker, Start, Goto
  <2>3. QED
    BY <2>1, <2>2
<1>2. ASSUME NEW t \in Tickets, WorkerChecks(t) \/ CallbackDisposes(t)
      PROVE  ProductIsReturned'
  BY <1>2, AbortEffect, DisposeEffect
     DEF WorkerChecks, CallbackDisposes, Work
<1>3. ASSUME NEW t \in Tickets, WorkerEnds(t) \/ CallbackReads(t) \/ FreeSlot(t)
      PROVE  ProductIsReturned'
  BY <1>3
     DEF WorkerEnds, CallbackReads, FreeSlot, Work, Settle
<1>4. ASSUME NEW t \in Tickets, AwaitTicket(t) \/ WaitEnds(t) \/ BeginAdoption(t)
      PROVE  ProductIsReturned'
  BY <1>4
     DEF AwaitTicket, WaitEnds, BeginAdoption, Goto
<1>5. ASSUME NEW t \in Tickets, Adopt(t)
      PROVE  ProductIsReturned'
  BY <1>5, CallEffect
     DEF Adopt, Returned, Goto
<1>6. ASSUME NEW t \in Tickets, RefuseAdoption(t)
      PROVE  ProductIsReturned'
  BY <1>6, DisposeEffect
     DEF RefuseAdoption, Goto, Finish
<1>7. ASSUME NEW t \in Tickets, BuildFallback(t) \/ AcceptProduct(t)
      PROVE  ProductIsReturned'
  BY <1>7
     DEF BuildFallback, Returned, AcceptProduct, Goto, Finish, Adopting
<1>8. ASSUME NEW t \in Tickets, RejectProduct(t) \/ RejectValue(t)
      PROVE  ProductIsReturned'
  BY <1>8, CallEffect
     DEF RejectProduct, RejectValue, Refuse, Goto, Finish, Adopting
<1>9. ASSUME NEW t \in Tickets, OwnerStep(t)
      PROVE  ProductIsReturned'
  BY <1>9, OwnerFrame
<1>10. ASSUME NEW a \in Agents, NEW t \in Tickets, MarkCancelled(a, t) \/ LookAtFuture(a, t)
      PROVE  ProductIsReturned'
  BY <1>10
     DEF MarkCancelled, LookAtFuture, CancelStep, Calling
<1>11. ASSUME NEW a \in Agents, NEW t \in Tickets, CancelRefused(a, t) \/ CancelEnds(a, t)
      PROVE  ProductIsReturned'
  BY <1>11
     DEF CancelRefused, CancelEnds, CancelStep, Calling, Return, Goto
<1>12. ASSUME NEW a \in Agents, NEW t \in Tickets, Reclaim(a, t)
      PROVE  ProductIsReturned'
  BY <1>12, AbortEffect, DisposeEffect
     DEF Reclaim, CancelStep, Calling
<1>13. CASE AdvanceGeneration \/ ClosePool \/ UNCHANGED vars
  BY <1>13 DEF AdvanceGeneration, ClosePool, vars
<1>14. QED
  BY <1>1, <1>2, <1>3, <1>4, <1>5, <1>6, <1>7, <1>8, <1>9, <1>10, <1>11, <1>12, <1>13
     DEF Next, WorkerStep, Await, Cancel

(* The inductive invariant. *)
THEOREM CapsuleInvariant == Spec => []CapsuleInv
<1>1. Init => CapsuleInv
  <2> SUFFICES ASSUME Init PROVE CapsuleInv
    OBVIOUS
  <2>1. CapsuleTypeOK
    <3>1. calls \in [Tickets -> [Calls -> Nat]]
      BY DEF Init
    <3>2. canceller \in [Tickets -> [Agents -> CancelStates]]
      BY DEF Init, CancelStates
    <3>3. lease \in [Tickets -> [Leases -> LeaseStates]]
      BY DEF Init, LeaseStates
    <3>4. /\ thread \in [Tickets -> ThreadStates]
          /\ worker \in [Tickets -> WorkerStates]
          /\ state \in [Tickets -> TicketStates]
      BY DEF Init, ThreadStates, WorkerStates, TicketStates
    <3>5. product \in [Tickets -> Products]
      BY DEF Init, Products
    <3>6. QED
      BY <3>1, <3>2, <3>3, <3>4, <3>5 DEF Init, CapsuleTypeOK
  <2>2. Beginnings /\ OneJobAtATime /\ PendingIsListed
    BY DEF Init, Beginnings, Before, OneJobAtATime, PendingIsListed
  <2>3. NobodyDisposes
    BY DEF Init, NobodyDisposes
  <2>4. AdoptedOnce /\ DisposedOnce
    BY DEF Init, AdoptedOnce, DisposedOnce, Before, Calls
  <2>5. \A t \in Tickets : Pinning(t) = {}
    BY DEF Init, Pinning
  <2>6. LeasesCounted
    BY <2>5, FS_EmptySet DEF Init, LeasesCounted
  <2>7. ReleasedOnce /\ PinningIsHeld
    BY <2>5 DEF Init, ReleasedOnce, PinningIsHeld, Calls
  <2>8. JobSettles /\ ThreadFollowsTicket
    BY DEF Init, JobSettles, ThreadFollowsTicket, Calls
  <2>9. GivenUpIsReclaimed /\ ProductIsReturned
    BY DEF Init, GivenUpIsReclaimed, ClaimsAreCalls, ProductIsReturned, Calls
  <2>10. QED
    BY <2>1, <2>2, <2>3, <2>4, <2>6, <2>7, <2>8, <2>9 DEF CapsuleInv, Owned
<1>2. CapsuleInv /\ [Next]_vars => CapsuleInv'
  BY ShapeStep, BeginningsStep, OneJobStep, PendingStep, NobodyStep, AdoptedStep,
     DisposedStep, OwnedStep, JobStep, FollowStep, ReclaimStep, ReturnStep
     DEF CapsuleInv, Owned
<1>3. QED
  BY <1>1, <1>2, PTL DEF Spec

(* The pool and its tickets are well formed and no lease underflows. *)
THEOREM CapsuleTypeCorrect == Spec => []CapsuleTypeOK
<1>1. CapsuleInv => CapsuleTypeOK
  BY DEF CapsuleInv
<1>2. QED
  BY <1>1, CapsuleInvariant, PTL

(* A built result is adopted once, discarded at most once, and never taken *)
(* from under an owner; stage and backing are given back at most once.     *)
THEOREM CapsuleGivesBackOnce == Spec => []GivenBackOnce
<1>1. CapsuleInv => GivenBackOnce
  <2> SUFFICES ASSUME CapsuleInv, NEW t \in Tickets
               PROVE  /\ \A k \in Calls : calls[t][k] <= 1
                      /\ calls[t]["adopt"] = 1 /\ owner[t] # "none" => calls[t]["discard"] = 0
    BY DEF GivenBackOnce
  <2>1. calls[t] \in [Calls -> Nat]
    BY DEF CapsuleInv, CapsuleTypeOK
  <2>2. \A k \in Calls : calls[t][k] <= 1
    BY <2>1 DEF CapsuleInv, AdoptedOnce, DisposedOnce, Owned, ReleasedOnce, Calls
  <2>3. ASSUME calls[t]["adopt"] = 1, owner[t] # "none"
        PROVE  calls[t]["discard"] = 0
    <3>1. thread[t] = "done" /\ state[t] = "adopted"
      BY <2>3 DEF CapsuleInv, Owned, ReleasedOnce, AdoptedOnce
    <3>2. t \notin builtDisposed
      BY <3>1 DEF CapsuleInv, NobodyDisposes, Untouched
    <3>3. QED
      BY <3>2 DEF CapsuleInv, DisposedOnce
  <2>4. QED
    BY <2>2, <2>3
<1>2. QED
  BY <1>1, CapsuleInvariant, PTL

(* One external job at a time, and close leaves no ticket pending. *)
THEOREM CapsulePoolRunsItsJob == Spec => []PoolRunsItsJob
<1>1. CapsuleInv => OneJobAtATime
  BY DEF CapsuleInv
<1>2. CapsuleInv => ClosedPoolIsSettled
  BY DEF CapsuleInv, PendingIsListed, ClosedPoolIsSettled
<1>3. CapsuleInv => PoolRunsItsJob
  BY <1>1, <1>2 DEF PoolRunsItsJob
<1>4. QED
  BY <1>3, CapsuleInvariant, PTL

(* The backing lives through every lease and no longer. *)
THEOREM CapsuleBacksLeases == Spec => []BackingOutlivesLeases
<1>1. CapsuleInv => BackingOutlivesLeases
  <2>1. \A t \in Tickets :
          Pinning(t) # {} <=> \E l \in Leases : lease[t][l] \in {"open", "closing"}
    BY DEF Pinning
  <2>2. QED
    BY <2>1 DEF CapsuleInv, Owned, PinningIsHeld, BackingOutlivesLeases
<1>2. QED
  BY <1>1, CapsuleInvariant, PTL

(* When everybody is through with a ticket nothing is left with the        *)
(* adapter: the result was adopted or discarded, a stage that was never    *)
(* built was aborted, and an adopted capsule without an owner was released.*)
THEOREM CapsuleLeavesNothing == Spec => []NothingIsLeft
<1>1. CapsuleInv => NothingIsLeft
  <2> SUFFICES ASSUME CapsuleInv, NEW t \in Tickets, Through(t)
               PROVE  /\ future[t] = "done" => calls[t]["adopt"] + calls[t]["discard"] >= 1
                      /\ future[t] = "failed" => calls[t]["abort"] = 1
                      /\ calls[t]["adopt"] = 1 /\ product[t] = "capsule" /\ owner[t] # "held"
                            => calls[t]["release"] = 1
    BY DEF NothingIsLeft
  <2>1. \A k \in Calls : calls[t][k] \in Nat
    BY DEF CapsuleInv, CapsuleTypeOK
  <2>2. state[t] = "adopted" \/ state[t] \in {"cancelled", "fallback"}
    BY DEF Through, CapsuleInv, CapsuleTypeOK, TicketStates, Beginnings, ThreadFollowsTicket
  <2>3. state[t] = "adopted" => future[t] = "done" /\ calls[t]["adopt"] = 1
    BY DEF CapsuleInv, ThreadFollowsTicket
  <2>4. state[t] \in {"cancelled", "fallback"} => Reclaimed(t)
    BY DEF CapsuleInv, GivenUpIsReclaimed
  <2>5. ClaimsAreCalls(t)
    BY DEF CapsuleInv, GivenUpIsReclaimed
  <2>6. worker[t] = "done" /\ \A a \in Agents : canceller[t][a] = "idle"
    BY DEF Through
  <2>7. future[t] = "done" => calls[t]["adopt"] + calls[t]["discard"] >= 1
    BY <2>1, <2>2, <2>3, <2>4, <2>5, <2>6 DEF Reclaimed, ClaimsAreCalls, Calls
  <2>8. future[t] = "failed" => calls[t]["abort"] = 1
    <3>1. calls[t]["abort"] <= 1
      BY DEF CapsuleInv, DisposedOnce
    <3>2. QED
      BY <3>1, <2>1, <2>2, <2>3, <2>4, <2>5, <2>6 DEF Reclaimed, ClaimsAreCalls, Calls
  <2>9. calls[t]["adopt"] = 1 /\ product[t] = "capsule" /\ owner[t] # "held"
        => calls[t]["release"] = 1
    <3>1. thread[t] = "failed" \/ (thread[t] = "done" /\ owner[t] # "none")
      BY DEF Through, CapsuleInv, ProductIsReturned
    <3>2. owner[t] # "none" /\ owner[t] # "held" => owner[t] = "gone"
      BY DEF CapsuleInv, CapsuleTypeOK
    <3>3. QED
      BY <3>1, <3>2 DEF CapsuleInv, ProductIsReturned, Owned, PinningIsHeld
  <2>10. QED
    BY <2>7, <2>8, <2>9
<1>2. QED
  BY <1>1, CapsuleInvariant, PTL

================================================================================
