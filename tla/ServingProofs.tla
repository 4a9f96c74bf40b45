----------------------------- MODULE ServingProofs -----------------------------
(***************************************************************************)
(* Proofs about the server, for any finite set of requests, any classes    *)
(* of them, any reloads and any number of responses.  The server runs the  *)
(* gate's protocol, so what was proved about the gate holds in it; on top  *)
(* of that, ServingInv is inductive.  Most of it speaks of the generation  *)
(* thread while it is alive: a request waits for its first message exactly *)
(* while the thread has it in one of three places, what has a lane or is   *)
(* served alone is in none of them, and whoever may still be answered has  *)
(* not been told that his answer ended.                                    *)
(*                                                                         *)
(* First comes the admission gate alone, for any finite set of requests,   *)
(* any set of reloads and any limit.  GateInv is inductive: the counter    *)
(* equals the number of holders because each action changes both by one;   *)
(* the gate is closed by the holder of _reload_lock only, so a reload that *)
(* found the counter at zero still finds it at zero when it writes.        *)
(***************************************************************************)
EXTENDS Serving, FiniteSetTheorems, SequenceTheorems, TLAPS

--------------------------------------------------------------------------------
(* The admission gate.                                                     *)

(* While a reload is past its drain nobody holds a slot: the gate is       *)
(* closed, so the count it read cannot grow before it writes.              *)
DrainedMeansEmpty ==
    \A r \in Reloads : reload[r] \in {"drained", "applied"} => inflight = 0

(* GateTypeOK, the counter not yet bounded by the number of requests. *)
GateShape ==
    /\ slot \in [Requests -> SlotStates]
    /\ asleep \subseteq Requests \cup Reloads
    /\ inflight \in Nat
    /\ Limit # 0 => inflight <= Limit
    /\ paused \in BOOLEAN
    /\ workerError \in BOOLEAN
    /\ reload \in [Reloads -> ReloadStates]
    /\ reloadLock \in Reloads \cup {Free}
    /\ plan \in [Reloads -> Plans]
    /\ lever \in Settings
    /\ traceEpoch \in BOOLEAN

GateInv ==
    /\ GateShape
    /\ InflightCountsHolders
    /\ GateClosedByItsReload
    /\ NoLostWakeup
    /\ DrainedMeansEmpty

(* Every action keeps the variables in their domains. *)
LEMMA ShapeStep == GateShape /\ [GateNext]_gateVars => GateShape'
<1> SUFFICES ASSUME GateShape, [GateNext]_gateVars
             PROVE  GateShape'
  OBVIOUS
<1> USE DEF GateShape, SlotStates, ReloadStates, Plans, requestVars, reloadVars, configVars
<1>1. ASSUME NEW c \in Requests, RefuseWorkerStopped(c)
      PROVE  GateShape'
  BY <1>1 DEF RefuseWorkerStopped, Refuse
<1>2. ASSUME NEW c \in Requests, RefuseOverloaded(c)
      PROVE  GateShape'
  BY <1>2 DEF RefuseOverloaded, Refuse
<1>3. ASSUME NEW c \in Requests, WaitAtGate(c)
      PROVE  GateShape'
  BY <1>3 DEF WaitAtGate
<1>4. ASSUME NEW c \in Requests, Admit(c)
      PROVE  GateShape'
  BY <1>4, LimitAssumption DEF Admit, HasRoom
<1>5. ASSUME NEW c \in Requests, RefuseDeadline(c)
      PROVE  GateShape'
  BY <1>5 DEF RefuseDeadline, Refuse
<1>6. ASSUME NEW c \in Requests, Retire(c)
      PROVE  GateShape'
  BY <1>6, LimitAssumption DEF Retire
<1>7. ASSUME NEW r \in Reloads, Plan(r)
      PROVE  GateShape'
  BY <1>7 DEF Plan, Goto
<1>8. ASSUME NEW r \in Reloads, RejectPlan(r)
      PROVE  GateShape'
  BY <1>8 DEF RejectPlan, Goto
<1>9. ASSUME NEW r \in Reloads, DrainDeadline(r)
      PROVE  GateShape'
  BY <1>9 DEF DrainDeadline, Goto
<1>10. ASSUME NEW r \in Reloads, TakeReloadLock(r)
      PROVE  GateShape'
  BY <1>10 DEF TakeReloadLock, Goto
<1>11. ASSUME NEW r \in Reloads, ReloadLockBusy(r)
      PROVE  GateShape'
  BY <1>11 DEF ReloadLockBusy, Goto
<1>12. ASSUME NEW r \in Reloads, CloseGate(r)
      PROVE  GateShape'
  BY <1>12 DEF CloseGate, Goto
<1>13. ASSUME NEW r \in Reloads, WaitForDrain(r)
      PROVE  GateShape'
  BY <1>13 DEF WaitForDrain
<1>14. ASSUME NEW r \in Reloads, Drained(r)
      PROVE  GateShape'
  BY <1>14 DEF Drained, Goto
<1>15. ASSUME NEW r \in Reloads, Apply(r)
      PROVE  GateShape'
  BY <1>15 DEF Apply, Goto
<1>16. ASSUME NEW r \in Reloads, Clear(r)
      PROVE  GateShape'
  BY <1>16 DEF Clear, Goto
<1>17. ASSUME NEW r \in Reloads, OpenGate(r)
      PROVE  GateShape'
  BY <1>17 DEF OpenGate, Goto
<1>18. ASSUME NEW r \in Reloads, ReleaseReloadLock(r)
      PROVE  GateShape'
  BY <1>18 DEF ReleaseReloadLock, Goto
<1>19. CASE WorkerFails
  BY <1>19 DEF WorkerFails
<1>20. CASE UNCHANGED gateVars
  BY <1>20 DEF gateVars
<1>21. QED
  BY <1>1, <1>2, <1>3, <1>4, <1>5, <1>6, <1>7, <1>8, <1>9, <1>10, <1>11,
     <1>12, <1>13, <1>14, <1>15, <1>16, <1>17, <1>18, <1>19, <1>20 DEF
     GateNext, PassGate, ReloadStep

(* Taking and giving back a slot change the counter and the set of holders *)
(* together; a refused request was never counted.                          *)
LEMMA CountStep ==
    GateShape /\ InflightCountsHolders /\ [GateNext]_gateVars => InflightCountsHolders'
<1> SUFFICES ASSUME GateShape, InflightCountsHolders, [GateNext]_gateVars
             PROVE  InflightCountsHolders'
  OBVIOUS
<1> USE DEF InflightCountsHolders, Holders, requestVars, reloadVars, configVars
<1>a. IsFiniteSet(Holders) /\ Cardinality(Holders) \in Nat
  BY RequestsAssumption, FS_Subset, FS_CardinalityType DEF Holders
<1>1. ASSUME NEW c \in Requests, RefuseWorkerStopped(c)
      PROVE  InflightCountsHolders'
  <2>1. Holders' = Holders
    BY <1>1 DEF RefuseWorkerStopped, Refuse, AtGate, GateShape
  <2>2. QED
    BY <2>1, <1>1 DEF RefuseWorkerStopped, Refuse
<1>2. ASSUME NEW c \in Requests, RefuseOverloaded(c)
      PROVE  InflightCountsHolders'
  <2>1. Holders' = Holders
    BY <1>2 DEF RefuseOverloaded, Refuse, AtGate, GateShape
  <2>2. QED
    BY <2>1, <1>2 DEF RefuseOverloaded, Refuse
<1>3. ASSUME NEW c \in Requests, WaitAtGate(c)
      PROVE  InflightCountsHolders'
  <2>1. Holders' = Holders
    BY <1>3 DEF WaitAtGate, AtGate, GateShape
  <2>2. QED
    BY <2>1, <1>3 DEF WaitAtGate
<1>4. ASSUME NEW c \in Requests, Admit(c)
      PROVE  InflightCountsHolders'
  <2>1. c \notin Holders
    BY <1>4 DEF Admit, AtGate
  <2>2. Holders' = Holders \cup {c}
    BY <1>4 DEF Admit, GateShape
  <2>3. Cardinality(Holders \cup {c}) = Cardinality(Holders) + 1
    BY <1>a, <2>1, FS_AddElement
  <2>4. QED
    BY <2>2, <2>3, <1>4 DEF Admit
<1>5. ASSUME NEW c \in Requests, RefuseDeadline(c)
      PROVE  InflightCountsHolders'
  <2>1. Holders' = Holders
    BY <1>5 DEF RefuseDeadline, Refuse, AtGate, GateShape
  <2>2. QED
    BY <2>1, <1>5 DEF RefuseDeadline, Refuse
<1>6. ASSUME NEW c \in Requests, Retire(c)
      PROVE  InflightCountsHolders'
  <2>1. c \in Holders
    BY <1>6 DEF Retire
  <2>2. Holders' = Holders \ {c}
    BY <1>6 DEF Retire, GateShape
  <2>3. Cardinality(Holders \ {c}) = Cardinality(Holders) - 1
    BY <1>a, <2>1, FS_RemoveElement
  <2>4. inflight > 0
    BY <1>a, <2>1, FS_EmptySet
  <2>5. QED
    BY <2>2, <2>3, <2>4, <1>6 DEF Retire
<1>7. ASSUME NEW r \in Reloads, Plan(r)
      PROVE  InflightCountsHolders'
  BY <1>7 DEF Plan, Goto
<1>8. ASSUME NEW r \in Reloads, RejectPlan(r)
      PROVE  InflightCountsHolders'
  BY <1>8 DEF RejectPlan, Goto
<1>9. ASSUME NEW r \in Reloads, DrainDeadline(r)
      PROVE  InflightCountsHolders'
  BY <1>9 DEF DrainDeadline, Goto
<1>10. ASSUME NEW r \in Reloads, TakeReloadLock(r)
      PROVE  InflightCountsHolders'
  BY <1>10 DEF TakeReloadLock, Goto
<1>11. ASSUME NEW r \in Reloads, ReloadLockBusy(r)
      PROVE  InflightCountsHolders'
  BY <1>11 DEF ReloadLockBusy, Goto
<1>12. ASSUME NEW r \in Reloads, CloseGate(r)
      PROVE  InflightCountsHolders'
  BY <1>12 DEF CloseGate, Goto
<1>13. ASSUME NEW r \in Reloads, WaitForDrain(r)
      PROVE  InflightCountsHolders'
  BY <1>13 DEF WaitForDrain
<1>14. ASSUME NEW r \in Reloads, Drained(r)
      PROVE  InflightCountsHolders'
  BY <1>14 DEF Drained, Goto
<1>15. ASSUME NEW r \in Reloads, Apply(r)
      PROVE  InflightCountsHolders'
  BY <1>15 DEF Apply, Goto
<1>16. ASSUME NEW r \in Reloads, Clear(r)
      PROVE  InflightCountsHolders'
  BY <1>16 DEF Clear, Goto
<1>17. ASSUME NEW r \in Reloads, OpenGate(r)
      PROVE  InflightCountsHolders'
  BY <1>17 DEF OpenGate, Goto
<1>18. ASSUME NEW r \in Reloads, ReleaseReloadLock(r)
      PROVE  InflightCountsHolders'
  BY <1>18 DEF ReleaseReloadLock, Goto
<1>19. CASE WorkerFails
  BY <1>19 DEF WorkerFails
<1>20. CASE UNCHANGED gateVars
  BY <1>20 DEF gateVars
<1>21. QED
  BY <1>1, <1>2, <1>3, <1>4, <1>5, <1>6, <1>7, <1>8, <1>9, <1>10, <1>11,
     <1>12, <1>13, <1>14, <1>15, <1>16, <1>17, <1>18, <1>19, <1>20 DEF
     GateNext, PassGate, ReloadStep

(* At most one reload is past _reload_lock, so the one that opens the gate *)
(* is the one that closed it.                                              *)
LEMMA ClosedStep ==
    GateShape /\ GateClosedByItsReload /\ [GateNext]_gateVars => GateClosedByItsReload'
<1> SUFFICES ASSUME GateShape, GateClosedByItsReload, [GateNext]_gateVars
             PROVE  GateClosedByItsReload'
  OBVIOUS
<1> USE FreeAssumption
    DEF GateClosedByItsReload, GateShape, ReloadStates, Inside, requestVars, reloadVars,
        configVars
<1>1. ASSUME NEW c \in Requests, RefuseWorkerStopped(c)
      PROVE  GateClosedByItsReload'
  BY <1>1 DEF RefuseWorkerStopped, Refuse
<1>2. ASSUME NEW c \in Requests, RefuseOverloaded(c)
      PROVE  GateClosedByItsReload'
  BY <1>2 DEF RefuseOverloaded, Refuse
<1>3. ASSUME NEW c \in Requests, WaitAtGate(c)
      PROVE  GateClosedByItsReload'
  BY <1>3 DEF WaitAtGate
<1>4. ASSUME NEW c \in Requests, Admit(c)
      PROVE  GateClosedByItsReload'
  BY <1>4 DEF Admit
<1>5. ASSUME NEW c \in Requests, RefuseDeadline(c)
      PROVE  GateClosedByItsReload'
  BY <1>5 DEF RefuseDeadline, Refuse
<1>6. ASSUME NEW c \in Requests, Retire(c)
      PROVE  GateClosedByItsReload'
  BY <1>6 DEF Retire
<1>7. ASSUME NEW r \in Reloads, Plan(r)
      PROVE  GateClosedByItsReload'
  BY <1>7 DEF Plan, Goto
<1>8. ASSUME NEW r \in Reloads, RejectPlan(r)
      PROVE  GateClosedByItsReload'
  BY <1>8 DEF RejectPlan, Goto
<1>9. ASSUME NEW r \in Reloads, DrainDeadline(r)
      PROVE  GateClosedByItsReload'
  BY <1>9 DEF DrainDeadline, Goto
<1>10. ASSUME NEW r \in Reloads, TakeReloadLock(r)
      PROVE  GateClosedByItsReload'
  BY <1>10 DEF TakeReloadLock, Goto
<1>11. ASSUME NEW r \in Reloads, ReloadLockBusy(r)
      PROVE  GateClosedByItsReload'
  BY <1>11 DEF ReloadLockBusy, Goto
<1>12. ASSUME NEW r \in Reloads, CloseGate(r)
      PROVE  GateClosedByItsReload'
  BY <1>12 DEF CloseGate, Goto
<1>13. ASSUME NEW r \in Reloads, WaitForDrain(r)
      PROVE  GateClosedByItsReload'
  BY <1>13 DEF WaitForDrain
<1>14. ASSUME NEW r \in Reloads, Drained(r)
      PROVE  GateClosedByItsReload'
  BY <1>14 DEF Drained, Goto
<1>15. ASSUME NEW r \in Reloads, Apply(r)
      PROVE  GateClosedByItsReload'
  BY <1>15 DEF Apply, Goto
<1>16. ASSUME NEW r \in Reloads, Clear(r)
      PROVE  GateClosedByItsReload'
  BY <1>16 DEF Clear, Goto
<1>17. ASSUME NEW r \in Reloads, OpenGate(r)
      PROVE  GateClosedByItsReload'
  BY <1>17 DEF OpenGate, Goto
<1>18. ASSUME NEW r \in Reloads, ReleaseReloadLock(r)
      PROVE  GateClosedByItsReload'
  BY <1>18 DEF ReleaseReloadLock, Goto
<1>19. CASE WorkerFails
  BY <1>19 DEF WorkerFails
<1>20. CASE UNCHANGED gateVars
  BY <1>20 DEF gateVars
<1>21. QED
  BY <1>1, <1>2, <1>3, <1>4, <1>5, <1>6, <1>7, <1>8, <1>9, <1>10, <1>11,
     <1>12, <1>13, <1>14, <1>15, <1>16, <1>17, <1>18, <1>19, <1>20 DEF
     GateNext, PassGate, ReloadStep

(* Who sleeps at the gate sleeps while it is closed; who sleeps in the     *)
(* drain sleeps while somebody is in flight.                               *)
LEMMA WakeupStep ==
    GateShape /\ NoLostWakeup /\ [GateNext]_gateVars => NoLostWakeup'
<1> SUFFICES ASSUME GateShape, NoLostWakeup, [GateNext]_gateVars
             PROVE  NoLostWakeup'
  OBVIOUS
<1> USE ThreadsAssumption
    DEF NoLostWakeup, GateShape, requestVars, reloadVars, configVars
<1>1. ASSUME NEW c \in Requests, RefuseWorkerStopped(c)
      PROVE  NoLostWakeup'
  BY <1>1 DEF RefuseWorkerStopped, Refuse
<1>2. ASSUME NEW c \in Requests, RefuseOverloaded(c)
      PROVE  NoLostWakeup'
  BY <1>2 DEF RefuseOverloaded, Refuse, AtGate
<1>3. ASSUME NEW c \in Requests, WaitAtGate(c)
      PROVE  NoLostWakeup'
  BY <1>3 DEF WaitAtGate, AtGate
<1>4. ASSUME NEW c \in Requests, Admit(c)
      PROVE  NoLostWakeup'
  BY <1>4 DEF Admit, AtGate
<1>5. ASSUME NEW c \in Requests, RefuseDeadline(c)
      PROVE  NoLostWakeup'
  BY <1>5 DEF RefuseDeadline, Refuse, AtGate
<1>6. ASSUME NEW c \in Requests, Retire(c)
      PROVE  NoLostWakeup'
  BY <1>6 DEF Retire
<1>7. ASSUME NEW r \in Reloads, Plan(r)
      PROVE  NoLostWakeup'
  BY <1>7 DEF Plan, Goto
<1>8. ASSUME NEW r \in Reloads, RejectPlan(r)
      PROVE  NoLostWakeup'
  BY <1>8 DEF RejectPlan, Goto
<1>9. ASSUME NEW r \in Reloads, DrainDeadline(r)
      PROVE  NoLostWakeup'
  BY <1>9 DEF DrainDeadline, Goto
<1>10. ASSUME NEW r \in Reloads, TakeReloadLock(r)
      PROVE  NoLostWakeup'
  BY <1>10 DEF TakeReloadLock, Goto
<1>11. ASSUME NEW r \in Reloads, ReloadLockBusy(r)
      PROVE  NoLostWakeup'
  BY <1>11 DEF ReloadLockBusy, Goto
<1>12. ASSUME NEW r \in Reloads, CloseGate(r)
      PROVE  NoLostWakeup'
  BY <1>12 DEF CloseGate, Goto
<1>13. ASSUME NEW r \in Reloads, WaitForDrain(r)
      PROVE  NoLostWakeup'
  BY <1>13 DEF WaitForDrain
<1>14. ASSUME NEW r \in Reloads, Drained(r)
      PROVE  NoLostWakeup'
  BY <1>14 DEF Drained, Goto
<1>15. ASSUME NEW r \in Reloads, Apply(r)
      PROVE  NoLostWakeup'
  BY <1>15 DEF Apply, Goto
<1>16. ASSUME NEW r \in Reloads, Clear(r)
      PROVE  NoLostWakeup'
  BY <1>16 DEF Clear, Goto
<1>17. ASSUME NEW r \in Reloads, OpenGate(r)
      PROVE  NoLostWakeup'
  BY <1>17 DEF OpenGate, Goto
<1>18. ASSUME NEW r \in Reloads, ReleaseReloadLock(r)
      PROVE  NoLostWakeup'
  BY <1>18 DEF ReleaseReloadLock, Goto
<1>19. CASE WorkerFails
  BY <1>19 DEF WorkerFails
<1>20. CASE UNCHANGED gateVars
  BY <1>20 DEF gateVars
<1>21. QED
  BY <1>1, <1>2, <1>3, <1>4, <1>5, <1>6, <1>7, <1>8, <1>9, <1>10, <1>11,
     <1>12, <1>13, <1>14, <1>15, <1>16, <1>17, <1>18, <1>19, <1>20 DEF
     GateNext, PassGate, ReloadStep

(* A drained reload stays drained until it has written: the gate it closed *)
(* admits nobody.                                                          *)
LEMMA DrainedStep ==
    GateShape /\ GateClosedByItsReload /\ DrainedMeansEmpty /\ [GateNext]_gateVars
        => DrainedMeansEmpty'
<1> SUFFICES ASSUME GateShape, GateClosedByItsReload, DrainedMeansEmpty,
                    [GateNext]_gateVars
             PROVE  DrainedMeansEmpty'
  OBVIOUS
<1> USE DEF DrainedMeansEmpty, GateShape, ReloadStates, requestVars, reloadVars, configVars
<1>1. ASSUME NEW c \in Requests, RefuseWorkerStopped(c)
      PROVE  DrainedMeansEmpty'
  BY <1>1 DEF RefuseWorkerStopped, Refuse
<1>2. ASSUME NEW c \in Requests, RefuseOverloaded(c)
      PROVE  DrainedMeansEmpty'
  BY <1>2 DEF RefuseOverloaded, Refuse
<1>3. ASSUME NEW c \in Requests, WaitAtGate(c)
      PROVE  DrainedMeansEmpty'
  BY <1>3 DEF WaitAtGate
<1>4. ASSUME NEW c \in Requests, Admit(c)
      PROVE  DrainedMeansEmpty'
  BY <1>4 DEF Admit, GateClosedByItsReload, Inside
<1>5. ASSUME NEW c \in Requests, RefuseDeadline(c)
      PROVE  DrainedMeansEmpty'
  BY <1>5 DEF RefuseDeadline, Refuse
<1>6. ASSUME NEW c \in Requests, Retire(c)
      PROVE  DrainedMeansEmpty'
  BY <1>6 DEF Retire
<1>7. ASSUME NEW r \in Reloads, Plan(r)
      PROVE  DrainedMeansEmpty'
  BY <1>7 DEF Plan, Goto
<1>8. ASSUME NEW r \in Reloads, RejectPlan(r)
      PROVE  DrainedMeansEmpty'
  BY <1>8 DEF RejectPlan, Goto
<1>9. ASSUME NEW r \in Reloads, DrainDeadline(r)
      PROVE  DrainedMeansEmpty'
  BY <1>9 DEF DrainDeadline, Goto
<1>10. ASSUME NEW r \in Reloads, TakeReloadLock(r)
      PROVE  DrainedMeansEmpty'
  BY <1>10 DEF TakeReloadLock, Goto
<1>11. ASSUME NEW r \in Reloads, ReloadLockBusy(r)
      PROVE  DrainedMeansEmpty'
  BY <1>11 DEF ReloadLockBusy, Goto
<1>12. ASSUME NEW r \in Reloads, CloseGate(r)
      PROVE  DrainedMeansEmpty'
  BY <1>12 DEF CloseGate, Goto
<1>13. ASSUME NEW r \in Reloads, WaitForDrain(r)
      PROVE  DrainedMeansEmpty'
  BY <1>13 DEF WaitForDrain
<1>14. ASSUME NEW r \in Reloads, Drained(r)
      PROVE  DrainedMeansEmpty'
  BY <1>14 DEF Drained, Goto
<1>15. ASSUME NEW r \in Reloads, Apply(r)
      PROVE  DrainedMeansEmpty'
  BY <1>15 DEF Apply, Goto
<1>16. ASSUME NEW r \in Reloads, Clear(r)
      PROVE  DrainedMeansEmpty'
  BY <1>16 DEF Clear, Goto
<1>17. ASSUME NEW r \in Reloads, OpenGate(r)
      PROVE  DrainedMeansEmpty'
  BY <1>17 DEF OpenGate, Goto
<1>18. ASSUME NEW r \in Reloads, ReleaseReloadLock(r)
      PROVE  DrainedMeansEmpty'
  BY <1>18 DEF ReleaseReloadLock, Goto
<1>19. CASE WorkerFails
  BY <1>19 DEF WorkerFails
<1>20. CASE UNCHANGED gateVars
  BY <1>20 DEF gateVars
<1>21. QED
  BY <1>1, <1>2, <1>3, <1>4, <1>5, <1>6, <1>7, <1>8, <1>9, <1>10, <1>11,
     <1>12, <1>13, <1>14, <1>15, <1>16, <1>17, <1>18, <1>19, <1>20 DEF
     GateNext, PassGate, ReloadStep

(* GateInv holds initially, is preserved, and so holds always.             *)
THEOREM GateInvariant == GateSpec => []GateInv
<1>1. GateInit => GateInv
  <2> SUFFICES ASSUME GateInit PROVE GateInv
    OBVIOUS
  <2>1. GateShape
    <3>1. inflight \in Nat /\ (Limit # 0 => inflight <= Limit)
      BY LimitAssumption DEF GateInit
    <3>2. plan \in [Reloads -> Plans] /\ lever \in Settings
      BY DEF GateInit, Plans
    <3>3. reload \in [Reloads -> ReloadStates] /\ slot \in [Requests -> SlotStates]
      BY DEF GateInit, SlotStates, ReloadStates
    <3>4. /\ asleep \subseteq Requests \cup Reloads
          /\ reloadLock \in Reloads \cup {Free}
          /\ paused \in BOOLEAN
          /\ workerError \in BOOLEAN
          /\ traceEpoch \in BOOLEAN
      BY DEF GateInit
    <3>5. QED
      BY <3>1, <3>2, <3>3, <3>4 DEF GateShape
  <2>2. InflightCountsHolders
    <3>1. Holders = {}
      BY DEF GateInit, Holders
    <3>2. QED
      BY <3>1, FS_EmptySet DEF GateInit, InflightCountsHolders
  <2>3. GateClosedByItsReload /\ NoLostWakeup /\ DrainedMeansEmpty
    BY FreeAssumption
    DEF GateInit, GateClosedByItsReload, NoLostWakeup, DrainedMeansEmpty, Inside
  <2>4. QED
    BY <2>1, <2>2, <2>3 DEF GateInv
<1>2. GateInv /\ [GateNext]_gateVars => GateInv'
  BY ShapeStep, CountStep, ClosedStep, WakeupStep, DrainedStep DEF GateInv
<1>3. QED
  BY <1>1, <1>2, PTL DEF GateSpec

(* The counter stays between zero and the number of requests. *)
THEOREM GateTypeCorrect == GateSpec => []GateTypeOK
<1>1. GateInv => GateTypeOK
  <2> SUFFICES ASSUME GateInv PROVE GateTypeOK
    OBVIOUS
  <2>1. Holders \subseteq Requests
    BY DEF Holders
  <2>2. /\ Cardinality(Holders) \in Nat
        /\ Cardinality(Requests) \in Nat
        /\ Cardinality(Holders) <= Cardinality(Requests)
    BY <2>1, RequestsAssumption, FS_Subset, FS_CardinalityType
  <2>3. inflight \in 0..Cardinality(Requests)
    BY <2>2 DEF GateInv, InflightCountsHolders
  <2>4. QED
    BY <2>3 DEF GateInv, GateShape, GateTypeOK
<1>2. QED
  BY <1>1, GateInvariant, PTL

(* _inflight is the number of requests that hold a slot. *)
THEOREM GateCountsHolders == GateSpec => []InflightCountsHolders
<1>1. GateInv => InflightCountsHolders
  BY DEF GateInv
<1>2. QED
  BY <1>1, GateInvariant, PTL

(* The gate is closed exactly while the holder of _reload_lock is inside.  *)
THEOREM GateClosedOnlyByReload == GateSpec => []GateClosedByItsReload
<1>1. GateInv => GateClosedByItsReload
  BY DEF GateInv
<1>2. QED
  BY <1>1, GateInvariant, PTL

(* No wakeup of the condition variable is lost. *)
THEOREM GateLosesNoWakeup == GateSpec => []NoLostWakeup
<1>1. GateInv => NoLostWakeup
  BY DEF GateInv
<1>2. QED
  BY <1>1, GateInvariant, PTL

(* A step of the gate enters, leaves or replaces, or leaves the users and  *)
(* the lever alone.                                                        *)
LEMMA ExclusionStep ==
    GateInv /\ [GateNext]_gateVars => [Exclusion!ExclusionNext]_(Exclusion!exclusionVars)
<1> SUFFICES ASSUME GateInv, [GateNext]_gateVars
             PROVE  [Exclusion!ExclusionNext]_(Exclusion!exclusionVars)
  OBVIOUS
<1> USE DEF Exclusion!ExclusionNext, Exclusion!exclusionVars, GateInv, GateShape,
            requestVars, reloadVars, configVars
<1>a. IsFiniteSet(Holders)
  BY RequestsAssumption, FS_Subset DEF Holders
<1>1. ASSUME NEW c \in Requests, RefuseWorkerStopped(c)
      PROVE  [Exclusion!ExclusionNext]_(Exclusion!exclusionVars)
  BY <1>1 DEF RefuseWorkerStopped, Refuse, AtGate, Holders
<1>2. ASSUME NEW c \in Requests, RefuseOverloaded(c)
      PROVE  [Exclusion!ExclusionNext]_(Exclusion!exclusionVars)
  BY <1>2 DEF RefuseOverloaded, Refuse, AtGate, Holders
<1>3. ASSUME NEW c \in Requests, WaitAtGate(c)
      PROVE  [Exclusion!ExclusionNext]_(Exclusion!exclusionVars)
  BY <1>3 DEF WaitAtGate, AtGate, Holders
<1>4. ASSUME NEW c \in Requests, Admit(c)
      PROVE  [Exclusion!ExclusionNext]_(Exclusion!exclusionVars)
  <2>1. c \notin Holders /\ Holders' = Holders \cup {c}
    BY <1>4 DEF Admit, AtGate, Holders
  <2>2. Limit = 0 \/ Cardinality(Holders) < Limit
    BY <1>4 DEF Admit, HasRoom, InflightCountsHolders
  <2>3. lever' = lever
    BY <1>4 DEF Admit
  <2>4. Exclusion!Cardinality(Holders) = Cardinality(Holders)
    BY DEF Exclusion!Cardinality, Cardinality, Exclusion!IsFiniteSet, IsFiniteSet
  <2>5. Exclusion!Enter(c)
    BY <2>1, <2>2, <2>3, <2>4 DEF Exclusion!Enter
  <2>6. QED
    BY <2>5
<1>5. ASSUME NEW c \in Requests, RefuseDeadline(c)
      PROVE  [Exclusion!ExclusionNext]_(Exclusion!exclusionVars)
  BY <1>5 DEF RefuseDeadline, Refuse, AtGate, Holders
<1>6. ASSUME NEW c \in Requests, Retire(c)
      PROVE  [Exclusion!ExclusionNext]_(Exclusion!exclusionVars)
  <2>1. c \in Holders /\ Holders' = Holders \ {c}
    BY <1>6 DEF Retire, Holders
  <2>2. Exclusion!Leave(c)
    BY <2>1, <1>6 DEF Retire, Exclusion!Leave
  <2>3. QED
    BY <2>2
<1>7. ASSUME NEW r \in Reloads, Plan(r)
      PROVE  [Exclusion!ExclusionNext]_(Exclusion!exclusionVars)
  BY <1>7 DEF Plan, Goto, Holders
<1>8. ASSUME NEW r \in Reloads, RejectPlan(r)
      PROVE  [Exclusion!ExclusionNext]_(Exclusion!exclusionVars)
  BY <1>8 DEF RejectPlan, Goto, Holders
<1>9. ASSUME NEW r \in Reloads, DrainDeadline(r)
      PROVE  [Exclusion!ExclusionNext]_(Exclusion!exclusionVars)
  BY <1>9 DEF DrainDeadline, Goto, Holders
<1>10. ASSUME NEW r \in Reloads, TakeReloadLock(r)
      PROVE  [Exclusion!ExclusionNext]_(Exclusion!exclusionVars)
  BY <1>10 DEF TakeReloadLock, Goto, Holders
<1>11. ASSUME NEW r \in Reloads, ReloadLockBusy(r)
      PROVE  [Exclusion!ExclusionNext]_(Exclusion!exclusionVars)
  BY <1>11 DEF ReloadLockBusy, Goto, Holders
<1>12. ASSUME NEW r \in Reloads, CloseGate(r)
      PROVE  [Exclusion!ExclusionNext]_(Exclusion!exclusionVars)
  BY <1>12 DEF CloseGate, Goto, Holders
<1>13. ASSUME NEW r \in Reloads, WaitForDrain(r)
      PROVE  [Exclusion!ExclusionNext]_(Exclusion!exclusionVars)
  BY <1>13 DEF WaitForDrain, Holders
<1>14. ASSUME NEW r \in Reloads, Drained(r)
      PROVE  [Exclusion!ExclusionNext]_(Exclusion!exclusionVars)
  BY <1>14 DEF Drained, Goto, Holders
<1>15. ASSUME NEW r \in Reloads, Apply(r)
      PROVE  [Exclusion!ExclusionNext]_(Exclusion!exclusionVars)
  <2>1. inflight = 0
    BY <1>15 DEF Apply, Goto, DrainedMeansEmpty
  <2>2. Holders = {}
    BY <2>1, <1>a, FS_EmptySet DEF InflightCountsHolders
  <2>3. plan[r].new \in Settings
    BY DEF Plans
  <2>4. Holders' = Holders
    BY <1>15 DEF Apply, Holders
  <2>5. Exclusion!Replace(plan[r].new)
    BY <2>2, <2>4, <1>15 DEF Apply, Exclusion!Replace
  <2>6. QED
    BY <2>3, <2>5
<1>16. ASSUME NEW r \in Reloads, Clear(r)
      PROVE  [Exclusion!ExclusionNext]_(Exclusion!exclusionVars)
  BY <1>16 DEF Clear, Goto, Holders
<1>17. ASSUME NEW r \in Reloads, OpenGate(r)
      PROVE  [Exclusion!ExclusionNext]_(Exclusion!exclusionVars)
  BY <1>17 DEF OpenGate, Goto, Holders
<1>18. ASSUME NEW r \in Reloads, ReleaseReloadLock(r)
      PROVE  [Exclusion!ExclusionNext]_(Exclusion!exclusionVars)
  BY <1>18 DEF ReleaseReloadLock, Goto, Holders
<1>19. CASE WorkerFails
  BY <1>19 DEF WorkerFails, Holders
<1>20. CASE UNCHANGED gateVars
  BY <1>20 DEF gateVars, Holders
<1>21. QED
  BY <1>1, <1>2, <1>3, <1>4, <1>5, <1>6, <1>7, <1>8, <1>9, <1>10, <1>11,
     <1>12, <1>13, <1>14, <1>15, <1>16, <1>17, <1>18, <1>19, <1>20 DEF
     GateNext, PassGate, ReloadStep

(* The gate implements reader-writer exclusion between requests and        *)
(* reloads, with at most Limit requests inside.                            *)
THEOREM GateImplementsExclusion == GateSpec => ImplementsExclusion
<1>1. GateInit => Exclusion!ExclusionInit
  BY DEF GateInit, Exclusion!ExclusionInit, Holders
<1>2. QED
  BY <1>1, ExclusionStep, GateInvariant, PTL
     DEF GateSpec, ImplementsExclusion, Exclusion!ExclusionSpec

--------------------------------------------------------------------------------
(* The server.                                                             *)

AloneStates == {"single", "ended", "announce", "keep"}
IsServedAlone(c) == wpc \in AloneStates /\ cur = c
InHand(c) == wpc = "handle" /\ cur = c
Unsubmitted == {"none", "register", "submit"}
Submitted(c) == phase[c] \notin Unsubmitted

(* The places in which the generation thread keeps a request it has not    *)
(* begun to answer.                                                        *)
Waits(c) == InSeq(requests, c) \/ InSeq(unprocessed, c) \/ InHand(c)

(* ServingTypeOK without the gate, and without the cache, whose entries    *)
(* are of a setting only because generation had begun.                     *)
ServingShape ==
    /\ class \in [Requests -> Classes]
    /\ phase \in [Requests -> Phases]
    /\ mailbox \in [Requests -> Seq(Messages)]
    /\ registered \subseteq Requests
    /\ stopped \subseteq Requests
    /\ requests \in Seq(Requests)
    /\ unprocessed \in Seq(Requests) /\ Len(unprocessed) <= 1
    /\ batch \in Kinds \cup {NoBatch}
    /\ drain \in BOOLEAN
    /\ lanes \subseteq Requests
    /\ toRemove \subseteq Requests
    /\ wpc \in Alive \cup {"dying", "dead", "halted"}
    /\ cur \in Requests \cup {NoRequest}
    /\ remaining \in [Requests -> 0..MaxResponses]
    /\ regime \in [Requests -> Settings \cup {NoSetting}]
    /\ stopping \in BOOLEAN

(* The thread that has a request in hand put none back. *)
HandleIsAlone == wpc = "handle" => unprocessed = <<>>

(* Generation of what has a lane, or is served alone, has begun; it begins *)
(* only for what was submitted.                                            *)
WorkHasBegun ==
    /\ \A c \in Requests : c \in lanes \/ IsServedAlone(c) => regime[c] # NoSetting
    /\ \A c \in Requests : regime[c] # NoSetting => Submitted(c)
    /\ wpc = "store" => cur \in lanes

Distinct(s) == \A i, j \in DOMAIN s : s[i] = s[j] => i = j

(* A living generation thread has a request in at most one place, exactly  *)
(* while the request waits for its first message, and then has not begun   *)
(* to answer it.                                                           *)
PlacesAreApart ==
    /\ Distinct(requests)
    /\ \A c \in Requests : InSeq(unprocessed, c) \/ InHand(c) => ~InSeq(requests, c)
    /\ \A c \in Requests : Waits(c) => c \notin lanes
    /\ \A c \in Requests : IsServedAlone(c) => c \notin lanes /\ ~Waits(c)

WaitersAreKept ==
    \A c \in Requests :
        /\ Waits(c) <=> phase[c] = "context" /\ mailbox[c] = <<>>
        /\ ~Submitted(c) => mailbox[c] = <<>>

LoopOwnsWaiters == wpc \in Alive => PlacesAreApart /\ WaitersAreKept

(* A batch without a generator has no lanes. *)
NoBatchNoLanes == batch = NoBatch => lanes = {}

(* Who may still get a response. *)
Talks(c) ==
    \/ wpc \in Alive /\ c \in lanes /\ ~(wpc = "store" /\ cur = c)
    \/ wpc \in AloneStates \ {"keep"} /\ cur = c

(* AnswersAreOrdered for a queue s whose thread is in phase p, and what it *)
(* rests on: only an exception comes before the request was submitted, and *)
(* who may still get a response was not told that there is none.           *)
Ended(s) == InSeq(s, "none") \/ InSeq(s, "error")
EndIsLast(s) ==
    \A i, j \in DOMAIN s : i < j /\ s[i] \in {"none", "error"} => s[j] = "error"
ContextIsFirst(p, s) ==
    /\ s # <<>> /\ p = "context" => Head(s) \in {"context", "error"}
    /\ \A i \in DOMAIN s : s[i] = "context" => i = 1 /\ p = "context"
    /\ p \in Unsubmitted => \A i \in DOMAIN s : s[i] = "error"
Ordered(p, s) == EndIsLast(s) /\ ContextIsFirst(p, s)
TalkingIsOpen == \A c \in Requests : Talks(c) => ~Ended(mailbox[c])
MailIsOrdered ==
    /\ \A c \in Requests : Ordered(phase[c], mailbox[c])
    /\ TalkingIsOpen

CacheTyped == cache \subseteq [setting : Settings, late : BOOLEAN]

ServingInv ==
    /\ ServingShape /\ HandleIsAlone /\ CacheTyped
    /\ RegistryMatchesThreads
    /\ WorkHasBegun
    /\ HeldRequestSeesOneSetting
    /\ StaleEntryOutlivedItsSlot
    /\ LoopOwnsWaiters
    /\ NoBatchNoLanes /\ BatchIsOfOneKind
    /\ MailIsOrdered

--------------------------------------------------------------------------------
(* Who may change what. *)

(* The steps of the generation thread, but for its end. *)
LoopStep ==
    \/ Dequeue \/ BeginSlice \/ EndSlice \/ CloseBatch \/ LeaveLoop \/ FailWaiting
    \/ \E c \in Requests : \/ HandleRequest(c) \/ GenerateAlone(c) \/ StoreLane(c)
                           \/ GenerateLane(c) \/ Fails(c)

(* The generation thread leaves the gate and the other threads alone. *)
LEMMA LoopFrame == LoopStep => UNCHANGED <<gateVars, class, threadVars, stopping>>
<1> SUFFICES ASSUME LoopStep
             PROVE  UNCHANGED <<gateVars, class, threadVars, stopping>>
  OBVIOUS
<1> USE DEF LoopOnly
<1>1. CASE Dequeue \/ BeginSlice \/ EndSlice \/ CloseBatch \/ LeaveLoop \/ FailWaiting
  BY <1>1 DEF Dequeue, BeginSlice, EndSlice, CloseBatch, LeaveLoop, FailWaiting
<1>2. ASSUME NEW c \in Requests, HandleRequest(c)
      PROVE  UNCHANGED <<gateVars, class, threadVars, stopping>>
  BY <1>2 DEF HandleRequest, JoinBatch, TurnAway, StartBatch, ServeAlone
<1>3. ASSUME NEW c \in Requests, GenerateAlone(c)
      PROVE  UNCHANGED <<gateVars, class, threadVars, stopping>>
  BY <1>3 DEF GenerateAlone, RespondAlone, AnnounceEnd, StoreAlone, Alone
<1>4. ASSUME NEW c \in Requests, StoreLane(c) \/ GenerateLane(c)
      PROVE  UNCHANGED <<gateVars, class, threadVars, stopping>>
  BY <1>4 DEF GenerateLane, StoreLane, RespondLane, FinishLane
<1>5. ASSUME NEW c \in Requests, Fails(c)
      PROVE  UNCHANGED <<gateVars, class, threadVars, stopping>>
  BY <1>5 DEF Fails, HandleFails, AloneFails, Alone
<1>6. QED
  BY <1>1, <1>2, <1>3, <1>4, <1>5 DEF LoopStep

(* A request refused or put to sleep at the gate. *)
TurnedAway(c) ==
    \/ RefuseWorkerStopped(c) \/ RefuseOverloaded(c) \/ WaitAtGate(c) \/ RefuseDeadline(c)

(* Such a request never held the slot, and does not get it. *)
LEMMA TurnedAwayFrame ==
    ASSUME ServingShape, GateShape, NEW c \in Requests, TurnedAway(c)
    PROVE  /\ \A d \in Requests : slot'[d] = "held" <=> slot[d] = "held"
           /\ UNCHANGED <<inflight, lever, reload>>
BY DEF TurnedAway, RefuseWorkerStopped, RefuseOverloaded, WaitAtGate, RefuseDeadline, Refuse,
       AtGate, GateShape, reloadVars, configVars

(* A step of a reload that writes neither the lever nor the cache. *)
ReloadMoves(r) ==
    \/ TakeReloadLock(r) \/ ReloadLockBusy(r) \/ CloseGate(r) \/ WaitForDrain(r)
    \/ Drained(r) \/ OpenGate(r) \/ ReleaseReloadLock(r)
    \/ Plan(r) \/ RejectPlan(r) \/ DrainDeadline(r)

(* It leaves the slots alone, and no reload begins or ends to drop. *)
LEMMA ReloadMovesFrame ==
    ASSUME GateShape, NEW r \in Reloads, ReloadMoves(r)
    PROVE  UNCHANGED <<slot, lever, Dropping>>
<1> USE DEF GateShape, ReloadStates, requestVars, reloadVars, configVars, Goto, Dropping
<1>1. UNCHANGED <<slot, lever>>
  BY DEF ReloadMoves, TakeReloadLock, ReloadLockBusy, CloseGate, WaitForDrain, Drained,
         OpenGate, ReleaseReloadLock, Plan, RejectPlan, DrainDeadline
<1>2. \A q \in Reloads : reload'[q] = "applied" <=> reload[q] = "applied"
  BY DEF ReloadMoves, TakeReloadLock, ReloadLockBusy, CloseGate, WaitForDrain, Drained,
         OpenGate, ReleaseReloadLock, Plan, RejectPlan, DrainDeadline
<1>3. QED
  BY <1>1, <1>2

(* The steps of the server by who takes them. *)
LEMMA ServingSteps ==
    ServingNext =>
        \/ \E c \in Requests : \/ OutsideGate /\ TurnedAway(c)
                               \/ EnterGate(c) \/ ThreadStep(c)
        \/ \E r \in Reloads : \/ OutsideGate /\ (ReloadMoves(r) \/ Apply(r))
                              \/ DropCache(r)
        \/ LoopStep \/ Crash \/ ShutDown
BY DEF ServingNext, AwaitAdmission, GiveUpAdmission, TurnedAway, RunReload,
       ReloadWithoutClear, CallReload, ReloadMoves, WorkerStep, LoopStep

(* Every step of the server is a step of the gate, or none of its business.*)
LEMMA GateStepOfServing == [ServingNext]_vars => [GateNext]_gateVars
<1> SUFFICES ASSUME [ServingNext]_vars
             PROVE  [GateNext]_gateVars
  OBVIOUS
<1>1. ASSUME NEW c \in Requests, OutsideGate /\ TurnedAway(c)
      PROVE  GateNext
  BY <1>1 DEF TurnedAway, GateNext, PassGate
<1>2. ASSUME NEW c \in Requests, EnterGate(c)
      PROVE  GateNext
  BY <1>2 DEF EnterGate, GateNext, PassGate
<1>3. ASSUME NEW c \in Requests, ThreadStep(c)
      PROVE  [GateNext]_gateVars
  <2>1. CASE ReleaseSlot(c)
    BY <2>1 DEF ReleaseSlot, GateNext
  <2>2. CASE \/ Register(c) \/ Submit(c) \/ Receive(c) \/ Resume(c) \/ Cancel(c)
             \/ Abort(c) \/ Unregister(c) \/ StopContext(c)
    BY <2>2 DEF Register, Submit, Receive, Resume, Cancel, Abort, Unregister, StopContext
  <2>3. QED
    BY <1>3, <2>1, <2>2 DEF ThreadStep
<1>4. ASSUME NEW r \in Reloads, OutsideGate /\ (ReloadMoves(r) \/ Apply(r))
      PROVE  GateNext
  BY <1>4 DEF ReloadMoves, GateNext, ReloadStep
<1>5. ASSUME NEW r \in Reloads, DropCache(r)
      PROVE  GateNext
  BY <1>5 DEF DropCache, GateNext, ReloadStep
<1>6. CASE LoopStep
  BY <1>6, LoopFrame
<1>7. CASE Crash
  BY <1>7 DEF Crash, GateNext
<1>8. CASE ShutDown
  BY <1>8 DEF ShutDown
<1>9. CASE UNCHANGED vars
  BY <1>9 DEF vars
<1>10. QED
  BY <1>1, <1>2, <1>3, <1>4, <1>5, <1>6, <1>7, <1>8, <1>9, ServingSteps

(* The composed system runs the gate's protocol, whatever the threads and  *)
(* the generation thread do: registering, batching, crashing.              *)
THEOREM ServingImplementsGate == ServingSpec => ImplementsGate
<1>1. ServingInit => GateInit
  BY DEF ServingInit
<1>2. QED
  BY <1>1, GateStepOfServing, PTL DEF ServingSpec, GateSpec, ImplementsGate

(* So what was proved about the gate holds in the server. *)
LEMMA GateInServing == ServingSpec => []GateInv
BY ServingImplementsGate, GateInvariant, PTL DEF ImplementsGate

--------------------------------------------------------------------------------
(* The registry, and the types. *)

(* A thread registers after it took the slot and unregisters before it     *)
(* gives it back, and the generation thread does neither.                  *)
LEMMA RegistryStep ==
    ServingShape /\ GateShape /\ RegistryMatchesThreads /\ [ServingNext]_vars
        => RegistryMatchesThreads'
<1> SUFFICES ASSUME ServingShape, GateShape, RegistryMatchesThreads, [ServingNext]_vars
             PROVE  RegistryMatchesThreads'
  OBVIOUS
<1> USE DEF RegistryMatchesThreads, ServingShape, GateShape, threadVars, gateVars, Phases
<1>1. ASSUME NEW c \in Requests, OutsideGate /\ TurnedAway(c)
      PROVE  RegistryMatchesThreads'
  BY <1>1, TurnedAwayFrame DEF OutsideGate
<1>2. ASSUME NEW c \in Requests, EnterGate(c)
      PROVE  RegistryMatchesThreads'
  BY <1>2 DEF EnterGate, Admit, AtGate, Move, ThreadOnly
<1>3. ASSUME NEW c \in Requests, ThreadStep(c)
      PROVE  RegistryMatchesThreads'
  <2> USE DEF Move, ThreadOnly
  <2>1. CASE Register(c)
    BY <2>1 DEF Register
  <2>2. CASE Submit(c)
    BY <2>2 DEF Submit
  <2>3. CASE Receive(c)
    BY <2>3 DEF Receive
  <2>4. CASE Resume(c) \/ Cancel(c) \/ Abort(c)
    BY <2>4 DEF Resume, Cancel, Abort
  <2>5. CASE Unregister(c)
    BY <2>5 DEF Unregister
  <2>6. CASE ReleaseSlot(c)
    BY <2>6 DEF ReleaseSlot, Retire
  <2>7. CASE StopContext(c)
    BY <2>7 DEF StopContext
  <2>8. QED
    BY <1>3, <2>1, <2>2, <2>3, <2>4, <2>5, <2>6, <2>7 DEF ThreadStep
<1>4. ASSUME NEW r \in Reloads, OutsideGate /\ (ReloadMoves(r) \/ Apply(r))
      PROVE  RegistryMatchesThreads'
  BY <1>4, ReloadMovesFrame DEF OutsideGate, Apply, requestVars
<1>5. ASSUME NEW r \in Reloads, DropCache(r)
      PROVE  RegistryMatchesThreads'
  BY <1>5 DEF DropCache, Clear, requestVars
<1>6. CASE LoopStep
  BY <1>6, LoopFrame
<1>7. CASE Crash
  BY <1>7 DEF Crash, WorkerFails, requestVars
<1>8. CASE ShutDown
  BY <1>8 DEF ShutDown
<1>9. CASE UNCHANGED vars
  BY <1>9 DEF vars
<1>10. QED
  BY <1>1, <1>2, <1>3, <1>4, <1>5, <1>6, <1>7, <1>8, <1>9, ServingSteps

(* A message put leaves a well-formed response queue. *)
LEMMA PutTyped ==
    ASSUME ServingShape, NEW c \in Requests, NEW m \in Messages, Put(c, m)
    PROVE  /\ mailbox' \in [Requests -> Seq(Messages)]
           /\ mailbox'[c] = Append(mailbox[c], m)
           /\ \A d \in Requests \ {c} : mailbox'[d] = mailbox[d]
BY DEF ServingShape, Put

(* Every step leaves the server well formed.  At most one request is put   *)
(* back, since one is fetched from the queue only when none is.            *)
LEMMA ServingShapeStep ==
    ServingShape /\ GateShape /\ HandleIsAlone /\ [ServingNext]_vars
        => ServingShape' /\ HandleIsAlone'
<1> SUFFICES ASSUME ServingShape, GateShape, HandleIsAlone, [ServingNext]_vars
             PROVE  ServingShape' /\ HandleIsAlone'
  OBVIOUS
<1> USE DEF ServingShape, HandleIsAlone
<1>1. ASSUME NEW c \in Requests, OutsideGate /\ TurnedAway(c)
      PROVE  ServingShape' /\ HandleIsAlone'
  BY <1>1 DEF OutsideGate, threadVars, loopVars, workVars
<1>2. ASSUME NEW c \in Requests, EnterGate(c)
      PROVE  ServingShape' /\ HandleIsAlone'
  BY <1>2 DEF EnterGate, Move, ThreadOnly, Phases, threadVars, loopVars, workVars
<1>3. ASSUME NEW c \in Requests, ThreadStep(c)
      PROVE  ServingShape' /\ HandleIsAlone'
  <2> USE DEF Move, ThreadOnly, Phases, threadVars, loopVars, workVars
  <2>1. CASE Register(c)
    BY <2>1 DEF Register
  <2>2. CASE Submit(c)
    BY <2>2 DEF Submit
  <2>3. CASE Receive(c)
    BY <2>3 DEF Receive
  <2>4. CASE Resume(c) \/ Cancel(c) \/ Abort(c)
    BY <2>4 DEF Resume, Cancel, Abort
  <2>5. CASE Unregister(c)
    BY <2>5 DEF Unregister
  <2>6. CASE ReleaseSlot(c)
    BY <2>6 DEF ReleaseSlot
  <2>7. CASE StopContext(c)
    BY <2>7 DEF StopContext
  <2>8. QED
    BY <1>3, <2>1, <2>2, <2>3, <2>4, <2>5, <2>6, <2>7 DEF ThreadStep
<1>4. ASSUME NEW r \in Reloads, (OutsideGate /\ (ReloadMoves(r) \/ Apply(r))) \/ DropCache(r)
      PROVE  ServingShape' /\ HandleIsAlone'
  BY <1>4 DEF OutsideGate, DropCache, threadVars, loopVars, workVars
<1>5. CASE LoopStep
  <2> USE LoopFrame DEF LoopOnly, Batched, Alive, Messages, threadVars, gateVars, workVars
  <2>1. CASE Dequeue
    <3>1. unprocessed # <<>> => /\ unprocessed[Len(unprocessed)] \in Requests
                                /\ SubSeq(unprocessed, 1, Len(unprocessed) - 1) = <<>>
      BY EmptySeq, ElementOfSeq
    <3>2. requests # <<>> => Head(requests) \in Requests /\ Tail(requests) \in Seq(Requests)
      BY HeadTailProperties
    <3>3. /\ UNCHANGED <<class, phase, mailbox, registered, stopped, batch, drain, lanes,
                          toRemove, remaining, regime, stopping>>
          /\ wpc' = "handle"
      BY <1>5, <2>1 DEF Dequeue, Polling
    <3>4. CASE unprocessed # <<>>
      <4>1. /\ cur' \in Requests
            /\ unprocessed' = <<>>
            /\ requests' = requests
        BY <2>1, <3>1, <3>4 DEF Dequeue
      <4>2. QED
        BY <3>3, <4>1
    <3>5. CASE unprocessed = <<>>
      <4>1. /\ cur' \in Requests
            /\ unprocessed' = <<>>
            /\ requests' \in Seq(Requests)
        BY <2>1, <3>2, <3>5 DEF Dequeue
      <4>2. QED
        BY <3>3, <4>1
    <3>6. QED
      BY <3>4, <3>5
  <2>2. CASE BeginSlice \/ EndSlice \/ CloseBatch \/ LeaveLoop
    BY <1>5, <2>2 DEF BeginSlice, EndSlice, CloseBatch, LeaveLoop
  <2>3. CASE FailWaiting
    BY <1>5, <2>3 DEF FailWaiting
  <2>4. ASSUME NEW c \in Requests, JoinBatch(c)
        PROVE  ServingShape' /\ HandleIsAlone'
    BY <1>5, <2>4, PutTyped DEF JoinBatch, GateShape
  <2>5. ASSUME NEW c \in Requests, TurnAway(c)
        PROVE  ServingShape' /\ HandleIsAlone'
    BY <1>5, <2>5 DEF TurnAway
  <2>6. ASSUME NEW c \in Requests, StartBatch(c)
        PROVE  ServingShape' /\ HandleIsAlone'
    <3>1. batch' \in Kinds
      BY <2>6 DEF StartBatch, ProbedKind, Kinds
    <3>2. QED
      BY <1>5, <2>6, <3>1 DEF StartBatch
  <2>7. ASSUME NEW c \in Requests, ServeAlone(c)
        PROVE  ServingShape' /\ HandleIsAlone'
    BY <1>5, <2>7, PutTyped DEF ServeAlone, GateShape
  <2>8. ASSUME NEW c \in Requests, RespondAlone(c)
        PROVE  ServingShape' /\ HandleIsAlone'
    BY <1>5, <2>8, PutTyped, ResponsesAssumption, SMTT(30) DEF RespondAlone, Alone
  <2>9. ASSUME NEW c \in Requests, AnnounceEnd(c)
        PROVE  ServingShape' /\ HandleIsAlone'
    BY <1>5, <2>9, PutTyped DEF AnnounceEnd, Alone
  <2>10. ASSUME NEW c \in Requests, StoreAlone(c)
        PROVE  ServingShape' /\ HandleIsAlone'
    BY <1>5, <2>10 DEF StoreAlone, Alone
  <2>11. ASSUME NEW c \in Requests, StoreLane(c)
        PROVE  ServingShape' /\ HandleIsAlone'
    BY <1>5, <2>11 DEF StoreLane
  <2>12. ASSUME NEW c \in Requests, RespondLane(c)
        PROVE  ServingShape' /\ HandleIsAlone'
    BY <1>5, <2>12, PutTyped, ResponsesAssumption DEF RespondLane
  <2>13. ASSUME NEW c \in Requests, FinishLane(c)
        PROVE  ServingShape' /\ HandleIsAlone'
    BY <1>5, <2>13 DEF FinishLane
  <2>14. ASSUME NEW c \in Requests, HandleFails(c)
        PROVE  ServingShape' /\ HandleIsAlone'
    BY <1>5, <2>14, PutTyped DEF HandleFails
  <2>15. ASSUME NEW c \in Requests, AloneFails(c)
        PROVE  ServingShape' /\ HandleIsAlone'
    BY <1>5, <2>15, PutTyped DEF AloneFails, Alone
  <2>16. QED
    BY <1>5, <2>1, <2>2, <2>3, <2>4, <2>5, <2>6, <2>7, <2>8, <2>9, <2>10, <2>11, <2>12,
       <2>13, <2>14, <2>15 DEF LoopStep, HandleRequest, GenerateAlone, GenerateLane, Fails
<1>6. CASE Crash
  BY <1>6 DEF Crash, threadVars, workVars
<1>7. CASE ShutDown
  BY <1>7 DEF ShutDown, threadVars, loopVars, workVars
<1>8. CASE UNCHANGED vars
  BY <1>8 DEF vars, threadVars, loopVars, workVars
<1>9. QED
  BY <1>1, <1>2, <1>3, <1>4, <1>5, <1>6, <1>7, <1>8, ServingSteps

--------------------------------------------------------------------------------
(* The lever, and the prompt cache. *)

(* What is left when the gate, the threads of the requests, the generation *)
(* thread and its crash are put aside: the steps that write none of theirs.*)
LEMMA BusySteps ==
    [ServingNext]_vars =>
        \/ UNCHANGED <<class, threadVars, mailbox, loopVars, workVars>>
        \/ \E c \in Requests : EnterGate(c) \/ ThreadStep(c)
        \/ LoopStep
        \/ Crash
BY ServingSteps DEF OutsideGate, DropCache, ShutDown, vars

(* Generation of a request begins when the thread that has it in hand      *)
(* gives it a lane or serves it, and takes the lever as it is then.        *)
LEMMA RegimeMoves ==
    ASSUME ServingShape, LoopStep
    PROVE  \/ regime' = regime
           \/ \E c \in Requests : InHand(c) /\ regime' = [regime EXCEPT ![c] = lever]
<1> USE DEF workVars
<1>1. CASE Dequeue \/ BeginSlice \/ EndSlice \/ CloseBatch \/ LeaveLoop \/ FailWaiting
  BY <1>1 DEF Dequeue, BeginSlice, EndSlice, CloseBatch, LeaveLoop, FailWaiting
<1>2. ASSUME NEW c \in Requests, HandleRequest(c)
      PROVE  \/ regime' = regime
             \/ InHand(c) /\ regime' = [regime EXCEPT ![c] = lever]
  BY <1>2 DEF HandleRequest, JoinBatch, TurnAway, StartBatch, ServeAlone, InHand
<1>3. ASSUME NEW c \in Requests, GenerateAlone(c)
      PROVE  regime' = regime
  BY <1>3 DEF GenerateAlone, RespondAlone, AnnounceEnd, StoreAlone, Alone
<1>4. ASSUME NEW c \in Requests, StoreLane(c) \/ GenerateLane(c)
      PROVE  regime' = regime
  BY <1>4 DEF GenerateLane, StoreLane, RespondLane, FinishLane
<1>5. ASSUME NEW c \in Requests, Fails(c)
      PROVE  regime' = regime
  BY <1>5 DEF Fails, HandleFails, AloneFails, Alone
<1>6. QED
  BY <1>1, <1>2, <1>3, <1>4, <1>5 DEF LoopStep

(* The generation thread stores only what it has begun to compute. *)
LEMMA CacheGrows ==
    ASSUME ServingShape, WorkHasBegun, LoopStep
    PROVE  \/ cache' = cache
           \/ \E c \in Requests : regime[c] # NoSetting /\ cache' = cache \cup {Entry(c)}
<1> USE DEF WorkHasBegun, IsServedAlone, AloneStates
<1>1. CASE Dequeue \/ BeginSlice \/ EndSlice \/ CloseBatch \/ LeaveLoop \/ FailWaiting
  BY <1>1 DEF Dequeue, BeginSlice, EndSlice, CloseBatch, LeaveLoop, FailWaiting
<1>2. ASSUME NEW c \in Requests, HandleRequest(c)
      PROVE  cache' = cache
  BY <1>2 DEF HandleRequest, JoinBatch, TurnAway, StartBatch, ServeAlone
<1>3. ASSUME NEW c \in Requests, GenerateAlone(c)
      PROVE  regime[c] # NoSetting /\ (cache' = cache \/ cache' = cache \cup {Entry(c)})
  <2>1. IsServedAlone(c)
    BY <1>3 DEF GenerateAlone, RespondAlone, AnnounceEnd, StoreAlone, Alone
  <2>2. cache' = cache \/ cache' = cache \cup {Entry(c)}
    BY <1>3 DEF GenerateAlone, RespondAlone, AnnounceEnd, StoreAlone
  <2>3. QED
    BY <2>1, <2>2
<1>4. ASSUME NEW c \in Requests, StoreLane(c) \/ GenerateLane(c)
      PROVE  regime[c] # NoSetting /\ (cache' = cache \/ cache' = cache \cup {Entry(c)})
  <2>1. c \in lanes
    BY <1>4 DEF GenerateLane, StoreLane, RespondLane, FinishLane
  <2>2. cache' = cache \/ cache' = cache \cup {Entry(c)}
    BY <1>4 DEF GenerateLane, StoreLane, RespondLane, FinishLane
  <2>3. QED
    BY <2>1, <2>2
<1>5. ASSUME NEW c \in Requests, Fails(c)
      PROVE  cache' = cache
  BY <1>5 DEF Fails, HandleFails, AloneFails
<1>6. QED
  BY <1>1, <1>2, <1>3, <1>4, <1>5 DEF LoopStep

(* Only what was submitted is generated: the thread has in hand what waits *)
(* for its first message.                                                  *)
LEMMA WorkStep ==
    ServingShape /\ GateShape /\ WorkHasBegun /\ LoopOwnsWaiters /\ [ServingNext]_vars
        => WorkHasBegun'
<1> SUFFICES ASSUME ServingShape, GateShape, WorkHasBegun, LoopOwnsWaiters, [ServingNext]_vars
             PROVE  WorkHasBegun'
  OBVIOUS
<1> USE DEF WorkHasBegun, ServingShape, Submitted, Unsubmitted, IsServedAlone
<1>1. CASE UNCHANGED <<class, threadVars, mailbox, loopVars, workVars>>
  BY <1>1 DEF threadVars, loopVars, workVars
<1>2. ASSUME NEW c \in Requests, EnterGate(c) \/ ThreadStep(c)
      PROVE  WorkHasBegun'
  <2>1. UNCHANGED <<lanes, wpc, cur, regime>>
    BY <1>2 DEF EnterGate, ThreadStep, Register, Submit, Receive, Resume, Cancel, Abort,
                Unregister, ReleaseSlot, StopContext, ThreadOnly, loopVars, workVars
  <2>2. \A d \in Requests : Submitted(d) => Submitted(d)'
    BY <1>2 DEF EnterGate, ThreadStep, Register, Submit, Receive, Resume, Cancel, Abort,
                Unregister, ReleaseSlot, StopContext, Move
  <2>3. QED
    BY <2>1, <2>2
<1>3. CASE LoopStep
  <2>1. UNCHANGED <<phase, lever>> /\ lever \in Settings
    BY <1>3, LoopFrame DEF threadVars, gateVars, GateShape
  <2>2. ASSUME NEW c \in Requests, InHand(c)
        PROVE  Submitted(c)
    BY <2>2 DEF LoopOwnsWaiters, WaitersAreKept, Waits, InHand, Alive
  <2>3. \A c \in Requests : regime'[c] # NoSetting => Submitted(c)'
    BY <1>3, <2>1, <2>2, RegimeMoves
  <2>4. \A c \in Requests : regime[c] # NoSetting => regime'[c] # NoSetting
    BY <1>3, <2>1, RegimeMoves, NoSettingAssumption
  <2>5. /\ \A c \in Requests : c \in lanes' \/ IsServedAlone(c)' => regime'[c] # NoSetting
        /\ wpc' = "store" => cur' \in lanes'
    <3> USE <2>4 DEF AloneStates, LoopOnly, Batched
    <3>1. CASE Dequeue \/ BeginSlice \/ EndSlice \/ CloseBatch \/ LeaveLoop \/ FailWaiting
      BY <3>1 DEF Dequeue, BeginSlice, EndSlice, CloseBatch, LeaveLoop, FailWaiting, Polling
    <3>2. ASSUME NEW c \in Requests, JoinBatch(c)
          PROVE  <2>5!1 /\ <2>5!2
      BY <3>2, <2>1, NoSettingAssumption DEF JoinBatch
    <3>3. ASSUME NEW c \in Requests, TurnAway(c) \/ StartBatch(c)
          PROVE  <2>5!1 /\ <2>5!2
      BY <3>3 DEF TurnAway, StartBatch
    <3>4. ASSUME NEW c \in Requests, ServeAlone(c)
          PROVE  <2>5!1 /\ <2>5!2
      BY <3>4, <2>1, NoSettingAssumption DEF ServeAlone
    <3>5. ASSUME NEW c \in Requests, GenerateAlone(c)
          PROVE  <2>5!1 /\ <2>5!2
      BY <3>5 DEF GenerateAlone, RespondAlone, AnnounceEnd, StoreAlone, Alone
    <3>6. ASSUME NEW c \in Requests, StoreLane(c) \/ GenerateLane(c)
          PROVE  <2>5!1 /\ <2>5!2
      BY <3>6 DEF GenerateLane, StoreLane, RespondLane, FinishLane
    <3>7. ASSUME NEW c \in Requests, Fails(c)
          PROVE  <2>5!1 /\ <2>5!2
      BY <3>7 DEF Fails, HandleFails, AloneFails, Alone
    <3>8. QED
      BY <1>3, <3>1, <3>2, <3>3, <3>4, <3>5, <3>6, <3>7 DEF LoopStep, HandleRequest
  <2>6. QED
    BY <2>3, <2>5
<1>4. CASE Crash
  BY <1>4 DEF Crash, threadVars, workVars, AloneStates
<1>5. QED
  BY <1>1, <1>2, <1>3, <1>4, BusySteps

(* A reload that writes the lever finds no slot held, and a request that   *)
(* takes the slot has no generation behind it.                             *)
LEMMA SettingStep ==
    ServingShape /\ GateInv /\ WorkHasBegun /\ HeldRequestSeesOneSetting /\ [ServingNext]_vars
        => HeldRequestSeesOneSetting'
<1> SUFFICES ASSUME ServingShape, GateInv, WorkHasBegun, HeldRequestSeesOneSetting,
                    [ServingNext]_vars
             PROVE  HeldRequestSeesOneSetting'
  OBVIOUS
<1>a. GateShape
  BY DEF GateInv
<1> USE <1>a DEF HeldRequestSeesOneSetting, ServingShape, GateShape
<1>1. ASSUME NEW c \in Requests, OutsideGate /\ TurnedAway(c)
      PROVE  HeldRequestSeesOneSetting'
  BY <1>1, TurnedAwayFrame DEF OutsideGate, workVars
<1>2. ASSUME NEW c \in Requests, EnterGate(c)
      PROVE  HeldRequestSeesOneSetting'
  <2>1. regime[c] = NoSetting
    BY <1>2 DEF EnterGate, Move, WorkHasBegun, Submitted, Unsubmitted
  <2>2. QED
    BY <1>2, <2>1 DEF EnterGate, Admit, ThreadOnly, workVars, configVars
<1>3. ASSUME NEW c \in Requests, ThreadStep(c)
      PROVE  HeldRequestSeesOneSetting'
  <2>1. UNCHANGED <<lever, regime>>
    BY <1>3 DEF ThreadStep, Register, Submit, Receive, Resume, Cancel, Abort, Unregister,
                ReleaseSlot, Retire, StopContext, ThreadOnly, workVars, gateVars, configVars
  <2>2. \A d \in Requests : slot'[d] = "held" => slot[d] = "held"
    BY <1>3 DEF ThreadStep, Register, Submit, Receive, Resume, Cancel, Abort, Unregister,
                ReleaseSlot, Retire, StopContext, gateVars
  <2>3. QED
    BY <2>1, <2>2
<1>4. ASSUME NEW r \in Reloads, (OutsideGate /\ ReloadMoves(r)) \/ DropCache(r)
      PROVE  HeldRequestSeesOneSetting'
  BY <1>4, ReloadMovesFrame DEF OutsideGate, DropCache, Clear, requestVars, configVars, workVars
<1>5. ASSUME NEW r \in Reloads, OutsideGate /\ Apply(r)
      PROVE  HeldRequestSeesOneSetting'
  <2>1. Cardinality(Holders) = 0
    BY <1>5 DEF GateInv, DrainedMeansEmpty, InflightCountsHolders, Apply, Goto
  <2>2. IsFiniteSet(Holders)
    BY FS_Subset, RequestsAssumption DEF Holders
  <2>3. Holders = {}
    BY <2>1, <2>2, FS_EmptySet
  <2>4. \A d \in Requests : slot[d] # "held"
    BY <2>3 DEF Holders
  <2>5. QED
    BY <1>5, <2>4 DEF Apply, requestVars
<1>6. CASE LoopStep
  BY <1>6, LoopFrame, RegimeMoves DEF gateVars
<1>7. CASE Crash
  BY <1>7 DEF Crash, WorkerFails, requestVars, configVars, workVars
<1>8. CASE UNCHANGED <<slot, lever, regime>>
  BY <1>8
<1>9. QED
  BY <1>1, <1>2, <1>3, <1>4, <1>5, <1>6, <1>7, <1>8, ServingSteps
     DEF ShutDown, vars, gateVars, workVars

(* While a request holds its slot, what is stored for it is of the present *)
(* setting; what is stored of another one is stored after that.            *)
LEMMA CacheStep ==
    ServingShape /\ GateShape /\ CacheTyped /\ WorkHasBegun /\ HeldRequestSeesOneSetting
        /\ StaleEntryOutlivedItsSlot /\ [ServingNext]_vars
        => CacheTyped' /\ StaleEntryOutlivedItsSlot'
<1> SUFFICES ASSUME ServingShape, GateShape, CacheTyped, WorkHasBegun,
                    HeldRequestSeesOneSetting, StaleEntryOutlivedItsSlot, [ServingNext]_vars
             PROVE  CacheTyped' /\ StaleEntryOutlivedItsSlot'
  OBVIOUS
<1> USE DEF CacheTyped, StaleEntryOutlivedItsSlot, GateShape
<1>1. ASSUME UNCHANGED <<cache, lever>>, Dropping => Dropping'
      PROVE  CacheTyped' /\ StaleEntryOutlivedItsSlot'
  BY <1>1
<1>2. ASSUME NEW c \in Requests,
             (OutsideGate /\ TurnedAway(c)) \/ EnterGate(c) \/ ThreadStep(c)
      PROVE  UNCHANGED <<cache, lever, reload>>
  <2>1. CASE OutsideGate /\ TurnedAway(c)
    BY <2>1, TurnedAwayFrame DEF OutsideGate
  <2>2. CASE EnterGate(c)
    BY <2>2 DEF EnterGate, Admit, ThreadOnly, reloadVars, configVars
  <2>3. CASE ThreadStep(c)
    BY <2>3 DEF ThreadStep, Register, Submit, Receive, Resume, Cancel, Abort, Unregister,
                ReleaseSlot, Retire, StopContext, ThreadOnly, gateVars, reloadVars, configVars
  <2>4. QED
    BY <1>2, <2>1, <2>2, <2>3
<1>3. ASSUME NEW r \in Reloads, OutsideGate /\ ReloadMoves(r)
      PROVE  UNCHANGED <<cache, lever, Dropping>>
  BY <1>3, ReloadMovesFrame DEF OutsideGate
<1>4. ASSUME NEW r \in Reloads, OutsideGate /\ Apply(r)
      PROVE  CacheTyped' /\ StaleEntryOutlivedItsSlot'
  <2>1. Dropping'
    BY <1>4 DEF Apply, Goto, Dropping
  <2>2. QED
    BY <1>4, <2>1 DEF OutsideGate
<1>5. ASSUME NEW r \in Reloads, DropCache(r)
      PROVE  CacheTyped' /\ StaleEntryOutlivedItsSlot'
  BY <1>5 DEF DropCache
<1>6. CASE LoopStep
  <2>1. UNCHANGED <<lever, Dropping>>
    BY <1>6, LoopFrame DEF gateVars, Dropping
  <2>2. ASSUME NEW c \in Requests, regime[c] # NoSetting
        PROVE  /\ Entry(c) \in [setting : Settings, late : BOOLEAN]
               /\ Entry(c).setting = lever \/ Entry(c).late
    BY <2>2 DEF Entry, ServingShape, HeldRequestSeesOneSetting
  <2>3. QED
    BY <1>6, <2>1, <2>2, CacheGrows
<1>7. CASE Crash \/ ShutDown \/ UNCHANGED vars
  BY <1>7 DEF Crash, WorkerFails, ShutDown, vars, gateVars, reloadVars, configVars, Dropping
<1>8. QED
  BY <1>1, <1>2, <1>3, <1>4, <1>5, <1>6, <1>7, ServingSteps DEF Dropping

--------------------------------------------------------------------------------
(* Where a request waits. *)

(* What a queue holds after an append. *)
LEMMA InSeqAppend ==
    ASSUME NEW S, NEW s \in Seq(S), NEW x \in S, NEW y
    PROVE  InSeq(Append(s, x), y) <=> InSeq(s, y) \/ y = x
<1>1. /\ Len(Append(s, x)) = Len(s) + 1 /\ Len(s) \in Nat
      /\ DOMAIN Append(s, x) = 1..(Len(s) + 1) /\ DOMAIN s = 1..Len(s)
      /\ \A i \in 1..Len(s) : Append(s, x)[i] = s[i]
      /\ Append(s, x)[Len(s) + 1] = x
  BY AppendProperties, LenProperties
<1>2. QED
  BY <1>1 DEF InSeq

(* What a queue holds is its head and what its tail holds. *)
LEMMA InSeqTail ==
    ASSUME NEW S, NEW s \in Seq(S), s # <<>>, NEW y
    PROVE  InSeq(s, y) <=> y = Head(s) \/ InSeq(Tail(s), y)
<1>1. /\ Len(s) \in Nat /\ Len(s) > 0
      /\ DOMAIN s = 1..Len(s) /\ DOMAIN Tail(s) = 1..(Len(s) - 1)
      /\ Head(s) = s[1]
      /\ \A i \in 1..(Len(s) - 1) : Tail(s)[i] = s[i + 1]
  BY EmptySeq, LenProperties, HeadTailProperties
<1>2. ASSUME NEW i \in DOMAIN s, s[i] = y
      PROVE  y = Head(s) \/ InSeq(Tail(s), y)
  <2>1. CASE i = 1
    BY <1>1, <1>2, <2>1
  <2>2. CASE i # 1
    <3>1. i - 1 \in 1..(Len(s) - 1) /\ (i - 1) + 1 = i
      BY <1>1, <2>2
    <3>2. Tail(s)[i - 1] = y
      BY <1>1, <1>2, <3>1
    <3>3. QED
      BY <1>1, <3>1, <3>2 DEF InSeq
  <2>3. QED
    BY <2>1, <2>2
<1>3. y = Head(s) => InSeq(s, y)
  BY <1>1 DEF InSeq
<1>4. ASSUME NEW i \in DOMAIN Tail(s), Tail(s)[i] = y
      PROVE  InSeq(s, y)
  BY <1>1, <1>4 DEF InSeq
<1>5. QED
  BY <1>2, <1>3, <1>4 DEF InSeq

(* A queue without repetitions stays so when something new is appended. *)
LEMMA DistinctAppend ==
    ASSUME NEW S, NEW s \in Seq(S), NEW x \in S, Distinct(s), ~InSeq(s, x)
    PROVE  Distinct(Append(s, x))
<1>1. /\ Len(s) \in Nat
      /\ DOMAIN Append(s, x) = 1..(Len(s) + 1) /\ DOMAIN s = 1..Len(s)
      /\ \A i \in 1..Len(s) : Append(s, x)[i] = s[i] /\ s[i] # x
      /\ Append(s, x)[Len(s) + 1] = x
  BY AppendProperties, LenProperties DEF InSeq
<1> SUFFICES ASSUME NEW i \in 1..(Len(s) + 1), NEW j \in 1..(Len(s) + 1),
                    Append(s, x)[i] = Append(s, x)[j]
             PROVE  i = j
  BY <1>1 DEF Distinct
<1>2. CASE i \in 1..Len(s) /\ j \in 1..Len(s)
  BY <1>1, <1>2 DEF Distinct
<1>3. CASE i = Len(s) + 1 \/ j = Len(s) + 1
  BY <1>1, <1>3
<1>4. QED
  BY <1>1, <1>2, <1>3

(* Its tail is without repetitions too, and without its head. *)
LEMMA DistinctTail ==
    ASSUME NEW S, NEW s \in Seq(S), s # <<>>, Distinct(s)
    PROVE  Distinct(Tail(s)) /\ ~InSeq(Tail(s), Head(s))
<1>1. /\ Len(s) \in Nat /\ Len(s) > 0
      /\ DOMAIN s = 1..Len(s) /\ DOMAIN Tail(s) = 1..(Len(s) - 1)
      /\ Head(s) = s[1]
      /\ \A i \in 1..(Len(s) - 1) : Tail(s)[i] = s[i + 1]
  BY EmptySeq, LenProperties, HeadTailProperties
<1>2. ASSUME NEW i \in 1..(Len(s) - 1), NEW j \in 1..(Len(s) - 1), Tail(s)[i] = Tail(s)[j]
      PROVE  i = j
  <2>1. i + 1 \in DOMAIN s /\ j + 1 \in DOMAIN s /\ s[i + 1] = s[j + 1]
    BY <1>1, <1>2
  <2>2. i + 1 = j + 1
    BY <2>1 DEF Distinct
  <2>3. QED
    BY <2>2
<1>3. ASSUME NEW i \in 1..(Len(s) - 1), Tail(s)[i] = Head(s)
      PROVE  FALSE
  <2>1. i + 1 \in DOMAIN s /\ 1 \in DOMAIN s /\ s[i + 1] = s[1]
    BY <1>1, <1>3
  <2>2. i + 1 = 1
    BY <2>1 DEF Distinct
  <2>3. QED
    BY <2>2
<1>4. QED
  BY <1>1, <1>2, <1>3 DEF Distinct, InSeq

(* Putting a message ends a wait, and only that of its request. *)
LEMMA PutIsRead ==
    ASSUME ServingShape, NEW c \in Requests, NEW m \in Messages, Put(c, m)
    PROVE  /\ mailbox'[c] # <<>>
           /\ \A d \in Requests \ {c} : mailbox'[d] = mailbox[d]
<1>1. mailbox[c] \in Seq(Messages)
  BY DEF ServingShape
<1>2. Append(mailbox[c], m) # <<>>
  BY <1>1, AppendProperties, EmptySeq, LenProperties
<1>3. QED
  BY <1>2, PutTyped

(* The steps of the threads: a request that is submitted gets its one      *)
(* place, and what is received was not waited for in any.                  *)
LEMMA ThreadKeepsWaiters ==
    ASSUME ServingShape, WorkHasBegun, PlacesAreApart, WaitersAreKept,
           NEW c \in Requests, EnterGate(c) \/ ThreadStep(c)
    PROVE  PlacesAreApart' /\ WaitersAreKept'
<1> USE DEF ServingShape, WaitersAreKept, Submitted, Unsubmitted, Move, ThreadOnly, loopVars
<1>1. CASE Submit(c)
  <2>1. /\ phase[c] = "submit" /\ phase' = [phase EXCEPT ![c] = "context"]
        /\ requests' = Append(requests, c)
        /\ UNCHANGED <<unprocessed, lanes, wpc, cur, mailbox>>
    BY <1>1 DEF Submit
  <2>2. ~Waits(c) /\ mailbox[c] = <<>> /\ c \notin lanes /\ ~IsServedAlone(c)
    BY <2>1 DEF WorkHasBegun
  <2>3. \A d \in Requests : InSeq(requests', d) <=> InSeq(requests, d) \/ d = c
    BY <2>1, InSeqAppend
  <2>4. \A d \in Requests : Waits(d)' <=> Waits(d) \/ d = c
    BY <2>1, <2>3 DEF Waits, InHand
  <2>5. \A d \in Requests : IsServedAlone(d)' <=> IsServedAlone(d)
    BY <2>1 DEF IsServedAlone
  <2>6. Distinct(requests')
    BY <2>1, <2>2, DistinctAppend DEF PlacesAreApart, Waits
  <2>7. PlacesAreApart'
    BY <2>1, <2>2, <2>3, <2>4, <2>5, <2>6 DEF PlacesAreApart, Waits, InHand
  <2>8. WaitersAreKept'
    BY <2>1, <2>2, <2>4
  <2>9. QED
    BY <2>7, <2>8
<1>2. CASE ~Submit(c)
  <2>1. UNCHANGED <<requests, unprocessed, lanes, wpc, cur>>
    BY <1>2 DEF EnterGate, ThreadStep, Register, Receive, Resume, Cancel, Abort, Unregister,
                ReleaseSlot, StopContext
  <2>2. \A d \in Requests : Waits(d)' <=> Waits(d)
    BY <2>1 DEF Waits, InHand
  <2>3. PlacesAreApart'
    BY <2>1, <2>2 DEF PlacesAreApart, IsServedAlone, InHand
  <2>4. CASE Receive(c)
    <3>1. /\ mailbox[c] # <<>> /\ UNCHANGED <<requests>>
          /\ \A d \in Requests \ {c} : mailbox'[d] = mailbox[d] /\ phase'[d] = phase[d]
          /\ phase[c] \in {"context", "next"} /\ phase'[c] \in {"caller", "unregister"}
      BY <2>1, <2>4 DEF Receive
    <3>2. QED
      BY <2>2, <2>3, <3>1
  <2>5. CASE ~Receive(c)
    <3>1. UNCHANGED mailbox /\ phase' \in [Requests -> Phases]
      BY <1>2, <2>5 DEF EnterGate, ThreadStep, Register, Resume, Cancel, Abort, Unregister,
                        ReleaseSlot, StopContext, Phases
    <3>2. /\ \A d \in Requests : phase'[d] = "context" <=> phase[d] = "context"
          /\ \A d \in Requests : ~Submitted(d)' => ~Submitted(d)
      BY <1>2, <2>5 DEF EnterGate, ThreadStep, Register, Resume, Cancel, Abort, Unregister,
                        ReleaseSlot, StopContext
    <3>3. QED
      BY <2>2, <2>3, <3>1, <3>2
  <2>6. QED
    BY <2>3, <2>4, <2>5
<1>3. QED
  BY <1>1, <1>2

(* Fetching a request, or putting it back, moves it from one place to      *)
(* another.                                                                *)
LEMMA FetchKeepsWaiters ==
    ASSUME ServingShape, HandleIsAlone, PlacesAreApart, WaitersAreKept,
           Dequeue \/ \E c \in Requests : TurnAway(c) \/ StartBatch(c)
    PROVE  PlacesAreApart' /\ WaitersAreKept'
<1> SUFFICES /\ \A d \in Requests : Waits(d)' <=> Waits(d)
             /\ Distinct(requests')
             /\ \A d \in Requests :
                   (InSeq(unprocessed, d) \/ InHand(d))' => ~InSeq(requests', d)
             /\ UNCHANGED <<phase, mailbox, lanes>>
             /\ wpc' \in {"poll", "handle"}
  BY DEF PlacesAreApart, WaitersAreKept, IsServedAlone, AloneStates, Submitted, Unsubmitted
<1> USE DEF ServingShape, LoopOnly, Batched, threadVars
<1>1. CASE Dequeue
  <2>1. wpc = "poll" /\ wpc' = "handle" /\ UNCHANGED <<phase, mailbox, lanes>>
    BY <1>1 DEF Dequeue, Polling
  <2>2. CASE unprocessed # <<>>
    <3>1. /\ unprocessed' = <<>> /\ requests' = requests
          /\ cur' = unprocessed[1] /\ DOMAIN unprocessed = {1}
      <4>1. Len(unprocessed) \in Nat \ {0} /\ DOMAIN unprocessed = 1..Len(unprocessed)
        BY <2>2, EmptySeq, LenProperties
      <4>2. QED
        BY <1>1, <2>2, <4>1 DEF Dequeue
    <3>2. \A d \in Requests : InSeq(unprocessed, d) <=> d = cur'
      BY <3>1 DEF InSeq
    <3>3. \A d \in Requests : ~InSeq(unprocessed', d)
      BY <3>1 DEF InSeq
    <3>4. QED
      BY <2>1, <3>1, <3>2, <3>3 DEF Waits, InHand, PlacesAreApart
  <2>3. CASE unprocessed = <<>>
    <3>1. /\ requests # <<>> /\ cur' = Head(requests) /\ requests' = Tail(requests)
          /\ unprocessed' = unprocessed
      BY <1>1, <2>3 DEF Dequeue
    <3>2. \A d \in Requests : InSeq(requests, d) <=> d = cur' \/ InSeq(requests', d)
      BY <3>1, InSeqTail
    <3>3. \A d \in Requests : ~InSeq(unprocessed, d) /\ ~InSeq(unprocessed', d)
      BY <2>3, <3>1 DEF InSeq
    <3>4. Distinct(requests') /\ ~InSeq(requests', cur')
      BY <3>1, DistinctTail DEF PlacesAreApart
    <3>5. QED
      BY <2>1, <3>2, <3>3, <3>4 DEF Waits, InHand
  <2>4. QED
    BY <2>2, <2>3
<1>2. ASSUME NEW c \in Requests, TurnAway(c) \/ StartBatch(c)
      PROVE  /\ \A d \in Requests : Waits(d)' <=> Waits(d)
             /\ UNCHANGED <<requests, phase, mailbox, lanes>>
             /\ wpc' = "poll"
             /\ \A d \in Requests : InSeq(unprocessed', d) => ~InSeq(requests', d)
  <2>1. /\ wpc = "handle" /\ cur = c /\ wpc' = "poll" /\ unprocessed = <<>>
        /\ unprocessed' = Append(unprocessed, c)
        /\ UNCHANGED <<requests, phase, mailbox, lanes>>
    BY <1>2 DEF TurnAway, StartBatch, HandleIsAlone
  <2>2. \A d \in Requests : InSeq(unprocessed', d) <=> d = c
    BY <2>1, InSeqAppend DEF InSeq
  <2>3. \A d \in Requests : ~InSeq(unprocessed, d)
    BY <2>1 DEF InSeq
  <2>4. QED
    BY <2>1, <2>2, <2>3 DEF Waits, InHand, PlacesAreApart
<1>3. QED
  BY <1>1, <1>2 DEF InHand, PlacesAreApart

(* A request in hand is in no queue. *)
LEMMA InHandIsApart ==
    ASSUME HandleIsAlone, PlacesAreApart, WaitersAreKept, NEW c \in Requests, InHand(c)
    PROVE  /\ Submitted(c) /\ c \notin lanes
           /\ ~InSeq(requests, c)
           /\ \A d \in Requests : ~InSeq(unprocessed, d)
BY DEF HandleIsAlone, PlacesAreApart, WaitersAreKept, Waits, InHand, InSeq, Submitted, Unsubmitted

(* An answer takes the request in hand out of the last place it waited in. *)
LEMMA AnswerKeepsWaiters ==
    ASSUME ServingShape, HandleIsAlone, PlacesAreApart, WaitersAreKept,
           NEW c \in Requests, JoinBatch(c) \/ ServeAlone(c) \/ HandleFails(c)
    PROVE  PlacesAreApart' /\ WaitersAreKept'
<1>1. /\ wpc = "handle" /\ cur = c /\ wpc' \in {"poll", "single"}
      /\ wpc' = "single" => ServeAlone(c) /\ cur' = c
      /\ lanes' # lanes => wpc' = "poll" /\ lanes' = lanes \cup {c}
      /\ UNCHANGED <<phase, requests, unprocessed>>
  BY DEF JoinBatch, ServeAlone, HandleFails, LoopOnly, Batched, threadVars
<1>2. \E m \in Messages : Put(c, m)
  BY DEF JoinBatch, ServeAlone, HandleFails, Messages
<1>3. InHand(c) /\ Submitted(c) /\ c \notin lanes /\ ~InSeq(requests, c)
      /\ \A d \in Requests : ~InSeq(unprocessed, d)
  BY <1>1, InHandIsApart DEF InHand
<1>4. \A d \in Requests : Waits(d)' <=> Waits(d) /\ d # c
  BY <1>1, <1>3 DEF Waits, InHand
<1>5. \A d \in Requests : IsServedAlone(d)' => d = c /\ wpc' = "single"
  BY <1>1 DEF IsServedAlone, AloneStates
<1>6. PlacesAreApart'
  BY <1>1, <1>3, <1>4, <1>5 DEF PlacesAreApart, InHand
<1>7. WaitersAreKept'
  BY <1>1, <1>2, <1>3, <1>4, PutIsRead DEF WaitersAreKept, Submitted, Unsubmitted
<1>8. QED
  BY <1>6, <1>7

(* Who is served alone, or has a lane, waits nowhere; what it is sent is   *)
(* not its first message.                                                  *)
LEMMA WorkKeepsWaiters ==
    ASSUME ServingShape, WorkHasBegun, PlacesAreApart, WaitersAreKept,
           NEW c \in Requests,
           GenerateAlone(c) \/ StoreLane(c) \/ GenerateLane(c) \/ AloneFails(c)
    PROVE  PlacesAreApart' /\ WaitersAreKept'
<1>1. /\ IsServedAlone(c) \/ c \in lanes
      /\ \A d \in Requests : IsServedAlone(d)' => IsServedAlone(d)
      /\ wpc # "handle" /\ wpc' # "handle"
      /\ lanes' \subseteq lanes
      /\ UNCHANGED <<phase, requests, unprocessed>>
  <2> USE DEF LoopOnly, Batched, threadVars, IsServedAlone, AloneStates
  <2>1. CASE GenerateAlone(c) \/ AloneFails(c)
    BY <2>1, NoRequestAssumption
       DEF GenerateAlone, RespondAlone, AnnounceEnd, StoreAlone, AloneFails, Alone
  <2>2. CASE StoreLane(c) \/ GenerateLane(c)
    BY <2>2 DEF StoreLane, GenerateLane, RespondLane, FinishLane, WorkHasBegun
  <2>3. QED
    BY <2>1, <2>2
<1>2. Submitted(c) /\ ~Waits(c)
  BY <1>1 DEF WorkHasBegun, PlacesAreApart
<1>3. \A d \in Requests : Waits(d)' <=> Waits(d)
  BY <1>1 DEF Waits, InHand
<1>4. PlacesAreApart'
  BY <1>1, <1>3 DEF PlacesAreApart, InHand
<1>5. mailbox' = mailbox \/ (mailbox'[c] # <<>> /\ \A d \in Requests \ {c} : mailbox'[d] = mailbox[d])
  <2>1. CASE StoreAlone(c) \/ StoreLane(c)
    BY <2>1 DEF StoreAlone, StoreLane
  <2>2. CASE RespondAlone(c) \/ AnnounceEnd(c) \/ AloneFails(c) \/ RespondLane(c)
    <3>1. \E m \in Messages : Put(c, m)
      BY <2>2 DEF RespondAlone, AnnounceEnd, AloneFails, RespondLane, Messages
    <3>2. QED
      BY <3>1, PutIsRead
  <2>3. CASE FinishLane(c)
    <3>1. mailbox[c] \in Seq(Messages) /\ <<"token", "none">> \in Seq(Messages)
      BY DEF ServingShape, Messages
    <3>2. mailbox[c] \o <<"token", "none">> # <<>>
      BY <3>1, ConcatEqualIffEmpty
    <3>3. QED
      BY <2>3, <3>2 DEF FinishLane, ServingShape
  <2>4. QED
    BY <2>1, <2>2, <2>3 DEF GenerateAlone, GenerateLane
<1>6. WaitersAreKept'
  BY <1>1, <1>2, <1>3, <1>5 DEF WaitersAreKept, Submitted, Unsubmitted
<1>7. QED
  BY <1>4, <1>6

(* While the generation thread lives, it keeps whoever waits for it, in    *)
(* one place.                                                              *)
LEMMA OwnersStep ==
    ServingShape /\ HandleIsAlone /\ WorkHasBegun /\ LoopOwnsWaiters /\ [ServingNext]_vars
        => LoopOwnsWaiters'
<1> SUFFICES ASSUME ServingShape, HandleIsAlone, WorkHasBegun, LoopOwnsWaiters,
                    [ServingNext]_vars, wpc' \in Alive
             PROVE  PlacesAreApart' /\ WaitersAreKept'
  BY DEF LoopOwnsWaiters
<1>1. CASE UNCHANGED <<class, threadVars, mailbox, loopVars, workVars>>
  BY <1>1 DEF LoopOwnsWaiters, PlacesAreApart, WaitersAreKept, Waits, InHand, IsServedAlone,
              Submitted, Unsubmitted, threadVars, loopVars
<1>2. ASSUME NEW c \in Requests, EnterGate(c) \/ ThreadStep(c)
      PROVE  PlacesAreApart' /\ WaitersAreKept'
  <2>1. UNCHANGED wpc
    BY <1>2 DEF EnterGate, ThreadStep, Register, Submit, Receive, Resume, Cancel, Abort,
                Unregister, ReleaseSlot, StopContext, ThreadOnly, loopVars
  <2>2. QED
    BY <1>2, <2>1, ThreadKeepsWaiters DEF LoopOwnsWaiters
<1>3. CASE LoopStep
  <2>1. PlacesAreApart /\ WaitersAreKept
    <3>1. wpc # "dying"
      BY <1>3 DEF LoopStep, Dequeue, Polling, BeginSlice, EndSlice, CloseBatch, LeaveLoop,
                  FailWaiting, HandleRequest, JoinBatch, TurnAway, StartBatch, ServeAlone,
                  GenerateAlone, RespondAlone, AnnounceEnd, StoreAlone, Alone, StoreLane,
                  GenerateLane, RespondLane, FinishLane, Fails, HandleFails, AloneFails, Alive
    <3>2. wpc \notin {"dead", "halted"}
      BY <1>3 DEF LoopStep, Dequeue, Polling, BeginSlice, EndSlice, CloseBatch, LeaveLoop,
                  FailWaiting, HandleRequest, JoinBatch, TurnAway, StartBatch, ServeAlone,
                  GenerateAlone, RespondAlone, AnnounceEnd, StoreAlone, Alone, StoreLane,
                  GenerateLane, RespondLane, FinishLane, Fails, HandleFails, AloneFails
    <3>3. QED
      BY <3>1, <3>2 DEF LoopOwnsWaiters, ServingShape
  <2>2. CASE BeginSlice \/ EndSlice \/ CloseBatch
    <3>1. /\ wpc \in {"poll", "slice"} /\ wpc' \in {"poll", "slice"}
          /\ lanes' \subseteq lanes
          /\ UNCHANGED <<phase, mailbox, requests, unprocessed>>
      BY <2>2 DEF BeginSlice, EndSlice, CloseBatch, Polling, LoopOnly, Batched, threadVars
    <3>2. \A d \in Requests : /\ Waits(d)' <=> Waits(d)
                              /\ ~IsServedAlone(d)' /\ ~InHand(d)'
      BY <3>1 DEF Waits, InHand, IsServedAlone, AloneStates
    <3>3. QED
      BY <2>1, <3>1, <3>2 DEF PlacesAreApart, WaitersAreKept, Submitted, Unsubmitted
  <2>3. CASE LeaveLoop \/ FailWaiting
    BY <2>3 DEF LeaveLoop, FailWaiting, Alive
  <2>4. QED
    BY <1>3, <2>1, <2>2, <2>3, FetchKeepsWaiters, AnswerKeepsWaiters, WorkKeepsWaiters
       DEF LoopStep, HandleRequest, Fails
<1>4. CASE Crash
  BY <1>4 DEF Crash, Alive
<1>5. QED
  BY <1>1, <1>2, <1>3, <1>4, BusySteps

--------------------------------------------------------------------------------
(* The batch. *)

(* A batch without a generator has no lanes. *)
LEMMA NoBatchStep ==
    ServingShape /\ NoBatchNoLanes /\ [ServingNext]_vars => NoBatchNoLanes'
<1> SUFFICES ASSUME ServingShape, NoBatchNoLanes, [ServingNext]_vars
             PROVE  NoBatchNoLanes'
  OBVIOUS
<1>1. CASE UNCHANGED <<batch, lanes>>
  BY <1>1 DEF NoBatchNoLanes
<1>2. CASE LoopStep
  <2> USE DEF NoBatchNoLanes, LoopOnly, Batched
  <2>1. CASE Dequeue \/ BeginSlice \/ EndSlice \/ CloseBatch \/ LeaveLoop \/ FailWaiting
    BY <2>1 DEF Dequeue, BeginSlice, EndSlice, CloseBatch, LeaveLoop, FailWaiting
  <2>2. ASSUME NEW c \in Requests, HandleRequest(c)
        PROVE  NoBatchNoLanes'
    BY <2>2 DEF HandleRequest, JoinBatch, TurnAway, StartBatch, ServeAlone
  <2>3. ASSUME NEW c \in Requests,
               GenerateAlone(c) \/ StoreLane(c) \/ GenerateLane(c) \/ Fails(c)
        PROVE  NoBatchNoLanes'
    BY <2>3 DEF GenerateAlone, RespondAlone, AnnounceEnd, StoreAlone, Alone, GenerateLane,
                StoreLane, RespondLane, FinishLane, Fails, HandleFails, AloneFails
  <2>4. QED
    BY <1>2, <2>1, <2>2, <2>3 DEF LoopStep
<1>3. QED
  BY <1>1, <1>2, BusySteps
     DEF EnterGate, ThreadStep, Register, Submit, Receive, Resume, Cancel, Abort, Unregister,
         ReleaseSlot, StopContext, ThreadOnly, Crash, loopVars

(* A lane joins a batch of its kind; a batch drains with somebody put      *)
(* back, who is fetched again when its lanes are gone.                     *)
LEMMA KindStep ==
    ServingShape /\ NoBatchNoLanes /\ BatchIsOfOneKind /\ [ServingNext]_vars
        => BatchIsOfOneKind'
<1> SUFFICES ASSUME ServingShape, NoBatchNoLanes, BatchIsOfOneKind, [ServingNext]_vars
             PROVE  BatchIsOfOneKind'
  OBVIOUS
<1>1. CASE UNCHANGED <<class, batch, drain, unprocessed, lanes>>
  BY <1>1 DEF BatchIsOfOneKind, Kind
<1>2. CASE LoopStep
  <2> USE DEF BatchIsOfOneKind, Kind, LoopOnly, Batched
  <2>1. CASE Dequeue \/ BeginSlice \/ EndSlice \/ CloseBatch \/ LeaveLoop \/ FailWaiting
    BY <2>1 DEF Dequeue, BeginSlice, EndSlice, CloseBatch, LeaveLoop, FailWaiting
  <2>2. ASSUME NEW c \in Requests, JoinBatch(c)
        PROVE  BatchIsOfOneKind'
    BY <2>2 DEF JoinBatch, Joins
  <2>3. ASSUME NEW c \in Requests, TurnAway(c) \/ StartBatch(c)
        PROVE  BatchIsOfOneKind'
    <3>1. Append(unprocessed, c) # <<>>
      <4>1. unprocessed \in Seq(Requests)
        BY DEF ServingShape
      <4> DEFINE s == unprocessed
      <4>2. s \in Seq(Requests)
        BY <4>1
      <4> HIDE DEF s
      <4>3. Append(s, c)[Len(s) + 1] = c /\ Len(Append(s, c)) = Len(s) + 1 /\ Len(s) \in Nat
        BY <4>2
      <4>4. Append(s, c) # <<>>
        BY <4>3
      <4>5. QED
        BY <4>4 DEF s
    <3>2. QED
      BY <2>3, <3>1 DEF TurnAway, StartBatch, NoBatchNoLanes
  <2>4. ASSUME NEW c \in Requests,
               ServeAlone(c) \/ GenerateAlone(c) \/ StoreLane(c) \/ GenerateLane(c) \/ Fails(c)
        PROVE  BatchIsOfOneKind'
    BY <2>4 DEF ServeAlone, GenerateAlone, RespondAlone, AnnounceEnd, StoreAlone, Alone,
                GenerateLane, StoreLane, RespondLane, FinishLane, Fails, HandleFails, AloneFails
  <2>5. QED
    BY <1>2, <2>1, <2>2, <2>3, <2>4 DEF LoopStep, HandleRequest
<1>3. QED
  BY <1>1, <1>2, BusySteps
     DEF EnterGate, ThreadStep, Register, Submit, Receive, Resume, Cancel, Abort, Unregister,
         ReleaseSlot, StopContext, ThreadOnly, Crash, loopVars

--------------------------------------------------------------------------------
(* What a thread finds in its queue. *)

(* One more message, where it may be sent. *)
LEMMA OrderedAppend ==
    ASSUME NEW p, NEW s \in Seq(Messages), NEW m \in Messages, Ordered(p, s),
           p \in Unsubmitted => m = "error",
           m # "error" => ~Ended(s),
           m = "context" => s = <<>> /\ p = "context",
           s = <<>> /\ p = "context" => m \in {"context", "error"}
    PROVE  Ordered(p, Append(s, m))
<1> DEFINE t == Append(s, m)
<1>1. /\ Len(s) \in Nat /\ DOMAIN s = 1..Len(s)
      /\ t \in Seq(Messages) /\ Len(t) = Len(s) + 1 /\ DOMAIN t = 1..(Len(s) + 1)
      /\ \A i \in 1..Len(s) : t[i] = s[i]
      /\ t[Len(s) + 1] = m
  BY AppendProperties, LenProperties
<1>2. s = <<>> => Len(s) = 0
  BY EmptySeq
<1>3. s # <<>> => Len(s) > 0 /\ Head(t) = Head(s)
  <2>1. s # <<>> => Len(s) > 0
    BY EmptySeq, <1>1
  <2>2. Head(t) = t[1] /\ (s # <<>> => Head(s) = s[1])
    BY <1>1, HeadTailProperties
  <2>3. QED
    BY <1>1, <2>1, <2>2
<1>4. Head(t) = t[1]
  BY <1>1
<1> HIDE DEF t
<1>5. EndIsLast(t)
  <2> SUFFICES ASSUME NEW i \in DOMAIN t, NEW j \in DOMAIN t, i < j, t[i] \in {"none", "error"}
               PROVE  t[j] = "error"
    BY DEF EndIsLast
  <2>1. i \in 1..Len(s) /\ t[i] = s[i]
    BY <1>1
  <2>2. CASE j \in 1..Len(s)
    BY <1>1, <2>1, <2>2 DEF Ordered, EndIsLast
  <2>3. CASE j = Len(s) + 1
    BY <1>1, <2>1, <2>3 DEF Ended, InSeq
  <2>4. QED
    BY <1>1, <2>2, <2>3
<1>6. p = "context" => Head(t) \in {"context", "error"}
  <2>1. CASE s = <<>>
    BY <1>1, <1>2, <1>4, <2>1
  <2>2. CASE s # <<>>
    BY <1>3, <2>2 DEF Ordered, ContextIsFirst
  <2>3. QED
    BY <2>1, <2>2
<1>7. ASSUME NEW i \in DOMAIN t, t[i] = "context"
      PROVE  i = 1 /\ p = "context"
  <2>1. CASE i \in 1..Len(s)
    BY <1>1, <1>7, <2>1 DEF Ordered, ContextIsFirst
  <2>2. CASE i = Len(s) + 1
    BY <1>1, <1>2, <1>7, <2>2
  <2>3. QED
    BY <1>1, <2>1, <2>2
<1>8. p \in Unsubmitted => \A i \in DOMAIN t : t[i] = "error"
  BY <1>1 DEF Ordered, ContextIsFirst
<1>9. QED
  BY <1>5, <1>6, <1>7, <1>8 DEF Ordered, ContextIsFirst, t

(* Two messages at once are one after the other. *)
LEMMA AppendTwice ==
    ASSUME NEW S, NEW s \in Seq(S), NEW x \in S, NEW y \in S
    PROVE  s \o <<x, y>> = Append(Append(s, x), y)
<1> DEFINE a == s \o <<x, y>>
           b == Append(Append(s, x), y)
<1>1. /\ <<x, y>> \in Seq(S) /\ Len(<<x, y>>) = 2
      /\ <<x, y>>[1] = x /\ <<x, y>>[2] = y /\ Len(s) \in Nat
  BY LenProperties
<1>2. /\ a \in Seq(S) /\ Len(a) = Len(s) + 2
      /\ \A i \in 1..(Len(s) + 2) : a[i] = IF i <= Len(s) THEN s[i] ELSE <<x, y>>[i - Len(s)]
  BY <1>1, ConcatProperties
<1>3. /\ Append(s, x) \in Seq(S) /\ Len(Append(s, x)) = Len(s) + 1
      /\ \A i \in 1..Len(s) : Append(s, x)[i] = s[i]
      /\ Append(s, x)[Len(s) + 1] = x
  BY <1>1, AppendProperties
<1>4. /\ b \in Seq(S) /\ Len(b) = Len(s) + 2
      /\ \A i \in 1..(Len(s) + 1) : b[i] = Append(s, x)[i]
      /\ b[Len(s) + 2] = y
  BY <1>1, <1>3, AppendProperties
<1> HIDE DEF a, b
<1>5. ASSUME NEW i \in 1..(Len(s) + 2)
      PROVE  a[i] = b[i]
  <2>1. CASE i \in 1..Len(s)
    BY <1>1, <1>2, <1>3, <1>4, <2>1
  <2>2. CASE i = Len(s) + 1
    BY <1>1, <1>2, <1>3, <1>4, <2>2
  <2>3. CASE i = Len(s) + 2
    BY <1>1, <1>2, <1>4, <2>3
  <2>4. QED
    BY <1>1, <2>1, <2>2, <2>3
<1>6. a = b
  BY <1>2, <1>4, <1>5, SeqEqual
<1>7. QED
  BY <1>6 DEF a, b

(* One less, once the context may have been taken. *)
LEMMA OrderedTail ==
    ASSUME NEW p, NEW s \in Seq(Messages), s # <<>>, Ordered(p, s),
           NEW q \in Phases \ (Unsubmitted \cup {"context"})
    PROVE  Ordered(q, Tail(s)) /\ (Ended(Tail(s)) => Ended(s))
<1> DEFINE t == Tail(s)
<1>1. /\ Len(s) \in Nat /\ DOMAIN s = 1..Len(s) /\ DOMAIN t = 1..(Len(s) - 1)
      /\ \A i \in 1..(Len(s) - 1) : i + 1 \in 1..Len(s) /\ t[i] = s[i + 1]
  BY EmptySeq, LenProperties, HeadTailProperties
<1>2. \A m : InSeq(t, m) => InSeq(s, m)
  BY InSeqTail
<1> HIDE DEF t
<1>3. EndIsLast(t)
  <2> SUFFICES ASSUME NEW i \in DOMAIN t, NEW j \in DOMAIN t, i < j, t[i] \in {"none", "error"}
               PROVE  t[j] = "error"
    BY DEF EndIsLast
  <2>1. i + 1 \in DOMAIN s /\ j + 1 \in DOMAIN s /\ i + 1 < j + 1
    BY <1>1
  <2>2. s[i + 1] = t[i] /\ s[j + 1] = t[j]
    BY <1>1
  <2>3. QED
    BY <2>1, <2>2 DEF Ordered, EndIsLast
<1>4. ASSUME NEW i \in DOMAIN t
      PROVE  t[i] # "context"
  <2>1. i + 1 \in DOMAIN s /\ i + 1 # 1 /\ s[i + 1] = t[i]
    BY <1>1
  <2>2. QED
    BY <2>1 DEF Ordered, ContextIsFirst
<1>5. Ordered(q, t)
  BY <1>3, <1>4 DEF Ordered, ContextIsFirst
<1>6. QED
  BY <1>2, <1>5 DEF Ended, t

(* A thread that moves on without receiving finds nothing new. *)
LEMMA OrderedMove ==
    ASSUME NEW p, NEW q, NEW s \in Seq(Messages), Ordered(p, s),
           p = "context" => q = "context",
           q = "context" => p \in {"context", "submit"},
           q \in Unsubmitted => p \in Unsubmitted
    PROVE  Ordered(q, s)
<1>1. s # <<>> => 1 \in DOMAIN s /\ Head(s) = s[1]
  BY EmptySeq, LenProperties
<1>2. QED
  BY <1>1 DEF Ordered, ContextIsFirst, Unsubmitted

(* The threads only receive: the head of a queue goes, nothing comes.      *)
LEMMA ThreadKeepsOrder ==
    ASSUME ServingShape, MailIsOrdered, NEW c \in Requests, EnterGate(c) \/ ThreadStep(c)
    PROVE  MailIsOrdered'
<1>1. \A d \in Requests : Talks(d)' <=> Talks(d)
  BY DEF EnterGate, ThreadStep, Register, Submit, Receive, Resume, Cancel, Abort, Unregister,
         ReleaseSlot, StopContext, ThreadOnly, loopVars, Talks
<1>2. CASE Receive(c)
  <2>1. /\ mailbox[c] # <<>> /\ mailbox[c] \in Seq(Messages)
        /\ mailbox'[c] = Tail(mailbox[c])
        /\ phase'[c] \in {"caller", "unregister"}
        /\ \A d \in Requests \ {c} : mailbox'[d] = mailbox[d] /\ phase'[d] = phase[d]
    BY <1>2 DEF Receive, ServingShape
  <2>2. phase'[c] \in Phases \ (Unsubmitted \cup {"context"})
    BY <2>1 DEF Phases, Unsubmitted
  <2>3. Ordered(phase'[c], mailbox'[c]) /\ (Ended(mailbox'[c]) => Ended(mailbox[c]))
    BY <2>1, <2>2, OrderedTail DEF MailIsOrdered
  <2>4. QED
    BY <1>1, <2>1, <2>3 DEF MailIsOrdered, TalkingIsOpen
<1>3. CASE ~Receive(c)
  <2>1. mailbox' = mailbox
    BY <1>3 DEF EnterGate, ThreadStep, Register, Submit, Resume, Cancel, Abort, Unregister,
                ReleaseSlot, StopContext
  <2>2. ASSUME NEW d \in Requests
        PROVE  /\ phase[d] = "context" => phase'[d] = "context"
               /\ phase'[d] = "context" => phase[d] \in {"context", "submit"}
               /\ phase'[d] \in Unsubmitted => phase[d] \in Unsubmitted
    BY <1>3 DEF EnterGate, ThreadStep, Register, Submit, Resume, Cancel, Abort, Unregister,
                ReleaseSlot, StopContext, Move, Unsubmitted, ServingShape
  <2>3. ASSUME NEW d \in Requests
        PROVE  Ordered(phase'[d], mailbox'[d])
    <3>1. mailbox[d] \in Seq(Messages) /\ Ordered(phase[d], mailbox[d])
      BY DEF ServingShape, MailIsOrdered
    <3>2. QED
      BY <2>1, <2>2, <3>1, OrderedMove
  <2>4. QED
    BY <1>1, <2>1, <2>3 DEF MailIsOrdered, TalkingIsOpen
<1>4. QED
  BY <1>2, <1>3

(* One message to one request, to whom it may be sent. *)
LEMMA PutKeepsOrder ==
    ASSUME ServingShape, MailIsOrdered, NEW c \in Requests, NEW m \in Messages, Put(c, m),
           UNCHANGED phase,
           phase[c] \in Unsubmitted => m = "error",
           m # "error" => ~Ended(mailbox[c]),
           m = "context" => mailbox[c] = <<>> /\ phase[c] = "context",
           mailbox[c] = <<>> /\ phase[c] = "context" => m \in {"context", "error"},
           \A d \in Requests \ {c} : Talks(d)' => Talks(d),
           Talks(c)' => m \in {"context", "token"}
    PROVE  MailIsOrdered'
<1>1. /\ mailbox[c] \in Seq(Messages) /\ Ordered(phase[c], mailbox[c])
      /\ mailbox'[c] = Append(mailbox[c], m)
      /\ \A d \in Requests \ {c} : mailbox'[d] = mailbox[d]
  BY PutTyped DEF ServingShape, MailIsOrdered
<1>2. Ordered(phase[c], mailbox'[c])
  BY <1>1, OrderedAppend
<1>3. m \in {"context", "token"} => ~Ended(mailbox'[c])
  <2>1. \A y : InSeq(mailbox'[c], y) <=> InSeq(mailbox[c], y) \/ y = m
    BY <1>1, InSeqAppend
  <2>2. QED
    BY <2>1 DEF Ended
<1>4. QED
  BY <1>1, <1>2, <1>3 DEF MailIsOrdered, TalkingIsOpen

(* The first message goes to whom the thread has in hand; the others go to *)
(* whom it serves, who waits no more.                                      *)
LEMMA LoopKeepsOrder ==
    ASSUME ServingShape, HandleIsAlone, WorkHasBegun, LoopOwnsWaiters, MailIsOrdered, LoopStep
    PROVE  MailIsOrdered'
<1>a. UNCHANGED phase
  BY LoopFrame DEF threadVars
<1>b. ASSUME NEW c \in Requests, InHand(c)
      PROVE  phase[c] = "context" /\ mailbox[c] = <<>> /\ c \notin lanes /\ ~Ended(mailbox[c])
  BY <1>b DEF InHand, Alive, LoopOwnsWaiters, PlacesAreApart, WaitersAreKept, Waits, Ended, InSeq
<1>c. ASSUME NEW c \in Requests, wpc \in Alive, IsServedAlone(c) \/ c \in lanes
      PROVE  /\ ~(mailbox[c] = <<>> /\ phase[c] = "context")
             /\ phase[c] \notin Unsubmitted
             /\ IsServedAlone(c) => c \notin lanes
  BY <1>c DEF LoopOwnsWaiters, PlacesAreApart, WaitersAreKept, WorkHasBegun, Submitted
<1>d. \A c \in Requests : Talks(c) => ~Ended(mailbox[c])
  BY DEF MailIsOrdered, TalkingIsOpen
<1> USE DEF LoopOnly, Batched
<1>1. ASSUME mailbox' = mailbox, \A d \in Requests : Talks(d)' => Talks(d)
      PROVE  MailIsOrdered'
  BY <1>1, <1>a DEF MailIsOrdered, TalkingIsOpen
<1>2. CASE Dequeue \/ BeginSlice \/ EndSlice \/ CloseBatch \/ LeaveLoop
  <2>1. mailbox' = mailbox /\ \A d \in Requests : Talks(d)' => Talks(d)
    BY <1>2 DEF Dequeue, BeginSlice, EndSlice, CloseBatch, LeaveLoop, Polling, Talks, Alive,
                AloneStates
  <2>2. QED
    BY <1>1, <2>1
<1>3. CASE FailWaiting
  <2>1. ASSUME NEW d \in Requests
        PROVE  Ordered(phase[d], mailbox'[d])
    <3>1. /\ mailbox[d] \in Seq(Messages) /\ "error" \in Messages
          /\ Ordered(phase[d], mailbox[d])
      BY DEF ServingShape, MailIsOrdered, Messages
    <3>2. Ordered(phase[d], Append(mailbox[d], "error"))
      BY <3>1, OrderedAppend
    <3>3. QED
      BY <1>3, <3>1, <3>2 DEF FailWaiting
  <2>2. \A d \in Requests : ~Talks(d)'
    BY <1>3 DEF FailWaiting, Talks, Alive, AloneStates
  <2>3. QED
    BY <1>a, <2>1, <2>2 DEF MailIsOrdered, TalkingIsOpen
<1>4. ASSUME NEW c \in Requests, TurnAway(c) \/ StartBatch(c)
      PROVE  MailIsOrdered'
  <2>1. mailbox' = mailbox /\ \A d \in Requests : Talks(d)' => Talks(d)
    BY <1>4 DEF TurnAway, StartBatch, Talks, Alive, AloneStates
  <2>2. QED
    BY <1>1, <2>1
<1>5. ASSUME NEW c \in Requests, JoinBatch(c) \/ ServeAlone(c) \/ HandleFails(c)
      PROVE  MailIsOrdered'
  <2>1. InHand(c) /\ wpc \in Alive
    BY <1>5 DEF JoinBatch, ServeAlone, HandleFails, InHand, Alive
  <2>2. PICK m \in {"context", "error"} : Put(c, m) /\ (m = "error" => HandleFails(c))
    BY <1>5 DEF JoinBatch, ServeAlone, HandleFails
  <2>3. \A d \in Requests \ {c} : Talks(d)' => Talks(d)
    BY <1>5 DEF JoinBatch, ServeAlone, HandleFails, Talks, Alive, AloneStates
  <2>4. HandleFails(c) => ~Talks(c)'
    BY <1>b, <2>1 DEF HandleFails, Talks, AloneStates
  <2>5. m \in Messages
    BY DEF Messages
  <2>6. QED
    BY <1>a, <1>b, <2>1, <2>2, <2>3, <2>4, <2>5, PutKeepsOrder DEF Unsubmitted
<1>6. ASSUME NEW c \in Requests, GenerateAlone(c) \/ AloneFails(c)
      PROVE  MailIsOrdered'
  <2>1. /\ IsServedAlone(c) /\ wpc \in Alive
        /\ \A d \in Requests \ {c} : Talks(d)' => Talks(d)
        /\ AnnounceEnd(c) \/ AloneFails(c) => wpc' \in {"keep", "poll"} /\ lanes' = lanes
    BY <1>6 DEF GenerateAlone, RespondAlone, AnnounceEnd, StoreAlone, AloneFails, Alone,
                IsServedAlone, AloneStates, Talks, Alive
  <2>2. /\ ~(mailbox[c] = <<>> /\ phase[c] = "context")
        /\ phase[c] \notin Unsubmitted /\ c \notin lanes
    BY <1>c, <2>1
  <2>3. CASE StoreAlone(c)
    <3>1. mailbox' = mailbox /\ (Talks(c)' => Talks(c))
      BY <2>2, <2>3 DEF StoreAlone, Alone, Talks, AloneStates
    <3>2. QED
      BY <1>1, <2>1, <3>1
  <2>4. CASE RespondAlone(c)
    <3>1. Put(c, "token") /\ Talks(c)
      BY <2>4 DEF RespondAlone, Alone, Talks, AloneStates
    <3>2. QED
      BY <1>a, <1>d, <2>1, <2>2, <3>1, PutKeepsOrder DEF Messages
  <2>5. CASE AnnounceEnd(c)
    <3>1. Put(c, "none") /\ Talks(c)
      BY <2>5 DEF AnnounceEnd, Alone, Talks, AloneStates
    <3>2. ~Talks(c)'
      BY <2>1, <2>2, <2>5 DEF Talks, AloneStates
    <3>3. QED
      BY <1>a, <1>d, <2>1, <2>2, <3>1, <3>2, PutKeepsOrder DEF Messages
  <2>6. CASE AloneFails(c)
    <3>1. Put(c, "error")
      BY <2>6 DEF AloneFails
    <3>2. ~Talks(c)'
      BY <2>1, <2>2, <2>6 DEF Talks, AloneStates
    <3>3. QED
      BY <1>a, <2>1, <2>2, <3>1, <3>2, PutKeepsOrder DEF Messages
  <2>7. QED
    BY <1>6, <2>3, <2>4, <2>5, <2>6 DEF GenerateAlone
<1>7. ASSUME NEW c \in Requests, StoreLane(c)
      PROVE  MailIsOrdered'
  <2>1. mailbox' = mailbox /\ \A d \in Requests : Talks(d)' => Talks(d)
    BY <1>7 DEF StoreLane, Talks, Alive, AloneStates
  <2>2. QED
    BY <1>1, <2>1
<1>8. ASSUME NEW c \in Requests, RespondLane(c)
      PROVE  MailIsOrdered'
  <2>1. /\ wpc = "slice" /\ wpc' = wpc /\ cur' = cur /\ lanes' = lanes
        /\ c \in lanes /\ Put(c, "token")
    BY <1>8 DEF RespondLane
  <2>2. wpc \in Alive /\ Talks(c) /\ \A d \in Requests : Talks(d)' <=> Talks(d)
    BY <2>1 DEF Talks, Alive
  <2>3. QED
    BY <1>a, <1>c, <1>d, <2>1, <2>2, PutKeepsOrder DEF Messages
<1>9. ASSUME NEW c \in Requests, FinishLane(c)
      PROVE  MailIsOrdered'
  <2>1. /\ wpc = "slice" /\ wpc' = "store" /\ cur' = c /\ lanes' = lanes /\ c \in lanes
        /\ mailbox' = [mailbox EXCEPT ![c] = @ \o <<"token", "none">>]
    BY <1>9 DEF FinishLane
  <2>2. /\ wpc \in Alive /\ Talks(c) /\ ~Talks(c)'
        /\ \A d \in Requests : Talks(d)' => Talks(d)
    BY <2>1 DEF Talks, Alive, AloneStates
  <2> DEFINE s == mailbox[c]
             t == Append(s, "token")
  <2>3. s \in Seq(Messages) /\ Ordered(phase[c], s) /\ ~Ended(s)
    BY <1>d, <2>2 DEF ServingShape, MailIsOrdered
  <2>4. /\ t \in Seq(Messages) /\ Ordered(phase[c], t) /\ ~Ended(t)
        /\ t # <<>>
    <3>1. t \in Seq(Messages) /\ Len(t) = Len(s) + 1 /\ Len(s) \in Nat /\ "token" \in Messages
      BY <2>3, AppendProperties, LenProperties DEF Messages
    <3>2. Ordered(phase[c], t)
      BY <1>c, <2>1, <2>2, <2>3, <3>1, OrderedAppend
    <3>3. \A y : InSeq(t, y) <=> InSeq(s, y) \/ y = "token"
      BY <2>3, <3>1, InSeqAppend
    <3>4. t # <<>>
      BY <3>1, EmptySeq
    <3>5. ~Ended(t)
      BY <2>3, <3>3 DEF Ended
    <3>6. QED
      BY <3>1, <3>2, <3>4, <3>5
  <2>5. mailbox'[c] = Append(t, "none")
    <3>1. s \o <<"token", "none">> = Append(Append(s, "token"), "none")
      BY <2>3, AppendTwice DEF Messages
    <3>2. QED
      BY <2>1, <3>1 DEF ServingShape
  <2> HIDE DEF t
  <2>6. Ordered(phase[c], mailbox'[c])
    <3>1. "none" \in Messages
      BY DEF Messages
    <3>2. QED
      BY <1>c, <2>1, <2>2, <2>4, <2>5, <3>1, OrderedAppend
  <2>7. \A d \in Requests \ {c} : mailbox'[d] = mailbox[d]
    BY <2>1 DEF ServingShape
  <2>8. QED
    BY <1>a, <2>2, <2>6, <2>7 DEF MailIsOrdered, TalkingIsOpen
<1>10. QED
  BY <1>2, <1>3, <1>4, <1>5, <1>6, <1>7, <1>8, <1>9
     DEF LoopStep, HandleRequest, GenerateLane, Fails

(* Every step leaves the queues of the responses in order. *)
LEMMA OrderStep ==
    ServingShape /\ HandleIsAlone /\ WorkHasBegun /\ LoopOwnsWaiters /\ MailIsOrdered
        /\ [ServingNext]_vars => MailIsOrdered'
<1> SUFFICES ASSUME ServingShape, HandleIsAlone, WorkHasBegun, LoopOwnsWaiters,
                    MailIsOrdered, [ServingNext]_vars
             PROVE  MailIsOrdered'
  OBVIOUS
<1>1. CASE UNCHANGED <<class, threadVars, mailbox, loopVars, workVars>>
  <2>1. \A d \in Requests : Talks(d)' <=> Talks(d)
    BY <1>1 DEF Talks, loopVars
  <2>2. UNCHANGED <<phase, mailbox>>
    BY <1>1 DEF threadVars
  <2>3. QED
    BY <2>1, <2>2 DEF MailIsOrdered, TalkingIsOpen
<1>2. CASE Crash
  <2>1. \A d \in Requests : ~Talks(d)'
    BY <1>2 DEF Crash, Talks, Alive, AloneStates
  <2>2. UNCHANGED <<phase, mailbox>>
    BY <1>2 DEF Crash, threadVars
  <2>3. QED
    BY <2>1, <2>2 DEF MailIsOrdered, TalkingIsOpen
<1>3. QED
  BY <1>1, <1>2, BusySteps, ThreadKeepsOrder, LoopKeepsOrder

--------------------------------------------------------------------------------
(* The invariant, and what follows from it. *)

(* The server starts with empty queues and nobody in hand. *)
LEMMA ServingInvStart == ServingInit => ServingInv
<1> SUFFICES ASSUME ServingInit
             PROVE  ServingInv
  OBVIOUS
<1> USE DEF ServingInit
<1>1. ServingShape
  <2>1. <<>> \in Seq(Requests) /\ <<>> \in Seq(Messages) /\ Len(<<>>) = 0
    BY EmptySeq
  <2>2. /\ mailbox \in [Requests -> Seq(Messages)] /\ requests \in Seq(Requests)
        /\ unprocessed \in Seq(Requests) /\ Len(unprocessed) <= 1
    BY <2>1
  <2>3. remaining \in [Requests -> 0..MaxResponses]
    BY ResponsesAssumption
  <2>4. phase \in [Requests -> Phases] /\ wpc \in Alive
    BY DEF Phases, Alive
  <2>5. QED
    BY <2>2, <2>3, <2>4 DEF ServingShape
<1>2. HandleIsAlone /\ CacheTyped /\ NoBatchNoLanes /\ BatchIsOfOneKind
      /\ StaleEntryOutlivedItsSlot
  BY DEF HandleIsAlone, CacheTyped, NoBatchNoLanes, BatchIsOfOneKind, StaleEntryOutlivedItsSlot
<1>3. RegistryMatchesThreads
  BY DEF RegistryMatchesThreads, GateInit
<1>4. WorkHasBegun /\ HeldRequestSeesOneSetting
  BY DEF WorkHasBegun, HeldRequestSeesOneSetting, IsServedAlone, AloneStates
<1>5. LoopOwnsWaiters
  BY DEF LoopOwnsWaiters, PlacesAreApart, WaitersAreKept, Waits, InHand, InSeq, Distinct,
         IsServedAlone, AloneStates, Submitted, Unsubmitted
<1>6. MailIsOrdered
  BY DEF MailIsOrdered, TalkingIsOpen, Ordered, EndIsLast, ContextIsFirst, Ended, InSeq
<1>7. QED
  BY <1>1, <1>2, <1>3, <1>4, <1>5, <1>6 DEF ServingInv

(* Every part of the invariant is kept, given the others and the gate's.   *)
LEMMA ServingInvStep == ServingInv /\ GateInv /\ [ServingNext]_vars => ServingInv'
BY ServingShapeStep, RegistryStep, WorkStep, SettingStep, CacheStep, OwnersStep, NoBatchStep,
   KindStep, OrderStep DEF ServingInv, GateInv

(* ServingInv holds of every behaviour of the server. *)
THEOREM ServingInvariant == ServingSpec => []ServingInv
BY ServingInvStart, ServingInvStep, GateInServing, PTL DEF ServingSpec

(* ResponseGenerator keeps its state well formed: never more than one      *)
(* request is put back, never more requests in flight than the limit.      *)
THEOREM ServingTypeCorrect == ServingSpec => []ServingTypeOK
<1>1. ServingInv /\ GateTypeOK => ServingTypeOK
  BY DEF ServingInv, ServingShape, CacheTyped, ServingTypeOK
<1>2. ServingSpec => []GateTypeOK
  BY ServingImplementsGate, GateTypeCorrect, PTL DEF ImplementsGate
<1>3. QED
  BY <1>1, <1>2, ServingInvariant, PTL

(* The registry holds the threads that may block on their queue, and they  *)
(* and their neighbours in generate are those that hold a slot.            *)
THEOREM ServingRegistryIsExact == ServingSpec => []RegistryMatchesThreads
<1>1. ServingInv => RegistryMatchesThreads
  BY DEF ServingInv
<1>2. QED
  BY <1>1, ServingInvariant, PTL

(* How often a queue without repetitions holds a request. *)
LEMMA DistinctCount ==
    ASSUME NEW s, Distinct(s), NEW c
    PROVE  Cardinality({i \in DOMAIN s : s[i] = c}) = IF InSeq(s, c) THEN 1 ELSE 0
<1> DEFINE P == {i \in DOMAIN s : s[i] = c}
<1>1. CASE InSeq(s, c)
  <2>1. PICK i \in DOMAIN s : s[i] = c
    BY <1>1 DEF InSeq
  <2>2. P = {i}
    BY <2>1 DEF Distinct
  <2>3. QED
    BY <1>1, <2>2, FS_Singleton
<1>2. CASE ~InSeq(s, c)
  <2>1. P = {}
    BY <1>2 DEF InSeq
  <2>2. QED
    BY <1>2, <2>1, FS_EmptySet
<1>3. QED
  BY <1>1, <1>2

(* A request whose thread waits for its first message is in exactly one    *)
(* place of the living generation thread, and has no lane.                 *)
THEOREM ServingOwnsWaiters == ServingSpec => []WaitingRequestIsOwned
<1>1. ServingInv => WaitingRequestIsOwned
  <2> SUFFICES ASSUME ServingInv, wpc \in Alive, NEW c \in Requests,
                      phase[c] = "context" /\ mailbox[c] = <<>>
               PROVE  /\ c \notin lanes
                      /\ Cardinality({i \in DOMAIN requests : requests[i] = c})
                         + Cardinality({i \in DOMAIN unprocessed : unprocessed[i] = c})
                         + (IF wpc = "handle" /\ cur = c THEN 1 ELSE 0) = 1
    BY DEF WaitingRequestIsOwned
  <2>1. PlacesAreApart /\ WaitersAreKept /\ HandleIsAlone
    BY DEF ServingInv, LoopOwnsWaiters
  <2>2. Waits(c) /\ c \notin lanes
    BY <2>1 DEF WaitersAreKept, PlacesAreApart
  <2>3. Distinct(requests) /\ Distinct(unprocessed)
    <3>1. unprocessed \in Seq(Requests) /\ Len(unprocessed) <= 1
      BY DEF ServingInv, ServingShape
    <3>2. DOMAIN unprocessed = 1..Len(unprocessed) /\ Len(unprocessed) \in Nat
      BY <3>1, LenProperties
    <3>3. \A i, j \in DOMAIN unprocessed : i = j
      BY <3>1, <3>2
    <3>4. QED
      BY <2>1, <3>3 DEF PlacesAreApart, Distinct
  <2>4. InHand(c) => ~InSeq(unprocessed, c) /\ ~InSeq(requests, c)
    BY <2>1 DEF HandleIsAlone, PlacesAreApart, InHand, InSeq
  <2>5. InSeq(unprocessed, c) => ~InSeq(requests, c)
    BY <2>1 DEF PlacesAreApart
  <2>6. /\ Cardinality({i \in DOMAIN requests : requests[i] = c})
           = IF InSeq(requests, c) THEN 1 ELSE 0
        /\ Cardinality({i \in DOMAIN unprocessed : unprocessed[i] = c})
           = IF InSeq(unprocessed, c) THEN 1 ELSE 0
    BY <2>3, DistinctCount
  <2>7. QED
    BY <2>2, <2>4, <2>5, <2>6 DEF Waits, InHand
<1>2. QED
  BY <1>1, ServingInvariant, PTL

(* The lanes of a batch are of its kind, never a seeded plain request, and *)
(* a batch drains only with somebody put back.                             *)
THEOREM ServingBatchIsOfOneKind == ServingSpec => []BatchIsOfOneKind
<1>1. ServingInv => BatchIsOfOneKind
  BY DEF ServingInv
<1>2. QED
  BY <1>1, ServingInvariant, PTL

(* A thread finds the context first and one end last in its queue; only    *)
(* exceptions follow an end.                                               *)
THEOREM ServingAnswersInOrder == ServingSpec => []AnswersAreOrdered
<1>1. ServingInv => AnswersAreOrdered
  <2> SUFFICES ASSUME ServingInv, NEW c \in Requests
               PROVE  /\ EndIsLast(mailbox[c])
                      /\ mailbox[c] # <<>> /\ phase[c] = "context" =>
                            Head(mailbox[c]) \in {"context", "error"}
                      /\ phase[c] \in {"caller", "next"} => ~InSeq(mailbox[c], "context")
    BY DEF AnswersAreOrdered, EndIsLast
  <2>1. EndIsLast(mailbox[c]) /\ ContextIsFirst(phase[c], mailbox[c])
    BY DEF ServingInv, MailIsOrdered, Ordered
  <2>2. QED
    BY <2>1 DEF ContextIsFirst, InSeq
<1>2. QED
  BY <1>1, ServingInvariant, PTL

(* A request that holds its slot computes under one value of the lever.    *)
THEOREM ServingSeesOneSetting == ServingSpec => []HeldRequestSeesOneSetting
<1>1. ServingInv => HeldRequestSeesOneSetting
  BY DEF ServingInv
<1>2. QED
  BY <1>1, ServingInvariant, PTL

(* A cache entry of another setting was stored after its request had given *)
(* its slot back, or is about to be dropped.                               *)
THEOREM ServingStaleEntriesAreLate == ServingSpec => []StaleEntryOutlivedItsSlot
<1>1. ServingInv => StaleEntryOutlivedItsSlot
  BY DEF ServingInv
<1>2. QED
  BY <1>1, ServingInvariant, PTL

================================================================================
