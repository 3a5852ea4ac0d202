-------------------------- MODULE MergeQueueProofs --------------------------
(***************************************************************************)
(* Proofs about the consolidation queue, for every set of pairs and        *)
(* workers and every threshold and bound.                                  *)
(***************************************************************************)
EXTENDS MergeQueue, TLAPS

(* The hash after an entry was moved to recovery storage is well-typed. *)
LEMMA MoveType ==
    ASSUME TypeOK, NEW p \in Pair, active[p] # NoValue, MoveToRecovery(p)
    PROVE  /\ active' \in [Pair -> Value]
           /\ beat' \in [Pair -> Nat \cup {NoBeat}]
           /\ recovery' \subseteq [pair : Pair, slot : Nat, value : Payload]
           /\ recoverySeq' \in Nat
<1>1. active[p] \in Payload
  BY DEF TypeOK, Value
<1>2. RecoverySlot(p) \in Nat
  BY DEF RecoverySlot, TypeOK
<1>3. [pair |-> p, slot |-> RecoverySlot(p), value |-> active[p]] \in
        [pair : Pair, slot : Nat, value : Payload]
  BY <1>1, <1>2
<1>4. NoValue \in Value
  BY DEF Value
<1> QED
  BY <1>2, <1>3, <1>4 DEF MoveToRecovery, TypeOK

(* What TypeOK says of the workers' position and of what they hold. *)
WorkerType ==
    /\ pc \in [Worker -> PC]
    /\ held \in [Worker -> [pair : Pair \cup {NoPair}, value : Value]]
    /\ \A w \in Worker :
          pc[w] \notin {"poll", "sweep", "down"} => held[w] \in [pair : Pair, value : Payload]

(* A worker that lets go of its job, and one that moves on with it. *)
LEMMA ReleaseType ==
    ASSUME TypeOK, NEW w \in Worker, NEW s \in {"poll", "down"},
           pc' = [pc EXCEPT ![w] = s], held' = [held EXCEPT ![w] = NoHold]
    PROVE  WorkerType'
<1>1. NoHold \in [pair : Pair \cup {NoPair}, value : Value]
  BY DEF NoHold, Value
<1> QED
  BY <1>1 DEF TypeOK, WorkerType, PC

LEMMA KeepType ==
    ASSUME TypeOK, NEW w \in Worker, NEW s \in PC,
           pc[w] \notin {"poll", "sweep", "down"} \/ s \in {"poll", "sweep", "down"},
           pc' = [pc EXCEPT ![w] = s], UNCHANGED held
    PROVE  WorkerType'
BY DEF TypeOK, WorkerType

(***************************************************************************)
(* Type correctness of the queue hash and of the workers' local state.     *)
(***************************************************************************)
THEOREM TypeCorrect == Spec => []TypeOK
<1> USE DEF hash, workers, history, vars
<1>1. Init => TypeOK
  <2>1. NoValue \in Value /\ Legacy \in Value
    BY DEF Value, Legacy, Payload
  <2>2. NoHold \in [pair : Pair \cup {NoPair}, value : Value]
    BY <2>1 DEF NoHold
  <2>3. Init => active \in [Pair -> Value] /\ jobs \in Nat /\ acts \in Nat
    BY <2>1 DEF Init, InitHash
  <2> QED
    BY <2>1, <2>2, <2>3 DEF Init, TypeOK, PC
<1>2. ASSUME TypeOK, [Next]_vars PROVE TypeOK'
  <2> USE <1>2, MergeQueueAssumption
  <2>1. NoValue \in Value
    BY DEF Value
  <2>2. ASSUME NEW p \in Pair, NEW m \in Modes, Submitted(p, m) PROVE TypeOK'
    <3>1. [job |-> jobs + 1, act |-> 0, at |-> 0, strict |-> m = "strict"] \in Payload
      BY <2>2 DEF Payload, TypeOK
    <3> QED
      BY <2>2, <3>1 DEF Submitted, TypeOK, Value
  <2>3. ASSUME NEW p \in Pair, AlreadyQueued(p) PROVE TypeOK'
    BY <2>3 DEF AlreadyQueued, TypeOK
  <2>4. ASSUME NEW w \in Worker, SweepSnapshot(w) PROVE TypeOK'
    <3>1. \A p \in Pair : active[p] # NoValue =>
             [pair |-> p, value |-> active[p], beat |-> beat[p]] \in
                [pair : Pair, value : Payload, beat : Nat \cup {NoBeat}]
      BY DEF TypeOK, Value
    <3> QED
      BY <2>4, <3>1 DEF SweepSnapshot, TypeOK, PC
  <2>5. ASSUME NEW w \in Worker, SweepEntry(w) PROVE TypeOK'
    <3>1. PICK e \in snap[w] :
             /\ snap' = [snap EXCEPT ![w] = @ \ {e}]
             /\ \/ SnapshotHolds(e) /\ MoveToRecovery(e.pair)
                \/ ~SnapshotHolds(e) /\ UNCHANGED <<active, beat, recovery, recoverySeq>>
      BY <2>5 DEF SweepEntry
    <3>2. e.pair \in Pair /\ e.value \in Payload
      BY DEF TypeOK
    <3>3. SnapshotHolds(e) => active[e.pair] # NoValue
      BY <3>2 DEF SnapshotHolds, Payload, NoValue
    <3>4. /\ active' \in [Pair -> Value]
          /\ beat' \in [Pair -> Nat \cup {NoBeat}]
          /\ recovery' \subseteq [pair : Pair, slot : Nat, value : Payload]
          /\ recoverySeq' \in Nat
      BY <3>1, <3>2, <3>3, MoveType DEF TypeOK
    <3> QED
      BY <2>5, <3>1, <3>4 DEF SweepEntry, TypeOK
  <2>6. ASSUME NEW w \in Worker, PickRecovery(w) PROVE TypeOK'
    <3>1. PICK r \in PickableRecovery : recovery' = recovery \ {r} /\ Activate(w, r.pair, r.value)
      BY <2>6 DEF PickRecovery
    <3>2. r.pair \in Pair /\ r.value \in Payload /\ r.value \in Value
      BY DEF PickableRecovery, TypeOK, Value
    <3> QED
      BY <2>6, <3>1, <3>2 DEF PickRecovery, Activate, TypeOK, PC
  <2>7. ASSUME NEW w \in Worker, PickPending(w) PROVE TypeOK'
    <3>1. PICK p \in PickablePending : /\ pending' = [pending EXCEPT ![p] = NoValue]
                                       /\ Activate(w, p, pending[p])
      BY <2>7 DEF PickPending
    <3>2. p \in Pair /\ pending[p] \in Payload /\ pending[p] \in Value
      BY DEF PickablePending, TypeOK, Value
    <3> QED
      BY <2>1, <2>7, <3>1, <3>2 DEF PickPending, Activate, TypeOK, PC
  <2>8. ASSUME NEW w \in Worker, UpdateActive(w) PROVE TypeOK'
    <3>1. held[w].pair \in Pair /\ held[w].value \in Payload
      BY <2>8 DEF UpdateActive, TypeOK
    <3>2. Stamped(held[w].value) \in Payload
      BY <3>1 DEF Stamped, Payload, TypeOK
    <3>3. /\ active' \in [Pair -> Value] /\ acts' \in Nat
          /\ due' \in [Worker -> Nat] /\ lastSuccess' \in [Worker -> Nat]
      BY <2>8, <3>1, <3>2 DEF UpdateActive, TypeOK, Value
    <3>4. WorkerType'
      <4>1. held' \in [Worker -> [pair : Pair \cup {NoPair}, value : Value]]
        BY <2>8, <3>1, <3>2 DEF UpdateActive, TypeOK, Value
      <4>2. held'[w] \in [pair : Pair, value : Payload]
        BY <2>8, <3>1, <3>2 DEF UpdateActive, TypeOK
      <4> QED
        BY <2>8, <4>1, <4>2 DEF UpdateActive, TypeOK, WorkerType, PC
    <3> QED
      BY <2>8, <3>3, <3>4 DEF UpdateActive, TypeOK, WorkerType
  <2>9. ASSUME NEW w \in Worker, CompleteJob(w) PROVE TypeOK'
    <3>1. held[w].pair \in Pair /\ held[w].value \in Payload
      BY <2>9 DEF CompleteJob, TypeOK
    <3>2. held[w].value.job \in Nat
      BY <3>1 DEF Payload
    <3> QED
      <4>1. CASE Complete(held[w].pair, held[w].value.job)
        <5>1. active' \in [Pair -> Value] /\ beat' \in [Pair -> Nat \cup {NoBeat}]
          BY <2>1, <4>1, <3>1 DEF Complete, TypeOK
        <5>2. done' \subseteq Nat
          BY <4>1, <3>2 DEF Complete, TypeOK
        <5>3. WorkerType'
          BY <2>9, ReleaseType DEF CompleteJob, Abort
        <5> QED
          BY <2>9, <5>1, <5>2, <5>3 DEF CompleteJob, TypeOK, WorkerType
      <4>2. CASE UNCHANGED <<active, beat, done>>
        <5>1. WorkerType'
          BY <2>9, ReleaseType DEF CompleteJob, Abort
        <5> QED
          BY <2>9, <4>2, <5>1 DEF CompleteJob, TypeOK, WorkerType
      <4> QED
        BY <2>9, <4>1, <4>2 DEF CompleteJob, CompleteActive
  <2>10. ASSUME NEW w \in Worker, CancelRequeue(w) PROVE TypeOK'
    <3>1. held[w].pair \in Pair /\ held[w].value \in Payload
      BY <2>10 DEF CancelRequeue, TypeOK
    <3>2. held[w].value # NoValue
      BY <3>1 DEF Payload, NoValue
    <3>3. /\ active' \in [Pair -> Value]
          /\ beat' \in [Pair -> Nat \cup {NoBeat}]
          /\ recovery' \subseteq [pair : Pair, slot : Nat, value : Payload]
          /\ recoverySeq' \in Nat
      BY <2>10, <3>1, <3>2, MoveType DEF CancelRequeue, RequeueActive, TypeOK
    <3> QED
      BY <2>1, <2>10, <3>3 DEF CancelRequeue, TypeOK, PC
  <2>11. ASSUME NEW w \in Worker, RecoverOrphaned(w) PROVE TypeOK'
    <3>1. held[w].pair \in Pair /\ held[w].value \in Payload
      BY <2>11 DEF RecoverOrphaned, TypeOK
    <3>2. held[w].value # NoValue
      BY <3>1 DEF Payload, NoValue
    <3>3. /\ active' \in [Pair -> Value]
          /\ beat' \in [Pair -> Nat \cup {NoBeat}]
          /\ recovery' \subseteq [pair : Pair, slot : Nat, value : Payload]
          /\ recoverySeq' \in Nat
      BY <2>11, <3>1, <3>2, MoveType DEF RecoverOrphaned, RequeueActive, TypeOK
    <3> QED
      BY <2>1, <2>11, <3>3 DEF RecoverOrphaned, TypeOK, PC, NoHold
  <2>12. ASSUME NEW w \in Worker, PickNone(w) PROVE TypeOK'
    BY <2>1, <2>12 DEF PickNone, TypeOK, PC
  <2>13. ASSUME NEW w \in Worker, PromotionLost(w) PROVE TypeOK'
    BY <2>1, <2>13 DEF PromotionLost, TypeOK, PC, NoHold
  <2>14. ASSUME NEW w \in Worker, ListOpenMrs(w) PROVE TypeOK'
    BY <2>1, <2>14 DEF ListOpenMrs, TypeOK, PC
  <2>15. ASSUME NEW w \in Worker, WorkflowEnds(w) PROVE TypeOK'
    BY <2>1, <2>15 DEF WorkflowEnds, TypeOK, PC
  <2>16. ASSUME NEW w \in Worker, HeartbeatAnswered(w) PROVE TypeOK'
    <3>1. /\ beat' \in [Pair -> Nat \cup {NoBeat}]
          /\ due' \in [Worker -> Nat] /\ lastSuccess' \in [Worker -> Nat]
      <4>1. held[w].pair \in Pair
        BY <2>16 DEF HeartbeatAnswered, TypeOK, Running
      <4>2. now + Interval \in Nat
        BY DEF TypeOK
      <4>3. CASE active[held[w].pair] = held[w].value
        <5>1. /\ beat' = [beat EXCEPT ![held[w].pair] = now]
              /\ lastSuccess' = [lastSuccess EXCEPT ![w] = now]
              /\ due' = [due EXCEPT ![w] = now + Interval]
          BY <2>16, <4>3 DEF HeartbeatAnswered
        <5> QED
          BY <4>1, <4>2, <5>1 DEF TypeOK
      <4>4. CASE active[held[w].pair] # held[w].value
        BY <2>16, <4>4 DEF HeartbeatAnswered, TypeOK
      <4> QED
        BY <4>3, <4>4
    <3>2. WorkerType'
      BY <2>16, ReleaseType DEF HeartbeatAnswered, Abort, TypeOK, WorkerType
    <3> QED
      BY <2>16, <3>1, <3>2 DEF HeartbeatAnswered, TypeOK, WorkerType
  <2>17. ASSUME NEW w \in Worker, HeartbeatFails(w) PROVE TypeOK'
    <3>1. /\ beat' \in [Pair -> Nat \cup {NoBeat}]
          /\ due' \in [Worker -> Nat] /\ lastSuccess' \in [Worker -> Nat]
      BY <2>17 DEF HeartbeatFails, TypeOK, Running
    <3>2. WorkerType'
      BY <2>17, ReleaseType DEF HeartbeatFails, Abort, TypeOK, WorkerType
    <3> QED
      BY <2>17, <3>1, <3>2 DEF HeartbeatFails, TypeOK, WorkerType
  <2>18. ASSUME NEW w \in Worker, Signal(w) PROVE TypeOK'
    BY <2>1, <2>18 DEF Signal, TypeOK, PC, Fault
  <2>19. ASSUME NEW w \in Worker, Cancel(w) PROVE TypeOK'
    BY <2>1, <2>19 DEF Cancel, TypeOK, PC, Running
  <2>20. ASSUME NEW w \in Worker, ExitIdle(w) PROVE TypeOK'
    BY <2>1, <2>20 DEF ExitIdle, TypeOK, PC
  <2>21. ASSUME NEW w \in Worker, RedisWriteFails(w) PROVE TypeOK'
    <3>1. WorkerType'
      BY <2>21, ReleaseType, KeepType DEF RedisWriteFails, PC
    <3> QED
      BY <2>21, <3>1 DEF RedisWriteFails, Fault, TypeOK, WorkerType
  <2>22. ASSUME NEW w \in Worker, Crash(w) PROVE TypeOK'
    BY <2>1, <2>22 DEF Crash, TypeOK, PC, Fault, NoHold
  <2>23. ASSUME NEW w \in Worker, Restart(w) PROVE TypeOK'
    BY <2>1, <2>23 DEF Restart, TypeOK, PC
  <2>24. CASE Tick
    BY <2>24 DEF Tick, TypeOK
  <2>25. CASE UNCHANGED vars
    BY <2>25 DEF TypeOK
  <2> QED
    BY <2>2, <2>3, <2>4, <2>5, <2>6, <2>7, <2>8, <2>9, <2>10, <2>11, <2>12, <2>13, <2>14, <2>15, <2>16, <2>17, <2>18, <2>19, <2>20, <2>21, <2>22, <2>23, <2>24, <2>25
       DEF Next, Actions, Step, Environment
<1> QED
  BY <1>1, <1>2, PTL DEF Spec

(***************************************************************************)
(* The scripts that move an entry to recovery storage find it empty.       *)
(***************************************************************************)
LEMMA MoveExclusive ==
    ASSUME TypeOK, ActiveRecoveryExclusive,
           NEW p \in Pair, active[p] # NoValue, MoveToRecovery(p)
    PROVE  ActiveRecoveryExclusive'
<1> DEFINE moved == [pair |-> p, slot |-> RecoverySlot(p), value |-> active[p]]
<1>1. /\ recovery' = recovery \cup {moved}
      /\ active' = [active EXCEPT ![p] = NoValue]
  BY DEF MoveToRecovery
<1>2. \A r \in recovery : r.pair # p
  BY DEF ActiveRecoveryExclusive, InRecovery
<1>3. moved.pair = p
  OBVIOUS
<1> HIDE DEF moved
<1>4. \A q \in Pair : active'[q] # NoValue => active[q] # NoValue /\ q # p
  BY <1>1 DEF TypeOK
<1>5. \A r, s \in recovery' : r.pair = s.pair => r = s
  BY <1>1, <1>2, <1>3 DEF ActiveRecoveryExclusive
<1>6. \A q \in Pair : active'[q] # NoValue => {r \in recovery' : r.pair = q} = {}
  BY <1>1, <1>3, <1>4 DEF ActiveRecoveryExclusive, InRecovery
<1> QED
  BY <1>5, <1>6 DEF ActiveRecoveryExclusive, InRecovery

(***************************************************************************)
(* A pair never has an :active and a :recovery field together, and never   *)
(* two recovery fields, however picks, sweeps, cancellations and crashes   *)
(* interleave.                                                             *)
(***************************************************************************)
THEOREM Exclusive == Spec => []ActiveRecoveryExclusive
<1> USE DEF hash, workers, history, vars
<1>1. Init => ActiveRecoveryExclusive
  BY DEF Init, ActiveRecoveryExclusive, InRecovery
<1>2. ASSUME TypeOK, TypeOK', ActiveRecoveryExclusive, [Next]_vars
      PROVE  ActiveRecoveryExclusive'
  <2> USE <1>2
  <2>1. ASSUME UNCHANGED recovery,
               \A q \in Pair : active[q] = NoValue => active'[q] = NoValue
        PROVE  ActiveRecoveryExclusive'
    BY <2>1 DEF ActiveRecoveryExclusive, InRecovery
  <2>2. ASSUME NEW p \in Pair, NEW v \in Payload, RequeueActive(p, v)
        PROVE  ActiveRecoveryExclusive'
    <3>1. v # NoValue
      BY DEF Payload, NoValue
    <3> QED
      BY <2>1, <2>2, <3>1, MoveExclusive DEF RequeueActive
  <2>3. ASSUME NEW w \in Worker, SweepEntry(w) PROVE ActiveRecoveryExclusive'
    <3>1. PICK e \in snap[w] :
             \/ SnapshotHolds(e) /\ MoveToRecovery(e.pair)
             \/ UNCHANGED <<active, beat, recovery, recoverySeq>>
      BY <2>3 DEF SweepEntry
    <3>2. e.pair \in Pair /\ e.value \in Payload
      BY DEF TypeOK
    <3>3. SnapshotHolds(e) => active[e.pair] # NoValue
      BY <3>2 DEF SnapshotHolds, Payload, NoValue
    <3> QED
      BY <2>1, <3>1, <3>2, <3>3, MoveExclusive
  <2>4. ASSUME NEW w \in Worker, PickRecovery(w) PROVE ActiveRecoveryExclusive'
    <3>1. PICK r \in PickableRecovery : recovery' = recovery \ {r} /\ Activate(w, r.pair, r.value)
      BY <2>4 DEF PickRecovery
    <3>2. r \in recovery /\ r.pair \in Pair
      BY DEF PickableRecovery, TypeOK
    <3>3. \A s \in recovery' : s.pair # r.pair
      BY <3>1, <3>2 DEF ActiveRecoveryExclusive
    <3>4. \A q \in Pair : active'[q] # NoValue => active[q] # NoValue \/ q = r.pair
      BY <3>1 DEF Activate, TypeOK
    <3> QED
      BY <3>1, <3>3, <3>4 DEF ActiveRecoveryExclusive, InRecovery
  <2>5. ASSUME NEW w \in Worker, PickPending(w) PROVE ActiveRecoveryExclusive'
    <3>1. PICK p \in PickablePending : Activate(w, p, pending[p])
      BY <2>5 DEF PickPending
    <3>2. \A r \in recovery : r.pair # p
      BY <2>5, <3>1 DEF PickPending, PickablePending, PickableRecovery
    <3>3. \A q \in Pair : active'[q] # NoValue => active[q] # NoValue \/ q = p
      BY <3>1 DEF Activate, TypeOK
    <3>4. UNCHANGED recovery
      BY <2>5 DEF PickPending
    <3> QED
      BY <3>2, <3>3, <3>4 DEF ActiveRecoveryExclusive, InRecovery
  <2>6. ASSUME NEW w \in Worker, UpdateActive(w) PROVE ActiveRecoveryExclusive'
    <3>1. held[w].value \in Payload /\ held[w].value # NoValue
      <4>1. held[w] \in [pair : Pair, value : Payload]
        BY <2>6 DEF UpdateActive, TypeOK
      <4>2. NoValue \notin Payload
        BY ONLY TRUE DEF Payload, NoValue
      <4> QED
        BY ONLY <4>1, <4>2
    <3> QED
      BY <2>1, <2>6, <3>1 DEF UpdateActive, TypeOK
  <2>7. ASSUME NEW w \in Worker, CompleteJob(w) PROVE ActiveRecoveryExclusive'
    BY <2>1, <2>7 DEF CompleteJob, CompleteActive, Complete, TypeOK
  <2>8. ASSUME NEW w \in Worker, CancelRequeue(w) \/ RecoverOrphaned(w)
        PROVE  ActiveRecoveryExclusive'
    <3>1. held[w].pair \in Pair /\ held[w].value \in Payload
      BY <2>8 DEF CancelRequeue, RecoverOrphaned, TypeOK
    <3> QED
      BY <2>2, <2>8, <3>1 DEF CancelRequeue, RecoverOrphaned
  <2>9. ASSUME NEW p \in Pair, NEW m \in Modes, Submitted(p, m) PROVE ActiveRecoveryExclusive'
    BY <2>1, <2>9 DEF Submitted
  <2>10. ASSUME NEW w \in Worker, HeartbeatAnswered(w) PROVE ActiveRecoveryExclusive'
    BY <2>1, <2>10 DEF HeartbeatAnswered
  <2>11. ASSUME UNCHANGED hash PROVE ActiveRecoveryExclusive'
    BY <2>1, <2>11
  <2>12. CASE \E p \in Pair : (\E m \in Modes : Submitted(p, m)) \/ AlreadyQueued(p)
    BY <2>9, <2>11, <2>12 DEF AlreadyQueued
  <2>13. CASE \E w \in Worker : Step(w)
    BY <2>3, <2>4, <2>5, <2>6, <2>7, <2>8, <2>11, <2>13
       DEF Step, SweepSnapshot, PickNone, PromotionLost, ListOpenMrs, WorkflowEnds,
           Cancel, ExitIdle, Restart
  <2>14. CASE \E w \in Worker : Environment(w)
    BY <2>10, <2>11, <2>14 DEF Environment, HeartbeatFails, Signal, RedisWriteFails, Crash
  <2>15. CASE Tick \/ UNCHANGED vars
    BY <2>11, <2>15 DEF Tick
  <2> QED
    BY <2>12, <2>13, <2>14, <2>15 DEF Next, Actions
<1> QED
  BY <1>1, <1>2, TypeCorrect, PTL DEF Spec

(***************************************************************************)
(* Why leases are respected: only an entry that no worker has promoted     *)
(* lacks a heartbeat, and what a sweep snapshot found stale stays stale.   *)
(***************************************************************************)
LeaseInv ==
    /\ \A p \in Pair : active[p] # NoValue /\ beat[p] = NoBeat =>
          active[p] = Legacy /\ \A w \in Worker : held[w].pair # p
    /\ \A w \in Worker : \A e \in snap[w] :
          IF e.beat = NoBeat THEN e.value = Legacy ELSE now - e.beat > Threshold

THEOREM Leases == Spec => []LeaseInv
<1> USE DEF hash, workers, history, vars
<1>1. Init => LeaseInv
  BY MergeQueueAssumption DEF Init, InitHash, LeaseInv, NoHold
<1>2. ASSUME TypeOK, TypeOK', LeaseInv, [Next]_vars PROVE LeaseInv'
  <2> USE <1>2, MergeQueueAssumption
  <2> DEFINE BeatInv == \A p \in Pair : active[p] # NoValue /\ beat[p] = NoBeat =>
                           active[p] = Legacy /\ \A w \in Worker : held[w].pair # p
             SnapInv == \A w \in Worker : \A e \in snap[w] :
                           IF e.beat = NoBeat THEN e.value = Legacy ELSE now - e.beat > Threshold
  <2>1. ASSUME UNCHANGED now, \A w \in Worker : snap'[w] \subseteq snap[w] PROVE SnapInv'
    BY <2>1 DEF LeaseInv
  <2>2. ASSUME \A p \in Pair : active'[p] # NoValue /\ beat'[p] = NoBeat =>
                  active'[p] = active[p] /\ beat'[p] = beat[p],
               \A p \in Pair, w \in Worker : held'[w].pair = p => held[w].pair = p
        PROVE  BeatInv'
    BY <2>2 DEF LeaseInv
  <2>3. ASSUME NEW p \in Pair, MoveToRecovery(p),
               \A q \in Pair, w \in Worker : held'[w].pair = q => held[w].pair = q
        PROVE  BeatInv'
    BY <2>2, <2>3 DEF MoveToRecovery, TypeOK
  <2>4. ASSUME NEW w \in Worker, SweepSnapshot(w) PROVE LeaseInv'
    <3>1. SnapInv'
      <4>1. ASSUME NEW p \in Pair, active[p] # NoValue, Stale(p)
            PROVE  IF beat[p] = NoBeat THEN active[p] = Legacy ELSE now - beat[p] > Threshold
        BY <4>1 DEF Stale, LeaseInv
      <4>2. ASSUME NEW e \in snap'[w]
            PROVE  IF e.beat = NoBeat THEN e.value = Legacy ELSE now - e.beat > Threshold
        BY <2>4, <4>1, <4>2 DEF SweepSnapshot, TypeOK
      <4> QED
        BY <2>4, <4>2 DEF SweepSnapshot, LeaseInv, TypeOK
    <3> QED
      BY <2>2, <2>4, <3>1 DEF SweepSnapshot, LeaseInv
  <2>5. ASSUME NEW w \in Worker, SweepEntry(w) PROVE LeaseInv'
    <3>1. PICK e \in snap[w] :
             /\ snap' = [snap EXCEPT ![w] = @ \ {e}]
             /\ \/ MoveToRecovery(e.pair)
                \/ UNCHANGED <<active, beat, recovery, recoverySeq>>
      BY <2>5 DEF SweepEntry
    <3>2. e.pair \in Pair /\ UNCHANGED <<held, now>>
      BY <2>5 DEF TypeOK, SweepEntry
    <3>3. SnapInv'
      BY <2>1, <3>1, <3>2 DEF TypeOK
    <3>4. BeatInv'
      BY <2>2, <2>3, <3>1, <3>2
    <3> QED
      BY <3>3, <3>4 DEF LeaseInv
  <2>6. ASSUME NEW w \in Worker, NEW p \in Pair, NEW v, Activate(w, p, v) PROVE BeatInv'
    <3>1. beat'[p] # NoBeat /\ \A q \in Pair \ {p} : active'[q] = active[q] /\ beat'[q] = beat[q]
      BY <2>6 DEF Activate, TypeOK, NoBeat
    <3>2. \A q \in Pair \ {p}, x \in Worker : held'[x].pair = q => held[x].pair = q
      BY <2>6 DEF Activate, TypeOK
    <3> QED
      BY <3>1, <3>2 DEF LeaseInv
  <2>7. ASSUME NEW w \in Worker, PickRecovery(w) \/ PickPending(w) PROVE LeaseInv'
    <3>1. PICK p \in Pair, v \in Value : Activate(w, p, v)
      BY <2>7 DEF PickRecovery, PickPending, PickableRecovery, PickablePending, TypeOK, Value
    <3>2. SnapInv'
      BY <2>1, <2>7 DEF PickRecovery, PickPending
    <3> QED
      BY <2>6, <3>1, <3>2 DEF LeaseInv
  <2>8. ASSUME NEW w \in Worker, UpdateActive(w) PROVE LeaseInv'
    <3>1. held[w].pair \in Pair /\ active[held[w].pair] # NoValue
      BY <2>8 DEF UpdateActive, TypeOK, Payload, NoValue
    <3>2. beat[held[w].pair] # NoBeat
      BY <3>1 DEF LeaseInv
    <3>3. \A q \in Pair, x \in Worker : held'[x].pair = q => held[x].pair = q
      BY <2>8, <3>1 DEF UpdateActive, TypeOK
    <3>4. BeatInv'
      BY <2>2, <2>8, <3>1, <3>2, <3>3 DEF UpdateActive, TypeOK
    <3> QED
      BY <2>1, <2>8, <3>4 DEF UpdateActive, LeaseInv
  <2>9. ASSUME NEW w \in Worker, held' = [held EXCEPT ![w] = NoHold] \/ UNCHANGED held
        PROVE  \A q \in Pair, x \in Worker : held'[x].pair = q => held[x].pair = q
    BY <2>9 DEF NoHold, TypeOK
  <2>10. ASSUME NEW w \in Worker, HeartbeatAnswered(w) PROVE LeaseInv'
    <3>1. \A q \in Pair : active'[q] = active[q] /\ (beat'[q] = beat[q] \/ beat'[q] = now)
      BY <2>10 DEF HeartbeatAnswered, TypeOK
    <3>2. held' = [held EXCEPT ![w] = NoHold] \/ UNCHANGED held
      BY <2>10 DEF HeartbeatAnswered, Abort
    <3>3. BeatInv'
      BY <2>2, <2>9, <3>1, <3>2 DEF TypeOK, NoBeat
    <3> QED
      BY <2>1, <2>10, <3>3 DEF HeartbeatAnswered, LeaseInv
  <2>11. ASSUME NEW w \in Worker, CompleteJob(w) PROVE LeaseInv'
    <3>1. \A q \in Pair : active'[q] # NoValue => active'[q] = active[q] /\ beat'[q] = beat[q]
      BY <2>11 DEF CompleteJob, CompleteActive, Complete, TypeOK
    <3>2. BeatInv'
      BY <2>2, <2>9, <2>11, <3>1 DEF CompleteJob, Abort
    <3> QED
      BY <2>1, <2>11, <3>2 DEF CompleteJob, LeaseInv
  <2>12. ASSUME NEW w \in Worker, CancelRequeue(w) \/ RecoverOrphaned(w) PROVE LeaseInv'
    <3>1. held[w].pair \in Pair
      BY <2>12 DEF CancelRequeue, RecoverOrphaned, TypeOK
    <3>2. \A q \in Pair, x \in Worker : held'[x].pair = q => held[x].pair = q
      BY <2>9, <2>12 DEF CancelRequeue, RecoverOrphaned
    <3>3. BeatInv'
      BY <2>2, <2>3, <2>12, <3>1, <3>2 DEF CancelRequeue, RecoverOrphaned, RequeueActive
    <3> QED
      BY <2>1, <2>12, <3>3 DEF CancelRequeue, RecoverOrphaned, LeaseInv
  <2>13. ASSUME NEW w \in Worker, UNCHANGED <<active, beat, now>>,
                held' = [held EXCEPT ![w] = NoHold] \/ UNCHANGED held,
                snap' = [snap EXCEPT ![w] = {}] \/ UNCHANGED snap
         PROVE  LeaseInv'
    <3>1. BeatInv'
      BY <2>2, <2>9, <2>13
    <3>2. SnapInv'
      BY <2>1, <2>13 DEF TypeOK
    <3> QED
      BY <3>1, <3>2 DEF LeaseInv
  <2>14. ASSUME UNCHANGED <<active, beat, held, snap, now>> PROVE LeaseInv'
    BY <2>14 DEF LeaseInv
  <2>15. CASE \E p \in Pair : (\E m \in Modes : Submitted(p, m)) \/ AlreadyQueued(p)
    BY <2>14, <2>15 DEF Submitted, AlreadyQueued
  <2>16. CASE \E w \in Worker : Step(w)
    BY <2>4, <2>5, <2>7, <2>8, <2>11, <2>12, <2>13, <2>16
       DEF Step, PickNone, PromotionLost, ListOpenMrs, WorkflowEnds, Cancel, ExitIdle, Restart
  <2>17. CASE \E w \in Worker : Environment(w)
    BY <2>10, <2>13, <2>17 DEF Environment, HeartbeatFails, Signal, RedisWriteFails, Crash, Abort
  <2>18. CASE Tick
    <3>1. SnapInv'
      BY <2>18 DEF Tick, LeaseInv, TypeOK, NoBeat
    <3> QED
      BY <2>2, <2>18, <3>1 DEF Tick, LeaseInv
  <2>19. CASE UNCHANGED vars
    BY <2>14, <2>19
  <2> QED
    BY <2>15, <2>16, <2>17, <2>18, <2>19 DEF Next, Actions
<1> QED
  BY <1>1, <1>2, TypeCorrect, PTL DEF Spec

(***************************************************************************)
(* No :active entry is out of the sweep's reach.                           *)
(***************************************************************************)
THEOREM AlwaysSweepable == Spec => []Sweepable
<1>1. LeaseInv => Sweepable
  BY DEF LeaseInv, Sweepable, Legacy
<1> QED
  BY <1>1, Leases, PTL

(***************************************************************************)
(* An entry whose lease is fresh leaves :active only by its holder.        *)
(***************************************************************************)
THEOREM LeaseSafety == Spec => LeaseRespected
<1> USE DEF hash, workers, history, vars
<1>1. ASSUME TypeOK, TypeOK', LeaseInv, [Next]_vars, NEW p \in Pair,
             active[p] \notin {NoValue, Legacy}, active'[p] = NoValue
      PROVE  Stale(p) \/ \E w \in Worker : Holds(w, p) /\ pc'[w] # pc[w]
  <2> USE <1>1
  <2>1. ASSUME NEW w \in Worker, SweepEntry(w) PROVE Stale(p)
    <3>1. PICK e \in snap[w] :
             \/ SnapshotHolds(e) /\ MoveToRecovery(e.pair)
             \/ UNCHANGED active
      BY <2>1 DEF SweepEntry
    <3>2. e.pair = p /\ SnapshotHolds(e)
      BY <3>1 DEF MoveToRecovery, TypeOK
    <3>3. e.beat # NoBeat /\ beat[p] = e.beat /\ now - e.beat > Threshold
      BY <3>2 DEF SnapshotHolds, LeaseInv
    <3> QED
      BY <3>3 DEF Stale
  <2>2. ASSUME NEW w \in Worker, PickRecovery(w) \/ PickPending(w) PROVE FALSE
    <3>1. PICK q \in Pair, v \in Payload : Activate(w, q, v)
      BY <2>2 DEF PickRecovery, PickPending, PickableRecovery, PickablePending, TypeOK, Value
    <3>2. v # NoValue
      BY DEF Payload, NoValue
    <3> QED
      BY <3>1, <3>2 DEF Activate, TypeOK
  <2>3. ASSUME NEW w \in Worker, UpdateActive(w) PROVE FALSE
    <3>1. held[w].value \in Payload
      BY <2>3 DEF UpdateActive, TypeOK
    <3>2. Stamped(held[w].value) # NoValue
      BY <3>1 DEF Stamped, Payload, NoValue
    <3> QED
      BY <2>3, <3>2 DEF UpdateActive, TypeOK
  <2>4. ASSUME NEW w \in Worker, CompleteJob(w) PROVE Holds(w, p) /\ pc'[w] # pc[w]
    BY <2>4 DEF CompleteJob, CompleteActive, Complete, Abort, Holds, TypeOK
  <2>5. ASSUME NEW w \in Worker, CancelRequeue(w) \/ RecoverOrphaned(w)
        PROVE  Holds(w, p) /\ pc'[w] # pc[w]
    <3>1. active[held[w].pair] = held[w].value /\ MoveToRecovery(held[w].pair)
      BY <2>5 DEF CancelRequeue, RecoverOrphaned, RequeueActive
    <3>2. held[w].pair = p
      BY <3>1 DEF MoveToRecovery, TypeOK
    <3> QED
      BY <2>5, <3>1, <3>2 DEF CancelRequeue, RecoverOrphaned, Holds, TypeOK
  <2>6. ~UNCHANGED active
    OBVIOUS
  <2>7. PICK w \in Worker : Step(w) \/ Environment(w)
    BY <2>6 DEF Next, Actions, Tick, Submitted, AlreadyQueued
  <2>8. \/ SweepEntry(w) \/ PickRecovery(w) \/ PickPending(w) \/ UpdateActive(w)
        \/ CompleteJob(w) \/ CancelRequeue(w) \/ RecoverOrphaned(w)
    BY <2>6, <2>7
       DEF Step, Environment, SweepSnapshot, PickNone, PromotionLost, ListOpenMrs, WorkflowEnds,
           Cancel, ExitIdle, Restart, HeartbeatAnswered, HeartbeatFails, Signal, RedisWriteFails,
           Crash
  <2> QED
    BY <2>1, <2>2, <2>3, <2>4, <2>5, <2>8
<1>2. ASSUME TypeOK, TypeOK', LeaseInv, [Next]_vars
      PROVE  [\A p \in Pair : active[p] \notin {NoValue, Legacy} /\ active'[p] = NoValue =>
                 \/ Stale(p)
                 \/ \E w \in Worker : Holds(w, p) /\ pc'[w] # pc[w]]_vars
  BY <1>1, <1>2
<1> QED
  BY <1>2, TypeCorrect, Leases, PTL DEF Spec, LeaseRespected

-----------------------------------------------------------------------------
(* Jobs have the numbers that were given out. *)
Numbered ==
    /\ \A p \in Pair : pending[p].job \in 0 .. jobs /\ active[p].job \in 0 .. jobs
    /\ \A r \in recovery : r.value.job \in 1 .. jobs
    /\ done \subseteq 1 .. jobs

(* The parts of Places. *)
PendingPlaces(j)  == {Place("pending", p, 0) : p \in {q \in Pair : pending[q].job = j}}
ActivePlaces(j)   == {Place("active", p, 0) : p \in {q \in Pair : active[q].job = j}}
RecoveryPlaces(j) == {Place("recovery", r.pair, r.slot) : r \in {x \in recovery : x.value.job = j}}
DonePlaces(j)     == {Place("done", NoPair, 0) : k \in done \cap {j}}

(* Places is the union of its parts, before and after a step. *)
LEMMA PlacesAre ==
    ASSUME NEW j
    PROVE  /\ Places(j) = PendingPlaces(j) \cup ActivePlaces(j) \cup RecoveryPlaces(j) \cup DonePlaces(j)
           /\ Places(j)' = (PendingPlaces(j) \cup ActivePlaces(j) \cup RecoveryPlaces(j) \cup DonePlaces(j))'
BY DEF Places, PendingPlaces, ActivePlaces, RecoveryPlaces, DonePlaces

(* One job goes from one place to another. *)
LEMMA Moved ==
    ASSUME JobConservation, UNCHANGED jobs, NEW k \in 1 .. jobs, NEW from \in Places(k), NEW to,
           to \in Places(k)', Places(k)' \subseteq (Places(k) \ {from}) \cup {to},
           \A j \in 1 .. jobs : j # k => Places(j)' = Places(j)
    PROVE  JobConservation'
<1>1. Places(k) = {from}
  BY DEF JobConservation
<1>2. Places(k)' = {to}
  BY <1>1
<1> QED
  BY <1>2 DEF JobConservation

(* Nothing goes anywhere. *)
LEMMA Unmoved ==
    ASSUME JobConservation, Numbered, UNCHANGED <<jobs, pending, recovery, done>>,
           \A p \in Pair : active'[p].job = active[p].job
    PROVE  JobConservation' /\ Numbered'
<1>1. ASSUME NEW j PROVE Places(j)' = Places(j)
  BY DEF Places
<1>2. JobConservation'
  BY <1>1 DEF JobConservation
<1> QED
  BY <1>2 DEF Numbered

(* An active entry goes to recovery storage. *)
LEMMA MoveConserves ==
    ASSUME TypeOK, Numbered, JobConservation, ActiveRecoveryExclusive, UNCHANGED <<pending, done, jobs>>,
           NEW p \in Pair, active[p] # NoValue, MoveToRecovery(p)
    PROVE  JobConservation' /\ Numbered'
<1>1. active[p] \in Payload
  BY DEF TypeOK, Value
<1>2. PICK k \in 1 .. jobs : k = active[p].job
  BY <1>1 DEF Numbered, Payload, TypeOK
<1> DEFINE moved == [pair |-> p, slot |-> RecoverySlot(p), value |-> active[p]]
           from  == Place("active", p, 0)
           to    == Place("recovery", p, RecoverySlot(p))
<1>3. recovery' = recovery \cup {moved} /\ active' = [active EXCEPT ![p] = NoValue]
  BY DEF MoveToRecovery
<1>4. moved.value.job = k /\ Place("recovery", moved.pair, moved.slot) = to
  BY <1>2
<1> HIDE DEF moved
<1>5. Numbered'
  <2>1. \A q \in Pair : active'[q].job \in 0 .. jobs
    BY <1>3 DEF Numbered, TypeOK, NoValue
  <2>2. \A r \in recovery' : r.value.job \in 1 .. jobs
    BY <1>3, <1>4 DEF Numbered
  <2> QED
    BY <2>1, <2>2 DEF Numbered
<1>6. ASSUME NEW j \in 1 .. jobs
      PROVE  /\ PendingPlaces(j)' = PendingPlaces(j) /\ DonePlaces(j)' = DonePlaces(j)
             /\ ActivePlaces(j)' = ActivePlaces(j) \ {from}
             /\ j # k => from \notin ActivePlaces(j)
             /\ RecoveryPlaces(j)' = RecoveryPlaces(j) \cup (IF j = k THEN {to} ELSE {})
  <2>1. PendingPlaces(j)' = PendingPlaces(j) /\ DonePlaces(j)' = DonePlaces(j)
    BY DEF PendingPlaces, DonePlaces
  <2>2. ActivePlaces(j)' = ActivePlaces(j) \ {from} /\ (j # k => from \notin ActivePlaces(j))
    <3>1. \A q \in Pair : active'[q].job = j <=> (active[q].job = j /\ q # p)
      BY <1>3 DEF TypeOK, NoValue
    <3>2. \A q \in Pair : Place("active", q, 0) = from <=> q = p
      BY DEF Place
    <3> HIDE DEF from
    <3> QED
      BY <1>2, <3>1, <3>2 DEF ActivePlaces
  <2>3. RecoveryPlaces(j)' = RecoveryPlaces(j) \cup (IF j = k THEN {to} ELSE {})
    <3> HIDE DEF to
    <3> QED
      BY <1>3, <1>4 DEF RecoveryPlaces
  <2> QED
    BY <2>1, <2>2, <2>3
<1>7. from \in ActivePlaces(k)
  BY <1>2 DEF ActivePlaces
<1>8. from \notin PendingPlaces(k) \cup RecoveryPlaces(k) \cup DonePlaces(k)
  BY DEF PendingPlaces, RecoveryPlaces, DonePlaces, Place
<1> HIDE DEF from, to
<1>9. \A j \in 1 .. jobs : j # k => Places(j)' = Places(j)
  BY <1>6, PlacesAre
<1>10. to \in Places(k)' /\ Places(k)' \subseteq (Places(k) \ {from}) \cup {to} /\ from \in Places(k)
  BY <1>6, <1>7, <1>8, PlacesAre
<1> QED
  BY <1>5, <1>9, <1>10, Moved

(* A worker gives its active entry back, or finds it is not its own. *)
LEMMA RequeueConserves ==
    ASSUME TypeOK, Numbered, JobConservation, ActiveRecoveryExclusive, UNCHANGED <<pending, done, jobs>>,
           NEW p \in Pair, NEW v \in Payload, RequeueActive(p, v)
    PROVE  JobConservation' /\ Numbered'
<1>1. v # NoValue
  BY DEF Payload, NoValue
<1> QED
  BY <1>1, MoveConserves, Unmoved DEF RequeueActive

(* The jobs of the hash are the numbered ones, each in one place. *)
THEOREM JobsKept == Spec => [](JobConservation /\ Numbered)
<1> USE DEF hash, workers, history, vars
<1>1. Init => JobConservation /\ Numbered
  <2>1. ASSUME Init, \A p \in Pair : active[p] = NoValue, jobs = 0
        PROVE  JobConservation /\ Numbered
    BY <2>1 DEF Init, JobConservation, Numbered, NoValue
  <2>2. ASSUME Init, NEW q \in Pair, active = [p \in Pair |-> IF p = q THEN Legacy ELSE NoValue], jobs = 1
        PROVE  JobConservation /\ Numbered
    <3>1. Numbered
      BY <2>2 DEF Init, Numbered, NoValue, Legacy
    <3>2. \A p \in Pair : active[p].job = 1 <=> p = q
      <4>1. Legacy.job = 1 /\ NoValue.job = 0
        BY DEF NoValue, Legacy
      <4>2. \A p \in Pair : active[p] = IF p = q THEN Legacy ELSE NoValue
        BY <2>2
      <4>3. ASSUME NEW p \in Pair PROVE active[p].job = 1 <=> p = q
        <5>1. CASE p = q
          BY <4>1, <4>2, <5>1
        <5>2. CASE p # q
          BY <4>1, <4>2, <5>2
        <5> QED
          BY <5>1, <5>2
      <4> QED
        BY <4>3
    <3>3. PendingPlaces(1) = {} /\ RecoveryPlaces(1) = {} /\ DonePlaces(1) = {}
      BY <2>2 DEF Init, NoValue, PendingPlaces, RecoveryPlaces, DonePlaces
    <3>4. ActivePlaces(1) = {Place("active", q, 0)}
      BY <3>2 DEF ActivePlaces
    <3>5. Places(1) = {Place("active", q, 0)}
      BY <3>3, <3>4, PlacesAre
    <3> QED
      BY <2>2, <3>1, <3>5 DEF JobConservation
  <2> QED
    BY <2>1, <2>2 DEF Init, InitHash
<1>2. ASSUME TypeOK, ActiveRecoveryExclusive, JobConservation /\ Numbered, [Next]_vars
      PROVE  JobConservation' /\ Numbered'
  <2> USE <1>2
  <2>1. ASSUME NEW p \in Pair, NEW m \in Modes, Submitted(p, m) PROVE JobConservation' /\ Numbered'
    <3>1. jobs' = jobs + 1 /\ jobs \in Nat /\ pending'[p].job = jobs + 1 /\ pending[p].job = 0
          /\ \A q \in Pair \ {p} : pending'[q] = pending[q]
      BY <2>1 DEF Submitted, TypeOK, NoValue
    <3>2. UNCHANGED <<active, recovery, done>>
      BY <2>1 DEF Submitted
    <3>3. Numbered'
      BY <3>1, <3>2 DEF Numbered
    <3>4. ASSUME NEW j \in 1 .. jobs PROVE Places(j)' = Places(j)
      <4>1. \A q \in Pair : pending'[q].job = j <=> pending[q].job = j
        BY <3>1
      <4> QED
        BY <3>2, <4>1 DEF Places
    <3>5. PICK k \in Nat : k = jobs + 1
      BY <3>1
    <3>6. PendingPlaces(k)' = {Place("pending", p, 0)}
      <4>1. \A q \in Pair : pending'[q].job = k <=> q = p
        BY <3>1, <3>5 DEF Numbered
      <4> QED
        BY <4>1 DEF PendingPlaces
    <3>7. ActivePlaces(k)' = {} /\ RecoveryPlaces(k)' = {} /\ DonePlaces(k)' = {}
      BY <3>1, <3>2, <3>5 DEF Numbered, ActivePlaces, RecoveryPlaces, DonePlaces
    <3>8. Places(k)' = {Place("pending", p, 0)}
      BY <3>6, <3>7, PlacesAre
    <3>9. ASSUME NEW j \in 1 .. jobs' PROVE \E l \in Places(j)' : Places(j)' = {l}
      <4>1. CASE j = k
        BY <3>8, <4>1
      <4>2. CASE j # k
        BY <3>1, <3>4, <3>5, <4>2 DEF JobConservation
      <4> QED
        BY <4>1, <4>2
    <3> QED
      BY <3>3, <3>9 DEF JobConservation
  <2>2. ASSUME NEW w \in Worker, SweepEntry(w) PROVE JobConservation' /\ Numbered'
    <3>1. PICK e \in snap[w] :
             \/ SnapshotHolds(e) /\ MoveToRecovery(e.pair)
             \/ UNCHANGED <<active, beat, recovery, recoverySeq>>
      BY <2>2 DEF SweepEntry
    <3>2. e.pair \in Pair /\ e.value \in Payload
      BY DEF TypeOK
    <3>3. SnapshotHolds(e) => active[e.pair] # NoValue
      BY <3>2 DEF SnapshotHolds, Payload, NoValue
    <3> QED
      BY <2>2, <3>1, <3>2, <3>3, MoveConserves, Unmoved DEF SweepEntry
  <2>3. ASSUME NEW w \in Worker, CancelRequeue(w) \/ RecoverOrphaned(w) PROVE JobConservation' /\ Numbered'
    <3>1. held[w].pair \in Pair /\ held[w].value \in Payload
      BY <2>3 DEF CancelRequeue, RecoverOrphaned, TypeOK
    <3> QED
      BY <2>3, <3>1, RequeueConserves DEF CancelRequeue, RecoverOrphaned
  <2>4. ASSUME NEW w \in Worker, PickRecovery(w) PROVE JobConservation' /\ Numbered'
    <3>1. PICK r \in PickableRecovery : recovery' = recovery \ {r} /\ Activate(w, r.pair, r.value)
      BY <2>4 DEF PickRecovery
    <3>2. r \in recovery /\ r.pair \in Pair /\ r.value \in Payload /\ active[r.pair] = NoValue
      BY <3>1 DEF PickableRecovery, TypeOK
    <3>3. PICK k \in 1 .. jobs : k = r.value.job
      BY <3>2 DEF Numbered
    <3>4. active' = [active EXCEPT ![r.pair] = r.value] /\ UNCHANGED <<pending, jobs, done>>
      BY <2>4, <3>1 DEF PickRecovery, Activate
    <3>5. Numbered'
      BY <3>1, <3>3, <3>4 DEF Numbered, TypeOK
    <3> DEFINE from == Place("recovery", r.pair, r.slot)
               to   == Place("active", r.pair, 0)
    <3>6. ASSUME NEW j \in 1 .. jobs
          PROVE  /\ PendingPlaces(j)' = PendingPlaces(j) /\ DonePlaces(j)' = DonePlaces(j)
                 /\ ActivePlaces(j)' = ActivePlaces(j) \cup (IF j = k THEN {to} ELSE {})
                 /\ RecoveryPlaces(j)' = RecoveryPlaces(j) \ {from}
                 /\ j # k => from \notin RecoveryPlaces(j)
      <4>1. PendingPlaces(j)' = PendingPlaces(j) /\ DonePlaces(j)' = DonePlaces(j)
        BY <3>4 DEF PendingPlaces, DonePlaces
      <4>2. ActivePlaces(j)' = ActivePlaces(j) \cup (IF j = k THEN {to} ELSE {})
        <5>1. \A q \in Pair : active'[q].job = j <=> (active[q].job = j \/ (q = r.pair /\ j = k))
          BY <3>2, <3>3, <3>4 DEF TypeOK, NoValue
        <5> HIDE DEF to
        <5>2. Place("active", r.pair, 0) = to
          BY DEF to
        <5> QED
          BY <3>2, <5>1, <5>2 DEF ActivePlaces
      <4>3. RecoveryPlaces(j)' = RecoveryPlaces(j) \ {from} /\ (j # k => from \notin RecoveryPlaces(j))
        <5>1. \A x \in recovery : Place("recovery", x.pair, x.slot) = from <=> x = r
          BY <3>2 DEF Place, ActiveRecoveryExclusive
        <5> HIDE DEF from
        <5> QED
          BY <3>1, <3>3, <5>1 DEF RecoveryPlaces
      <4> QED
        BY <4>1, <4>2, <4>3
    <3>7. from \in RecoveryPlaces(k)
      BY <3>2, <3>3 DEF RecoveryPlaces
    <3>8. from \notin PendingPlaces(k) \cup ActivePlaces(k) \cup DonePlaces(k)
      BY DEF PendingPlaces, ActivePlaces, DonePlaces, Place
    <3> HIDE DEF from, to
    <3>9. \A j \in 1 .. jobs : j # k => Places(j)' = Places(j)
      BY <3>6, PlacesAre
    <3>10. to \in Places(k)' /\ Places(k)' \subseteq (Places(k) \ {from}) \cup {to} /\ from \in Places(k)
      BY <3>6, <3>7, <3>8, PlacesAre
    <3> QED
      BY <3>4, <3>5, <3>9, <3>10, Moved
  <2>5. ASSUME NEW w \in Worker, PickPending(w) PROVE JobConservation' /\ Numbered'
    <3>1. PICK p \in PickablePending : pending' = [pending EXCEPT ![p] = NoValue] /\ Activate(w, p, pending[p])
      BY <2>5 DEF PickPending
    <3>2. p \in Pair /\ pending[p] \in Payload /\ active[p] = NoValue
      BY <3>1 DEF PickablePending, TypeOK, Value
    <3>3. PICK k \in 1 .. jobs : k = pending[p].job
      BY <3>2 DEF Numbered, Payload, TypeOK
    <3>4. active' = [active EXCEPT ![p] = pending[p]] /\ UNCHANGED <<recovery, jobs, done>>
      BY <2>5, <3>1 DEF PickPending, Activate
    <3>5. Numbered'
      BY <3>1, <3>2, <3>4 DEF Numbered, TypeOK, NoValue
    <3> DEFINE from == Place("pending", p, 0)
               to   == Place("active", p, 0)
    <3>6. ASSUME NEW j \in 1 .. jobs
          PROVE  /\ RecoveryPlaces(j)' = RecoveryPlaces(j) /\ DonePlaces(j)' = DonePlaces(j)
                 /\ ActivePlaces(j)' = ActivePlaces(j) \cup (IF j = k THEN {to} ELSE {})
                 /\ PendingPlaces(j)' = PendingPlaces(j) \ {from}
                 /\ j # k => from \notin PendingPlaces(j)
      <4>1. RecoveryPlaces(j)' = RecoveryPlaces(j) /\ DonePlaces(j)' = DonePlaces(j)
        BY <3>4 DEF RecoveryPlaces, DonePlaces
      <4>2. ActivePlaces(j)' = ActivePlaces(j) \cup (IF j = k THEN {to} ELSE {})
        <5>1. \A q \in Pair : active'[q].job = j <=> (active[q].job = j \/ (q = p /\ j = k))
          BY <3>2, <3>3, <3>4 DEF TypeOK, NoValue
        <5>2. Place("active", p, 0) = to
          OBVIOUS
        <5> HIDE DEF to
        <5> QED
          BY <3>2, <5>1, <5>2 DEF ActivePlaces
      <4>3. PendingPlaces(j)' = PendingPlaces(j) \ {from} /\ (j # k => from \notin PendingPlaces(j))
        <5>1. \A q \in Pair : pending'[q].job = j <=> (pending[q].job = j /\ q # p)
          BY <3>1, <3>2 DEF TypeOK, NoValue
        <5>2. \A q \in Pair : Place("pending", q, 0) = from <=> q = p
          BY DEF Place
        <5> HIDE DEF from
        <5> QED
          BY <3>3, <5>1, <5>2 DEF PendingPlaces
      <4> QED
        BY <4>1, <4>2, <4>3
    <3>7. from \in PendingPlaces(k)
      BY <3>2, <3>3 DEF PendingPlaces
    <3>8. from \notin RecoveryPlaces(k) \cup ActivePlaces(k) \cup DonePlaces(k)
      BY DEF RecoveryPlaces, ActivePlaces, DonePlaces, Place
    <3> HIDE DEF from, to
    <3>9. \A j \in 1 .. jobs : j # k => Places(j)' = Places(j)
      BY <3>6, PlacesAre
    <3>10. to \in Places(k)' /\ Places(k)' \subseteq (Places(k) \ {from}) \cup {to} /\ from \in Places(k)
      BY <3>6, <3>7, <3>8, PlacesAre
    <3> QED
      BY <3>4, <3>5, <3>9, <3>10, Moved
  <2>6. ASSUME NEW w \in Worker, UpdateActive(w) PROVE JobConservation' /\ Numbered'
    <3>1. \A p \in Pair : active'[p].job = active[p].job
      BY <2>6 DEF UpdateActive, Stamped, TypeOK
    <3> QED
      BY <2>6, <3>1, Unmoved DEF UpdateActive
  <2>7. ASSUME NEW w \in Worker, CompleteJob(w) PROVE JobConservation' /\ Numbered'
    <3>1. PICK p \in Pair : p = held[w].pair /\ held[w].value \in Payload
      BY <2>7 DEF CompleteJob, TypeOK
    <3> SUFFICES ASSUME active[p] = held[w].value, Complete(p, held[w].value.job)
                 PROVE  JobConservation' /\ Numbered'
      BY <2>7, <3>1, Unmoved DEF CompleteJob, CompleteActive
    <3>3. PICK k \in 1 .. jobs : k = active[p].job /\ k = held[w].value.job
      BY <3>1 DEF Numbered, Payload, TypeOK
    <3>4. active' = [active EXCEPT ![p] = NoValue] /\ done' = done \cup {k} /\ UNCHANGED <<recovery, jobs, pending>>
      BY <2>7, <3>3 DEF CompleteJob, Complete
    <3>5. Numbered'
      <4>1. \A q \in Pair : active'[q].job \in {active[q].job, 0}
        BY <3>4 DEF TypeOK, NoValue
      <4>2. 0 \in 0 .. jobs /\ jobs' = jobs
        BY <3>4 DEF TypeOK
      <4>3. \A q \in Pair : pending'[q].job \in 0 .. jobs' /\ active'[q].job \in 0 .. jobs'
        BY <3>4, <4>1, <4>2 DEF Numbered
      <4>4. (\A r \in recovery' : r.value.job \in 1 .. jobs') /\ done' \subseteq 1 .. jobs'
        BY <3>3, <3>4, <4>2 DEF Numbered
      <4> QED
        BY <4>3, <4>4 DEF Numbered
    <3> DEFINE from == Place("active", p, 0)
               to   == Place("done", NoPair, 0)
    <3>6. ASSUME NEW j \in 1 .. jobs
          PROVE  /\ RecoveryPlaces(j)' = RecoveryPlaces(j) /\ PendingPlaces(j)' = PendingPlaces(j)
                 /\ DonePlaces(j)' = DonePlaces(j) \cup (IF j = k THEN {to} ELSE {})
                 /\ ActivePlaces(j)' = ActivePlaces(j) \ {from}
                 /\ j # k => from \notin ActivePlaces(j)
      <4>1. RecoveryPlaces(j)' = RecoveryPlaces(j) /\ PendingPlaces(j)' = PendingPlaces(j)
        BY <3>4 DEF RecoveryPlaces, PendingPlaces
      <4>2. DonePlaces(j)' = DonePlaces(j) \cup (IF j = k THEN {to} ELSE {})
        BY <3>4 DEF DonePlaces
      <4>3. ActivePlaces(j)' = ActivePlaces(j) \ {from} /\ (j # k => from \notin ActivePlaces(j))
        <5>1. \A q \in Pair : active'[q].job = j <=> (active[q].job = j /\ q # p)
          BY <3>4 DEF TypeOK, NoValue
        <5>2. \A q \in Pair : Place("active", q, 0) = from <=> q = p
          BY DEF Place
        <5> HIDE DEF from
        <5> QED
          BY <3>3, <5>1, <5>2 DEF ActivePlaces
      <4> QED
        BY <4>1, <4>2, <4>3
    <3>7. from \in ActivePlaces(k)
      BY <3>3 DEF ActivePlaces
    <3>8. from \notin RecoveryPlaces(k) \cup PendingPlaces(k) \cup DonePlaces(k)
      BY DEF RecoveryPlaces, PendingPlaces, DonePlaces, Place
    <3> HIDE DEF from, to
    <3>9. \A j \in 1 .. jobs : j # k => Places(j)' = Places(j)
      BY <3>6, PlacesAre
    <3>10. to \in Places(k)' /\ Places(k)' \subseteq (Places(k) \ {from}) \cup {to} /\ from \in Places(k)
      BY <3>6, <3>7, <3>8, PlacesAre
    <3> QED
      BY <3>4, <3>5, <3>9, <3>10, Moved
  <2>8. ASSUME UNCHANGED <<pending, active, recovery, jobs, done>> PROVE JobConservation' /\ Numbered'
    BY <2>8, Unmoved
  <2>9. CASE \E p \in Pair : (\E m \in Modes : Submitted(p, m)) \/ AlreadyQueued(p)
    BY <2>1, <2>8, <2>9 DEF AlreadyQueued
  <2>10. CASE \E w \in Worker : Step(w)
    BY <2>2, <2>3, <2>4, <2>5, <2>6, <2>7, <2>8, <2>10
       DEF Step, SweepSnapshot, PickNone, PromotionLost, ListOpenMrs, WorkflowEnds, Cancel, ExitIdle, Restart
  <2>11. CASE \E w \in Worker : Environment(w)
    BY <2>8, <2>11 DEF Environment, HeartbeatAnswered, HeartbeatFails, Signal, RedisWriteFails, Crash
  <2>12. CASE Tick \/ UNCHANGED vars
    BY <2>8, <2>12 DEF Tick
  <2> QED
    BY <2>9, <2>10, <2>11, <2>12 DEF Next, Actions
<1> QED
  BY <1>1, <1>2, TypeCorrect, Exclusive, PTL DEF Spec

(***************************************************************************)
(* Every submitted job stays in exactly one field of the hash until        *)
(* complete_job removes it, whatever the sweeps, cancellations, crashes    *)
(* and lost promotions in between.                                         *)
(***************************************************************************)
THEOREM Conservation == Spec => []JobConservation
BY JobsKept, PTL

-----------------------------------------------------------------------------
(* Started workers hold a payload with a stamp; Listed ones have looked at the open MRs. *)
Started == {"list", "work", "finish", "failed", "cancel", "recover"}
Listed  == {"work", "finish", "failed"}

(* The payload of a release without heartbeats is active, or in a snapshot. *)
LegacySeen ==
    \/ \E p \in Pair : active[p] # NoValue /\ beat[p] = NoBeat
    \/ \E w \in Worker : \E e \in snap[w] : e.beat = NoBeat

(* Stamps are given out in order, and number 1 is Legacy's where there is one. *)
StampInv ==
    /\ \A p \in Pair : active[p].act <= acts /\ pending[p].act = 0
    /\ \A r \in recovery : r.value.act <= acts
    /\ \A w \in Worker :
          /\ held[w].value.act <= acts
          /\ pc[w] \in Started => held[w].value.act # 0 /\ (LegacySeen => held[w].value.act # 1)
    /\ LegacySeen => acts # 0

(* The lease of a worker that runs: its entry, its last heartbeat, and at most d to the next attempt. *)
Leased(w, d) ==
    /\ active[held[w].pair] = held[w].value
    /\ beat[held[w].pair] = lastSuccess[w]
    /\ due[w] <= lastSuccess[w] + d
    /\ now <= due[w] + SocketTimeout

(***************************************************************************)
(* Why one worker runs a pair: a worker that runs has the lease, nobody    *)
(* else holds its payload, and a promotion gives a fresh heartbeat.        *)
(***************************************************************************)
OwnerInv(d) ==
    /\ \A w \in Worker : pc[w] \in Running => Leased(w, d)
    /\ \A v, w \in Worker : v # w /\ pc[w] \in Running => held[v].value # held[w].value
    /\ \A w \in Worker : pc[w] = "update" /\ active[held[w].pair] = held[w].value =>
                            beat[held[w].pair] = now

(***************************************************************************)
(* Why a submission is served: what is left to serve it was not listed by  *)
(* anyone who holds it.                                                    *)
(***************************************************************************)
CoverInv ==
    /\ \A p \in Pair : ~pending[p].strict /\ ~active[p].strict
    /\ \A r \in recovery : ~r.value.strict
    /\ \A w \in Worker : ~held[w].value.strict
    /\ \A p \in Pair : unseen[p] /\ pending[p] = NoValue =>
          /\ active[p] # NoValue \/ InRecovery(p) # {}
          /\ \A w \in Worker : held[w].pair = p /\ pc[w] \in Listed =>
                held[w].value # active[p] /\ \A r \in InRecovery(p) : r.value # held[w].value

(* A payload has what the invariants ask of it. *)
LEMMA Values ==
    /\ NoValue.act = 0 /\ NoValue.strict = FALSE /\ NoValue \notin Payload
    /\ Legacy.act = 1 /\ Legacy.strict = FALSE
    /\ NoHold.value = NoValue /\ NoHold.pair = NoPair
BY DEF NoValue, Legacy, NoHold, Payload

(* A hash that only moves entries to recovery, or loses them, has no new payload. *)
LEMMA MovesAreOld ==
    ASSUME TypeOK, NEW p \in Pair, active[p] # NoValue, MoveToRecovery(p)
    PROVE  /\ \A q \in Pair : \/ active'[q] = active[q] /\ beat'[q] = beat[q]
                              \/ active'[q] = NoValue
           /\ \A r \in recovery' : r \in recovery \/ (r.pair = p /\ r.value = active[p])
BY DEF MoveToRecovery, TypeOK

(***************************************************************************)
(* Stamps only grow, and a worker that was handed its payload has one that *)
(* no payload of a release without heartbeats has.                         *)
(***************************************************************************)
THEOREM StampsGrow == Spec => []StampInv
<1> USE DEF hash, workers, history, vars
<1>1. Init => StampInv
  BY Values, MergeQueueAssumption DEF Init, InitHash, StampInv, LegacySeen, Started, NoBeat
<1>2. ASSUME TypeOK, TypeOK', StampInv, [Next]_vars PROVE StampInv'
  <2> USE <1>2, MergeQueueAssumption
  <2> DEFINE Hash    == /\ \A p \in Pair : active[p].act <= acts /\ pending[p].act = 0
                        /\ \A r \in recovery : r.value.act <= acts
             Workers == /\ \A w \in Worker :
                              /\ held[w].value.act <= acts
                              /\ pc[w] \in Started =>
                                    held[w].value.act # 0 /\ (LegacySeen => held[w].value.act # 1)
                        /\ LegacySeen => acts # 0
  <2>1. StampInv <=> Hash /\ Workers
    BY DEF StampInv
  <2>2. StampInv' <=> Hash' /\ Workers'
    BY DEF StampInv
  <2> USE <2>1, <2>2
  <2> HIDE DEF Hash, Workers
  <2>3. ASSUME UNCHANGED <<pending, active, recovery, acts>> PROVE Hash'
    BY <2>3 DEF Hash
  <2>4. ASSUME \A q \in Pair : \/ active'[q] = active[q] /\ beat'[q] # NoBeat
                               \/ active'[q] = active[q] /\ beat'[q] = beat[q]
                               \/ active'[q] = NoValue,
               \A w \in Worker : snap'[w] \subseteq snap[w]
        PROVE  LegacySeen' => LegacySeen
    BY <2>4 DEF LegacySeen
  <2>5. ASSUME NEW w \in Worker, held' = [held EXCEPT ![w] = NoHold] \/ UNCHANGED held,
               \A v \in Worker : pc'[v] \in Started => pc[v] \in Started /\ held'[v] = held[v],
               LegacySeen' => LegacySeen, UNCHANGED acts
        PROVE  Workers'
    <3>1. \A v \in Worker : held'[v].value.act <= acts
      <4>1. \A v \in Worker : held'[v] = held[v] \/ held'[v].value.act = 0
        BY <2>5, Values DEF TypeOK
      <4> QED
        BY <2>5, <4>1 DEF Workers, TypeOK
    <3> QED
      BY <2>5, <3>1 DEF Workers
  <2>6. ASSUME NEW p \in Pair, active[p] # NoValue, MoveToRecovery(p), UNCHANGED <<pending, acts>>,
               \A w \in Worker : snap'[w] \subseteq snap[w]
        PROVE  Hash' /\ (LegacySeen' => LegacySeen)
    <3>1. /\ \A q \in Pair : \/ active'[q] = active[q] /\ beat'[q] = beat[q]
                             \/ active'[q] = NoValue
          /\ \A r \in recovery' : r \in recovery \/ (r.pair = p /\ r.value = active[p])
      BY <2>6, MovesAreOld
    <3>2. Hash'
      <4>1. \A q \in Pair : active'[q].act <= acts
        <5>1. NoValue.act <= acts
          BY Values DEF TypeOK
        <5> QED
          BY <3>1, <5>1 DEF Hash
      <4>2. \A r \in recovery' : r.value.act <= acts
        BY <3>1 DEF Hash
      <4> QED
        BY <2>6, <4>1, <4>2 DEF Hash
    <3> QED
      BY <2>4, <2>6, <3>1, <3>2
  <2>7. ASSUME NEW p \in Pair, NEW m \in Modes, Submitted(p, m) PROVE StampInv'
    <3>1. \A q \in Pair : pending'[q].act = pending[q].act \/ pending'[q].act = 0
      BY <2>7 DEF Submitted, TypeOK
    <3>2. Hash'
      BY <2>7, <3>1 DEF Submitted, Hash
    <3>3. Workers'
      BY <2>7, <2>4 DEF Submitted, Workers
    <3> QED
      BY <3>2, <3>3
  <2>8. ASSUME NEW w \in Worker, SweepSnapshot(w) PROVE StampInv'
    <3>1. LegacySeen' => LegacySeen
      <4>1. ASSUME NEW v \in Worker, NEW e \in snap'[v], e.beat = NoBeat PROVE LegacySeen
        <5>1. CASE v = w
          BY <2>8, <4>1, <5>1 DEF SweepSnapshot, TypeOK, LegacySeen
        <5>2. CASE v # w
          BY <2>8, <4>1, <5>2 DEF SweepSnapshot, TypeOK, LegacySeen
        <5> QED
          BY <5>1, <5>2
      <4> QED
        BY <2>8, <4>1 DEF SweepSnapshot, LegacySeen
    <3>2. \A v \in Worker : pc'[v] \in Started => pc[v] \in Started
      BY <2>8 DEF SweepSnapshot, TypeOK, Started
    <3> QED
      BY <2>3, <2>5, <2>8, <3>1, <3>2 DEF SweepSnapshot
  <2>9. ASSUME NEW w \in Worker, SweepEntry(w) PROVE StampInv'
    <3>1. PICK e \in snap[w] :
             /\ snap' = [snap EXCEPT ![w] = @ \ {e}]
             /\ \/ SnapshotHolds(e) /\ MoveToRecovery(e.pair)
                \/ UNCHANGED <<active, beat, recovery, recoverySeq>>
      BY <2>9 DEF SweepEntry
    <3>2. e.pair \in Pair /\ (SnapshotHolds(e) => active[e.pair] # NoValue)
      BY Values DEF TypeOK, SnapshotHolds
    <3>3. \A v \in Worker : snap'[v] \subseteq snap[v]
      BY <3>1 DEF TypeOK
    <3>4. Hash' /\ (LegacySeen' => LegacySeen)
      BY <2>3, <2>4, <2>6, <2>9, <3>1, <3>2, <3>3 DEF SweepEntry
    <3> QED
      BY <2>5, <2>9, <3>4 DEF SweepEntry
  <2>10. ASSUME NEW w \in Worker, PickRecovery(w) \/ PickPending(w) PROVE StampInv'
    <3>1. PICK p \in Pair, v \in Payload :
             Activate(w, p, v) /\ active[p] = NoValue /\ v.act <= acts
      <4>1. CASE PickRecovery(w)
        <5>1. PICK r \in recovery : Activate(w, r.pair, r.value) /\ active[r.pair] = NoValue
          BY <4>1 DEF PickRecovery, PickableRecovery
        <5>2. r.value \in Payload /\ r.pair \in Pair
          BY DEF TypeOK
        <5>3. r.value.act <= acts
          BY DEF Hash
        <5> QED
          BY <5>1, <5>2, <5>3
      <4>2. CASE PickPending(w)
        <5>1. PICK p \in PickablePending : Activate(w, p, pending[p])
          BY <4>2 DEF PickPending
        <5>2. p \in Pair /\ pending[p] # NoValue /\ active[p] = NoValue
          BY DEF PickablePending
        <5>3. pending[p] \in Payload
          BY <5>2 DEF TypeOK, Value
        <5>4. pending[p].act <= acts
          BY <5>2 DEF Hash, TypeOK
        <5> QED
          BY <5>1, <5>2, <5>3, <5>4
      <4> QED
        BY <2>10, <4>1, <4>2
    <3>2. \A q \in Pair : \/ active'[q] = active[q] /\ beat'[q] = beat[q]
                          \/ active'[q].act <= acts /\ beat'[q] # NoBeat
      BY <3>1 DEF Activate, TypeOK, NoBeat
    <3>3. \A q \in Pair : pending'[q].act = 0
      <4>1. \A q \in Pair : pending[q].act = 0
        BY DEF Hash
      <4>2. pending' = pending \/ \E x \in Pair : pending' = [pending EXCEPT ![x] = NoValue]
        BY <2>10 DEF PickRecovery, PickPending, PickablePending
      <4>3. pending \in [Pair -> Value] /\ NoValue.act = 0
        BY Values DEF TypeOK
      <4> QED
        BY ONLY <4>1, <4>2, <4>3
    <3>4. recovery' \subseteq recovery /\ UNCHANGED <<acts, snap>>
      BY <2>10 DEF PickRecovery, PickPending
    <3>5. Hash'
      BY <3>2, <3>3, <3>4 DEF Hash
    <3>6. LegacySeen' => LegacySeen
      BY <3>2, <3>4 DEF LegacySeen
    <3>7. Workers'
      <4>1. \A x \in Worker : IF x = w THEN held'[x].value = v /\ pc'[x] = "update"
                              ELSE held'[x] = held[x] /\ pc'[x] = pc[x]
        BY <3>1 DEF Activate, TypeOK
      <4> QED
        BY <3>1, <3>4, <3>6, <4>1 DEF Workers, Started
    <3> QED
      BY <3>5, <3>7
  <2>11. ASSUME NEW w \in Worker, UpdateActive(w) PROVE StampInv'
    <3>1. held[w].pair \in Pair /\ active[held[w].pair] \in Payload
      BY <2>11 DEF UpdateActive, TypeOK
    <3>2. /\ acts' = acts + 1 /\ acts \in Nat
          /\ \A q \in Pair : active'[q].act = acts + 1 \/ active'[q] = active[q]
          /\ UNCHANGED <<pending, recovery, beat, snap>>
      BY <2>11 DEF UpdateActive, Stamped, TypeOK
    <3>3. (\A q \in Pair : active[q].act \in Nat) /\ \A r \in recovery : r.value.act \in Nat
      BY Values DEF TypeOK, Value, Payload
    <3>4. Hash'
      BY <3>2, <3>3 DEF Hash
    <3>5. LegacySeen' => LegacySeen
      <4>1. \A q \in Pair : active'[q] # NoValue => active[q] # NoValue
        BY <2>11, <3>1, Values DEF UpdateActive, TypeOK
      <4> QED
        BY <3>2, <4>1 DEF LegacySeen
    <3>6. \A x \in Worker : IF x = w THEN held'[x].value.act = acts + 1
                            ELSE held'[x] = held[x] /\ pc'[x] = pc[x]
      BY <2>11 DEF UpdateActive, Stamped, TypeOK
    <3>7. \A x \in Worker : held[x].value.act \in Nat
      BY Values DEF TypeOK, Value, Payload
    <3>8. Workers'
      BY <3>2, <3>5, <3>6, <3>7 DEF Workers
    <3> QED
      BY <3>4, <3>8
  <2>12. ASSUME NEW w \in Worker, CompleteJob(w) PROVE StampInv'
    <3>1. \A q \in Pair : \/ active'[q] = active[q] /\ beat'[q] = beat[q]
                          \/ active'[q] = NoValue
      BY <2>12 DEF CompleteJob, CompleteActive, Complete, TypeOK
    <3>2. Hash'
      <4>1. \A q \in Pair : active'[q].act <= acts
        <5>1. NoValue.act <= acts
          BY Values DEF TypeOK
        <5> QED
          BY <3>1, <5>1 DEF Hash
      <4> QED
        BY <2>12, <4>1 DEF CompleteJob, Hash
    <3>3. LegacySeen' => LegacySeen
      BY <2>4, <2>12, <3>1 DEF CompleteJob
    <3>4. \A v \in Worker : pc'[v] \in Started => pc[v] \in Started /\ held'[v] = held[v]
      BY <2>12 DEF CompleteJob, Abort, TypeOK, Started
    <3>5. Workers'
      BY <2>5, <2>12, <3>3, <3>4 DEF CompleteJob, Abort
    <3> QED
      BY <3>2, <3>5
  <2>13. ASSUME NEW w \in Worker, CancelRequeue(w) \/ RecoverOrphaned(w) PROVE StampInv'
    <3>1. held[w].pair \in Pair /\ held[w].value \in Payload
      BY <2>13 DEF CancelRequeue, RecoverOrphaned, TypeOK
    <3>2. \/ active[held[w].pair] # NoValue /\ MoveToRecovery(held[w].pair)
          \/ UNCHANGED <<active, beat, recovery>>
      BY <2>13, <3>1, Values DEF CancelRequeue, RecoverOrphaned, RequeueActive
    <3>3. UNCHANGED <<pending, acts, snap>>
      BY <2>13 DEF CancelRequeue, RecoverOrphaned
    <3>4. Hash' /\ (LegacySeen' => LegacySeen)
      BY <2>3, <2>4, <2>6, <3>1, <3>2, <3>3
    <3>5. \A v \in Worker : pc'[v] \in Started => pc[v] \in Started /\ held'[v] = held[v]
      BY <2>13 DEF CancelRequeue, RecoverOrphaned, TypeOK, Started
    <3>6. Workers'
      BY <2>5, <2>13, <3>3, <3>4, <3>5 DEF CancelRequeue, RecoverOrphaned
    <3> QED
      BY <3>4, <3>6
  <2>14. ASSUME NEW w \in Worker, HeartbeatAnswered(w) PROVE StampInv'
    <3>1. \A q \in Pair : active'[q] = active[q] /\ (beat'[q] = beat[q] \/ beat'[q] # NoBeat)
      BY <2>14 DEF HeartbeatAnswered, TypeOK, NoBeat
    <3>2. LegacySeen' => LegacySeen
      BY <2>4, <2>14, <3>1 DEF HeartbeatAnswered
    <3>3. held' = [held EXCEPT ![w] = NoHold] \/ UNCHANGED held
      BY <2>14 DEF HeartbeatAnswered, Abort
    <3>4. \A v \in Worker : pc'[v] \in Started => pc[v] \in Started /\ held'[v] = held[v]
      BY <2>14 DEF HeartbeatAnswered, Abort, TypeOK, Started
    <3> QED
      BY <2>3, <2>5, <2>14, <3>2, <3>3, <3>4 DEF HeartbeatAnswered
  <2>15. ASSUME NEW w \in Worker, UNCHANGED <<pending, active, beat, recovery, acts>>,
                held' = [held EXCEPT ![w] = NoHold] \/ UNCHANGED held,
                snap' = [snap EXCEPT ![w] = {}] \/ UNCHANGED snap,
                \A v \in Worker : pc'[v] \in Started => pc[v] \in Started /\ held'[v] = held[v]
         PROVE  StampInv'
    <3>1. LegacySeen' => LegacySeen
      BY <2>4, <2>15 DEF TypeOK
    <3> QED
      BY <2>3, <2>5, <2>15, <3>1
  <2>16. ASSUME UNCHANGED <<pending, active, beat, recovery, acts, held, snap, pc>> PROVE StampInv'
    BY <2>16, <2>3 DEF Workers, LegacySeen
  <2>17. ASSUME NEW w \in Worker, PickNone(w) \/ PromotionLost(w) \/ ExitIdle(w) \/ Restart(w)
         PROVE  StampInv'
    <3>1. \A v \in Worker : pc'[v] \in Started => pc[v] \in Started /\ held'[v] = held[v]
      BY <2>17 DEF PickNone, PromotionLost, ExitIdle, Restart, TypeOK, Started
    <3> QED
      BY <2>15, <2>17, <3>1 DEF PickNone, PromotionLost, ExitIdle, Restart
  <2>18. ASSUME NEW w \in Worker, ListOpenMrs(w) \/ WorkflowEnds(w) \/ Cancel(w) PROVE StampInv'
    <3>1. \A v \in Worker : pc'[v] \in Started => pc[v] \in Started /\ held'[v] = held[v]
      BY <2>18 DEF ListOpenMrs, WorkflowEnds, Cancel, TypeOK, Started, Running
    <3> QED
      BY <2>15, <2>18, <3>1 DEF ListOpenMrs, WorkflowEnds, Cancel
  <2>19. ASSUME NEW w \in Worker, HeartbeatFails(w) \/ RedisWriteFails(w) \/ Crash(w) PROVE StampInv'
    <3>1. \A v \in Worker : pc'[v] \in Started => pc[v] \in Started /\ held'[v] = held[v]
      BY <2>19 DEF HeartbeatFails, RedisWriteFails, Crash, Abort, TypeOK, Started
    <3> QED
      BY <2>15, <2>19, <3>1 DEF HeartbeatFails, RedisWriteFails, Crash, Abort
  <2>20. ASSUME NEW w \in Worker, Signal(w) PROVE StampInv'
    BY <2>16, <2>20 DEF Signal
  <2>21. CASE \E p \in Pair : (\E m \in Modes : Submitted(p, m)) \/ AlreadyQueued(p)
    BY <2>7, <2>16, <2>21 DEF AlreadyQueued
  <2>22. CASE \E w \in Worker : Step(w)
    BY <2>8, <2>9, <2>10, <2>11, <2>12, <2>13, <2>17, <2>18, <2>22 DEF Step
  <2>23. CASE \E w \in Worker : Environment(w)
    BY <2>14, <2>19, <2>20, <2>23 DEF Environment
  <2>24. CASE Tick \/ UNCHANGED vars
    BY <2>16, <2>24 DEF Tick
  <2> QED
    BY <2>21, <2>22, <2>23, <2>24 DEF Next, Actions
<1> QED
  BY <1>1, <1>2, TypeCorrect, PTL DEF Spec

(***************************************************************************)
(* An automatic submission is served, where no label-triggered job can     *)
(* absorb it: until a full listing of the pair's merge requests follows    *)
(* it, a job that will do the listing is queued, or active and not past    *)
(* list_open_mrs.                                                          *)
(***************************************************************************)
THEOREM SubmissionServed ==
    ASSUME "strict" \notin Modes
    PROVE  Spec => []SubmissionCovered
<1> USE DEF hash, workers, history, vars
<1>1. Init => CoverInv
  BY Values DEF Init, InitHash, CoverInv
<1>2. ASSUME TypeOK, TypeOK', StampInv, CoverInv, [Next]_vars PROVE CoverInv'
  <2> USE <1>2, MergeQueueAssumption
  <2> DEFINE Unstrict ==
                /\ \A p \in Pair : ~pending[p].strict /\ ~active[p].strict
                /\ \A r \in recovery : ~r.value.strict
                /\ \A w \in Worker : ~held[w].value.strict
             Fresh(p, v) == \A w \in Worker :
                held[w].pair = p /\ pc[w] \in Listed => held[w].value # v
             Cover(p) == unseen[p] /\ pending[p] = NoValue =>
                /\ active[p] # NoValue \/ \E r \in recovery : r.pair = p
                /\ Fresh(p, active[p])
                /\ \A r \in recovery : r.pair = p => Fresh(p, r.value)
  <2>1. CoverInv <=> Unstrict /\ \A p \in Pair : Cover(p)
    BY DEF CoverInv, InRecovery
  <2>2. CoverInv' <=> Unstrict' /\ \A p \in Pair : Cover(p)'
    BY DEF CoverInv, InRecovery
  <2> USE <2>1, <2>2
  <2>3. ASSUME \A w \in Worker : pc'[w] \in Listed => pc[w] \in Listed /\ held'[w] = held[w],
               NEW p \in Pair, NEW v, Fresh(p, v)
        PROVE  \A w \in Worker : held'[w].pair = p /\ pc'[w] \in Listed => held'[w].value # v
    BY <2>3
  <2>4. ASSUME NEW w \in Worker, held' = [held EXCEPT ![w] = NoHold] \/ UNCHANGED held
        PROVE  \A v \in Worker : ~held'[v].value.strict
    <3>1. \A v \in Worker : held'[v] = held[v] \/ held'[v] = NoHold
      BY <2>4 DEF TypeOK
    <3> QED
      BY <3>1, Values
  <2>5. \A w \in Worker : pc'[w] \in Listed => held'[w].value # NoValue
    BY Values DEF TypeOK, Listed
  <2>6. ASSUME UNCHANGED <<pending, unseen>>, recovery \subseteq recovery',
               \A q \in Pair : active'[q] = active[q] \/ active'[q] = NoValue,
               \A r \in recovery' : r \in recovery \/ (r.pair \in Pair /\ r.value = active[r.pair]),
               \A q \in Pair : unseen[q] /\ pending[q] = NoValue /\ active[q] # NoValue
                                  /\ active'[q] = NoValue => \E r \in recovery' : r.pair = q,
               NEW w \in Worker, held' = [held EXCEPT ![w] = NoHold] \/ UNCHANGED held,
               \A v \in Worker : pc'[v] \in Listed => pc[v] \in Listed /\ held'[v] = held[v]
        PROVE  CoverInv'
    <3>1. Unstrict'
      <4>1. \A q \in Pair : ~active'[q].strict
        BY <2>6, Values
      <4>2. \A r \in recovery' : ~r.value.strict
        BY <2>6
      <4> QED
        BY <2>4, <2>6, <4>1, <4>2
    <3>2. ASSUME NEW q \in Pair, unseen'[q], pending'[q] = NoValue
          PROVE  /\ active'[q] # NoValue \/ \E r \in recovery' : r.pair = q
                 /\ Fresh(q, active[q])
                 /\ \A r \in recovery' : r.pair = q => Fresh(q, r.value)
      <4>1. unseen[q] /\ pending[q] = NoValue /\ Cover(q)
        BY <2>6, <3>2
      <4> HIDE DEF Fresh
      <4> QED
        BY <2>6, <4>1
    <3>3. ASSUME NEW q \in Pair PROVE Cover(q)'
      BY <2>3, <2>5, <2>6, <3>2
    <3> QED
      BY <3>1, <3>3
  <2>7. ASSUME NEW p \in Pair, active[p] # NoValue, MoveToRecovery(p), UNCHANGED <<pending, unseen>>,
               NEW w \in Worker, held' = [held EXCEPT ![w] = NoHold] \/ UNCHANGED held,
               \A v \in Worker : pc'[v] \in Listed => pc[v] \in Listed /\ held'[v] = held[v]
        PROVE  CoverInv'
    <3>1. \A q \in Pair : active'[q] = IF q = p THEN NoValue ELSE active[q]
      BY <2>7 DEF MoveToRecovery, TypeOK
    <3>2. /\ recovery \subseteq recovery'
          /\ \A r \in recovery' : r \in recovery \/ (r.pair = p /\ r.value = active[p])
      BY <2>7 DEF MoveToRecovery
    <3>3. \E r \in recovery' : r.pair = p
      <4>1. [pair |-> p, slot |-> RecoverySlot(p), value |-> active[p]] \in recovery'
        BY <2>7 DEF MoveToRecovery
      <4> QED
        BY <4>1
    <3> QED
      BY <2>6, <2>7, <3>1, <3>2, <3>3
  <2>8. ASSUME UNCHANGED <<pending, active, recovery, unseen>>,
               NEW w \in Worker, held' = [held EXCEPT ![w] = NoHold] \/ UNCHANGED held,
               \A v \in Worker : pc'[v] \in Listed => pc[v] \in Listed /\ held'[v] = held[v]
        PROVE  CoverInv'
    BY <2>6, <2>8
  <2>9. ASSUME NEW p \in Pair, NEW m \in Modes, Submitted(p, m) PROVE CoverInv'
    <3>1. \A q \in Pair : \/ q = p /\ pending'[q] # NoValue /\ ~pending'[q].strict
                          \/ pending'[q] = pending[q] /\ unseen'[q] = unseen[q]
      <4> DEFINE job == [job |-> jobs + 1, act |-> 0, at |-> 0, strict |-> m = "strict"]
      <4>1. job.strict = FALSE /\ job.job # NoValue.job
        <5>1. m # "strict" /\ jobs + 1 # 0
          BY DEF TypeOK
        <5> QED
          BY ONLY <5>1 DEF NoValue
      <4>2. \A q \in Pair : pending'[q] = IF q = p THEN job ELSE pending[q]
        BY <2>9 DEF Submitted, TypeOK
      <4>3. \A q \in Pair \ {p} : unseen'[q] = unseen[q]
        BY <2>9 DEF Submitted, TypeOK
      <4> HIDE DEF job
      <4> QED
        BY <4>1, <4>2, <4>3
    <3>2. UNCHANGED <<active, recovery, held, pc>>
      BY <2>9 DEF Submitted
    <3> QED
      BY <3>1, <3>2
  <2>10. ASSUME NEW p \in Pair, AlreadyQueued(p) PROVE CoverInv'
    <3>1. \A q \in Pair : (q = p /\ pending'[q] # NoValue) \/ unseen'[q] = unseen[q]
      <4>1. pending' = pending /\ pending[p] # NoValue
        BY <2>10 DEF AlreadyQueued, hash
      <4>2. \A q \in Pair \ {p} : unseen'[q] = unseen[q]
        <5>1. unseen \in [Pair -> BOOLEAN]
          BY DEF TypeOK
        <5>2. unseen' = [unseen EXCEPT ![p] = TRUE]
          BY <2>10 DEF AlreadyQueued
        <5> QED
          BY ONLY <5>1, <5>2
      <4> QED
        BY <4>1, <4>2
    <3>2. UNCHANGED <<pending, active, recovery, held, pc>>
      BY <2>10 DEF AlreadyQueued
    <3> QED
      BY <3>1, <3>2
  <2>11. ASSUME NEW w \in Worker, SweepEntry(w) PROVE CoverInv'
    <3>1. PICK e \in snap[w] :
             \/ SnapshotHolds(e) /\ MoveToRecovery(e.pair)
             \/ UNCHANGED <<active, beat, recovery, recoverySeq>>
      BY <2>11 DEF SweepEntry
    <3>2. e.pair \in Pair /\ (SnapshotHolds(e) => active[e.pair] # NoValue)
      BY Values DEF TypeOK, SnapshotHolds
    <3> QED
      BY <2>7, <2>8, <2>11, <3>1, <3>2 DEF SweepEntry
  <2>12. ASSUME NEW w \in Worker, CancelRequeue(w) \/ RecoverOrphaned(w) PROVE CoverInv'
    <3>1. held[w].pair \in Pair /\ held[w].value # NoValue
      BY <2>12, Values DEF CancelRequeue, RecoverOrphaned, TypeOK
    <3>2. \A v \in Worker : pc'[v] \in Listed => pc[v] \in Listed /\ held'[v] = held[v]
      BY <2>12 DEF CancelRequeue, RecoverOrphaned, TypeOK, Listed
    <3>3. /\ UNCHANGED <<pending, unseen>>
          /\ held' = [held EXCEPT ![w] = NoHold] \/ UNCHANGED held
          /\ \/ active[held[w].pair] # NoValue /\ MoveToRecovery(held[w].pair)
             \/ UNCHANGED <<active, beat, recovery, recoverySeq>>
      BY <2>12, <3>1 DEF CancelRequeue, RecoverOrphaned, RequeueActive
    <3> QED
      BY <2>7, <2>8, <3>1, <3>2, <3>3
  <2>13. ASSUME NEW w \in Worker, CompleteJob(w) PROVE CoverInv'
    <3>1. held[w].pair \in Pair /\ held[w].value # NoValue /\ pc[w] \in Listed
      BY <2>13, Values DEF CompleteJob, TypeOK, Listed
    <3>2. \A q \in Pair : \/ active'[q] = active[q]
                          \/ q = held[w].pair /\ active[q] = held[w].value /\ active'[q] = NoValue
      BY <2>13 DEF CompleteJob, CompleteActive, Complete, TypeOK
    <3>3. ASSUME NEW q \in Pair, unseen[q], pending[q] = NoValue PROVE active'[q] = active[q]
      BY <3>1, <3>2, <3>3
    <3>4. \A v \in Worker : pc'[v] \in Listed => pc[v] \in Listed /\ held'[v] = held[v]
      BY <2>13 DEF CompleteJob, Abort, TypeOK, Listed
    <3>5. UNCHANGED <<pending, recovery, unseen>> /\ held' = [held EXCEPT ![w] = NoHold]
      BY <2>13 DEF CompleteJob, Abort
    <3> QED
      BY <2>6, <3>2, <3>3, <3>4, <3>5
  <2>14. ASSUME NEW w \in Worker, PickRecovery(w) \/ PickPending(w) PROVE CoverInv'
    <3>1. PICK p \in Pair, v \in Payload :
             /\ Activate(w, p, v) /\ active[p] = NoValue
             /\ \/ /\ \E r \in recovery : r.pair = p /\ r.value = v
                   /\ UNCHANGED pending
                \/ v = pending[p] /\ pending' = [pending EXCEPT ![p] = NoValue]
                   /\ \A r \in recovery : r.pair # p
             /\ recovery' \subseteq recovery
             /\ \A r \in recovery \ recovery' : r.pair = p
             /\ UNCHANGED unseen
      <4>1. CASE PickRecovery(w)
        BY <4>1 DEF PickRecovery, PickableRecovery, TypeOK
      <4>2. CASE PickPending(w)
        <5>1. PICK p \in PickablePending : /\ pending' = [pending EXCEPT ![p] = NoValue]
                                           /\ Activate(w, p, pending[p])
          BY <4>2 DEF PickPending
        <5>2. p \in Pair /\ pending[p] \in Payload /\ active[p] = NoValue
          BY <5>1 DEF PickablePending, TypeOK, Value
        <5>3. \A r \in recovery : r.pair # p
          BY <4>2, <5>2 DEF PickPending, PickableRecovery
        <5> QED
          BY <4>2, <5>1, <5>2, <5>3 DEF PickPending
      <4> QED
        BY <2>14, <4>1, <4>2
    <3>2. \A q \in Pair : active'[q] = IF q = p THEN v ELSE active[q]
      BY <3>1 DEF Activate, TypeOK
    <3>3. \A x \in Worker : IF x = w THEN held'[x].value = v /\ pc'[x] = "update"
                            ELSE held'[x] = held[x] /\ pc'[x] = pc[x]
      BY <3>1 DEF Activate, TypeOK
    <3>4. ~v.strict
      BY <3>1
    <3>5. Unstrict'
      <4>1. \A q \in Pair : pending'[q] = pending[q] \/ pending'[q] = NoValue
        BY <3>1 DEF TypeOK
      <4> QED
        BY <3>1, <3>2, <3>3, <3>4, <4>1, Values
    <3>6. \A x \in Worker : pc'[x] \in Listed => pc[x] \in Listed /\ held'[x] = held[x]
      BY <3>3 DEF Listed
    <3>7. ASSUME NEW q \in Pair, q # p PROVE Cover(q)'
      <4>1. pending'[q] = pending[q] /\ unseen'[q] = unseen[q] /\ active'[q] = active[q]
        <5>1. pending' = pending \/ pending' = [pending EXCEPT ![p] = NoValue]
          BY <3>1
        <5>2. pending'[q] = pending[q]
          BY <3>7, <5>1 DEF TypeOK
        <5> QED
          BY <3>1, <3>2, <3>7, <5>2
      <4>2. \A r \in recovery : r.pair = q => r \in recovery'
        BY <3>1, <3>7
      <4>3. SUFFICES ASSUME unseen[q], pending[q] = NoValue
                     PROVE  /\ active[q] # NoValue \/ \E r \in recovery' : r.pair = q
                            /\ Fresh(q, active[q])'
                            /\ \A r \in recovery' : r.pair = q => Fresh(q, r.value)'
        BY <4>1
      <4>4. Fresh(q, active[q]) /\ \A r \in recovery : r.pair = q => Fresh(q, r.value)
        <5> HIDE DEF Fresh
        <5> QED
          BY <4>3
      <4> QED
        BY <3>1, <3>6, <4>1, <4>2, <4>3, <4>4
    <3>8. ASSUME unseen'[p], pending'[p] = NoValue
          PROVE  Fresh(p, v) /\ \A r \in recovery' : r.pair = p => Fresh(p, r.value)
      <4>1. CASE UNCHANGED pending
        <5>1. unseen[p] /\ pending[p] = NoValue /\ Cover(p)
          <6>1. UNCHANGED <<unseen, pending>>
            BY <3>1, <4>1
          <6> HIDE DEF Fresh, Cover
          <6> QED
            BY <3>8, <6>1
        <5>2. v # NoValue
          BY Values
        <5> HIDE DEF Fresh
        <5> QED
          BY <3>1, <5>1, <5>2
      <4>2. CASE v = pending[p] /\ \A r \in recovery : r.pair # p
        <5>1. v.act = 0
          BY <4>2 DEF StampInv
        <5>2. \A x \in Worker : pc[x] \in Listed => held[x].value.act # 0
          BY DEF StampInv, Started, Listed
        <5> QED
          BY <3>1, <4>2, <5>1, <5>2
      <4> QED
        BY <3>1, <4>1, <4>2
    <3>9. Cover(p)'
      <4>1. active'[p] # NoValue /\ active'[p] = v
        BY <3>2, Values
      <4> QED
        BY <3>6, <3>8, <4>1
    <3> QED
      BY <3>5, <3>7, <3>9
  <2>15. ASSUME NEW w \in Worker, UpdateActive(w) PROVE CoverInv'
    <3> DEFINE p == held[w].pair
               s == Stamped(held[w].value)
    <3>1. p \in Pair /\ active[p] = held[w].value /\ held[w].value # NoValue
      BY <2>15, Values DEF UpdateActive, TypeOK
    <3>2. s # NoValue /\ ~s.strict /\ s.act = acts + 1 /\ acts \in Nat
      BY <3>1 DEF Stamped, NoValue, TypeOK
    <3>3. \A q \in Pair : active'[q] = IF q = p THEN s ELSE active[q]
      BY <2>15, <3>1 DEF UpdateActive, TypeOK
    <3>4. \A x \in Worker : IF x = w THEN held'[x].value = s /\ pc'[x] \in {"recover", "list"}
                            ELSE held'[x] = held[x] /\ pc'[x] = pc[x]
      BY <2>15 DEF UpdateActive, TypeOK
    <3>5. \A x \in Worker : pc'[x] \in Listed => pc[x] \in Listed /\ held'[x] = held[x]
      BY <3>4 DEF Listed
    <3>6. UNCHANGED <<pending, recovery, unseen>>
      BY <2>15 DEF UpdateActive
    <3>7. \A x \in Worker : held[x].value # s
      <4>1. \A x \in Worker : held[x].value.act <= acts /\ held[x].value.act \in Nat
        BY Values DEF StampInv, TypeOK, Value, Payload
      <4> HIDE DEF s
      <4> QED
        BY <3>2, <4>1
    <3> HIDE DEF p, s
    <3>8. Unstrict'
      BY <3>2, <3>3, <3>4, <3>6
    <3>9. ASSUME NEW q \in Pair PROVE Cover(q)'
      BY <3>1, <3>2, <3>3, <3>5, <3>6, <3>7
    <3> QED
      BY <3>8, <3>9
  <2>16. ASSUME NEW w \in Worker, ListOpenMrs(w) PROVE CoverInv'
    <3>1. held[w].pair \in Pair /\ ~held[w].value.strict
      BY <2>16 DEF ListOpenMrs, TypeOK
    <3>2. \A q \in Pair : unseen'[q] => unseen[q] /\ q # held[w].pair
      BY <2>16, <3>1 DEF ListOpenMrs, TypeOK
    <3>3. \A x \in Worker : x # w => pc'[x] = pc[x]
      BY <2>16 DEF ListOpenMrs, TypeOK
    <3>4. UNCHANGED <<pending, active, recovery, held>>
      BY <2>16 DEF ListOpenMrs
    <3>5. ASSUME NEW q \in Pair PROVE Cover(q)'
      BY <3>2, <3>3, <3>4
    <3> QED
      BY <3>4, <3>5
  <2>17. ASSUME NEW w \in Worker,
                \/ SweepSnapshot(w) \/ PickNone(w) \/ PromotionLost(w) \/ ExitIdle(w) \/ Restart(w)
                \/ WorkflowEnds(w) \/ Cancel(w)
         PROVE  CoverInv'
    <3>1. \A v \in Worker : pc'[v] \in Listed => pc[v] \in Listed /\ held'[v] = held[v]
      BY <2>17 DEF SweepSnapshot, PickNone, PromotionLost, ExitIdle, Restart, WorkflowEnds, Cancel,
                   TypeOK, Listed
    <3> QED
      BY <2>8, <2>17, <3>1
         DEF SweepSnapshot, PickNone, PromotionLost, ExitIdle, Restart, WorkflowEnds, Cancel
  <2>18. ASSUME NEW w \in Worker,
                \/ HeartbeatAnswered(w) \/ HeartbeatFails(w) \/ Signal(w) \/ RedisWriteFails(w) \/ Crash(w)
         PROVE  CoverInv'
    <3>1. \A v \in Worker : pc'[v] \in Listed => pc[v] \in Listed /\ held'[v] = held[v]
      BY <2>18 DEF HeartbeatAnswered, HeartbeatFails, Signal, RedisWriteFails, Crash, Abort, TypeOK, Listed
    <3>2. held' = [held EXCEPT ![w] = NoHold] \/ UNCHANGED held
      BY <2>18 DEF HeartbeatAnswered, HeartbeatFails, Signal, RedisWriteFails, Crash, Abort
    <3> QED
      BY <2>8, <2>18, <3>1, <3>2 DEF HeartbeatAnswered, HeartbeatFails, Signal, RedisWriteFails, Crash
  <2>19. CASE \E p \in Pair : (\E m \in Modes : Submitted(p, m)) \/ AlreadyQueued(p)
    BY <2>9, <2>10, <2>19
  <2>20. CASE \E w \in Worker : Step(w)
    BY <2>11, <2>12, <2>13, <2>14, <2>15, <2>16, <2>17, <2>20 DEF Step
  <2>21. CASE \E w \in Worker : Environment(w)
    BY <2>18, <2>21 DEF Environment
  <2>22. CASE Tick \/ UNCHANGED vars
    BY <2>22 DEF Tick
  <2> QED
    BY <2>19, <2>20, <2>21, <2>22 DEF Next, Actions
<1>3. CoverInv => SubmissionCovered
  BY DEF CoverInv, SubmissionCovered, Holds, Listed
<1> QED
  BY <1>1, <1>2, <1>3, TypeCorrect, StampsGrow, PTL DEF Spec

(* The timed behaviours are behaviours of the queue. *)
LEMMA TimedIsSpec == TimedSpec => Spec
<1>1. [TimedNext]_vars => [Next]_vars
  BY DEF TimedNext, Next
<1> QED
  BY <1>1, PTL DEF TimedSpec, Spec

(* The payload of an active entry is in no other field. *)
LEMMA OneField ==
    ASSUME TypeOK, Numbered, JobConservation, NEW p \in Pair, active[p] \in Payload
    PROVE  /\ \A r \in recovery : r.value # active[p]
           /\ \A q \in Pair : pending[q] # active[p]
<1> DEFINE j == active[p].job
<1>1. j \in 1 .. jobs
  BY DEF Numbered, Payload, TypeOK
<1>2. Place("active", p, 0) \in Places(j)
  BY DEF Places
<1>3. \A r \in recovery : r.value.job = j => Place("recovery", r.pair, r.slot) \in Places(j)
  BY DEF Places
<1>4. \A q \in Pair : pending[q].job = j => Place("pending", q, 0) \in Places(j)
  BY DEF Places
<1>5. PICK l \in Places(j) : Places(j) = {l}
  BY <1>1 DEF JobConservation
<1>6. \A q, n : Place("recovery", q, n) # Place("active", p, 0) /\ Place("pending", q, n) # Place("active", p, 0)
  BY DEF Place
<1>7. \A r \in recovery : r.value.job # j
  BY <1>2, <1>3, <1>5, <1>6
<1>8. \A q \in Pair : pending[q].job # j
  BY <1>2, <1>4, <1>5, <1>6
<1> QED
  BY <1>7, <1>8

(* The steps in which every heartbeat that is attempted reaches Redis. *)
AnsweredNext ==
    \/ \E p \in Pair : (\E m \in Modes : Submitted(p, m)) \/ AlreadyQueued(p)
    \/ \E w \in Worker : Step(w)
    \/ \E w \in Worker : HeartbeatAnswered(w) \/ Signal(w) \/ RedisWriteFails(w) \/ Crash(w)
    \/ OnTime /\ Tick

AnsweredSpec == Init /\ [][AnsweredNext]_vars

(* Their behaviours are behaviours of the queue too. *)
LEMMA AnsweredIsTimed == AnsweredSpec => TimedSpec
<1>1. [AnsweredNext]_vars => [TimedNext]_vars
  BY DEF AnsweredNext, TimedNext, Actions, Environment
<1> QED
  BY <1>1, PTL DEF AnsweredSpec, TimedSpec

(* No worker runs at first. *)
LEMMA OwnerInit == ASSUME NEW d PROVE Init => OwnerInv(d)
BY DEF Init, OwnerInv, Running

(***************************************************************************)
(* Where the next attempt is at most d after the last success, and an      *)
(* attempt that follows d is over within the threshold, nobody but the     *)
(* worker itself takes the entry of a running worker.                      *)
(***************************************************************************)
LEMMA OwnerKept ==
    ASSUME NEW d \in Nat, Interval <= d, d + SocketTimeout <= Threshold,
           TypeOK, TypeOK', LeaseInv, StampInv, JobConservation, Numbered, OwnerInv(d),
           AnsweredNext \/ UNCHANGED vars
    PROVE  OwnerInv(d)'
<1> USE DEF hash, workers, history, vars
<1> USE MergeQueueAssumption
<1> DEFINE Runs     == \A w \in Worker : pc[w] \in Running => Leased(w, d)
           Distinct == \A v, w \in Worker : v # w /\ pc[w] \in Running => held[v].value # held[w].value
           Promoted == \A w \in Worker : pc[w] = "update" /\ active[held[w].pair] = held[w].value =>
                                            beat[held[w].pair] = now
           Keeps(w) == /\ pc[w] \in Running /\ held'[w] = held[w]
                       /\ active'[held[w].pair] = active[held[w].pair]
                       /\ beat'[held[w].pair] = beat[held[w].pair]
                       /\ due'[w] = due[w] /\ lastSuccess'[w] = lastSuccess[w]
<1>1. Runs /\ Distinct /\ Promoted
  BY DEF OwnerInv
<1>2. OwnerInv(d)' <=> Runs' /\ Distinct' /\ Promoted'
  BY DEF OwnerInv
<1> USE <1>1, <1>2
<1> HIDE DEF Runs, Distinct, Promoted
<1>3. ASSUME UNCHANGED now, \A w \in Worker : pc'[w] \in Running => Keeps(w)
      PROVE  Runs'
  BY <1>3 DEF Runs, Leased
<1>4. ASSUME \A w \in Worker : pc'[w] \in Running => pc[w] \in Running /\ held'[w] = held[w],
             \A w \in Worker : held'[w] = held[w] \/ held'[w] = NoHold
      PROVE  Distinct'
  <2>1. \A w \in Worker : pc[w] \in Running => held[w].value # NoValue
    BY Values DEF TypeOK, Running
  <2> QED
    BY <1>4, <2>1, Values DEF Distinct
<1>5. ASSUME UNCHANGED now,
             \A w \in Worker : pc'[w] = "update" => pc[w] = "update" /\ held'[w] = held[w],
             \A q \in Pair : \/ active'[q] = active[q] /\ beat'[q] = beat[q]
                             \/ active'[q] = NoValue
                             \/ beat'[q] = now
      PROVE  Promoted'
  <2>1. \A w \in Worker : pc[w] = "update" => held[w].value # NoValue /\ held[w].pair \in Pair
    BY Values DEF TypeOK
  <2> QED
    BY <1>5, <2>1 DEF Promoted
<1>6. ASSUME NEW w \in Worker, held' = [held EXCEPT ![w] = NoHold] \/ UNCHANGED held
      PROVE  \A v \in Worker : held'[v] = held[v] \/ held'[v] = NoHold
  BY <1>6 DEF TypeOK
<1>7. ASSUME NEW w \in Worker, pc[w] \in Running
      PROVE  /\ held[w].pair \in Pair /\ held[w].value \in Payload /\ held[w].value # NoValue
             /\ active[held[w].pair] = held[w].value
             /\ beat[held[w].pair] = lastSuccess[w]
             /\ now - beat[held[w].pair] <= Threshold
  <2>1. held[w].pair \in Pair /\ held[w].value \in Payload
    BY <1>7 DEF TypeOK, Running
  <2>2. Leased(w, d)
    BY <1>7 DEF Runs
  <2>3. now \in Nat /\ due[w] \in Nat /\ lastSuccess[w] \in Nat
    BY DEF TypeOK
  <2> QED
    BY <2>1, <2>2, <2>3, Values DEF Leased
<1>8. ASSUME NEW v \in Worker, NEW w \in Worker, v # w, pc[w] \in Running,
             active[held[v].pair] = held[v].value
      PROVE  held[w].pair # held[v].pair
  BY <1>7, <1>8 DEF Distinct
(* The entry p is moved or removed, and no running worker has it. *)
<1>9. ASSUME NEW p \in Pair, NEW w \in Worker,
             \A q \in Pair \ {p} : active'[q] = active[q] /\ beat'[q] = beat[q],
             active'[p] = NoValue \/ beat'[p] = now \/ (active'[p] = active[p] /\ beat'[p] = beat[p]),
             \A v \in Worker : pc'[v] \in Running => pc[v] \in Running /\ held[v].pair # p,
             \A v \in Worker : pc'[v] = "update" => pc[v] = "update",
             \A v \in Worker : pc'[v] \in Running \cup {"update"} => held'[v] = held[v],
             held' = [held EXCEPT ![w] = NoHold] \/ UNCHANGED held,
             UNCHANGED <<due, lastSuccess, now>>
      PROVE  OwnerInv(d)'
  <2>1. \A v \in Worker : pc'[v] \in Running => Keeps(v)
    BY <1>7, <1>9
  <2>2. Runs'
    BY <1>3, <1>9, <2>1
  <2>3. Distinct'
    BY <1>4, <1>6, <1>9
  <2>4. Promoted'
    BY <1>5, <1>9
  <2> QED
    BY <2>2, <2>3, <2>4
(* The hash stays; workers only move on or stop. *)
<1>10. ASSUME NEW w \in Worker, UNCHANGED <<active, beat, due, lastSuccess, now>>,
              held' = [held EXCEPT ![w] = NoHold] \/ UNCHANGED held,
              \A v \in Worker : pc'[v] \in Running => pc[v] \in Running /\ held'[v] = held[v],
              \A v \in Worker : pc'[v] = "update" => pc[v] = "update" /\ held'[v] = held[v]
       PROVE  OwnerInv(d)'
  <2>1. Runs'
    BY <1>3, <1>10
  <2>2. Distinct'
    BY <1>4, <1>6, <1>10
  <2>3. Promoted'
    BY <1>5, <1>10
  <2> QED
    BY <2>1, <2>2, <2>3
<1>11. ASSUME NEW x \in Worker, SweepEntry(x) PROVE OwnerInv(d)'
  <2>1. PICK e \in snap[x] :
           \/ SnapshotHolds(e) /\ MoveToRecovery(e.pair)
           \/ UNCHANGED <<active, beat, recovery, recoverySeq>>
    BY <1>11 DEF SweepEntry
  <2>2. UNCHANGED <<pc, held, due, lastSuccess, now>>
    BY <1>11 DEF SweepEntry
  <2>3. CASE SnapshotHolds(e) /\ MoveToRecovery(e.pair)
    <3>1. e.pair \in Pair
      BY DEF TypeOK
    <3>2. ASSUME NEW w \in Worker, pc[w] \in Running PROVE held[w].pair # e.pair
      <4>1. SUFFICES ASSUME held[w].pair = e.pair PROVE FALSE
        OBVIOUS
      <4>2. CASE e.beat = NoBeat
        <5>1. e.value.act = 1 /\ LegacySeen
          BY <4>2, Values DEF LeaseInv, LegacySeen
        <5>2. held[w].value.act = 1
          BY <1>7, <2>3, <3>2, <4>1, <5>1 DEF SnapshotHolds
        <5> QED
          BY <3>2, <5>1, <5>2 DEF StampInv, Started, Running
      <4>3. CASE e.beat # NoBeat
        <5>1. beat[e.pair] = e.beat /\ now - e.beat > Threshold
          BY <2>3, <4>3 DEF SnapshotHolds, LeaseInv
        <5>2. now - beat[e.pair] <= Threshold
          BY <1>7, <3>2, <4>1
        <5>3. now \in Nat /\ beat[e.pair] \in Int
          BY <3>1 DEF TypeOK, NoBeat
        <5> QED
          BY <5>1, <5>2, <5>3
      <4> QED
        BY <4>2, <4>3
    <3>3. \A q \in Pair \ {e.pair} : active'[q] = active[q] /\ beat'[q] = beat[q]
      BY <2>3, <3>1 DEF MoveToRecovery, TypeOK
    <3>4. active'[e.pair] = NoValue
      BY <2>3, <3>1 DEF MoveToRecovery, TypeOK
    <3> QED
      BY <1>9, <2>2, <3>1, <3>2, <3>3, <3>4
  <2>4. CASE UNCHANGED <<active, beat>>
    BY <1>10, <2>2, <2>4
  <2> QED
    BY <2>1, <2>3, <2>4
<1>12. ASSUME NEW w \in Worker, CompleteJob(w) \/ CancelRequeue(w) \/ RecoverOrphaned(w)
       PROVE  OwnerInv(d)'
  <2>1. held[w].pair \in Pair /\ pc[w] \notin Running
    BY <1>12 DEF CompleteJob, CancelRequeue, RecoverOrphaned, TypeOK, Running
  <2>2. /\ \A v \in Worker : pc'[v] \in Running => v # w /\ pc[v] \in Running
        /\ \A v \in Worker : pc'[v] = "update" => v # w /\ pc[v] = "update"
        /\ \A v \in Worker \ {w} : held'[v] = held[v]
    BY <1>12 DEF CompleteJob, Abort, CancelRequeue, RecoverOrphaned, TypeOK, Running
  <2>3. /\ held' = [held EXCEPT ![w] = NoHold] \/ UNCHANGED held
        /\ UNCHANGED <<due, lastSuccess, now>>
    BY <1>12 DEF CompleteJob, Abort, CancelRequeue, RecoverOrphaned
  <2>4. \/ /\ active[held[w].pair] = held[w].value
           /\ active' = [active EXCEPT ![held[w].pair] = NoValue]
           /\ beat' = [beat EXCEPT ![held[w].pair] = NoBeat]
        \/ UNCHANGED <<active, beat>>
    BY <1>12 DEF CompleteJob, CompleteActive, Complete, CancelRequeue, RecoverOrphaned,
                 RequeueActive, MoveToRecovery
  <2>5. CASE UNCHANGED <<active, beat>>
    BY <1>10, <2>2, <2>3, <2>5
  <2>6. CASE /\ active[held[w].pair] = held[w].value
             /\ active' = [active EXCEPT ![held[w].pair] = NoValue]
             /\ beat' = [beat EXCEPT ![held[w].pair] = NoBeat]
    <3>1. \A q \in Pair \ {held[w].pair} : active'[q] = active[q] /\ beat'[q] = beat[q]
      BY <2>1, <2>6 DEF TypeOK
    <3>2. active'[held[w].pair] = NoValue
      BY <2>1, <2>6 DEF TypeOK
    <3>3. \A v \in Worker : pc'[v] \in Running => pc[v] \in Running /\ held[v].pair # held[w].pair
      BY <1>8, <2>2, <2>6
    <3> QED
      BY <1>9, <2>1, <2>2, <2>3, <3>1, <3>2, <3>3
  <2> QED
    BY <2>4, <2>5, <2>6
<1>13. ASSUME NEW w \in Worker, PickRecovery(w) \/ PickPending(w) PROVE OwnerInv(d)'
  <2>1. PICK p \in Pair, v \in Payload :
           /\ Activate(w, p, v)
           /\ active[p] = NoValue
           /\ (\E r \in recovery : r.value = v) \/ v = pending[p]
    BY <1>13 DEF PickRecovery, PickPending, PickableRecovery, PickablePending, TypeOK, Value
  <2>2. \A q \in Pair : IF q = p THEN active'[q] = v /\ beat'[q] = now
                        ELSE active'[q] = active[q] /\ beat'[q] = beat[q]
    BY <2>1 DEF Activate, TypeOK
  <2>3. \A x \in Worker : IF x = w THEN held'[x].value = v /\ held'[x].pair = p /\ pc'[x] = "update"
                          ELSE held'[x] = held[x] /\ pc'[x] = pc[x]
    BY <2>1 DEF Activate, TypeOK
  <2>4. UNCHANGED <<due, lastSuccess, now>>
    BY <1>13 DEF PickRecovery, PickPending
  <2>5. \A x \in Worker : pc'[x] \in Running => x # w /\ Keeps(x)
    BY <1>7, <2>1, <2>2, <2>3, <2>4 DEF Running
  <2>6. Runs'
    BY <1>3, <2>4, <2>5
  <2>7. ASSUME NEW x \in Worker, pc[x] \in Running PROVE held[x].value # v
    <3>1. active[held[x].pair] \in Payload /\ held[x].pair \in Pair /\ held[x].value = active[held[x].pair]
      BY <1>7, <2>7
    <3> QED
      BY <2>1, <3>1, OneField
  <2>8. Distinct'
    BY <2>3, <2>5, <2>7 DEF Distinct
  <2>9. Promoted'
    <3>1. ASSUME NEW x \in Worker, pc'[x] = "update", active'[held'[x].pair] = held'[x].value
          PROVE  beat'[held'[x].pair] = now
      <4>1. CASE x = w
        BY <2>2, <2>3, <4>1
      <4>2. CASE x # w
        <5>1. held[x].pair \in Pair /\ pc[x] = "update" /\ held'[x] = held[x]
          BY <2>3, <3>1, <4>2 DEF TypeOK
        <5> QED
          BY <2>2, <3>1, <5>1 DEF Promoted
      <4> QED
        BY <4>1, <4>2
    <3> QED
      BY <2>4, <3>1 DEF Promoted
  <2> QED
    BY <2>6, <2>8, <2>9
<1>14. ASSUME NEW w \in Worker, UpdateActive(w) PROVE OwnerInv(d)'
  <2> DEFINE p == held[w].pair
             s == Stamped(held[w].value)
  <2>1. p \in Pair /\ active[p] = held[w].value /\ pc[w] = "update"
    BY <1>14 DEF UpdateActive, TypeOK
  <2>2. \A x \in Worker : held[x].value # s
    <3>1. \A x \in Worker : held[x].value.act <= acts /\ held[x].value.act \in Nat
      BY Values DEF StampInv, TypeOK, Value, Payload
    <3>2. s.act = acts + 1 /\ acts \in Nat
      BY DEF Stamped, TypeOK
    <3> HIDE DEF s
    <3> QED
      BY <3>1, <3>2
  <2>3. \A q \in Pair : active'[q] = IF q = p THEN s ELSE active[q]
    BY <1>14, <2>1 DEF UpdateActive, TypeOK
  <2>4. \A x \in Worker :
           IF x = w THEN /\ held'[x].value = s /\ held'[x].pair = p /\ pc'[x] \in {"recover", "list"}
                         /\ due'[x] = now + Interval /\ lastSuccess'[x] = now
           ELSE held'[x] = held[x] /\ pc'[x] = pc[x] /\ due'[x] = due[x] /\ lastSuccess'[x] = lastSuccess[x]
    BY <1>14 DEF UpdateActive, TypeOK
  <2>5. UNCHANGED <<beat, now>>
    BY <1>14 DEF UpdateActive
  <2>6. beat[p] = now
    BY <2>1 DEF Promoted
  <2>7. \A x \in Worker : x # w /\ pc[x] \in Running => held[x].pair # p /\ held[x].pair \in Pair
    BY <1>7, <1>8, <2>1
  <2> HIDE DEF p, s
  <2>8. Runs'
    <3>1. now + Interval <= now + d /\ now <= now + Interval + SocketTimeout
      BY DEF TypeOK
    <3>2. Leased(w, d)'
      BY <2>1, <2>3, <2>4, <2>5, <2>6, <3>1 DEF Leased
    <3>3. ASSUME NEW x \in Worker, x # w, pc[x] \in Running PROVE Leased(x, d)'
      BY <2>3, <2>4, <2>5, <2>7, <3>3 DEF Leased, Runs
    <3> QED
      BY <2>4, <3>2, <3>3 DEF Runs
  <2>9. Distinct'
    BY <2>2, <2>4 DEF Distinct, Running
  <2>10. Promoted'
    <3>1. ASSUME NEW x \in Worker, pc'[x] = "update", active'[held'[x].pair] = held'[x].value
          PROVE  beat'[held'[x].pair] = now
      <4>1. held[x].pair \in Pair /\ pc[x] = "update" /\ held'[x] = held[x]
        BY <2>4, <3>1 DEF TypeOK
      <4> QED
        BY <2>2, <2>3, <2>5, <2>6, <3>1, <4>1 DEF Promoted
    <3> QED
      BY <2>5, <3>1 DEF Promoted
  <2> QED
    BY <2>8, <2>9, <2>10
<1>15. ASSUME NEW w \in Worker, HeartbeatAnswered(w) PROVE OwnerInv(d)'
  <2> DEFINE p == held[w].pair
  <2>1. p \in Pair /\ active[p] = held[w].value /\ pc[w] \in Running
    BY <1>7, <1>15 DEF HeartbeatAnswered
  <2>2. /\ beat' = [beat EXCEPT ![p] = now]
        /\ lastSuccess' = [lastSuccess EXCEPT ![w] = now]
        /\ due' = [due EXCEPT ![w] = now + Interval]
        /\ UNCHANGED <<pc, held, active, now>>
    BY <1>15, <2>1 DEF HeartbeatAnswered
  <2>3. \A x \in Worker : x # w /\ pc[x] \in Running => held[x].pair # p /\ held[x].pair \in Pair
    BY <1>7, <1>8, <2>1
  <2> HIDE DEF p
  <2>4. Runs'
    <3>1. now + Interval <= now + d /\ now <= now + Interval + SocketTimeout
      BY DEF TypeOK
    <3>2. Leased(w, d)'
      <4>1. beat'[p] = now /\ lastSuccess'[w] = now /\ due'[w] = now + Interval
        BY <2>1, <2>2 DEF TypeOK
      <4> QED
        BY <2>1, <2>2, <3>1, <4>1 DEF Leased, p
    <3>3. ASSUME NEW x \in Worker, x # w, pc[x] \in Running PROVE Leased(x, d)'
      <4>1. beat'[held[x].pair] = beat[held[x].pair] /\ lastSuccess'[x] = lastSuccess[x] /\ due'[x] = due[x]
        BY <2>2, <2>3, <3>3 DEF TypeOK
      <4> QED
        BY <2>2, <3>3, <4>1 DEF Leased, Runs
    <3> QED
      BY <2>2, <3>2, <3>3 DEF Runs
  <2>5. Distinct'
    BY <2>2 DEF Distinct
  <2>6. Promoted'
    <3>1. \A q \in Pair : beat'[q] = beat[q] \/ beat'[q] = now
      BY <2>2 DEF TypeOK
    <3> QED
      BY <1>5, <2>2, <3>1
  <2> QED
    BY <2>4, <2>5, <2>6
<1>16. ASSUME NEW w \in Worker,
              \/ SweepSnapshot(w) \/ PickNone(w) \/ PromotionLost(w) \/ ExitIdle(w) \/ Restart(w)
              \/ ListOpenMrs(w) \/ WorkflowEnds(w) \/ Cancel(w)
       PROVE  OwnerInv(d)'
  <2>1. /\ \A v \in Worker : pc'[v] \in Running => pc[v] \in Running /\ held'[v] = held[v]
        /\ \A v \in Worker : pc'[v] = "update" => pc[v] = "update" /\ held'[v] = held[v]
    BY <1>16 DEF SweepSnapshot, PickNone, PromotionLost, ExitIdle, Restart, ListOpenMrs, WorkflowEnds,
                 Cancel, TypeOK, Running
  <2> QED
    BY <1>10, <1>16, <2>1 DEF SweepSnapshot, PickNone, PromotionLost, ExitIdle, Restart, ListOpenMrs,
                              WorkflowEnds, Cancel
<1>17. ASSUME NEW w \in Worker, Signal(w) \/ RedisWriteFails(w) \/ Crash(w) PROVE OwnerInv(d)'
  <2>1. /\ \A v \in Worker : pc'[v] \in Running => pc[v] \in Running /\ held'[v] = held[v]
        /\ \A v \in Worker : pc'[v] = "update" => pc[v] = "update" /\ held'[v] = held[v]
    BY <1>17 DEF Signal, RedisWriteFails, Crash, TypeOK, Running
  <2> QED
    BY <1>10, <1>17, <2>1 DEF Signal, RedisWriteFails, Crash
<1>18. ASSUME UNCHANGED <<active, beat, pc, held, due, lastSuccess, now>> PROVE OwnerInv(d)'
  BY <1>18 DEF Runs, Distinct, Promoted, Leased
<1>19. CASE \E p \in Pair : (\E m \in Modes : Submitted(p, m)) \/ AlreadyQueued(p)
  BY <1>18, <1>19 DEF Submitted, AlreadyQueued
<1>20. CASE \E w \in Worker : Step(w)
  BY <1>11, <1>12, <1>13, <1>14, <1>16, <1>20 DEF Step
<1>21. CASE \E w \in Worker : HeartbeatAnswered(w) \/ Signal(w) \/ RedisWriteFails(w) \/ Crash(w)
  BY <1>15, <1>17, <1>21
<1>22. CASE OnTime /\ Tick
  <2>1. now' = now + 1 /\ UNCHANGED <<active, beat, pc, held, due, lastSuccess>>
    BY <1>22 DEF Tick
  <2>2. Runs'
    <3>1. ASSUME NEW w \in Worker, pc[w] \in Running PROVE now + 1 <= due[w] + SocketTimeout
      BY <1>22, <3>1 DEF OnTime, TypeOK
    <3> QED
      BY <2>1, <3>1 DEF Runs, Leased
  <2>3. Distinct'
    BY <2>1 DEF Distinct
  <2>4. Promoted'
    BY <1>22, <2>1 DEF OnTime, Promoted
  <2> QED
    BY <2>2, <2>3, <2>4
<1> QED
  BY <1>18, <1>19, <1>20, <1>21, <1>22 DEF AnsweredNext

(* Then one worker at a time runs a pair. *)
LEMMA OwnerExcludes == ASSUME NEW d PROVE TypeOK /\ OwnerInv(d) => NoConcurrentProcessing
BY DEF OwnerInv, Leased, NoConcurrentProcessing

(***************************************************************************)
(* "No concurrent processing of same package-branch" when Redis fails:     *)
(* where a heartbeat is attempted when it is due and a failing attempt is  *)
(* over within a tick, the workflow of a pair runs in one worker at a      *)
(* time, whatever failures, signals, crashes, restarts and sweeps come in  *)
(* between.  The lease timeout allows no longer attempts.                  *)
(***************************************************************************)
THEOREM ProcessingIsExclusive ==
    ASSUME SocketTimeout <= 1
    PROVE  TimedSpec => []NoConcurrentProcessing
<1> DEFINE d == Threshold - 1
<1> USE DEF hash, workers, history, vars
<1>1. d \in Nat /\ Interval <= d /\ d + SocketTimeout <= Threshold
  BY MergeQueueAssumption
<1> HIDE DEF d
<1>2. ASSUME TypeOK, TypeOK', LeaseInv, StampInv, JobConservation, Numbered, OwnerInv(d), [TimedNext]_vars
      PROVE  OwnerInv(d)'
  <2> USE <1>2, MergeQueueAssumption
  <2>1. ASSUME NEW w \in Worker, HeartbeatFails(w) PROVE OwnerInv(d)'
    <3>1. UNCHANGED <<active, beat, lastSuccess, now>> /\ pc[w] \in Running
      BY <2>1 DEF HeartbeatFails
    <3>2. CASE Abort(w) /\ UNCHANGED due
      <4>1. \A x \in Worker : IF x = w THEN held'[x] = NoHold /\ pc'[x] = "poll"
                              ELSE held'[x] = held[x] /\ pc'[x] = pc[x]
        BY <3>2 DEF Abort, TypeOK
      <4>2. \A x \in Worker : pc[x] \in Running => held[x].value # NoValue
        BY Values DEF TypeOK, Running
      <4> QED
        BY <3>1, <3>2, <4>1, <4>2, Values DEF OwnerInv, Leased, Running
    <3>3. CASE /\ now - lastSuccess[w] < LeaseTimeout
               /\ due' = [due EXCEPT ![w] = now + Interval]
               /\ UNCHANGED <<pc, held>>
      <4>1. now + Interval <= lastSuccess[w] + d /\ now <= now + Interval + SocketTimeout
        BY <3>3 DEF LeaseTimeout, TypeOK, d
      <4>2. Leased(w, d)'
        <5>1. due'[w] = now + Interval
          BY <3>3 DEF TypeOK
        <5> QED
          BY <3>1, <3>3, <4>1, <5>1 DEF Leased, OwnerInv
      <4>3. ASSUME NEW x \in Worker, x # w, pc[x] \in Running PROVE Leased(x, d)'
        <5>1. due'[x] = due[x]
          BY <3>3, <4>3 DEF TypeOK
        <5> QED
          BY <3>1, <3>3, <4>3, <5>1 DEF Leased, OwnerInv
      <4> QED
        BY <3>1, <3>3, <4>2, <4>3 DEF OwnerInv
    <3> QED
      BY <2>1, <3>2, <3>3 DEF HeartbeatFails
  <2>2. (\E w \in Worker : HeartbeatFails(w)) \/ AnsweredNext \/ UNCHANGED vars
    BY DEF TimedNext, Actions, Environment, AnsweredNext
  <2> QED
    BY <1>1, <2>1, <2>2, OwnerKept
<1>3. Init => OwnerInv(d)
  BY OwnerInit
<1>4. TypeOK /\ OwnerInv(d) => NoConcurrentProcessing
  BY OwnerExcludes
<1> QED
  BY <1>2, <1>3, <1>4, TimedIsSpec, TypeCorrect, Leases, StampsGrow, JobsKept, PTL DEF TimedSpec

(***************************************************************************)
(* The same with the socket timeout that main chooses (half an interval,   *)
(* and at least a second), as long as the heartbeats reach Redis, however  *)
(* late: signals, crashes, failed writes and sweeps do not matter.         *)
(***************************************************************************)
THEOREM AnsweredIsExclusive ==
    ASSUME SocketTimeout <= Interval
    PROVE  AnsweredSpec => []NoConcurrentProcessing
<1>1. Interval \in Nat /\ Interval <= Interval /\ Interval + SocketTimeout <= Threshold
  BY MergeQueueAssumption
<1>2. ASSUME TypeOK, TypeOK', LeaseInv, StampInv, JobConservation, Numbered, OwnerInv(Interval),
             [AnsweredNext]_vars
      PROVE  OwnerInv(Interval)'
  BY <1>1, <1>2, OwnerKept
<1>3. Init => OwnerInv(Interval)
  BY OwnerInit
<1>4. TypeOK /\ OwnerInv(Interval) => NoConcurrentProcessing
  BY OwnerExcludes
<1> QED
  BY <1>2, <1>3, <1>4, AnsweredIsTimed, TimedIsSpec, TypeCorrect, Leases, StampsGrow, JobsKept, PTL
     DEF AnsweredSpec
=============================================================================
