----------------------- MODULE ReproducerQueueProofs -----------------------
(***************************************************************************)
(* Theorems about ReproducerQueue, for every set of issues, locks and      *)
(* slots and every deployment: no job and no in-progress mark is stranded  *)
(* between the queues, the blocked lists, the delayed set and the slots,   *)
(* and a late release never takes a successor's lock.                      *)
(***************************************************************************)
EXTENDS ReproducerQueue, SequenceTheorems, TLAPS

QName   == {"todo", "normal"}
SlotPos == {"idle", "guard", "acquire", "blockedstage", "stage", "park", "run", "finalize",
            "retry", "defer", "complete", "release", "promote", "push"}
PollerPos == {"idle", "sweep", "promote", "push", "due"}

(* Who is where, and that a slot at work has a task. *)
Placed ==
    /\ \A s \in Slot : pc[s] \in SlotPos
    /\ pc[Poller] \in PollerPos
    /\ \A s \in Slot : pc[s] # "idle" => task[s] \in Task
    /\ \A s \in Slot : pc[s] = "idle" => token[s] = 0
    /\ \A a \in Actor : pc[a] = "push" => hand[a] \in Task
    /\ pc[Poller] # "idle" => Free # {}
    /\ Len(issueOf) = jobs

Base == TypeOK /\ Placed

(* Where task t can be: in a list, or in a slot that is at one of at. *)
Queued(t) == \E q \in QName : \E k \in 1 .. Len(queue[q]) : queue[q][k] = t
Parked(t) == \E l \in LockId : \E k \in 1 .. Len(blocked[l]) : blocked[l][k] = t
InHand(t) == \E a \in Actor : pc[a] = "push" /\ hand[a] = t
InSlot(t, at)  == \E s \in Slot : pc[s] \in at /\ task[s] = t
Present(t, at) == Queued(t) \/ Parked(t) \/ t \in delayed \/ InHand(t) \/ InSlot(t, at)

(* A slot whose task is still to be labelled, settled or released. *)
Unsettled == {"guard", "acquire", "blockedstage", "stage", "park", "run", "finalize", "retry", "defer"}
Undone    == Unsettled \cup {"complete"}
Busy      == SlotPos \ {"idle"}

-----------------------------------------------------------------------------
(* Lists.                                                                   *)

(* LPUSH adds one task to a queue and takes none away. *)
LEMMA PushFacts ==
    ASSUME TypeOK, NEW t \in Task, LPush(t)
    PROVE  /\ queue' \in [QName -> Seq(Task)]
           /\ \A u : Queued(u)' <=> Queued(u) \/ u = t
<1>1. QueueOf(t) \in QName /\ queue \in [QName -> Seq(Task)]
  BY DEF QueueOf, QName, TypeOK
<1> DEFINE q == QueueOf(t)
           old == queue[q]
           new == <<t>> \o old
<1>2. old \in Seq(Task) /\ <<t>> \in Seq(Task) /\ Len(<<t>>) = 1 /\ <<t>>[1] = t
  BY <1>1
<1>3. new \in Seq(Task) /\ Len(new) = Len(old) + 1 /\ Len(old) \in Nat
  BY <1>2, ConcatProperties
<1>4. new[1] = t /\ \A k \in 1 .. Len(old) : new[k + 1] = old[k]
  BY <1>2, <1>3, ConcatProperties
<1>5. queue' = [queue EXCEPT ![q] = new]
  BY DEF LPush
<1>6. queue' \in [QName -> Seq(Task)] /\ queue'[q] = new /\ \A x \in QName \ {q} : queue'[x] = queue[x]
  BY <1>1, <1>3, <1>5
<1> HIDE DEF q, old, new
<1>7. ASSUME NEW u PROVE (\E k \in 1 .. Len(new) : new[k] = u) <=> (\E k \in 1 .. Len(old) : old[k] = u) \/ u = t
  <2>1. ASSUME NEW k \in 1 .. Len(new), new[k] = u PROVE (\E j \in 1 .. Len(old) : old[j] = u) \/ u = t
    <3>1. CASE k = 1
      BY <1>4, <2>1, <3>1
    <3>2. CASE k # 1
      <4>1. k - 1 \in 1 .. Len(old) /\ k = (k - 1) + 1
        BY <1>3, <3>2
      <4> QED
        BY <1>4, <2>1, <4>1
    <3> QED
      BY <3>1, <3>2
  <2>2. ASSUME NEW k \in 1 .. Len(old), old[k] = u PROVE \E j \in 1 .. Len(new) : new[j] = u
    <3>1. k + 1 \in 1 .. Len(new)
      BY <1>3
    <3> QED
      BY <1>4, <2>2, <3>1
  <2>3. ASSUME u = t PROVE \E j \in 1 .. Len(new) : new[j] = u
    <3>1. 1 \in 1 .. Len(new)
      BY <1>3
    <3> QED
      BY <1>4, <2>3, <3>1
  <2> QED
    BY <2>1, <2>2, <2>3
<1>8. q \in QName
  BY <1>1 DEF q
<1>9. ASSUME NEW u PROVE Queued(u)' <=> Queued(u) \/ u = t
  <2>1. Queued(u) <=> (\E k \in 1 .. Len(old) : old[k] = u) \/ \E x \in QName \ {q} : \E k \in 1 .. Len(queue[x]) : queue[x][k] = u
    BY <1>8 DEF Queued, old
  <2>2. Queued(u)' <=> (\E k \in 1 .. Len(new) : new[k] = u) \/ \E x \in QName \ {q} : \E k \in 1 .. Len(queue[x]) : queue[x][k] = u
    BY <1>6, <1>8 DEF Queued
  <2> QED
    BY <1>7, <2>1, <2>2
<1> QED
  BY <1>6, <1>9

(* BRPOP takes at most one task from a queue, and it was in it. *)
LEMMA PopFacts ==
    ASSUME TypeOK, NEW q \in QName, Len(queue[q]) > 0,
           queue' = [queue EXCEPT ![q] = SubSeq(@, 1, Len(queue[q]) - 1)]
    PROVE  /\ queue' \in [QName -> Seq(Task)]
           /\ queue[q][Len(queue[q])] \in Task
           /\ Queued(queue[q][Len(queue[q])])
           /\ \A u : Queued(u)' => Queued(u)
           /\ \A u : Queued(u) => Queued(u)' \/ u = queue[q][Len(queue[q])]
<1> DEFINE old == queue[q]
           n   == Len(old)
           new == SubSeq(old, 1, n - 1)
<1>1. queue \in [QName -> Seq(Task)] /\ old \in Seq(Task) /\ n \in Nat /\ n > 0
  BY DEF QName, TypeOK
<1>2. \A k \in 1 .. n : old[k] \in Task
  BY <1>1
<1>3. new \in Seq(Task) /\ Len(new) = n - 1 /\ \A k \in 1 .. (n - 1) : new[k] = old[k]
  <2>1. \A k \in 1 .. (n - 1) : old[k] \in Task
    BY <1>1, <1>2
  <2>2. 1 \in Int /\ n - 1 \in Int
    BY <1>1
  <2>3. /\ new \in Seq(Task)
        /\ Len(new) = IF 1 <= n - 1 THEN (n - 1) - 1 + 1 ELSE 0
        /\ \A k \in 1 .. (n - 1) - 1 + 1 : new[k] = old[1 + k - 1]
    BY <2>1, <2>2, SubSeqProperties
  <2> HIDE DEF new, old, n
  <2>4. Len(new) = n - 1
    BY <1>1, <2>3
  <2>5. \A k \in 1 .. (n - 1) : k \in 1 .. (n - 1) - 1 + 1 /\ 1 + k - 1 = k
    BY <1>1
  <2> QED
    BY <2>3, <2>4, <2>5
<1>4. queue' \in [QName -> Seq(Task)] /\ queue'[q] = new /\ \A x \in QName \ {q} : queue'[x] = queue[x]
  BY <1>1, <1>3
<1>5. n \in 1 .. n /\ old[n] \in Task
  BY <1>1, <1>2
<1>6. Queued(old[n])
  BY <1>5 DEF Queued
<1>7. ASSUME NEW u, Queued(u)' PROVE Queued(u)
  <2>1. PICK x \in QName : \E k \in 1 .. Len(queue'[x]) : queue'[x][k] = u
    BY <1>7 DEF Queued
  <2>2. CASE x = q
    <3>1. PICK k \in 1 .. (n - 1) : new[k] = u
      BY <1>3, <1>4, <2>1, <2>2
    <3>2. k \in 1 .. Len(queue[q]) /\ queue[q][k] = u
      BY <1>1, <1>3, <3>1
    <3> QED
      BY <3>2 DEF Queued
  <2>3. CASE x # q
    BY <1>4, <2>1, <2>3 DEF Queued
  <2> QED
    BY <2>2, <2>3
<1>8. ASSUME NEW u, Queued(u), u # old[n] PROVE Queued(u)'
  <2>1. PICK x \in QName : \E k \in 1 .. Len(queue[x]) : queue[x][k] = u
    BY <1>8 DEF Queued
  <2>2. CASE x = q
    <3>1. PICK k \in 1 .. n : old[k] = u
      BY <2>1, <2>2
    <3>2. k \in 1 .. (n - 1)
      BY <1>1, <1>8, <3>1
    <3>3. k \in 1 .. Len(queue'[q]) /\ queue'[q][k] = u
      BY <1>3, <1>4, <3>1, <3>2
    <3> QED
      BY <3>3 DEF Queued
  <2>3. CASE x # q
    BY <1>4, <2>1, <2>3 DEF Queued
  <2> QED
    BY <2>2, <2>3
<1> QED
  BY <1>4, <1>5, <1>6, <1>7, <1>8

(* RPUSH adds one task to a blocked list and takes none away. *)
LEMMA ParkFacts ==
    ASSUME TypeOK, NEW l \in LockId, NEW t \in Task,
           blocked' = [blocked EXCEPT ![l] = Append(@, t)]
    PROVE  /\ blocked' \in [LockId -> Seq(Task)]
           /\ \A u : Parked(u)' <=> Parked(u) \/ u = t
<1> DEFINE old == blocked[l]
           new == Append(old, t)
<1>1. blocked \in [LockId -> Seq(Task)] /\ old \in Seq(Task) /\ Len(old) \in Nat
  BY DEF TypeOK
<1>2. new \in Seq(Task) /\ Len(new) = Len(old) + 1 /\ new[Len(old) + 1] = t
      /\ \A k \in 1 .. Len(old) : new[k] = old[k]
  BY <1>1, AppendProperties
<1>3. blocked' \in [LockId -> Seq(Task)] /\ blocked'[l] = new /\ \A x \in LockId \ {l} : blocked'[x] = blocked[x]
  BY <1>1, <1>2
<1> HIDE DEF new
<1>4. ASSUME NEW u, Parked(u)' PROVE Parked(u) \/ u = t
  <2>1. PICK x \in LockId : \E k \in 1 .. Len(blocked'[x]) : blocked'[x][k] = u
    BY <1>4 DEF Parked
  <2>2. CASE x = l
    <3>1. PICK k \in 1 .. (Len(old) + 1) : new[k] = u
      BY <1>2, <1>3, <2>1, <2>2
    <3>2. k = Len(old) + 1 \/ k \in 1 .. Len(old)
      BY <1>1
    <3> QED
      BY <1>2, <3>1, <3>2 DEF Parked
  <2>3. CASE x # l
    BY <1>3, <2>1, <2>3 DEF Parked
  <2> QED
    BY <2>2, <2>3
<1>5. ASSUME NEW u, Parked(u) PROVE Parked(u)'
  <2>1. PICK x \in LockId : \E k \in 1 .. Len(blocked[x]) : blocked[x][k] = u
    BY <1>5 DEF Parked
  <2>2. CASE x = l
    <3>1. PICK k \in 1 .. Len(old) : old[k] = u
      BY <2>1, <2>2
    <3>2. k \in 1 .. Len(blocked'[l]) /\ blocked'[l][k] = u
      BY <1>1, <1>2, <1>3, <3>1
    <3> QED
      BY <3>2 DEF Parked
  <2>3. CASE x # l
    BY <1>3, <2>1, <2>3 DEF Parked
  <2> QED
    BY <2>2, <2>3
<1>6. Parked(t)'
  <2>1. Len(old) + 1 \in 1 .. Len(blocked'[l]) /\ blocked'[l][Len(old) + 1] = t
    BY <1>1, <1>2, <1>3
  <2> QED
    BY <2>1 DEF Parked
<1> QED
  BY <1>3, <1>4, <1>5, <1>6

(* LPOP takes at most one task from a blocked list, and it was in it. *)
LEMMA UnparkFacts ==
    ASSUME TypeOK, NEW l \in LockId, blocked[l] # <<>>,
           blocked' = [blocked EXCEPT ![l] = Tail(@)]
    PROVE  /\ blocked' \in [LockId -> Seq(Task)]
           /\ Head(blocked[l]) \in Task
           /\ Parked(Head(blocked[l]))
           /\ \A u : Parked(u)' => Parked(u)
           /\ \A u : Parked(u) => Parked(u)' \/ u = Head(blocked[l])
<1> DEFINE old == blocked[l]
           new == Tail(old)
<1>1. blocked \in [LockId -> Seq(Task)] /\ old \in Seq(Task) /\ old # <<>>
  BY DEF TypeOK
<1>2. Len(old) \in Nat /\ Len(old) > 0 /\ Head(old) = old[1] /\ Head(old) \in Task
      /\ new \in Seq(Task) /\ Len(new) = Len(old) - 1
      /\ \A k \in 1 .. (Len(old) - 1) : new[k] = old[k + 1]
  BY <1>1, HeadTailProperties, EmptySeq
<1>3. blocked' \in [LockId -> Seq(Task)] /\ blocked'[l] = new /\ \A x \in LockId \ {l} : blocked'[x] = blocked[x]
  BY <1>1, <1>2
<1> HIDE DEF new
<1>4. Parked(Head(old))
  <2>1. 1 \in 1 .. Len(blocked[l]) /\ blocked[l][1] = Head(old)
    BY <1>2
  <2> QED
    BY <2>1 DEF Parked
<1>5. ASSUME NEW u, Parked(u)' PROVE Parked(u)
  <2>1. PICK x \in LockId : \E k \in 1 .. Len(blocked'[x]) : blocked'[x][k] = u
    BY <1>5 DEF Parked
  <2>2. CASE x = l
    <3>1. PICK k \in 1 .. (Len(old) - 1) : new[k] = u
      BY <1>2, <1>3, <2>1, <2>2
    <3>2. k + 1 \in 1 .. Len(blocked[l]) /\ blocked[l][k + 1] = u
      BY <1>2, <3>1
    <3> QED
      BY <3>2 DEF Parked
  <2>3. CASE x # l
    BY <1>3, <2>1, <2>3 DEF Parked
  <2> QED
    BY <2>2, <2>3
<1>6. ASSUME NEW u, Parked(u), u # Head(old) PROVE Parked(u)'
  <2>1. PICK x \in LockId : \E k \in 1 .. Len(blocked[x]) : blocked[x][k] = u
    BY <1>6 DEF Parked
  <2>2. CASE x = l
    <3>1. PICK k \in 1 .. Len(old) : old[k] = u
      BY <2>1, <2>2
    <3>2. k - 1 \in 1 .. (Len(old) - 1) /\ (k - 1) + 1 = k
      BY <1>2, <1>6, <3>1
    <3>3. k - 1 \in 1 .. Len(blocked'[l]) /\ blocked'[l][k - 1] = u
      BY <1>2, <1>3, <3>1, <3>2
    <3> QED
      BY <3>3 DEF Parked
  <2>3. CASE x # l
    BY <1>3, <2>1, <2>3 DEF Parked
  <2> QED
    BY <2>2, <2>3
<1> QED
  BY <1>2, <1>3, <1>4, <1>5, <1>6

-----------------------------------------------------------------------------
(* Types and positions.                                                     *)

(* A step of slot s that ends its task keeps every position in place. *)
LEMMA EndKeeps ==
    ASSUME Base, NEW s \in Slot, End(s), UNCHANGED <<hand, deployment, issueOf, jobs>>
    PROVE  /\ pc' \in [Actor -> SlotPos \cup PollerPos]
           /\ task' \in [Slot -> Task \cup {NoTask}] /\ token' \in [Slot -> 0 .. tokens]
           /\ swept' \subseteq Slot
           /\ Placed'
  BY ReproducerQueueAssumption DEF Base, TypeOK, Placed, End, Clear, Goto, Actor, Free, SlotPos, PollerPos

(* So does one that moves it on. *)
LEMMA GotoKeeps ==
    ASSUME Base, NEW s \in Slot, pc[s] # "idle", NEW next \in SlotPos \ {"idle", "push"}, Goto(s, next),
           UNCHANGED <<hand, task, deployment, issueOf, jobs>>
    PROVE  /\ pc' \in [Actor -> SlotPos \cup PollerPos]
           /\ (\A r \in Slot \ {s} : token'[r] = token[r]) => Placed'
  BY ReproducerQueueAssumption DEF Base, TypeOK, Placed, Goto, Actor, Free, SlotPos, PollerPos

(* Every variable has its type and every actor a position it can be in.     *)
THEOREM BaseInvariant == Spec => []Base
<1> USE ReproducerQueueAssumption DEF store, slots, poller, past, hist, vars
<1>1. Init => Base
  BY DEF Init, Base, TypeOK, Placed, QName, SlotPos, PollerPos, Actor, Free, Job
<1>2. Base /\ [Next]_vars => Base'
  <2> SUFFICES ASSUME Base, [Next]_vars PROVE Base'
    OBVIOUS
  <2>1. ASSUME NEW i \in Issue, Submit(i) PROVE Base'
    <3> DEFINE t == [job |-> jobs + 1, issue |-> i, attempts |-> 0]
    <3>1. t \in Task /\ jobs + 1 \in 0 .. MaxJobs
      BY <2>1 DEF Submit, Task, Job, Base, TypeOK
    <3>2. queue' \in [QName -> Seq(Task)]
      BY <2>1, <3>1, PushFacts DEF Submit, Base
    <3>3. issueOf' \in Seq(Issue) /\ Len(issueOf') = jobs + 1
      BY <2>1, AppendProperties DEF Submit, Base, TypeOK, Placed
    <3>4. TypeOK'
      BY <2>1, <3>1, <3>2, <3>3 DEF Submit, Base, TypeOK, QName
    <3>5. Placed'
      BY <2>1, <3>3 DEF Submit, Base, Placed, Free
    <3> QED
      BY <3>4, <3>5 DEF Base
  <2>2. ASSUME NEW t \in delayed, DelayPasses(t) PROVE Base'
    BY <2>2 DEF DelayPasses, Base, TypeOK, Placed, Free
  <2>3. ASSUME NEW l \in LockId, Age(l) PROVE Base'
    <3>1. lock[l] \in 1 .. tokens /\ faults' \in 0 .. deployment.max
      BY <2>3 DEF Age, Fault, Base, TypeOK
    <3> QED
      BY <2>3, <3>1 DEF Age, Base, TypeOK, Placed, Free
  <2>4. ASSUME SweepScan PROVE Base'
    BY <2>4 DEF SweepScan, Goto, Actor, Base, TypeOK, Placed, Free, PollerPos
  <2>5. ASSUME SweepEntry PROVE Base'
    <3>1. PICK e \in snap :
             /\ snap' = snap \ {e}
             /\ IF lock[e[1]] = e[2]
                THEN /\ lock' = [lock EXCEPT ![e[1]] = 0]
                     /\ swept' = swept \cup {s \in Slot : token[s] = e[2]}
                     /\ sweeping' = {e[1]}
                     /\ Goto(Poller, "promote")
                ELSE UNCHANGED <<lock, swept, sweeping, pc>>
      BY <2>5 DEF SweepEntry
    <3>2. e[1] \in LockId
      BY DEF Base, TypeOK
    <3>3. lock' \in [LockId -> 0 .. tokens] /\ snap' \subseteq LockId \X (1 .. tokens)
          /\ sweeping' \subseteq LockId /\ swept' \subseteq Slot
      <4>1. lock \in [LockId -> 0 .. tokens] /\ 0 \in 0 .. tokens /\ snap \subseteq LockId \X (1 .. tokens)
            /\ sweeping \subseteq LockId /\ swept \subseteq Slot
        BY DEF Base, TypeOK
      <4>2. CASE lock[e[1]] = e[2]
        BY <3>1, <3>2, <4>1, <4>2
      <4>3. CASE lock[e[1]] # e[2]
        BY <3>1, <4>1, <4>3
      <4> QED
        BY <4>2, <4>3
    <3>4. /\ pc' \in [Actor -> SlotPos \cup PollerPos] /\ pc'[Poller] \in PollerPos
          /\ pc'[Poller] # "push" /\ pc[Poller] # "idle" /\ \A s \in Slot : pc'[s] = pc[s]
      BY <2>5, <3>1 DEF SweepEntry, Goto, Actor, Base, TypeOK, PollerPos, SlotPos
    <3>5. UNCHANGED <<queue, blocked, delayed, ready, stale, tokens, errors, completed,
                      label, slots, hand, due, jobs, past, skipped, faults>>
      BY <2>5 DEF SweepEntry
    <3>6. Placed'
      BY <3>4, <3>5 DEF Base, Placed, Free, Actor, TypeOK
    <3> QED
      BY <3>3, <3>4, <3>5, <3>6 DEF Base, TypeOK, PollerPos, SlotPos
  <2>6. ASSUME NEW a \in Actor, NEW l \in LockId, pc[a] = "promote", blocked[l] # <<>>,
               hand' = [hand EXCEPT ![a] = Head(blocked[l])],
               blocked' = [blocked EXCEPT ![l] = Tail(@)], Goto(a, "push"),
               UNCHANGED <<slots, sweeping, swept, queue, delayed, ready, lock, stale, tokens, errors,
                           completed, label, snap, due, jobs, past, skipped, faults>>
        PROVE  Base'
    <3>1. blocked' \in [LockId -> Seq(Task)] /\ Head(blocked[l]) \in Task
      BY <2>6, UnparkFacts DEF Base
    <3> QED
      BY <2>6, <3>1 DEF Goto, Actor, Base, TypeOK, Placed, Free, PollerPos, SlotPos
  <2>7. ASSUME SweepPromote PROVE Base'
    <3>1. PICK l \in sweeping : PromotePop(Poller, l, sweeping' = {} /\ Goto(Poller, "sweep") /\ UNCHANGED <<slots, swept>>)
      BY <2>7 DEF SweepPromote
    <3>2. CASE blocked[l] = <<>>
      <4>1. /\ pc[Poller] = "promote" /\ Goto(Poller, "sweep") /\ sweeping' = {}
            /\ UNCHANGED <<slots, swept, blocked, hand, queue, delayed, ready, lock, stale, tokens, errors,
                           completed, label, snap, due, jobs, past, skipped, faults>>
        BY <2>7, <3>1, <3>2 DEF SweepPromote, PromotePop
      <4> QED
        BY <4>1 DEF Goto, Actor, Base, TypeOK, Placed, Free, PollerPos
    <3>3. CASE blocked[l] # <<>>
      BY <2>6, <2>7, <3>1, <3>3 DEF SweepPromote, PromotePop, Actor, Base, TypeOK
    <3> QED
      BY <3>2, <3>3
  <2>8. ASSUME DueScan PROVE Base'
    BY <2>8 DEF DueScan, Goto, Actor, Base, TypeOK, Placed, Free, PollerPos
  <2>9. ASSUME DuePromote PROVE Base'
    <3>1. PICK t \in due : LPush(t) /\ delayed' = delayed \ {t} /\ ready' = ready \ {t} /\ due' = due \ {t}
      BY <2>9 DEF DuePromote
    <3>2. queue' \in [QName -> Seq(Task)]
      BY <3>1, PushFacts DEF Base, TypeOK
    <3> QED
      BY <2>9, <3>1, <3>2 DEF DuePromote, Base, TypeOK, Placed, Free, QName
  <2>10. ASSUME BrPop PROVE Base'
    <3> DEFINE q == IF queue["todo"] # <<>> THEN "todo" ELSE "normal"
               n == Len(queue[q])
               s == CHOOSE x \in Free : TRUE
    <3>1. q \in QName /\ pc[Poller] = "due" /\ due = {}
      BY <2>10 DEF BrPop, QName
    <3>2. s \in Free /\ s \in Slot /\ pc[s] = "idle" /\ s # Poller
      BY <3>1 DEF Base, Placed, Free, TypeOK
    <3>3. CASE n > 0 /\ queue' = [queue EXCEPT ![q] = SubSeq(@, 1, n - 1)]
               /\ task' = [task EXCEPT ![s] = queue[q][n]]
               /\ pc' = [pc EXCEPT ![s] = "guard", ![Poller] = "idle"]
      <4>1. queue' \in [QName -> Seq(Task)] /\ queue[q][n] \in Task
        BY <3>1, <3>3, PopFacts DEF Base
      <4> HIDE DEF q, n, s
      <4>2. TypeOK'
        BY <2>10, <3>2, <3>3, <4>1 DEF BrPop, Base, TypeOK, QName, Actor
      <4>3. Placed'
        BY <2>10, <3>2, <3>3, <4>1 DEF BrPop, Base, TypeOK, Placed, Free, Actor, SlotPos, PollerPos
      <4> QED
        BY <4>2, <4>3 DEF Base
    <3>4. CASE Goto(Poller, "idle") /\ UNCHANGED <<queue, task>>
      <4> HIDE DEF q, n, s
      <4> QED
        BY <2>10, <3>4 DEF BrPop, Goto, Base, TypeOK, Placed, Free, Actor, SlotPos, PollerPos
    <3> QED
      BY <2>10, <3>3, <3>4 DEF BrPop
  <2>11. ASSUME NEW a \in Actor, PromotePush(a) PROVE Base'
    <3>1. hand[a] \in Task /\ queue' \in [QName -> Seq(Task)]
      BY <2>11, PushFacts DEF PromotePush, Base, Placed
    <3> QED
      BY <2>11, <3>1 DEF PromotePush, Goto, Base, TypeOK, Placed, Free, Actor, SlotPos, PollerPos, QName
  <2>12. ASSUME NEW s \in Slot, Guard(s) PROVE Base'
    <3>1. task[s] \in Task /\ pc[s] = "guard" /\ task[s].job \in Job /\ task[s].issue \in Issue
      BY <2>12 DEF Guard, Base, Placed, Task
    <3>2. CASE End(s) /\ skipped' = skipped \cup {task[s].job}
      <4>1. faults' \in 0 .. deployment.max /\ UNCHANGED <<store, label, hand, poller, jobs, past>>
        BY <2>12 DEF Guard, Fault, Base, TypeOK
      <4> QED
        BY <3>1, <3>2, <4>1, EndKeeps DEF Base, TypeOK, SlotPos, PollerPos
    <3>3. CASE (Goto(s, "acquire") \/ Goto(s, "retry")) /\ UNCHANGED <<skipped, slots, swept>>
      <4>1. faults' \in 0 .. deployment.max /\ UNCHANGED <<store, label, hand, poller, jobs, past>>
        BY <2>12 DEF Guard, Fault, Base, TypeOK
      <4>2. pc' \in [Actor -> SlotPos \cup PollerPos] /\ Placed'
        BY <3>1, <3>3, <4>1, GotoKeeps DEF SlotPos
      <4> QED
        BY <3>3, <4>1, <4>2 DEF Base, TypeOK, SlotPos, PollerPos
    <3> QED
      BY <2>12, <3>2, <3>3 DEF Guard
  <2>13. ASSUME NEW s \in Slot, Acquire(s) PROVE Base'
    <3>1. Lock(s) \in LockId
      BY <2>13 DEF Acquire, Lock, Base, Placed, Task
    <3>2. UNCHANGED <<queue, blocked, delayed, ready, stale, errors, completed, label, task, hand, poller, hist>>
          /\ pc[s] = "acquire"
      BY <2>13 DEF Acquire
    <3>3. CASE /\ lock' = [lock EXCEPT ![Lock(s)] = tokens + 1] /\ tokens' = tokens + 1
               /\ token' = [token EXCEPT ![s] = tokens + 1] /\ Goto(s, "stage")
      <4>1. /\ lock' \in [LockId -> 0 .. tokens'] /\ token' \in [Slot -> 0 .. tokens'] /\ tokens' \in Nat
            /\ stale' \subseteq 1 .. tokens' /\ snap' \subseteq LockId \X (1 .. tokens')
        BY <3>1, <3>2, <3>3 DEF Base, TypeOK
      <4>2. pc' \in [Actor -> SlotPos \cup PollerPos] /\ Placed'
        BY <3>2, <3>3, GotoKeeps DEF SlotPos, Base, TypeOK
      <4> QED
        BY <3>2, <4>1, <4>2 DEF Base, TypeOK, SlotPos, PollerPos
    <3>4. CASE Goto(s, "blockedstage") /\ UNCHANGED <<lock, tokens, token>>
      <4>1. pc' \in [Actor -> SlotPos \cup PollerPos] /\ Placed'
        BY <3>2, <3>4, GotoKeeps DEF SlotPos, Base, TypeOK
      <4> QED
        BY <3>2, <3>4, <4>1 DEF Base, TypeOK, SlotPos, PollerPos
    <3> QED
      BY <2>13, <3>3, <3>4 DEF Acquire
  <2>14. ASSUME NEW s \in Slot, Stage(s) PROVE Base'
    <3>1. task[s].issue \in Issue /\ pc[s] # "idle"
      BY <2>14 DEF Stage, Base, Placed, Task
    <3>2. PICK next \in {"run", "park", "retry"} : Goto(s, next)
      BY <2>14 DEF Stage
    <3>3. /\ UNCHANGED <<store, slots, hand, poller, jobs, past, skipped, swept>>
          /\ UNCHANGED faults \/ Fault("label")
          /\ UNCHANGED label \/ label' = [label EXCEPT ![task[s].issue] = "in_progress"]
      BY <2>14 DEF Stage
    <3>5. label' \in [Issue -> {"none", "in_progress", "terminal"}]
      BY <3>1, <3>3 DEF Base, TypeOK
    <3>6. faults' \in 0 .. deployment.max
      BY <3>3 DEF Fault, Base, TypeOK
    <3>4. pc' \in [Actor -> SlotPos \cup PollerPos] /\ Placed'
      BY <3>1, <3>2, <3>3, GotoKeeps DEF SlotPos
    <3> QED
      BY <3>3, <3>4, <3>5, <3>6 DEF Base, TypeOK, SlotPos, PollerPos
  <2>15. ASSUME NEW s \in Slot, Park(s) PROVE Base'
    <3>1. Lock(s) \in LockId /\ task[s] \in Task
      BY <2>15 DEF Park, Lock, Base, Placed, Task
    <3>2. blocked' \in [LockId -> Seq(Task)]
      BY <2>15, <3>1, ParkFacts DEF Park, Base
    <3> QED
      BY <2>15, <3>2, EndKeeps DEF Park, Base, TypeOK, SlotPos, PollerPos
  <2>16. ASSUME NEW s \in Slot, RunWorkflow(s) PROVE Base'
    BY <2>16 DEF RunWorkflow, Goto, Base, TypeOK, Placed, Free, Actor, SlotPos, PollerPos
  <2>17. ASSUME NEW s \in Slot, HandleResults(s) PROVE Base'
    <3>1. task[s].issue \in Issue /\ s # Poller
      BY <2>17 DEF HandleResults, Base, Placed, Task
    <3>2. PICK next \in {"retry", "complete"} : Goto(s, next)
      BY <2>17 DEF HandleResults
    <3>3. UNCHANGED <<slots, hand, poller, hist, store>>
      BY <2>17 DEF HandleResults
    <3>4. label' \in [Issue -> {"none", "in_progress", "terminal"}]
      <4>1. label \in [Issue -> {"none", "in_progress", "terminal"}]
        BY DEF Base, TypeOK
      <4>2. label' = [label EXCEPT ![task[s].issue] = "terminal"]
        BY <2>17 DEF HandleResults
      <4> QED
        BY ONLY <3>1, <4>1, <4>2
    <3>5. pc[s] = "finalize" /\ task[s] \in Task
      BY <2>17 DEF HandleResults, Base, Placed
    <3>6. pc' \in [Actor -> SlotPos \cup PollerPos] /\ Placed'
      BY <3>2, <3>3, <3>5, GotoKeeps DEF SlotPos
    <3> QED
      BY <3>3, <3>4, <3>6 DEF Base, TypeOK, SlotPos, PollerPos
  <2>18. ASSUME NEW s \in Slot, Retry(s) PROVE Base'
    <3> DEFINE again == [task[s] EXCEPT !.attempts = @ + 1]
    <3>0. pc[s] \in {"retry", "defer"} /\ task[s] \in Task
      BY <2>18 DEF Retry, Base, Placed
    <3>1. /\ again.attempts < MaxRetries => again \in Task
          /\ again.job \in Job /\ again.issue \in Issue
      BY <3>0 DEF Task
    <3>2. /\ queue' \in [QName -> Seq(Task)] /\ delayed' \subseteq Task /\ delayed \subseteq delayed'
          /\ errors' \subseteq Job /\ label' \in [Issue -> {"none", "in_progress", "terminal"}]
      <4>1. CASE again.attempts < MaxRetries /\ LPush(again) /\ UNCHANGED <<delayed, errors, label>>
        BY <3>1, <4>1, PushFacts DEF Base, TypeOK
      <4>2. CASE again.attempts < MaxRetries /\ delayed' = delayed \cup {again} /\ UNCHANGED <<queue, errors, label>>
        BY <3>1, <4>2 DEF Base, TypeOK, QName
      <4>3. CASE label' = [label EXCEPT ![again.issue] = "terminal"]
                 /\ errors' = errors \cup {again.job} /\ UNCHANGED <<queue, delayed>>
        BY <3>1, <4>3 DEF Base, TypeOK, QName
      <4> QED
        BY <2>18, <4>1, <4>2, <4>3 DEF Retry
    <3>3. UNCHANGED <<blocked, ready, lock, stale, tokens, completed, hand, poller, jobs, past, skipped, faults>>
      BY <2>18 DEF Retry
    <3>4. CASE End(s)
      BY <3>2, <3>3, <3>4, EndKeeps DEF Base, TypeOK, SlotPos, PollerPos, QName
    <3>5. CASE Goto(s, "release") /\ UNCHANGED <<slots, swept>>
      <4>1. pc' \in [Actor -> SlotPos \cup PollerPos] /\ Placed'
        BY <3>0, <3>3, <3>5, GotoKeeps DEF SlotPos
      <4> QED
        BY <3>2, <3>3, <3>5, <4>1 DEF Base, TypeOK, SlotPos, PollerPos, QName
    <3> QED
      BY <2>18, <3>4, <3>5 DEF Retry, AfterRetry
  <2>19. ASSUME NEW s \in Slot, Complete(s) PROVE Base'
    <3>1. task[s].job \in Job /\ s # Poller /\ errors' \subseteq Job
      BY <2>19 DEF Complete, Base, TypeOK, Placed, Task
    <3> QED
      BY <2>19, <3>1 DEF Complete, Goto, Base, TypeOK, Placed, Free, Actor, SlotPos, PollerPos
  <2>20. ASSUME NEW s \in Slot, Release(s) PROVE Base'
    <3>0. Lock(s) \in LockId /\ lock' \in [LockId -> 0 .. tokens] /\ pc[s] = "release"
          /\ faults' \in 0 .. deployment.max
      <4>1. pc[s] = "release" /\ task[s] \in Task
        BY <2>20 DEF Release, Base, Placed
      <4>2. Lock(s) \in LockId
        BY <4>1 DEF Lock, Task
      <4>3. lock' \in [LockId -> 0 .. tokens]
        <5>1. lock \in [LockId -> 0 .. tokens] /\ 0 \in 0 .. tokens
          BY DEF Base, TypeOK
        <5>2. lock' = lock \/ lock' = [lock EXCEPT ![Lock(s)] = 0]
          BY <2>20 DEF Release
        <5> QED
          BY ONLY <4>2, <5>1, <5>2
      <4>4. faults' \in 0 .. deployment.max
        BY <2>20 DEF Release, Fault, Base, TypeOK
      <4> QED
        BY <4>1, <4>2, <4>3, <4>4
    <3>1. UNCHANGED <<queue, blocked, delayed, ready, stale, tokens, errors, completed, label, hand, poller,
                      jobs, past, skipped>>
      BY <2>20 DEF Release
    <3>2. CASE End(s)
      BY <3>0, <3>1, <3>2, EndKeeps DEF Base, TypeOK, SlotPos, PollerPos
    <3>3. CASE Goto(s, "promote") /\ UNCHANGED <<slots, swept>>
      <4>1. pc' \in [Actor -> SlotPos \cup PollerPos] /\ Placed'
        BY <3>0, <3>1, <3>3, GotoKeeps DEF SlotPos
      <4> QED
        BY <3>0, <3>1, <3>3, <4>1 DEF Base, TypeOK, SlotPos, PollerPos
    <3> QED
      BY <2>20, <3>2, <3>3 DEF Release
  <2>21. ASSUME NEW s \in Slot, ReleasePromote(s) PROVE Base'
    <3>1. pc[s] = "promote" /\ Lock(s) \in LockId /\ s \in Actor
          /\ PromotePop(s, Lock(s), End(s) /\ UNCHANGED sweeping)
      BY <2>21 DEF ReleasePromote, Lock, Base, Placed, Task, Actor
    <3>2. CASE blocked[Lock(s)] = <<>>
      <4>1. End(s) /\ UNCHANGED <<sweeping, blocked, hand, queue, delayed, ready, lock, stale, tokens, errors,
               completed, label, snap, due, jobs, past, skipped, faults>>
        BY <3>1, <3>2 DEF PromotePop
      <4> QED
        BY <4>1, EndKeeps DEF Base, TypeOK, SlotPos, PollerPos
    <3>3. CASE blocked[Lock(s)] # <<>>
      BY <2>6, <3>1, <3>3 DEF PromotePop
    <3> QED
      BY <3>2, <3>3
  <2>22. ASSUME Crash PROVE Base'
    <3>1. {t.job : t \in InMemory} \subseteq Job
      BY DEF InMemory, Base, TypeOK, Task
    <3> QED
      BY <2>22, <3>1 DEF Crash, Fault, Base, TypeOK, Placed, Free, Actor, SlotPos, PollerPos
  <2>23. CASE UNCHANGED vars
    BY <2>23 DEF Base, TypeOK, Placed, Free
  <2> QED
    BY <2>1, <2>2, <2>3, <2>4, <2>5, <2>7, <2>8, <2>9, <2>10, <2>11, <2>12, <2>13, <2>14, <2>15,
       <2>16, <2>17, <2>18, <2>19, <2>20, <2>21, <2>22, <2>23 DEF Next, Poll, ProcessTask, Actor
<1> QED
  BY <1>1, <1>2, PTL DEF Spec

(* The type invariant of the queue and its slots.                           *)
THEOREM TypeCorrect == Spec => []TypeOK
  BY BaseInvariant, PTL DEF Base

-----------------------------------------------------------------------------
(* Locks.                                                                   *)

(* Tokens are not shared, and a slot that no sweep robbed owns its lock. *)
Unlike == \A s, t \in Slot : s # t /\ token[s] # 0 => token[s] # token[t]
Owned  == \A s \in Slot : Working(s) /\ s \notin swept => lock[Lock(s)] = token[s]

LockInv == Base /\ Unlike /\ Owned

(* A step that takes no lock and gives none. *)
LEMMA OwnersKept ==
    ASSUME LockInv, UNCHANGED lock,
           \A s \in Slot : \/ token'[s] = 0
                           \/ /\ token'[s] = token[s] /\ task'[s] = task[s]
                              /\ s \in swept => s \in swept'
                              /\ Working(s)' => Working(s)
    PROVE  Unlike' /\ Owned'
  BY DEF LockInv, Unlike, Owned, Working, Lock

(* The compare-and-delete of a release, and the sweep's, take a lock from   *)
(* its owner alone, or record the slot that lost it.                        *)
THEOREM LockInvariant == Spec => []LockInv
<1> USE ReproducerQueueAssumption DEF store, slots, poller, past, hist, vars
<1>1. Init => Unlike /\ Owned
  BY DEF Init, Unlike, Owned, Working
<1>2. LockInv /\ [Next]_vars => Unlike' /\ Owned'
  <2> SUFFICES ASSUME LockInv, [Next]_vars PROVE Unlike' /\ Owned'
    OBVIOUS
  <2>0. Poller \notin Slot
    OBVIOUS
  <2>1. CASE \/ \E i \in Issue : Submit(i)
             \/ \E t \in delayed : DelayPasses(t)
             \/ \E l \in LockId : Age(l)
             \/ UNCHANGED vars
    <3>1. UNCHANGED <<lock, token, task, pc, swept>>
      BY <2>1 DEF Submit, DelayPasses, Age
    <3> QED
      BY <3>1, OwnersKept DEF Working
  <2>2. CASE SweepScan \/ SweepPromote \/ DueScan \/ DuePromote \/ PromotePush(Poller)
    <3>1. UNCHANGED <<lock, token, task, swept>>
      BY <2>2 DEF SweepScan, SweepPromote, PromotePop, DueScan, DuePromote, PromotePush
    <3>2. \A s \in Slot : pc'[s] = pc[s]
      BY <2>0, <2>2 DEF SweepScan, SweepPromote, PromotePop, DueScan, DuePromote, PromotePush, Goto, Actor, LockInv, Base, TypeOK
    <3> QED
      BY <3>1, <3>2, OwnersKept DEF Working
  <2>3. CASE SweepEntry
    <3>1. PICK e \in snap :
             IF lock[e[1]] = e[2]
             THEN /\ lock' = [lock EXCEPT ![e[1]] = 0]
                  /\ swept' = swept \cup {s \in Slot : token[s] = e[2]}
                  /\ Goto(Poller, "promote")
             ELSE UNCHANGED <<lock, swept, pc>>
      BY <2>3 DEF SweepEntry
    <3>2. UNCHANGED <<token, task>> /\ \A s \in Slot : pc'[s] = pc[s]
      BY <2>0, <2>3, <3>1 DEF SweepEntry, Goto, Actor, LockInv, Base, TypeOK
    <3>3. CASE lock[e[1]] # e[2]
      BY <3>1, <3>2, <3>3, OwnersKept DEF Working
    <3>4. CASE lock[e[1]] = e[2]
      <4>1. ASSUME NEW s \in Slot, Working(s)', s \notin swept' PROVE (lock[Lock(s)] = token[s])'
        <5>1. Working(s) /\ s \notin swept /\ token[s] # e[2] /\ Lock(s)' = Lock(s)
          BY <3>1, <3>2, <3>4, <4>1 DEF Working, Lock
        <5>2. lock[Lock(s)] = token[s]
          BY <5>1 DEF LockInv, Owned
        <5>3. Lock(s) # e[1] /\ Lock(s) \in LockId
          BY <3>4, <5>1, <5>2 DEF Working, Lock, LockInv, Base, Placed, Task
        <5>4. lock'[Lock(s)] = lock[Lock(s)]
          BY <3>1, <3>4, <5>3 DEF LockInv, Base, TypeOK
        <5> QED
          BY <3>2, <5>1, <5>2, <5>4
      <4> QED
        BY <3>2, <4>1 DEF LockInv, Unlike, Owned
    <3> QED
      BY <3>3, <3>4
  <2>4. CASE BrPop
    <3>1. UNCHANGED <<lock, token, swept>>
      BY <2>4 DEF BrPop
    <3>2. \A s \in Slot : token[s] = 0 \/ (pc'[s] = pc[s] /\ task'[s] = task[s])
      <4> DEFINE s == CHOOSE x \in Free : TRUE
      <4>1. s \in Free /\ pc[s] = "idle"
        BY <2>4 DEF BrPop, Free, LockInv, Base, Placed
      <4>2. s \in Slot /\ token[s] = 0
        BY <4>1 DEF Free, LockInv, Base, Placed, TypeOK
      <4>3. \/ /\ pc' = [pc EXCEPT ![s] = "guard", ![Poller] = "idle"]
               /\ \E t : task' = [task EXCEPT ![s] = t]
            \/ pc' = [pc EXCEPT ![Poller] = "idle"] /\ UNCHANGED task
        BY <2>4 DEF BrPop, Goto
      <4> HIDE DEF s
      <4> QED
        BY <2>0, <4>2, <4>3 DEF LockInv, Base, TypeOK, Actor
    <3> QED
      BY <3>1, <3>2, OwnersKept DEF Working
  <2>5. ASSUME NEW s \in Slot, pc[s] \notin {"promote", "push"}, UNCHANGED lock,
               \/ End(s)
               \/ (\E p : Goto(s, p)) /\ UNCHANGED <<token, task, swept>>
        PROVE  Unlike' /\ Owned'
    <3>1. \A r \in Slot \ {s} : pc'[r] = pc[r] /\ task'[r] = task[r] /\ token'[r] = token[r] /\ (r \in swept => r \in swept')
      BY <2>5 DEF End, Clear, Goto, LockInv, Base, TypeOK, Actor
    <3>2. CASE End(s)
      <4>1. token'[s] = 0
        BY <3>2 DEF End, Clear, LockInv, Base, TypeOK
      <4> QED
        BY <2>5, <3>1, <4>1, OwnersKept DEF Working
    <3>3. CASE UNCHANGED <<token, task, swept>>
      BY <2>5, <3>1, <3>3, OwnersKept DEF Working
    <3> QED
      BY <2>5, <3>2, <3>3
  <2>6. ASSUME NEW s \in Slot,
               Guard(s) \/ Stage(s) \/ Park(s) \/ RunWorkflow(s) \/ HandleResults(s) \/ Retry(s) \/ Complete(s)
        PROVE  Unlike' /\ Owned'
    <3>1. pc[s] \notin {"promote", "push"} /\ UNCHANGED lock
      BY <2>6 DEF Guard, Stage, Park, RunWorkflow, HandleResults, Retry, Complete
    <3>2. End(s) \/ ((\E p : Goto(s, p)) /\ UNCHANGED <<token, task, swept>>)
      BY <2>6 DEF Guard, Stage, Park, RunWorkflow, HandleResults, Retry, AfterRetry, Complete
    <3> QED
      BY <2>5, <3>1, <3>2
  <2>7. ASSUME NEW s \in Slot, Acquire(s) PROVE Unlike' /\ Owned'
    <3>1. CASE lock[Lock(s)] # 0
      <4>1. Goto(s, "blockedstage") /\ UNCHANGED <<lock, token, task, swept>> /\ pc[s] = "acquire"
        BY <2>7, <3>1 DEF Acquire
      <4> QED
        BY <2>5, <4>1
    <3>2. CASE lock[Lock(s)] = 0
      <4>1. /\ lock' = [lock EXCEPT ![Lock(s)] = tokens + 1] /\ token' = [token EXCEPT ![s] = tokens + 1]
            /\ Goto(s, "stage") /\ UNCHANGED <<task, swept>> /\ pc[s] = "acquire"
        BY <2>7, <3>2 DEF Acquire
      <4>2. Lock(s) \in LockId /\ tokens + 1 # 0 /\ \A r \in Slot : token[r] # tokens + 1
        BY <4>1 DEF Lock, LockInv, Base, TypeOK, Placed, Task
      <4>3. /\ token'[s] = tokens + 1 /\ \A r \in Slot \ {s} : token'[r] = token[r] /\ pc'[r] = pc[r]
            /\ lock'[Lock(s)] = tokens + 1 /\ \A l \in LockId \ {Lock(s)} : lock'[l] = lock[l]
        BY <4>1, <4>2 DEF Goto, LockInv, Base, TypeOK, Actor
      <4>4. Unlike'
        BY <4>2, <4>3 DEF LockInv, Unlike
      <4>5. ASSUME NEW r \in Slot, Working(r)', r \notin swept' PROVE (lock[Lock(r)] = token[r])'
        <5>1. CASE r = s
          BY <4>1, <4>3, <5>1 DEF Lock
        <5>2. CASE r # s
          <6>1. Working(r) /\ r \notin swept /\ Lock(r)' = Lock(r) /\ pc[r] # "idle"
            BY <4>1, <4>3, <4>5, <5>2 DEF Working, Lock, LockInv, Base, Placed
          <6>2. lock[Lock(r)] = token[r] /\ token[r] # 0 /\ Lock(r) \in LockId
            BY <6>1 DEF LockInv, Owned, Working, Lock, Base, Placed, Task
          <6>3. Lock(r) # Lock(s)
            BY <3>2, <6>2
          <6> QED
            BY <4>3, <5>2, <6>1, <6>2, <6>3
        <5> QED
          BY <5>1, <5>2
      <4> QED
        BY <4>4, <4>5 DEF Owned
    <3> QED
      BY <3>1, <3>2
  <2>8. ASSUME NEW s \in Slot, Release(s) PROVE Unlike' /\ Owned'
    <3>0. pc[s] = "release" /\ Lock(s) \in LockId
      BY <2>8 DEF Release, Lock, LockInv, Base, Placed, Task
    <3>1. CASE End(s) /\ UNCHANGED lock
      BY <2>5, <3>0, <3>1
    <3>2. CASE /\ lock[Lock(s)] = token[s] /\ lock' = [lock EXCEPT ![Lock(s)] = 0]
               /\ Goto(s, "promote") /\ UNCHANGED <<slots, swept>>
      <4>1. /\ \A r \in Slot \ {s} : pc'[r] = pc[r]
            /\ pc'[s] = "promote" /\ \A l \in LockId \ {Lock(s)} : lock'[l] = lock[l]
        BY <3>0, <3>2 DEF Goto, LockInv, Base, TypeOK, Actor
      <4>2. ASSUME NEW r \in Slot, Working(r)', r \notin swept' PROVE (lock[Lock(r)] = token[r])'
        <5>1. r # s /\ Working(r) /\ r \notin swept /\ Lock(r)' = Lock(r) /\ token[r] # 0 /\ pc[r] # "idle"
          BY <3>2, <4>1, <4>2 DEF Working, Lock, LockInv, Base, Placed
        <5>2. lock[Lock(r)] = token[r] /\ Lock(r) \in LockId
          BY <5>1 DEF LockInv, Owned, Lock, Base, Placed, Task
        <5>3. token[r] # token[s]
          BY <5>1 DEF LockInv, Unlike
        <5>4. Lock(r) # Lock(s)
          BY <3>2, <5>2, <5>3
        <5> QED
          BY <3>2, <4>1, <5>1, <5>2, <5>4
      <4> QED
        BY <3>2, <4>2 DEF LockInv, Unlike, Owned
    <3> QED
      BY <2>8, <3>1, <3>2 DEF Release
  <2>9. ASSUME NEW s \in Slot, ReleasePromote(s) \/ PromotePush(s) PROVE Unlike' /\ Owned'
    <3>1. UNCHANGED lock /\ pc[s] \in {"promote", "push"}
      BY <2>9 DEF ReleasePromote, PromotePop, PromotePush
    <3>2. End(s) \/ ((Goto(s, "push") \/ Goto(s, "promote")) /\ UNCHANGED <<token, task, swept>>)
      BY <2>9 DEF ReleasePromote, PromotePop, PromotePush
    <3>3. CASE End(s)
      BY <3>1, <3>3, OwnersKept DEF End, Clear, Goto, Working, LockInv, Base, TypeOK, Actor
    <3>4. CASE (Goto(s, "push") \/ Goto(s, "promote")) /\ UNCHANGED <<token, task, swept>>
      <4>1. pc'[s] \in {"promote", "push"} /\ \A r \in Slot \ {s} : pc'[r] = pc[r]
        BY <3>4 DEF Goto, LockInv, Base, TypeOK, Actor
      <4> QED
        BY <3>1, <3>4, <4>1, OwnersKept DEF Working
    <3> QED
      BY <3>2, <3>3, <3>4
  <2>10. CASE Crash
    BY <2>10 DEF Crash, Unlike, Owned, Working
  <2> QED
    BY <2>1, <2>2, <2>3, <2>4, <2>6, <2>7, <2>8, <2>9, <2>10 DEF Next, Poll, ProcessTask
<1>3. Base /\ Unlike /\ Owned => LockInv
  BY DEF LockInv
<1> QED
  BY <1>1, <1>2, <1>3, BaseInvariant, PTL DEF Spec, LockInv

(***************************************************************************)
(* Two tasks that both believe to hold a lock: only if a sweep took it     *)
(* from one of them.  So a late release never takes a successor's lock.    *)
(***************************************************************************)
THEOREM LateReleases == Spec => []LateReleaseSafe
<1>1. LockInv => LateReleaseSafe
  BY DEF LockInv, Unlike, Owned, LateReleaseSafe, Working
<1> QED
  BY <1>1, LockInvariant, PTL

-----------------------------------------------------------------------------
(* Tasks and marks.                                                         *)

(* An idle slot has no task, and only a promotion has one in hand. *)
EmptyHanded ==
    /\ \A s \in Slot : pc[s] = "idle" => task[s] = NoTask
    /\ \A a \in Actor : pc[a] # "push" => hand[a] = NoTask

(* What a crash takes from memory is a task somebody was at work on. *)
LEMMA EmptyHandedInvariant == Spec => []EmptyHanded
<1> USE ReproducerQueueAssumption
<1>1. Init => EmptyHanded
  BY DEF Init, EmptyHanded
<1>2. Base /\ EmptyHanded /\ [Next]_vars => EmptyHanded'
  <2> SUFFICES ASSUME Base, EmptyHanded, [Next]_vars PROVE EmptyHanded'
    OBVIOUS
  <2>1. pc \in [Actor -> SlotPos \cup PollerPos] /\ DOMAIN task = Slot /\ DOMAIN hand = Actor
    BY DEF Base, TypeOK, SlotPos, PollerPos
  <2>2. CASE UNCHANGED <<pc, task, hand>>
    BY <2>2 DEF EmptyHanded
  <2>3. ASSUME NEW a \in Actor, NEW p, p # "push", pc[a] # "push", Goto(a, p), UNCHANGED hand,
               \/ a \notin Slot /\ UNCHANGED task
               \/ p # "idle" /\ UNCHANGED task
               \/ task' = [task EXCEPT ![a] = NoTask]
        PROVE  EmptyHanded'
    BY <2>1, <2>3 DEF Goto, EmptyHanded, Actor
  <2>4. ASSUME NEW a \in Actor, Goto(a, "push"), UNCHANGED task, \E t : hand' = [hand EXCEPT ![a] = t]
        PROVE  EmptyHanded'
    BY <2>1, <2>4 DEF Goto, EmptyHanded, Actor
  <2>5. ASSUME NEW a \in Actor, PromotePush(a) PROVE EmptyHanded'
    <3>1. Goto(a, "promote") /\ UNCHANGED task /\ hand' = [hand EXCEPT ![a] = NoTask]
      BY <2>5 DEF PromotePush, slots
    <3> QED
      BY <2>1, <3>1 DEF Goto, EmptyHanded, Actor
  <2>6. Poller \in Actor /\ Poller \notin Slot
    BY DEF Actor
  <2>7. CASE Poll
    <3>1. CASE SweepScan
      BY <2>3, <2>6, <3>1 DEF SweepScan, slots
    <3>2. CASE SweepEntry
      <4>1. pc[Poller] # "push" /\ UNCHANGED <<hand, task>> /\ (Goto(Poller, "promote") \/ UNCHANGED pc)
        BY <3>2 DEF SweepEntry, slots
      <4> QED
        BY <2>2, <2>3, <2>6, <4>1
    <3>3. CASE SweepPromote
      <4>1. PICK l \in sweeping : PromotePop(Poller, l, sweeping' = {} /\ Goto(Poller, "sweep") /\ UNCHANGED <<slots, swept>>)
        BY <3>3 DEF SweepPromote
      <4>2. CASE blocked[l] = <<>>
        <5>1. Goto(Poller, "sweep") /\ UNCHANGED <<hand, task>> /\ pc[Poller] # "push"
          BY <3>3, <4>1, <4>2 DEF PromotePop, SweepPromote, slots
        <5> QED
          BY <2>3, <2>6, <5>1
      <4>3. CASE blocked[l] # <<>>
        <5>1. Goto(Poller, "push") /\ UNCHANGED task /\ hand' = [hand EXCEPT ![Poller] = Head(blocked[l])]
          BY <4>1, <4>3 DEF PromotePop, slots
        <5> QED
          BY <2>4, <2>6, <5>1
      <4> QED
        BY <4>2, <4>3
    <3>4. CASE DueScan
      BY <2>3, <2>6, <3>4 DEF DueScan, slots
    <3>5. CASE DuePromote
      BY <2>2, <3>5 DEF DuePromote, slots
    <3>6. CASE BrPop
      <4>1. UNCHANGED hand /\ pc[Poller] = "due"
        BY <3>6 DEF BrPop
      <4>2. CASE Goto(Poller, "idle") /\ UNCHANGED task
        BY <2>3, <2>6, <4>1, <4>2
      <4>3. ASSUME NEW s \in Slot, NEW t, pc[s] = "idle", task' = [task EXCEPT ![s] = t],
                   pc' = [pc EXCEPT ![s] = "guard", ![Poller] = "idle"]
            PROVE  EmptyHanded'
        BY <2>1, <2>6, <4>1, <4>3 DEF EmptyHanded, Actor
      <4> DEFINE q == IF queue["todo"] # <<>> THEN "todo" ELSE "normal"
                 n == Len(queue[q])
                 s == CHOOSE x \in Free : TRUE
                 t == queue[q][n]
      <4>4. \/ task' = [task EXCEPT ![s] = t] /\ pc' = [pc EXCEPT ![s] = "guard", ![Poller] = "idle"]
            \/ Goto(Poller, "idle") /\ UNCHANGED task
        BY <3>6 DEF BrPop
      <4>5. s \in Free /\ deployment.slots \subseteq Slot
        BY <4>1 DEF Base, Placed, TypeOK
      <4>6. s \in Slot /\ pc[s] = "idle"
        BY <4>5 DEF Free
      <4> HIDE DEF q, n, s, t
      <4> QED
        BY <4>2, <4>3, <4>4, <4>6
    <3> QED
      BY <2>5, <2>6, <2>7, <3>1, <3>2, <3>3, <3>4, <3>5, <3>6 DEF Poll
  <2>8. ASSUME NEW s \in Slot, ProcessTask(s) PROVE EmptyHanded'
    <3>1. s \in Actor
      BY DEF Actor
    <3>2. CASE Guard(s) \/ Acquire(s) \/ Stage(s) \/ Park(s) \/ RunWorkflow(s) \/ HandleResults(s)
               \/ Retry(s) \/ Complete(s) \/ Release(s)
      <4>1. pc[s] # "push" /\ UNCHANGED hand
        BY <3>2 DEF Guard, Acquire, Stage, Park, RunWorkflow, HandleResults, Retry, Complete, Release
      <4>2. End(s) \/ (UNCHANGED task /\ \E p \in SlotPos \ {"push", "idle"} : Goto(s, p))
        BY <3>2 DEF Guard, Acquire, Stage, Park, RunWorkflow, HandleResults, Retry, AfterRetry, Complete,
                    Release, SlotPos, slots
      <4> QED
        BY <2>3, <3>1, <4>1, <4>2 DEF End, Clear
    <3>3. CASE ReleasePromote(s)
      <4>1. PromotePop(s, Lock(s), End(s) /\ UNCHANGED sweeping) /\ pc[s] = "promote"
        BY <3>3 DEF ReleasePromote
      <4>2. CASE blocked[Lock(s)] = <<>>
        <5>1. Goto(s, "idle") /\ task' = [task EXCEPT ![s] = NoTask] /\ UNCHANGED hand
          BY <4>1, <4>2 DEF PromotePop, End, Clear
        <5>2. pc[s] # "push"
          BY <4>1
        <5> QED
          BY <2>3, <3>1, <5>1, <5>2
      <4>3. CASE blocked[Lock(s)] # <<>>
        <5>1. Goto(s, "push") /\ UNCHANGED task /\ hand' = [hand EXCEPT ![s] = Head(blocked[Lock(s)])]
          BY <4>1, <4>3 DEF PromotePop, slots
        <5> QED
          BY <2>4, <3>1, <5>1
      <4> QED
        BY <4>2, <4>3
    <3> QED
      BY <2>5, <2>8, <3>1, <3>2, <3>3 DEF ProcessTask
  <2>9. CASE Crash
    BY <2>9 DEF Crash, EmptyHanded
  <2>10. CASE UNCHANGED vars \/ (\E i \in Issue : Submit(i)) \/ (\E t \in delayed : DelayPasses(t)) \/ \E l \in LockId : Age(l)
    <3>1. UNCHANGED <<pc, task, hand>>
      BY <2>10 DEF vars, slots, Submit, DelayPasses, Age
    <3> QED
      BY <2>2, <3>1
  <2> QED
    BY <2>7, <2>8, <2>9, <2>10 DEF Next
<1> QED
  BY <1>1, <1>2, BaseInvariant, PTL DEF Spec

(***************************************************************************)
(* The strengthening of NoTaskLost and InProgressHasTask: a task names the *)
(* issue its job was made for; every job is settled or has a task that is  *)
(* still to be settled; every issue in progress has a task that has not    *)
(* passed its terminal label; what is over was once submitted.             *)
(***************************************************************************)
Traced == \A t \in Task : Present(t, Busy) => t.job \in 1 .. jobs /\ issueOf[t.job] = t.issue
Settled(j) == \/ j \in completed \cup errors \cup skipped \cup killed
              \/ \E k \in completed : issueOf[k] = issueOf[j]
Kept   == \A j \in 1 .. jobs : Settled(j) \/ \E t \in Task : Present(t, Undone) /\ t.job = j
Witnessed(i) == \/ \E t \in Task : Present(t, Unsettled) /\ t.issue = i
                \/ \E j \in killed : issueOf[j] = i
Marked == "disabled" \notin deployment.faults =>
              \A i \in Issue : label[i] = "in_progress" => Witnessed(i)
Outcomes == completed \cup killed \subseteq 1 .. jobs

Conserved == Traced /\ Kept /\ Marked /\ Outcomes
Same(t, u) == u.job = t.job /\ u.issue = t.issue

(* A step that makes no job: every task stays or its job is settled, and no *)
(* mark loses its witness.                                                  *)
Conserves ==
    /\ UNCHANGED <<jobs, issueOf, deployment>>
    /\ \A t \in Task : Present(t, Busy)' => \E u \in Task : Present(u, Busy) /\ Same(t, u)
    /\ \A t \in Task : Present(t, Undone) /\ t.job \in 1 .. jobs /\ issueOf[t.job] = t.issue
            => Settled(t.job)' \/ \E u \in Task : Present(u, Undone)' /\ Same(t, u)
    /\ \A j \in 1 .. jobs : Settled(j) => Settled(j)'
    /\ completed' \cup killed' \subseteq 1 .. jobs
    /\ "disabled" \notin deployment.faults =>
           \A i \in Issue : label'[i] = "in_progress" =>
               \/ Witnessed(i)'
               \/ label[i] = "in_progress" /\ (Witnessed(i) => Witnessed(i)')

(* The positions of a slot, from unsettled to busy. *)
LEMMA AtUndone == Unsettled \subseteq Undone /\ Undone \subseteq Busy /\ Busy \subseteq SlotPos
  BY DEF Unsettled, Undone, Busy, SlotPos

(* A task at some positions is at more of them. *)
LEMMA PresentMore ==
    ASSUME NEW t, NEW A, NEW B, A \subseteq B, Present(t, A) PROVE Present(t, B)
  BY DEF Present, InSlot

(* The invariant survives every step that conserves. *)
LEMMA ConservesKeeps ==
    ASSUME Base, Conserved, Conserves PROVE Conserved'
<1>1. Traced'
  BY DEF Conserved, Traced, Conserves, Same
<1>2. Kept'
  <2>1. ASSUME NEW j \in 1 .. jobs PROVE Settled(j)' \/ \E t \in Task : Present(t, Undone)' /\ t.job = j
    <3>1. CASE Settled(j)
      BY <3>1 DEF Conserves
    <3>2. CASE \E t \in Task : Present(t, Undone) /\ t.job = j
      <4>1. PICK t \in Task : Present(t, Undone) /\ t.job = j
        BY <3>2
      <4>2. Present(t, Busy)
        BY <4>1, AtUndone, PresentMore
      <4>3. issueOf[t.job] = t.issue
        BY <4>1, <4>2 DEF Conserved, Traced
      <4> QED
        BY <4>1, <4>3 DEF Conserves, Same
    <3> QED
      BY <3>1, <3>2 DEF Conserved, Kept
  <2> QED
    BY <2>1 DEF Kept, Conserves
<1>3. Marked'
  BY DEF Conserved, Marked, Conserves
<1> QED
  BY <1>1, <1>2, <1>3 DEF Conserved, Conserves, Outcomes

(* What a step that only moves tasks leaves alone. *)
outcome == <<errors, completed, skipped, killed, label, jobs, issueOf, deployment>>

(* Moving tasks among the lists conserves. *)
LEMMA Neutral ==
    ASSUME Conserved, UNCHANGED outcome,
           \A t \in Task : Present(t, Undone) => Present(t, Undone)',
           \A t \in Task : Present(t, Unsettled) => Present(t, Unsettled)',
           \A t \in Task : Present(t, Busy)' => Present(t, Busy)
    PROVE  Conserves
<1>1. \A j : Settled(j) => Settled(j)'
  BY DEF outcome, Settled
<1>2. \A i \in Issue : Witnessed(i) => Witnessed(i)'
  BY DEF outcome, Witnessed
<1> QED
  BY <1>1, <1>2 DEF Conserves, Conserved, Outcomes, outcome, Same

(* A list that a step leaves alone holds the same tasks. *)
LEMMA ListsSame ==
    /\ UNCHANGED queue   => \A t : Queued(t)' <=> Queued(t)
    /\ UNCHANGED blocked => \A t : Parked(t)' <=> Parked(t)
  BY DEF Queued, Parked

(* So does everything, when no slot moves. *)
LEMMA Still ==
    ASSUME UNCHANGED <<queue, blocked, delayed, task, hand>>, 
           \A s \in Slot : pc'[s] = pc[s], pc'[Poller] = "push" <=> pc[Poller] = "push"
    PROVE  \A t, at : Present(t, at)' <=> Present(t, at)
<1>1. \A t : InHand(t)' <=> InHand(t)
  BY DEF InHand, Actor
<1>2. \A t, at : InSlot(t, at)' <=> InSlot(t, at)
  BY DEF InSlot
<1> QED
  BY <1>1, <1>2, ListsSame DEF Present

(* A step of slot s moves its own task and nobody else's. *)
LEMMA SlotStep ==
    ASSUME ReproducerQueueAssumption, NEW s \in Slot, pc[s] # "push", pc'[s] # "push", UNCHANGED hand,
           \A a \in Actor \ {s} : pc'[a] = pc[a], \A r \in Slot \ {s} : task'[r] = task[r],
           \A t : Queued(t) => Queued(t)', \A t : Parked(t) => Parked(t)', delayed \subseteq delayed'
    PROVE  /\ \A t, at : Present(t, at) => Present(t, at)' \/ (pc[s] \in at /\ t = task[s])
           /\ \A t, at : Present(t, at)' =>
                 \/ Present(t, at) \/ (pc'[s] \in at /\ t = task'[s])
                 \/ (Queued(t)' /\ ~Queued(t)) \/ (Parked(t)' /\ ~Parked(t)) \/ t \in delayed' \ delayed
           /\ \A t, at : pc'[s] \in at /\ t = task'[s] => Present(t, at)'
           /\ \A t, at : pc[s] \in at /\ t = task[s] => Present(t, at)
<1>1. \A t : InHand(t)' <=> InHand(t)
  BY DEF InHand
<1>2. \A t, at : InSlot(t, at) => InSlot(t, at)' \/ (pc[s] \in at /\ t = task[s])
  BY DEF InSlot, Actor
<1>3. \A t, at : InSlot(t, at)' => InSlot(t, at) \/ (pc'[s] \in at /\ t = task'[s])
  BY DEF InSlot, Actor
<1>4. \A t, at : (pc'[s] \in at /\ t = task'[s] => InSlot(t, at)') /\ (pc[s] \in at /\ t = task[s] => InSlot(t, at))
  BY DEF InSlot
<1> QED
  BY <1>1, <1>2, <1>3, <1>4 DEF Present

(* A step of slot s that leaves the lists alone and keeps its task. *)
LEMMA GotoStep ==
    ASSUME Base, NEW s \in Slot, NEW next \in SlotPos \ {"push"}, pc[s] # "push", Goto(s, next),
           UNCHANGED <<queue, blocked, delayed, hand, task>>
    PROVE  /\ \A t, at : Present(t, at) => Present(t, at)' \/ (pc[s] \in at /\ next \notin at /\ t = task[s])
           /\ \A t, at : Present(t, at)' => Present(t, at) \/ (next \in at /\ t = task[s])
           /\ \A t, at : pc[s] \in at /\ t = task[s] => Present(t, at)
           /\ \A at : next \in at => Present(task[s], at)'
<1>1. /\ pc'[s] = next /\ \A a \in Actor \ {s} : pc'[a] = pc[a]
      /\ task'[s] = task[s] /\ \A r \in Slot \ {s} : task'[r] = task[r]
  BY DEF Goto, Base, TypeOK, Actor
<1>2. next # "push" /\ UNCHANGED hand /\ delayed' = delayed
  OBVIOUS
<1>3. \A t : (Queued(t)' <=> Queued(t)) /\ (Parked(t)' <=> Parked(t))
  BY ListsSame
<1>4. /\ \A t, at : Present(t, at) => Present(t, at)' \/ (pc[s] \in at /\ t = task[s])
      /\ \A t, at : Present(t, at)' =>
                 \/ Present(t, at) \/ (pc'[s] \in at /\ t = task'[s])
                 \/ (Queued(t)' /\ ~Queued(t)) \/ (Parked(t)' /\ ~Parked(t)) \/ t \in delayed' \ delayed
      /\ \A t, at : pc'[s] \in at /\ t = task'[s] => Present(t, at)'
      /\ \A t, at : pc[s] \in at /\ t = task[s] => Present(t, at)
  BY <1>1, <1>2, <1>3, SlotStep, ReproducerQueueAssumption
<1> QED
  BY <1>1, <1>2, <1>3, <1>4

(* The end of the task in slot s: it is gone unless a list has it. *)
LEMMA EndStep ==
    ASSUME Base, NEW s \in Slot, pc[s] # "push", End(s), UNCHANGED hand,
           \A t : Queued(t) => Queued(t)', \A t : Parked(t) => Parked(t)', delayed \subseteq delayed'
    PROVE  /\ \A t, at : Present(t, at) => Present(t, at)' \/ (pc[s] \in at /\ t = task[s])
           /\ \A t \in Task, at \in {Busy, Undone, Unsettled} : Present(t, at)' => Present(t, at)
                 \/ (Queued(t)' /\ ~Queued(t)) \/ (Parked(t)' /\ ~Parked(t)) \/ t \in delayed' \ delayed
           /\ \A t, at : pc[s] \in at /\ t = task[s] => Present(t, at)
<1>1. /\ pc'[s] = "idle" /\ \A a \in Actor \ {s} : pc'[a] = pc[a]
      /\ task'[s] = NoTask /\ \A r \in Slot \ {s} : task'[r] = task[r]
  BY DEF End, Clear, Goto, Base, TypeOK, Actor
<1>2. pc'[s] # "push"
  BY <1>1
<1>3. /\ \A t, at : Present(t, at) => Present(t, at)' \/ (pc[s] \in at /\ t = task[s])
      /\ \A t, at : Present(t, at)' =>
                 \/ Present(t, at) \/ (pc'[s] \in at /\ t = task'[s])
                 \/ (Queued(t)' /\ ~Queued(t)) \/ (Parked(t)' /\ ~Parked(t)) \/ t \in delayed' \ delayed
      /\ \A t, at : pc'[s] \in at /\ t = task'[s] => Present(t, at)'
      /\ \A t, at : pc[s] \in at /\ t = task[s] => Present(t, at)
  BY <1>1, <1>2, SlotStep, ReproducerQueueAssumption
<1>4. \A at \in {Busy, Undone, Unsettled} : pc'[s] \notin at
  BY <1>1 DEF Busy, Undone, Unsettled
<1> QED
  BY <1>3, <1>4

-----------------------------------------------------------------------------
(* The poller.                                                              *)

(* The steps that move no task conserve. *)
LEMMA Quiet ==
    ASSUME Conserved, UNCHANGED outcome, UNCHANGED <<queue, blocked, delayed, task, hand>>,
           \A s \in Slot : pc'[s] = pc[s], pc'[Poller] = "push" <=> pc[Poller] = "push"
    PROVE  Conserves
<1>1. \A t, at : Present(t, at)' <=> Present(t, at)
  BY Still
<1> QED
  BY <1>1, Neutral

(* A promotion takes a waiter from its list. *)
LEMMA PopKeeps ==
    ASSUME Base, Conserved, UNCHANGED outcome, UNCHANGED <<queue, delayed, task>>,
           NEW a \in Actor, pc[a] = "promote", Goto(a, "push"),
           NEW l \in LockId, blocked[l] # <<>>,
           blocked' = [blocked EXCEPT ![l] = Tail(@)],
           hand' = [hand EXCEPT ![a] = Head(blocked[l])]
    PROVE  Conserves
<1> DEFINE w == Head(blocked[l])
<1>1. /\ w \in Task /\ Parked(w) /\ \A u : Parked(u)' => Parked(u)
      /\ \A u : Parked(u) => Parked(u)' \/ u = w
  BY UnparkFacts DEF Base
<1>2. /\ pc'[a] = "push" /\ \A b \in Actor \ {a} : pc'[b] = pc[b]
      /\ hand'[a] = w /\ \A b \in Actor \ {a} : hand'[b] = hand[b]
  BY DEF Goto, Base, TypeOK
<1> HIDE DEF w
<1>3. \A t : InHand(t)' <=> InHand(t) \/ t = w
  BY <1>2 DEF InHand
<1>4. \A t, at : InSlot(t, at) => InSlot(t, at)' \/ "promote" \in at
  BY <1>2 DEF InSlot, Actor
<1>5. \A t, at : "promote" \in at /\ InSlot(t, at)' => InSlot(t, at)
  BY <1>2 DEF InSlot, Actor
<1>6. "promote" \notin Undone /\ "promote" \notin Unsettled /\ "promote" \in Busy
  BY DEF Undone, Unsettled, Busy, SlotPos
<1>7. \A t : Queued(t)' <=> Queued(t)
  BY ListsSame
<1>8. \A t, at : "promote" \notin at /\ Present(t, at) => Present(t, at)'
  BY <1>1, <1>3, <1>4, <1>7 DEF Present
<1>9. \A t, at : "promote" \in at /\ Present(t, at)' => Present(t, at)
  BY <1>1, <1>3, <1>5, <1>7 DEF Present
<1> QED
  BY <1>6, <1>8, <1>9, Neutral

(* The promotion pushes the waiter to its queue. *)
LEMMA PushKeeps ==
    ASSUME Base, Conserved, NEW a \in Actor, PromotePush(a)
    PROVE  Conserves
<1> DEFINE w == hand[a]
<1>1. w \in Task
  BY DEF PromotePush, Base, Placed
<1>2. \A u : Queued(u)' <=> Queued(u) \/ u = w
  BY <1>1, PushFacts DEF Base, PromotePush
<1>3. /\ pc[a] = "push" /\ pc'[a] = "promote" /\ \A b \in Actor \ {a} : pc'[b] = pc[b]
      /\ \A b \in Actor \ {a} : hand'[b] = hand[b]
      /\ UNCHANGED outcome /\ UNCHANGED <<delayed, blocked, task>>
  BY DEF PromotePush, Goto, Base, TypeOK, outcome, slots, hist, past
<1>4. InHand(w)
  BY <1>3 DEF InHand
<1>5. \A t : (InHand(t) => InHand(t)' \/ t = w) /\ (InHand(t)' => InHand(t))
  BY <1>3 DEF InHand
<1> HIDE DEF w
<1>6. \A t, at : (InSlot(t, at) => InSlot(t, at)' \/ "push" \in at) /\ ("push" \in at /\ InSlot(t, at)' => InSlot(t, at))
  BY <1>3 DEF InSlot, Actor
<1>7. "push" \notin Undone /\ "push" \notin Unsettled /\ "push" \in Busy
  BY DEF Undone, Unsettled, Busy, SlotPos
<1>8. \A t : Parked(t)' <=> Parked(t)
  BY <1>3, ListsSame
<1>9. \A t, at : "push" \notin at /\ Present(t, at) => Present(t, at)'
  BY <1>2, <1>3, <1>5, <1>6, <1>8 DEF Present
<1>10. \A t, at : "push" \in at /\ Present(t, at)' => Present(t, at)
  BY <1>2, <1>3, <1>4, <1>5, <1>6, <1>8 DEF Present
<1> QED
  BY <1>3, <1>7, <1>9, <1>10, Neutral

(* A delayed task goes to its queue in one MULTI. *)
LEMMA DueKeeps ==
    ASSUME Base, Conserved, DuePromote PROVE Conserves
<1>1. PICK t \in due : LPush(t) /\ delayed' = delayed \ {t}
  BY DEF DuePromote
<1>2. t \in Task /\ t \in delayed
  BY DEF Base, TypeOK
<1>3. \A u : Queued(u)' <=> Queued(u) \/ u = t
  BY <1>1, <1>2, PushFacts DEF Base
<1>4. UNCHANGED outcome /\ UNCHANGED <<blocked, task, hand, pc>>
  BY DEF DuePromote, outcome, slots, hist, past
<1>5. \A u : (Parked(u)' <=> Parked(u)) /\ (InHand(u)' <=> InHand(u)) /\ \A at : InSlot(u, at)' <=> InSlot(u, at)
  BY <1>4, ListsSame DEF InHand, InSlot
<1>6. \A u, at : Present(u, at)' <=> Present(u, at)
  BY <1>1, <1>2, <1>3, <1>5 DEF Present
<1> QED
  BY <1>4, <1>6, Neutral

(* BRPOP hands a task to a free slot. *)
LEMMA BrPopKeeps ==
    ASSUME Base, Conserved, BrPop PROVE Conserves
<1> DEFINE q == IF queue["todo"] # <<>> THEN "todo" ELSE "normal"
           n == Len(queue[q])
           s == CHOOSE x \in Free : TRUE
           w == queue[q][n]
<1>1. UNCHANGED outcome /\ UNCHANGED <<blocked, delayed, hand>> /\ pc[Poller] = "due"
  BY DEF BrPop, outcome, slots, hist, past
<1>2. CASE n = 0 /\ Goto(Poller, "idle") /\ UNCHANGED <<queue, task>>
  <2>1. pc'[Poller] = "idle" /\ \A r \in Slot : pc'[r] = pc[r]
    BY <1>2, ReproducerQueueAssumption DEF Goto, Base, TypeOK, Actor
  <2> QED
    BY <1>1, <1>2, <2>1, Quiet
<1>3. CASE /\ n > 0
           /\ queue' = [queue EXCEPT ![q] = SubSeq(@, 1, n - 1)]
           /\ task' = [task EXCEPT ![s] = queue[q][n]]
           /\ pc' = [pc EXCEPT ![s] = "guard", ![Poller] = "idle"]
  <2>1. q \in QName
    BY DEF QName
  <2>2. s \in Free
    BY <1>1 DEF Base, Placed
  <2>3. s \in Slot /\ pc[s] = "idle"
    <3>1. deployment.slots \subseteq Slot
      BY ReproducerQueueAssumption DEF Base, TypeOK
    <3> QED
      BY <2>2, <3>1 DEF Free
  <2>4. /\ w \in Task /\ Queued(w) /\ \A u : Queued(u)' => Queued(u)
        /\ \A u : Queued(u) => Queued(u)' \/ u = w
    BY <1>3, <2>1, PopFacts DEF Base
  <2>5. PICK r \in Slot : r = s
    BY <2>3
  <2>6. PICK v \in Task : v = w
    BY <2>4
  <2>7. /\ task'[r] = v /\ \A x \in Slot \ {r} : task'[x] = task[x]
        /\ pc[r] = "idle" /\ pc'[r] = "guard" /\ \A x \in Slot \ {r} : pc'[x] = pc[x]
        /\ pc'[Poller] = "idle"
    <3>1. task' = [task EXCEPT ![r] = v] /\ pc' = [pc EXCEPT ![r] = "guard", ![Poller] = "idle"]
      BY <1>3, <2>5, <2>6
    <3> HIDE DEF q, n, s, w
    <3> QED
      BY <3>1, <2>3, <2>5, ReproducerQueueAssumption DEF Base, TypeOK, Actor
  <2>8. Queued(v) /\ (\A u : Queued(u)' => Queued(u)) /\ \A u : Queued(u) => Queued(u)' \/ u = v
    BY <2>4, <2>6
  <2> HIDE DEF q, n, s, w
  <2>9. \A u : (Parked(u)' <=> Parked(u)) /\ (InHand(u)' <=> InHand(u))
    BY <1>1, <2>7, ListsSame DEF InHand, Actor
  <2>10. \A u, at : /\ (InSlot(u, at) => InSlot(u, at)' \/ "idle" \in at)
                    /\ (InSlot(u, at)' => InSlot(u, at) \/ u = v)
                    /\ ("guard" \in at => InSlot(v, at)')
    BY <2>7 DEF InSlot
  <2>11. "idle" \notin Undone /\ "idle" \notin Unsettled /\ "guard" \in Undone /\ "guard" \in Unsettled
    BY DEF Undone, Unsettled
  <2>12. \A u, at : Present(u, at)' => Present(u, at)
    BY <1>1, <2>8, <2>9, <2>10 DEF Present
  <2>13. \A u, at : "idle" \notin at /\ "guard" \in at /\ Present(u, at) => Present(u, at)'
    BY <1>1, <2>8, <2>9, <2>10 DEF Present
  <2> QED
    BY <1>1, <2>11, <2>12, <2>13, Neutral
<1> QED
  BY <1>2, <1>3 DEF BrPop

(* The sweep, the promotions and the pop lose no task. *)
LEMMA PollKeeps ==
    ASSUME Base, Conserved, Poll PROVE Conserves
<1>1. Poller \in Actor /\ \A s \in Slot : s # Poller
  BY ReproducerQueueAssumption DEF Actor
<1>2. CASE SweepScan
  <2>1. UNCHANGED outcome /\ UNCHANGED <<queue, blocked, delayed, task, hand>>
    BY <1>2 DEF SweepScan, outcome, store, slots, hist, past
  <2>2. (\A s \in Slot : pc'[s] = pc[s]) /\ pc'[Poller] = "sweep" /\ pc[Poller] = "idle"
    BY <1>1, <1>2 DEF SweepScan, Goto, Base, TypeOK, Actor
  <2> QED
    BY <2>1, <2>2, Quiet
<1>3. CASE SweepEntry
  <2>1. UNCHANGED outcome /\ UNCHANGED <<queue, blocked, delayed, task, hand>> /\ pc[Poller] = "sweep"
    BY <1>3 DEF SweepEntry, outcome, slots, hist, past
  <2>2. UNCHANGED pc \/ Goto(Poller, "promote")
    BY <1>3 DEF SweepEntry
  <2>3. (\A s \in Slot : pc'[s] = pc[s]) /\ pc'[Poller] # "push"
    BY <1>1, <2>1, <2>2 DEF Goto, Base, TypeOK, Actor
  <2> QED
    BY <2>1, <2>3, Quiet
<1>4. CASE SweepPromote
  <2>1. PICK l \in sweeping : PromotePop(Poller, l, sweeping' = {} /\ Goto(Poller, "sweep") /\ UNCHANGED <<slots, swept>>)
    BY <1>4 DEF SweepPromote
  <2>2. l \in LockId /\ pc[Poller] = "promote"
    BY <1>4, <2>1 DEF Base, TypeOK, SweepPromote
  <2>3. UNCHANGED outcome /\ UNCHANGED <<queue, delayed, task>>
    BY <2>1 DEF PromotePop, outcome, slots, hist, past
  <2>4. CASE blocked[l] = <<>>
    <3>1. UNCHANGED <<blocked, hand>> /\ Goto(Poller, "sweep")
      BY <2>1, <2>4 DEF PromotePop
    <3>2. (\A s \in Slot : pc'[s] = pc[s]) /\ pc'[Poller] = "sweep"
      BY <1>1, <3>1 DEF Goto, Base, TypeOK, Actor
    <3> QED
      BY <2>2, <2>3, <3>1, <3>2, Quiet
  <2>5. CASE blocked[l] # <<>>
    <3>1. /\ Goto(Poller, "push") /\ blocked' = [blocked EXCEPT ![l] = Tail(@)]
          /\ hand' = [hand EXCEPT ![Poller] = Head(blocked[l])]
      BY <2>1, <2>5 DEF PromotePop
    <3> QED
      BY <1>1, <2>2, <2>3, <2>5, <3>1, PopKeeps
  <2> QED
    BY <2>4, <2>5
<1>5. CASE DueScan
  <2>1. UNCHANGED outcome /\ UNCHANGED <<queue, blocked, delayed, task, hand>>
    BY <1>5 DEF DueScan, outcome, store, slots, hist, past
  <2>2. (\A s \in Slot : pc'[s] = pc[s]) /\ pc'[Poller] = "due" /\ pc[Poller] = "sweep"
    BY <1>1, <1>5 DEF DueScan, Goto, Base, TypeOK, Actor
  <2> QED
    BY <2>1, <2>2, Quiet
<1> QED
  BY <1>1, <1>2, <1>3, <1>4, <1>5, DueKeeps, BrPopKeeps, PushKeeps DEF Poll

-----------------------------------------------------------------------------
(* The slots.                                                               *)

(* A task that goes on in its slot. *)
LEMMA MoveKeeps ==
    ASSUME Base, Conserved, NEW s \in Slot, NEW next \in SlotPos \ {"push"}, pc[s] # "push", Goto(s, next),
           UNCHANGED <<queue, blocked, delayed, hand, task, jobs, issueOf, deployment, killed>>,
           pc[s] \in Busy, next \in Undone => pc[s] \in Undone,
           next \in Unsettled => pc[s] \in Unsettled,
           completed \subseteq completed', completed' \subseteq 1 .. jobs, skipped \subseteq skipped',
           \A j \in errors : Settled(j)',
           pc[s] \in Undone /\ next \notin Undone => Settled(task[s].job)',
           \A i \in Issue : label'[i] = "in_progress" =>
               label[i] = "in_progress" \/ (i = task[s].issue /\ next \in Unsettled),
           pc[s] \in Unsettled /\ next \notin Unsettled => label'[task[s].issue] # "in_progress"
    PROVE  Conserves
<1>1. /\ \A t, at : Present(t, at) => Present(t, at)' \/ (pc[s] \in at /\ next \notin at /\ t = task[s])
      /\ \A t, at : Present(t, at)' => Present(t, at) \/ (next \in at /\ t = task[s])
      /\ \A t, at : pc[s] \in at /\ t = task[s] => Present(t, at)
      /\ \A at : next \in at => Present(task[s], at)'
  BY GotoStep
<1>2. task[s] \in Task
  BY DEF Base, Placed, Busy
<1>3. \A t \in Task : Present(t, Busy)' => Present(t, Busy)
  BY <1>1
<1>4. \A j : Settled(j) => Settled(j)'
  <2>1. ASSUME NEW j, j \notin errors, Settled(j) PROVE Settled(j)'
    BY <2>1 DEF Settled
  <2> QED
    BY <2>1
<1>5. \A t \in Task : Present(t, Undone) => Present(t, Undone)' \/ Settled(t.job)'
  BY <1>1
<1>6. \A i \in Issue : label'[i] = "in_progress" /\ Witnessed(i) => Witnessed(i)'
  <2>1. ASSUME NEW i \in Issue, label'[i] = "in_progress", NEW t \in Task, Present(t, Unsettled), t.issue = i
        PROVE  Present(t, Unsettled)'
    BY <1>1, <2>1
  <2> QED
    BY <2>1 DEF Witnessed
<1>7. next \in Unsettled => Witnessed(task[s].issue)'
  BY <1>1, <1>2 DEF Witnessed
<1>8. /\ UNCHANGED <<jobs, issueOf, deployment>>
      /\ completed' \cup killed' \subseteq 1 .. jobs
  BY DEF Conserved, Outcomes
<1>9. \A i \in Issue : label'[i] = "in_progress" => Witnessed(i)' \/ (label[i] = "in_progress" /\ (Witnessed(i) => Witnessed(i)'))
  BY <1>6, <1>7
<1> QED
  BY <1>3, <1>4, <1>5, <1>8, <1>9 DEF Conserves, Same

(* A task that leaves its slot for good. *)
LEMMA FinishKeeps ==
    ASSUME Base, Conserved, NEW s \in Slot, pc[s] # "push", End(s),
           UNCHANGED <<queue, blocked, delayed, hand, jobs, issueOf, deployment, killed, completed>>,
           errors \subseteq errors', skipped \subseteq skipped',
           pc[s] \in Undone => task[s].job \in errors' \cup skipped',
           \A i \in Issue : label'[i] = "in_progress" => label[i] = "in_progress",
           "disabled" \notin deployment.faults /\ pc[s] \in Unsettled => label'[task[s].issue] # "in_progress"
    PROVE  Conserves
<1>1. \A t : (Queued(t)' <=> Queued(t)) /\ (Parked(t)' <=> Parked(t))
  BY ListsSame
<1>2. /\ \A t, at : Present(t, at) => Present(t, at)' \/ (pc[s] \in at /\ t = task[s])
      /\ \A t \in Task, at \in {Busy, Undone, Unsettled} : Present(t, at)' => Present(t, at)
            \/ (Queued(t)' /\ ~Queued(t)) \/ (Parked(t)' /\ ~Parked(t)) \/ t \in delayed' \ delayed
  BY <1>1, EndStep
<1>3. \A t \in Task : Present(t, Busy)' => Present(t, Busy)
  BY <1>1, <1>2
<1>4. \A j : Settled(j) => Settled(j)'
  BY DEF Settled
<1>5. \A t \in Task : Present(t, Undone) => Present(t, Undone)' \/ Settled(t.job)'
  BY <1>2 DEF Settled
<1>6. "disabled" \notin deployment.faults =>
          \A i \in Issue : label'[i] = "in_progress" /\ Witnessed(i) => Witnessed(i)'
  <2>1. ASSUME "disabled" \notin deployment.faults, NEW i \in Issue, label'[i] = "in_progress",
               NEW t \in Task, Present(t, Unsettled), t.issue = i
        PROVE  Present(t, Unsettled)'
    BY <1>2, <2>1
  <2> QED
    BY <2>1 DEF Witnessed
<1>7. /\ UNCHANGED <<jobs, issueOf, deployment>>
      /\ completed' \cup killed' \subseteq 1 .. jobs
  BY DEF Conserved, Outcomes
<1> QED
  BY <1>3, <1>4, <1>5, <1>6, <1>7 DEF Conserves, Same

(* A task that leaves its slot for a list or the delayed set. *)
LEMMA HandedKeeps ==
    ASSUME Base, Conserved, NEW s \in Slot, pc[s] \in Unsettled, UNCHANGED hand, UNCHANGED outcome,
           NEW w \in Task, Same(task[s], w),
           End(s) \/ (Goto(s, "release") /\ UNCHANGED task),
           \A t : Queued(t) => Queued(t)', \A t : Parked(t) => Parked(t)', delayed \subseteq delayed',
           \A t : Queued(t)' \/ Parked(t)' \/ t \in delayed' =>
               Queued(t) \/ Parked(t) \/ t \in delayed \/ t = w,
           Queued(w)' \/ Parked(w)' \/ w \in delayed'
    PROVE  Conserves
<1>1. /\ pc[s] # "push" /\ pc'[s] \in {"idle", "release"} /\ \A a \in Actor \ {s} : pc'[a] = pc[a]
      /\ \A r \in Slot \ {s} : task'[r] = task[r]
  BY DEF End, Clear, Goto, Base, TypeOK, Actor, Unsettled
<1>2. pc'[s] # "push" /\ task[s] \in Task
  BY <1>1 DEF Base, Placed, Unsettled
<1>3. /\ \A t, at : Present(t, at) => Present(t, at)' \/ (pc[s] \in at /\ t = task[s])
      /\ \A t, at : Present(t, at)' =>
                 \/ Present(t, at) \/ (pc'[s] \in at /\ t = task'[s])
                 \/ (Queued(t)' /\ ~Queued(t)) \/ (Parked(t)' /\ ~Parked(t)) \/ t \in delayed' \ delayed
      /\ \A t, at : pc[s] \in at /\ t = task[s] => Present(t, at)
  BY <1>1, <1>2, SlotStep, ReproducerQueueAssumption
<1>4. \A t : (Queued(t)' /\ ~Queued(t)) \/ (Parked(t)' /\ ~Parked(t)) \/ t \in delayed' \ delayed => t = w \/ \A at : Present(t, at)
  BY DEF Present
<1>5. pc[s] \in Busy /\ pc[s] \in Undone
  BY AtUndone
<1>6. pc'[s] \in Busy => task'[s] = task[s]
  <2>1. CASE End(s)
    BY <2>1 DEF End, Goto, Busy, Base, TypeOK, Actor
  <2>2. CASE UNCHANGED task
    BY <2>2
  <2> QED
    BY <2>1, <2>2
<1>7. Present(task[s], Busy)
  BY <1>3, <1>5
<1>8. \A at : Present(w, at)'
  BY DEF Present
<1>9. \A t \in Task : Present(t, Busy)' => \E u \in Task : Present(u, Busy) /\ Same(t, u)
  <2>1. ASSUME NEW t \in Task, Present(t, Busy)' PROVE Present(t, Busy) \/ t = task[s] \/ t = w
    BY <1>3, <1>4, <1>6, <2>1
  <2> QED
    BY <1>2, <1>7, <2>1 DEF Same
<1>10. \A t \in Task : Present(t, Undone) => \E u \in Task : Present(u, Undone)' /\ Same(t, u)
  BY <1>3, <1>8 DEF Same
<1>11. \A j : Settled(j) => Settled(j)'
  BY DEF outcome, Settled
<1>12. \A i \in Issue : Witnessed(i) => Witnessed(i)'
  <2>1. ASSUME NEW i \in Issue, NEW t \in Task, Present(t, Unsettled), t.issue = i
        PROVE  \E u \in Task : Present(u, Unsettled)' /\ u.issue = i
    BY <1>3, <1>8, <2>1 DEF Same
  <2>2. ASSUME NEW i \in Issue, NEW j \in killed, issueOf[j] = i PROVE Witnessed(i)'
    BY <2>2 DEF outcome, Witnessed
  <2> QED
    BY <2>1, <2>2 DEF Witnessed
<1> QED
  BY <1>9, <1>10, <1>11, <1>12 DEF Conserves, Conserved, Outcomes, outcome

(* process_task loses no task: it is retried, parked, deferred, completed,  *)
(* given up or skipped.                                                     *)
LEMMA SlotKeeps ==
    ASSUME Base, Conserved, NEW s \in Slot, ProcessTask(s)
    PROVE  Conserves
<1> DEFINE t == task[s]
<1>0. s \in Actor /\ (pc[s] # "idle" => t \in Task /\ t.issue \in Issue /\ t.job \in Job /\ t.attempts \in 0 .. MaxRetries - 1)
  BY DEF Actor, Base, Placed, Task
<1>1. pc[s] \in Busy => Present(t, Busy)
  BY DEF Present, InSlot
<1>2. pc[s] \in Busy => t.job \in 1 .. jobs /\ issueOf[t.job] = t.issue
  <2>1. Busy = SlotPos \ {"idle"}
    BY DEF Busy
  <2> QED
    BY <1>0, <1>1, <2>1 DEF Conserved, Traced
<1>3. completed \subseteq 1 .. jobs
  BY DEF Conserved, Outcomes
<1>4. \A j \in errors : errors \subseteq errors' => Settled(j)'
  BY DEF Settled
<1>5. CASE Guard(s)
  <2>1. /\ pc[s] = "guard" /\ t \in Task
        /\ UNCHANGED <<queue, blocked, delayed, hand, jobs, issueOf, deployment, killed, completed, errors, label>>
    BY <1>0, <1>5 DEF Guard, store, past
  <2>2. CASE /\ \/ label[t.issue] = "terminal"
                \/ "disabled" \in deployment.faults
             /\ skipped' = skipped \cup {t.job} /\ End(s)
    <3>1. pc[s] # "push" /\ t.job \in errors' \cup skipped' /\ skipped \subseteq skipped' /\ errors \subseteq errors'
      BY <2>1, <2>2
    <3>2. "disabled" \notin deployment.faults => label'[t.issue] # "in_progress"
      BY <2>1, <2>2
    <3> QED
      BY <2>1, <2>2, <3>1, <3>2, FinishKeeps
  <2>3. CASE (Goto(s, "acquire") \/ Goto(s, "retry")) /\ UNCHANGED <<skipped, slots, swept>>
    <3>1. PICK next \in {"acquire", "retry"} : Goto(s, next)
      BY <2>3
    <3>2. next \in SlotPos \ {"push"} /\ next \in Unsettled /\ next \in Undone /\ pc[s] \in Unsettled /\ pc[s] \in Undone
          /\ pc[s] \in Busy /\ pc[s] # "push"
      BY <2>1 DEF SlotPos, Unsettled, Undone, Busy
    <3>3. UNCHANGED task /\ UNCHANGED skipped
      BY <2>3 DEF slots
    <3> QED
      BY <1>3, <1>4, <2>1, <3>1, <3>2, <3>3, MoveKeeps
  <2> QED
    BY <1>5, <2>2, <2>3 DEF Guard, Fault
<1>6. CASE Acquire(s) \/ Stage(s) \/ RunWorkflow(s) \/ HandleResults(s)
  <2>1. PICK next \in {"stage", "blockedstage", "run", "park", "retry", "defer", "finalize", "complete"} : Goto(s, next)
    BY <1>6 DEF Acquire, Stage, RunWorkflow, HandleResults
  <2>2. /\ UNCHANGED <<queue, blocked, delayed, hand, task, jobs, issueOf, deployment, killed, completed, errors, skipped>>
        /\ pc[s] \in {"acquire", "stage", "blockedstage", "run", "finalize"}
    BY <1>6 DEF Acquire, Stage, RunWorkflow, HandleResults, store, slots, hist, past
  <2>3. next \in SlotPos \ {"push"} /\ next \in Undone /\ pc[s] \in Unsettled /\ pc[s] \in Undone
        /\ pc[s] \in Busy /\ pc[s] # "push"
    BY <2>2 DEF SlotPos, Unsettled, Undone, Busy
  <2>4. t \in Task /\ t.issue \in Issue /\ label \in [Issue -> {"none", "in_progress", "terminal"}]
    BY <1>0, <2>2 DEF Base, TypeOK
  <2>5. pc'[s] = next
    BY <1>0, <2>1 DEF Goto, Base, TypeOK
  <2>6. \A i \in Issue : label'[i] = "in_progress" => label[i] = "in_progress" \/ (i = t.issue /\ next \in Unsettled)
    <3>1. CASE Stage(s)
      <4>1. label' = label \/ label' = [label EXCEPT ![t.issue] = "in_progress"]
        BY <3>1 DEF Stage
      <4>2. next \in {"run", "park", "retry"}
        BY <1>0, <2>5, <3>1 DEF Stage, Goto, Base, TypeOK
      <4> QED
        BY <2>4, <4>1, <4>2 DEF Unsettled
    <3>2. CASE HandleResults(s)
      <4>1. label' = [label EXCEPT ![t.issue] = "terminal"]
        BY <3>2 DEF HandleResults
      <4> QED
        BY <2>4, <4>1
    <3>3. CASE Acquire(s) \/ RunWorkflow(s)
      BY <3>3 DEF Acquire, RunWorkflow
    <3> QED
      BY <1>6, <3>1, <3>2, <3>3
  <2>7. next \notin Unsettled => label'[t.issue] # "in_progress"
    <3>1. ASSUME next \notin Unsettled PROVE HandleResults(s)
      <4>1. next = "complete"
        BY <3>1 DEF Unsettled
      <4> QED
        BY <1>0, <1>6, <2>5, <4>1 DEF Acquire, Stage, RunWorkflow, Goto, Base, TypeOK
    <3>2. HandleResults(s) => label' = [label EXCEPT ![t.issue] = "terminal"]
      BY DEF HandleResults
    <3> QED
      BY <2>4, <3>1, <3>2
  <2> QED
    BY <1>3, <1>4, <2>1, <2>2, <2>3, <2>6, <2>7, MoveKeeps
<1>7. CASE Park(s)
  <2>1. /\ pc[s] = "park" /\ End(s) /\ UNCHANGED hand /\ UNCHANGED outcome /\ UNCHANGED <<queue, delayed>>
        /\ blocked' = [blocked EXCEPT ![Lock(s)] = Append(@, t)]
    BY <1>7 DEF Park, outcome, past
  <2>2. t \in Task /\ Lock(s) \in LockId /\ pc[s] \in Unsettled
    BY <1>0, <2>1, ReproducerQueueAssumption DEF Lock, Unsettled
  <2>3. \A u : (Parked(u)' <=> Parked(u) \/ u = t) /\ (Queued(u)' <=> Queued(u))
    BY <2>1, <2>2, ParkFacts, ListsSame DEF Base
  <2> QED
    BY <2>1, <2>2, <2>3, HandedKeeps DEF Same
<1>8. CASE Retry(s)
  <2> DEFINE w == [t EXCEPT !.attempts = @ + 1]
  <2>1. pc[s] \in {"retry", "defer"} /\ pc[s] \in Unsettled /\ pc[s] \in Undone /\ pc[s] \in Busy /\ pc[s] # "push" /\ pc[s] # "idle"
    BY <1>8 DEF Retry, Unsettled, Undone, Busy, SlotPos
  <2>2. w.job = t.job /\ w.issue = t.issue /\ w.attempts = t.attempts + 1
    BY <1>0, <2>1 DEF Task
  <2>3. UNCHANGED <<blocked, hand, completed, jobs, issueOf, deployment, killed, skipped>>
    BY <1>8 DEF Retry, past
  <2>4. End(s) \/ (Goto(s, "release") /\ UNCHANGED task)
    BY <1>8 DEF Retry, AfterRetry, slots
  <2>5. CASE /\ w.attempts < MaxRetries
             /\ IF pc[s] = "retry" THEN LPush(w) /\ UNCHANGED delayed
                                   ELSE delayed' = delayed \cup {w} /\ UNCHANGED queue
             /\ UNCHANGED <<errors, label>>
    <3>1. w \in Task /\ Same(t, w)
      BY <1>0, <2>1, <2>2, <2>5, ReproducerQueueAssumption DEF Task, Same
    <3>2. \A u : Parked(u)' <=> Parked(u)
      BY <2>3, ListsSame
    <3>3. UNCHANGED outcome
      BY <2>3, <2>5 DEF outcome
    <3>4. PICK v \in Task : v = w
      BY <3>1
    <3>5. \/ (\A u : Queued(u)' <=> Queued(u) \/ u = v) /\ delayed' = delayed
          \/ (\A u : Queued(u)' <=> Queued(u)) /\ delayed' = delayed \cup {v}
      <4>1. (LPush(v) /\ UNCHANGED delayed) \/ (delayed' = delayed \cup {v} /\ UNCHANGED queue)
        <5> HIDE DEF w
        <5>1. CASE pc[s] = "retry"
          <6>1. LPush(w) /\ UNCHANGED delayed
            BY <2>5, <5>1
          <6>2. LPush(v)
            BY <3>4, <6>1 DEF LPush, QueueOf
          <6> QED
            BY <6>1, <6>2
        <5>2. CASE pc[s] # "retry"
          BY <2>5, <3>4, <5>2
        <5> QED
          BY <5>1, <5>2
      <4>2. LPush(v) => \A u : Queued(u)' <=> Queued(u) \/ u = v
        BY PushFacts DEF Base
      <4> QED
        BY <4>1, <4>2, ListsSame
    <3>6. /\ \A u : Queued(u) => Queued(u)'
          /\ \A u : Parked(u) => Parked(u)'
          /\ delayed \subseteq delayed'
          /\ \A u : Queued(u)' \/ Parked(u)' \/ u \in delayed' => Queued(u) \/ Parked(u) \/ u \in delayed \/ u = v
          /\ Queued(v)' \/ Parked(v)' \/ v \in delayed'
      <4>1. CASE (\A u : Queued(u)' <=> Queued(u) \/ u = v) /\ delayed' = delayed
        BY <3>2, <4>1
      <4>2. CASE (\A u : Queued(u)' <=> Queued(u)) /\ delayed' = delayed \cup {v}
        BY <3>2, <4>2
      <4> QED
        BY <3>5, <4>1, <4>2
    <3>7. UNCHANGED hand /\ pc[s] \in Unsettled /\ Same(task[s], v)
      BY <2>1, <2>3, <3>1, <3>4
    <3> HIDE DEF w, t
    <3> QED
      BY <2>4, <3>3, <3>6, <3>7, HandedKeeps
  <2>6. CASE /\ label' = [label EXCEPT ![w.issue] = "terminal"]
             /\ errors' = errors \cup {w.job}
             /\ UNCHANGED <<queue, delayed>>
    <3>1. t.job \in errors' /\ errors \subseteq errors'
      BY <2>2, <2>6
    <3>2. label \in [Issue -> {"none", "in_progress", "terminal"}] /\ t.issue \in Issue
      BY <1>0, <2>1 DEF Base, TypeOK
    <3>3. (\A i \in Issue : label'[i] = "in_progress" => label[i] = "in_progress") /\ label'[t.issue] # "in_progress"
      <4>1. label' = [label EXCEPT ![t.issue] = "terminal"]
        BY <2>2, <2>6
      <4> QED
        BY <3>2, <4>1
    <3>4. CASE End(s)
      BY <2>1, <2>3, <2>6, <3>1, <3>3, <3>4, FinishKeeps
    <3>5. CASE Goto(s, "release") /\ UNCHANGED task
      <4>1. "release" \in SlotPos \ {"push"} /\ "release" \notin Undone /\ "release" \notin Unsettled
        BY DEF SlotPos, Undone, Unsettled
      <4>2. Settled(t.job)'
        BY <3>1, <3>5 DEF Settled
      <4> QED
        BY <1>3, <1>4, <2>1, <2>3, <2>6, <3>1, <3>3, <3>5, <4>1, <4>2, MoveKeeps
    <3> QED
      BY <2>4, <3>4, <3>5
  <2> QED
    BY <1>8, <2>5, <2>6 DEF Retry
<1>9. CASE Complete(s)
  <2>1. /\ pc[s] = "complete" /\ completed' = completed \cup {t.job} /\ Goto(s, "release")
        /\ UNCHANGED <<queue, blocked, delayed, hand, task, jobs, issueOf, deployment, killed, skipped, label>>
    BY <1>9 DEF Complete, slots, hist, past
  <2>2. errors' = errors \/ errors' = {j \in errors : issueOf[j] # t.issue}
    BY <1>9 DEF Complete
  <2>3. pc[s] \in Busy /\ pc[s] \in Undone /\ pc[s] \notin Unsettled /\ pc[s] # "push"
        /\ "release" \in SlotPos \ {"push"} /\ "release" \notin Undone /\ "release" \notin Unsettled
    BY <2>1 DEF Busy, SlotPos, Undone, Unsettled
  <2>4. t.job \in 1 .. jobs /\ issueOf[t.job] = t.issue
    BY <1>2, <2>3
  <2>5. Settled(t.job)' /\ \A j \in errors : Settled(j)'
    <3>1. ASSUME NEW j \in errors PROVE Settled(j)'
      <4>1. CASE issueOf[j] = t.issue
        <5>1. t.job \in completed' /\ issueOf'[t.job] = issueOf'[j]
          BY <2>1, <2>4, <4>1
        <5> QED
          BY <5>1 DEF Settled
      <4>2. CASE issueOf[j] # t.issue
        BY <2>2, <4>2 DEF Settled
      <4> QED
        BY <4>1, <4>2
    <3>2. Settled(t.job)'
      BY <2>1 DEF Settled
    <3> QED
      BY <3>1, <3>2
  <2>6. completed' \subseteq 1 .. jobs /\ completed \subseteq completed'
    BY <1>3, <2>1, <2>4
  <2> QED
    BY <2>1, <2>3, <2>5, <2>6, MoveKeeps
<1>10. CASE Release(s)
  <2>1. /\ pc[s] = "release"
        /\ UNCHANGED <<queue, blocked, delayed, hand, jobs, issueOf, deployment, killed, completed, errors, skipped, label>>
    BY <1>10 DEF Release, past
  <2>2. pc[s] \in Busy /\ pc[s] \notin Undone /\ pc[s] \notin Unsettled /\ pc[s] # "push"
        /\ "promote" \in SlotPos \ {"push"} /\ "promote" \notin Undone /\ "promote" \notin Unsettled
    BY <2>1 DEF Busy, SlotPos, Undone, Unsettled
  <2>3. CASE End(s)
    BY <2>1, <2>2, <2>3, FinishKeeps
  <2>4. CASE Goto(s, "promote") /\ UNCHANGED task
    BY <1>3, <1>4, <2>1, <2>2, <2>4, MoveKeeps
  <2> QED
    BY <1>10, <2>3, <2>4 DEF Release, slots
<1>11. CASE ReleasePromote(s)
  <2>1. pc[s] = "promote" /\ PromotePop(s, Lock(s), End(s) /\ UNCHANGED sweeping)
    BY <1>11 DEF ReleasePromote
  <2>2. UNCHANGED outcome /\ UNCHANGED <<queue, delayed>>
    BY <2>1 DEF PromotePop, outcome, past
  <2>3. CASE blocked[Lock(s)] = <<>>
    <3>1. UNCHANGED <<blocked, hand>> /\ End(s)
      BY <2>1, <2>3 DEF PromotePop
    <3>2. pc[s] \notin Undone /\ pc[s] \notin Unsettled /\ pc[s] # "push"
      BY <2>1 DEF Undone, Unsettled
    <3> QED
      BY <2>2, <3>1, <3>2, FinishKeeps DEF outcome
  <2>4. CASE blocked[Lock(s)] # <<>>
    <3>1. /\ Goto(s, "push") /\ blocked' = [blocked EXCEPT ![Lock(s)] = Tail(@)] /\ UNCHANGED task
          /\ hand' = [hand EXCEPT ![s] = Head(blocked[Lock(s)])]
      BY <2>1, <2>4 DEF PromotePop, slots
    <3>2. Lock(s) \in LockId
      BY <1>0, <2>1, ReproducerQueueAssumption DEF Lock
    <3> QED
      BY <1>0, <2>1, <2>2, <2>4, <3>1, <3>2, PopKeeps
  <2> QED
    BY <2>3, <2>4
<1> QED
  BY <1>0, <1>5, <1>6, <1>7, <1>8, <1>9, <1>10, <1>11, PushKeeps DEF ProcessTask

(* A crash loses what was in memory, and nothing else. *)
LEMMA CrashKeeps ==
    ASSUME Base, EmptyHanded, Conserved, Crash PROVE Conserves
<1>1. /\ UNCHANGED <<queue, blocked, delayed, completed, errors, skipped, label, jobs, issueOf, deployment>>
      /\ killed' = killed \cup {t.job : t \in InMemory}
      /\ \A a \in Actor : pc'[a] = "idle"
  BY DEF Crash, store
<1>2. \A t : (Queued(t)' <=> Queued(t)) /\ (Parked(t)' <=> Parked(t))
  BY <1>1, ListsSame
<1>3. \A t, at : "idle" \notin at => ~InHand(t)' /\ ~InSlot(t, at)'
  BY <1>1 DEF InHand, InSlot, Actor
<1>4. ASSUME NEW t \in InMemory PROVE t \in Task /\ t.job \in 1 .. jobs /\ issueOf[t.job] = t.issue
  <2>1. CASE \E s \in Slot : t = task[s]
    <3>1. PICK s \in Slot : t = task[s]
      BY <2>1
    <3>2. t # NoTask
      BY <1>4 DEF InMemory
    <3>3. t \in Task /\ pc[s] \in Busy
      BY <3>1, <3>2 DEF EmptyHanded, Base, TypeOK, Placed, Busy
    <3>4. Present(t, Busy)
      BY <3>1, <3>3 DEF Present, InSlot
    <3> QED
      BY <3>3, <3>4 DEF Conserved, Traced
  <2>2. CASE \E a \in Actor : t = hand[a]
    <3>1. PICK a \in Actor : t = hand[a]
      BY <2>2
    <3>2. t # NoTask
      BY <1>4 DEF InMemory
    <3>3. t \in Task /\ pc[a] = "push"
      BY <3>1, <3>2 DEF EmptyHanded, Base, TypeOK
    <3>4. Present(t, Busy)
      BY <3>1, <3>3 DEF Present, InHand
    <3> QED
      BY <3>3, <3>4 DEF Conserved, Traced
  <2> QED
    BY <1>4, <2>1, <2>2 DEF InMemory
<1>5. ASSUME NEW t \in Task, NEW at \in {Busy, Undone, Unsettled}, Present(t, at), ~Present(t, at)'
      PROVE  t \in InMemory
  <2>1. InHand(t) \/ InSlot(t, at)
    BY <1>1, <1>2, <1>5 DEF Present
  <2>2. t # NoTask
    BY ReproducerQueueAssumption
  <2> QED
    BY <2>1, <2>2 DEF InHand, InSlot, InMemory
<1>6. \A at \in {Busy, Undone, Unsettled} : "idle" \notin at
  BY DEF Busy, Undone, Unsettled
<1>7. \A t \in Task : Present(t, Busy)' => Present(t, Busy)
  BY <1>1, <1>2, <1>3, <1>6 DEF Present
<1>8. \A t \in Task : Present(t, Undone) => Present(t, Undone)' \/ Settled(t.job)'
  BY <1>1, <1>5 DEF Settled
<1>9. \A j : Settled(j) => Settled(j)'
  BY <1>1 DEF Settled
<1>10. completed' \cup killed' \subseteq 1 .. jobs
  BY <1>1, <1>4 DEF Conserved, Outcomes
<1>11. \A i \in Issue : Witnessed(i) => Witnessed(i)'
  <2>1. ASSUME NEW i \in Issue, NEW t \in Task, Present(t, Unsettled), t.issue = i PROVE Witnessed(i)'
    <3>1. CASE Present(t, Unsettled)'
      BY <2>1, <3>1 DEF Witnessed
    <3>2. CASE ~Present(t, Unsettled)'
      <4>1. t \in InMemory
        BY <1>5, <2>1, <3>2
      <4>2. t.job \in killed' /\ issueOf'[t.job] = i
        BY <1>1, <1>4, <2>1, <4>1
      <4> QED
        BY <4>2 DEF Witnessed
    <3> QED
      BY <3>1, <3>2
  <2>2. ASSUME NEW i \in Issue, NEW j \in killed, issueOf[j] = i PROVE Witnessed(i)'
    BY <1>1, <2>2 DEF Witnessed
  <2> QED
    BY <2>1, <2>2 DEF Witnessed
<1> QED
  BY <1>1, <1>7, <1>8, <1>9, <1>10, <1>11 DEF Conserves, Same

(* A new task: the only step that makes a job. *)
LEMMA SubmitKeeps ==
    ASSUME Base, Conserved, NEW i \in Issue, Submit(i) PROVE Conserved'
<1> DEFINE n == [job |-> jobs + 1, issue |-> i, attempts |-> 0]
<1>0. jobs \in Nat /\ jobs < MaxJobs /\ MaxRetries \in Nat \ {0} /\ MaxJobs \in Nat /\ Len(issueOf) = jobs /\ issueOf \in Seq(Issue)
  BY ReproducerQueueAssumption DEF Submit, Base, TypeOK, Placed
<1>1. n \in Task
  BY <1>0 DEF Task, Job
<1>2. /\ UNCHANGED <<blocked, delayed, hand, pc, task, completed, errors, skipped, killed, label, deployment>>
      /\ jobs' = jobs + 1 /\ issueOf' = Append(issueOf, i) /\ LPush(n)
  BY DEF Submit, slots
<1>3. n.job = jobs + 1 /\ n.issue = i
  OBVIOUS
<1> HIDE DEF n
<1>4. \A u : (Queued(u)' <=> Queued(u) \/ u = n) /\ (Parked(u)' <=> Parked(u))
  BY <1>1, <1>2, PushFacts, ListsSame DEF Base
<1>5. \A u, at : (InHand(u)' <=> InHand(u)) /\ (InSlot(u, at)' <=> InSlot(u, at))
  BY <1>2 DEF InHand, InSlot
<1>6. \A u, at : Present(u, at)' <=> Present(u, at) \/ u = n
  BY <1>2, <1>4, <1>5 DEF Present
<1>7. issueOf'[jobs + 1] = i /\ \A j \in 1 .. jobs : issueOf'[j] = issueOf[j]
  BY <1>0, <1>2
<1>8. \A j \in 1 .. jobs : Settled(j) => Settled(j)'
  BY <1>2, <1>7 DEF Settled, Conserved, Outcomes
<1>9. Traced'
  BY <1>0, <1>2, <1>3, <1>6, <1>7 DEF Conserved, Traced
<1>10. Kept'
  <2>1. ASSUME NEW j \in 1 .. jobs' PROVE Settled(j)' \/ \E t \in Task : Present(t, Undone)' /\ t.job = j
    <3>1. j \in 1 .. jobs \/ j = jobs + 1
      BY <1>0, <1>2, <2>1
    <3> QED
      BY <1>1, <1>3, <1>6, <1>8, <3>1 DEF Conserved, Kept
  <2> QED
    BY <2>1 DEF Kept
<1>11. \A k \in Issue : Witnessed(k) => Witnessed(k)'
  BY <1>2, <1>6, <1>7 DEF Witnessed, Conserved, Outcomes
<1>12. Marked'
  BY <1>2, <1>11 DEF Marked, Conserved
<1>13. Outcomes'
  BY <1>0, <1>2 DEF Outcomes, Conserved
<1> QED
  BY <1>9, <1>10, <1>12, <1>13 DEF Conserved

(* Tasks and marks are conserved by every step. *)
THEOREM Conservation == Spec => []Conserved
<1>1. Init => Conserved
  <2> SUFFICES ASSUME Init PROVE Conserved
    OBVIOUS
  <2>1. \A t : ~Queued(t) /\ ~Parked(t) /\ t \notin delayed
    BY DEF Init, Queued, Parked, QName
  <2>2. \A t : ~InHand(t) /\ ~InSlot(t, Busy)
    BY DEF Init, InHand, InSlot, Busy, Actor
  <2>3. Traced
    BY <2>1, <2>2 DEF Traced, Present
  <2>4. jobs = 0 /\ completed = {} /\ killed = {} /\ \A i \in Issue : label[i] = "none"
    BY DEF Init
  <2> QED
    BY <2>3, <2>4 DEF Conserved, Kept, Marked, Outcomes
<1>2. Base /\ EmptyHanded /\ Conserved /\ [Next]_vars => Conserved'
  <2> SUFFICES ASSUME Base, EmptyHanded, Conserved, [Next]_vars PROVE Conserved'
    OBVIOUS
  <2>1. CASE (\E t \in delayed : DelayPasses(t)) \/ (\E l \in LockId : Age(l)) \/ UNCHANGED vars
    <3>1. UNCHANGED outcome /\ UNCHANGED <<queue, blocked, delayed, task, hand, pc>>
      BY <2>1 DEF DelayPasses, Age, vars, store, slots, hist, past, outcome
    <3> QED
      BY <3>1, Quiet, ConservesKeeps
  <2>2. CASE Poll
    BY <2>2, PollKeeps, ConservesKeeps
  <2>3. CASE \E s \in Slot : ProcessTask(s)
    BY <2>3, SlotKeeps, ConservesKeeps
  <2>4. CASE Crash
    BY <2>4, CrashKeeps, ConservesKeeps
  <2> QED
    BY <2>1, <2>2, <2>3, <2>4, SubmitKeeps DEF Next
<1> QED
  BY <1>1, <1>2, BaseInvariant, EmptyHandedInvariant, PTL DEF Spec

(* A task that is still to be settled is one of those its issue has. *)
LEMMA PresentWhere ==
    ASSUME Base, NEW t \in Task, Present(t, Undone) PROVE t \in Where(t.issue)
<1> DEFINE inQueue == UNION {{queue[q][k] : k \in DOMAIN queue[q]} : q \in DOMAIN queue}
           inBlocked == UNION {{blocked[l][k] : k \in DOMAIN blocked[l]} : l \in LockId}
<1>1. Queued(t) => t \in inQueue
  <2>1. ASSUME NEW q \in QName, NEW k \in 1 .. Len(queue[q]), queue[q][k] = t PROVE t \in inQueue
    <3>1. q \in DOMAIN queue /\ k \in DOMAIN queue[q]
      BY DEF Base, TypeOK, QName
    <3>2. t \in {queue[q][j] : j \in DOMAIN queue[q]}
      BY <2>1, <3>1
    <3> QED
      BY <3>1, <3>2
  <2> QED
    BY <2>1 DEF Queued
<1>2. Parked(t) => t \in inBlocked
  <2>1. ASSUME NEW l \in LockId, NEW k \in 1 .. Len(blocked[l]), blocked[l][k] = t PROVE t \in inBlocked
    <3>1. k \in DOMAIN blocked[l]
      BY DEF Base, TypeOK
    <3>2. t \in {blocked[l][j] : j \in DOMAIN blocked[l]}
      BY <2>1, <3>1
    <3> QED
      BY <3>2
  <2> QED
    BY <2>1 DEF Parked
<1>3. InHand(t) \/ InSlot(t, Undone) => t \in InMemory
  BY ReproducerQueueAssumption DEF InHand, InSlot, InMemory
<1>4. t \in delayed \/ t \in inQueue \/ t \in inBlocked \/ t \in InMemory
  BY <1>1, <1>2, <1>3 DEF Present
<1>5. Where(t.issue) = {u \in delayed \cup inQueue \cup inBlocked \cup InMemory : u.issue = t.issue}
  BY DEF Where
<1> HIDE DEF inQueue, inBlocked
<1> QED
  BY <1>4, <1>5

(***************************************************************************)
(* No job is lost between the queues, the blocked lists, the delayed set   *)
(* and the slots, and ymir_reproducer_in_progress never outlives the work: *)
(* whatever the sweeps, the retries and the crashes.                       *)
(***************************************************************************)
THEOREM Stranded == Spec => []NothingStranded
<1>1. Base /\ Conserved => NoTaskLost
  <2> SUFFICES ASSUME Base, Conserved, NEW j \in 1 .. jobs
               PROVE  \/ j \in completed \cup errors \cup skipped \cup killed
                      \/ \E k \in completed : issueOf[k] = issueOf[j]
                      \/ \E t \in Where(issueOf[j]) : t.job = j
    BY DEF NoTaskLost
  <2>1. CASE Settled(j)
    BY <2>1 DEF Settled
  <2>2. CASE \E t \in Task : Present(t, Undone) /\ t.job = j
    <3>1. PICK t \in Task : Present(t, Undone) /\ t.job = j
      BY <2>2
    <3>2. issueOf[j] = t.issue
      BY <3>1, AtUndone, PresentMore DEF Conserved, Traced
    <3> QED
      BY <3>1, <3>2, PresentWhere
  <2> QED
    BY <2>1, <2>2 DEF Conserved, Kept
<1>2. Base /\ Conserved => InProgressHasTask
  <2> SUFFICES ASSUME Base, Conserved, NEW i \in Issue, "disabled" \notin deployment.faults, label[i] = "in_progress"
               PROVE  Where(i) # {} \/ \E j \in killed : issueOf[j] = i
    BY DEF InProgressHasTask
  <2>1. Witnessed(i)
    BY DEF Conserved, Marked
  <2>2. CASE \E t \in Task : Present(t, Unsettled) /\ t.issue = i
    <3>1. PICK t \in Task : Present(t, Unsettled) /\ t.issue = i
      BY <2>2
    <3>2. t \in Where(i)
      BY <3>1, AtUndone, PresentMore, PresentWhere
    <3> QED
      BY <3>2
  <2> QED
    BY <2>1, <2>2 DEF Witnessed
<1> QED
  BY <1>1, <1>2, BaseInvariant, Conservation, PTL DEF NothingStranded

(* Nothing is stranded and no lock is taken by a late release: what the     *)
(* runs of the queue check, for every deployment.                           *)
THEOREM QueueSafety == Spec => []QueueSound
  BY Stranded, LateReleases, PTL DEF QueueSound
=============================================================================
