-------------------------- MODULE AgentQueueProofs --------------------------
(***************************************************************************)
(* Theorems about AgentQueue, for every set of issues and pods and every   *)
(* MaxConcurrent and MaxRetries: the per-issue lock is exclusive, a pod    *)
(* holds no more tasks than it has slots, tasks stay on their list, and    *)
(* none is lost.                                                           *)
(***************************************************************************)
EXTENDS AgentQueue, SequenceTheorems, FiniteSetTheorems, TLAPS

QName      == {"todo", "normal"}
TasksOf(q) == {t \in Task : QueueOf(t) = q}
Popped     == {x \in [src : QName, task : Task] : x.task \in TasksOf(x.src)}

(* Every list holds the tasks that are routed to it. *)
Routed ==
    /\ queue \in [QName -> Seq(Task)]
    /\ \A q \in QName : queue[q] \in Seq(TasksOf(q))

(* The part of TypeOK that locks and lists depend on. *)
Shape ==
    /\ Routed
    /\ lock \in [Issue -> Slot \cup {NoSlot}]
    /\ lost \subseteq Slot
    /\ loop \in [Pod -> {"acquire", "poll", "cancel", "gather", "repush", "exited"}]
    /\ poll \in [Pod -> {"idle", "waiting", "empty", "popped"}]
    /\ popped \in [Pod -> Popped \cup {NoTask}]
    /\ st \in [Slot -> {"free", "lock", "push"} \cup Locked]
    /\ task \in [Slot -> Popped \cup {NoTask}]
    /\ retry \in [Slot -> Task \cup {NoTask}]

(***************************************************************************)
(* A payload stays in memory as long as something refers to it: the poll   *)
(* that popped it, the slot that works on it, the push of the shutdown.    *)
(***************************************************************************)
Held ==
    /\ repush \in [Pod -> SUBSET Slot]
    /\ \A p \in Pod : repush[p] \subseteq Slots(p)
    /\ \A p \in Pod : poll[p] = "popped" => popped[p] \in Popped
    /\ \A p \in Pod : loop[p] = "repush" => \A s \in Slots(p) : st[s] = "free"
    /\ \A s \in Slot : st[s] # "free" \/ s \in repush[s[1]] => task[s] \in Popped

(***************************************************************************)
(* A task inside issue_lock is the one its lock names, unless an outage    *)
(* took the lock away.                                                     *)
(***************************************************************************)
Owned == \A s \in Slot : st[s] \in Locked /\ s \notin lost => lock[IssueOf(s)] = s

LockInv == Shape /\ Held /\ Owned

(* A slot belongs to one pod. *)
LEMMA SlotFacts ==
    /\ \A s \in Slot : s[1] \in Pod /\ s \in Slots(s[1])
    /\ \A p \in Pod : \A s \in Slots(p) : s \in Slot /\ s[1] = p
  BY DEF Slot, Slots

(* Ending a task frees its slot and keeps a payload that is to be pushed back. *)
LEMMA EndKeeps ==
    ASSUME LockInv, NEW s \in Slot, End(s), UNCHANGED <<loop, poll, popped, repush>>
    PROVE  /\ st' \in [Slot -> {"free", "lock", "push"} \cup Locked]
           /\ task' \in [Slot -> Popped \cup {NoTask}]
           /\ retry' \in [Slot -> Task \cup {NoTask}]
           /\ Held'
           /\ st'[s] = "free"
           /\ \A t \in Slot \ {s} : st'[t] = st[t] /\ task'[t] = task[t]
  BY SlotFacts DEF LockInv, Shape, Held, End

(* A step of a task that keeps it in memory. *)
LEMMA GotoKeeps ==
    ASSUME LockInv, NEW s \in Slot, st[s] # "free",
           NEW next \in {"push"} \cup Locked, Goto(s, next),
           UNCHANGED <<loop, poll, popped, repush, task>>
    PROVE  /\ st' \in [Slot -> {"free", "lock", "push"} \cup Locked]
           /\ task' \in [Slot -> Popped \cup {NoTask}]
           /\ Held'
           /\ st'[s] = next
           /\ \A t \in Slot \ {s} : st'[t] = st[t] /\ task'[t] = task[t]
  BY SlotFacts DEF LockInv, Shape, Held, Goto, Locked

(* Compare-and-delete takes no lock but the task's own. *)
LEMMA UnlockKeeps ==
    ASSUME LockInv, NEW s \in Slot, st[s] # "free", Unlock(s)
    PROVE  /\ lock' \in [Issue -> Slot \cup {NoSlot}]
           /\ \A t \in Slot \ {s} : st[t] \in Locked /\ t \notin lost => lock'[IssueOf(t)] = t
<1>1. \A t \in Slot : st[t] # "free" => IssueOf(t) \in Issue
  BY DEF LockInv, Held, IssueOf, Popped, Task
<1> QED
  BY <1>1 DEF LockInv, Shape, Owned, Unlock, Locked

(* Pushes keep the lists well formed. *)
LEMMA PushKeeps ==
    ASSUME Routed, NEW q \in QName, NEW t \in TasksOf(q), LPush(q, t) \/ RPush(q, t)
    PROVE  Routed'
<1>1. <<t>> \in Seq(TasksOf(q)) /\ <<t>> \in Seq(Task)
  BY DEF TasksOf
<1>2. /\ <<t>> \o queue[q] \in Seq(TasksOf(q)) /\ Append(queue[q], t) \in Seq(TasksOf(q))
      /\ <<t>> \o queue[q] \in Seq(Task) /\ Append(queue[q], t) \in Seq(Task)
  BY <1>1, ConcatProperties DEF Routed, TasksOf
<1> QED
  BY <1>2 DEF Routed, LPush, RPush, QName

(* BRPOP takes a task that is routed to the list it came from. *)
LEMMA PopKeeps ==
    ASSUME Shape, NEW p \in Pod, BrPop(p)
    PROVE  Routed' /\ popped' \in [Pod -> Popped \cup {NoTask}] /\ popped'[p] \in Popped
<1>1. PICK q \in QName : /\ Len(queue[q]) > 0
                         /\ queue' = [queue EXCEPT ![q] = SubSeq(@, 1, Len(queue[q]) - 1)]
                         /\ popped' = [popped EXCEPT ![p] = [src |-> q, task |-> queue[q][Len(queue[q])]]]
  BY DEF BrPop, QName
<1>2. queue[q] \in Seq(TasksOf(q)) /\ queue[q] \in Seq(Task) /\ Len(queue[q]) \in Nat
  BY DEF Shape, Routed
<1>3. \A k \in 1 .. Len(queue[q]) : queue[q][k] \in TasksOf(q) /\ queue[q][k] \in Task
  BY <1>2
<1>4. /\ SubSeq(queue[q], 1, Len(queue[q]) - 1) \in Seq(TasksOf(q))
      /\ SubSeq(queue[q], 1, Len(queue[q]) - 1) \in Seq(Task)
  <2>1. \A k \in 1 .. (Len(queue[q]) - 1) : queue[q][k] \in TasksOf(q) /\ queue[q][k] \in Task
    BY <1>2, <1>3
  <2> QED
    BY <1>2, <2>1, SubSeqProperties
<1>5. Routed'
  BY <1>1, <1>4 DEF Shape, Routed
<1>6. [src |-> q, task |-> queue[q][Len(queue[q])]] \in Popped
  BY <1>1, <1>2, <1>3 DEF Popped
<1> QED
  BY <1>1, <1>5, <1>6 DEF Shape

-----------------------------------------------------------------------------
(***************************************************************************)
(* Payloads, lists and lock owners stay consistent: the invariant behind   *)
(* the exclusive lock and the separation of the two lists.                 *)
(***************************************************************************)
THEOREM LockInvariant == Spec => []LockInv
<1> USE SlotFacts, AgentQueueAssumption DEF redis, pods, slots, bounds, vars
<1>1. Init => LockInv
  BY DEF Init, LockInv, Shape, Routed, Held, Owned, QName, Locked
<1>2. LockInv /\ [Next]_vars => LockInv'
  <2> SUFFICES ASSUME LockInv, [Next]_vars PROVE LockInv'
    OBVIOUS
  <2>1. ASSUME NEW i \in Issue, Submit(i) PROVE LockInv'
    <3> DEFINE t == [issue |-> i, attempts |-> 0]
    <3>1. t \in TasksOf(QueueOf(t)) /\ QueueOf(t) \in QName
      BY DEF TasksOf, Task, QueueOf, QName
    <3>2. Routed'
      BY <2>1, <3>1, PushKeeps DEF Submit, LockInv, Shape
    <3> QED
      BY <2>1, <3>2 DEF Submit, LockInv, Shape, Held, Owned, IssueOf
  <2>2. ASSUME NEW i \in Issue, Expire(i) PROVE LockInv'
    BY <2>2 DEF Expire, LockInv, Shape, Routed, Held, Owned, IssueOf, Locked
  <2>3. ASSUME NEW p \in Pod, Acquire(p) \/ AcquireStopped(p) \/ PollEmpty(p) \/ PollStopped(p)
        PROVE  LockInv'
    <3>1. Shape'
      <4>1. /\ UNCHANGED <<redis, popped, st, task, retry, lost>>
            /\ \E l \in {"acquire", "poll", "cancel"} : loop' = [loop EXCEPT ![p] = l]
            /\ UNCHANGED poll \/ \E a \in {"idle", "waiting"} : poll' = [poll EXCEPT ![p] = a]
        BY <2>3 DEF Acquire, AcquireStopped, PollEmpty, PollStopped
      <4> QED
        BY <4>1 DEF LockInv, Shape, Routed
    <3>2. Held'
      BY <2>3 DEF Acquire, AcquireStopped, PollEmpty, PollStopped, LockInv, Shape, Held
    <3>3. Owned'
      BY <2>3 DEF Acquire, AcquireStopped, PollEmpty, PollStopped, LockInv, Owned, IssueOf
    <3> QED
      BY <3>1, <3>2, <3>3 DEF LockInv
  <2>4. ASSUME NEW p \in Pod, Dispatch(p) PROVE LockInv'
    <3> DEFINE s == CHOOSE t \in Slots(p) : st[t] = "free"
    <3>1. s \in Slots(p) /\ st[s] = "free"
      BY <2>4 DEF Dispatch, Busy
    <3>2. /\ popped[p] \in Popped
          /\ st' = [st EXCEPT ![s] = "lock"] /\ task' = [task EXCEPT ![s] = popped[p]]
          /\ popped' = [popped EXCEPT ![p] = NoTask] /\ poll' = [poll EXCEPT ![p] = "idle"]
          /\ loop' = [loop EXCEPT ![p] = "acquire"] /\ loop[p] = "poll"
          /\ UNCHANGED <<redis, repush, retry, lost>>
      BY <2>4 DEF Dispatch, LockInv, Held
    <3>3. Shape'
      BY <3>1, <3>2 DEF LockInv, Shape, Routed
    <3>4. Held'
      BY <3>1, <3>2 DEF LockInv, Shape, Held
    <3>5. Owned'
      BY <3>1, <3>2 DEF LockInv, Shape, Owned, IssueOf, Locked
    <3> QED
      BY <3>3, <3>4, <3>5 DEF LockInv
  <2>5. ASSUME NEW p \in Pod, CancelActive(p) \/ Gathered(p) PROVE LockInv'
    <3>1. Shape'
      BY <2>5 DEF CancelActive, Gathered, Busy, LockInv, Shape, Routed
    <3>2. Held'
      BY <2>5 DEF CancelActive, Gathered, Busy, LockInv, Shape, Held
    <3>3. Owned'
      BY <2>5 DEF CancelActive, Gathered, Busy, LockInv, Owned, IssueOf
    <3> QED
      BY <3>1, <3>2, <3>3 DEF LockInv
  <2>6. ASSUME NEW p \in Pod, Repush(p) PROVE LockInv'
    <3>1. PICK s \in repush[p] :
             /\ RPush(task[s].src, task[s].task)
             /\ repush' = [repush EXCEPT ![p] = @ \ {s}]
             /\ task' = [task EXCEPT ![s] = NoTask]
      BY <2>6 DEF Repush
    <3>2. s \in Slot /\ s[1] = p /\ st[s] = "free" /\ task[s] \in Popped
      BY <2>6, <3>1 DEF Repush, LockInv, Held
    <3>3. Routed'
      BY <3>1, <3>2, PushKeeps DEF Popped, LockInv, Shape
    <3> QED
      BY <2>6, <3>1, <3>2, <3>3 DEF Repush, LockInv, Shape, Held, Owned, IssueOf, Locked
  <2>7. ASSUME NEW p \in Pod, ResolveOrphan(p) PROVE LockInv'
    <3>1. Routed'
      BY <2>7, PushKeeps DEF ResolveOrphan, Popped, LockInv, Shape, Routed, Held
    <3> QED
      BY <2>7, <3>1 DEF ResolveOrphan, LockInv, Shape, Held, Owned, IssueOf
  <2>8. ASSUME NEW p \in Pod, BrPop(p) PROVE LockInv'
    <3>1. /\ Routed' /\ popped' \in [Pod -> Popped \cup {NoTask}] /\ popped'[p] \in Popped
          /\ \A r \in Pod \ {p} : popped'[r] = popped[r]
      BY <2>8, PopKeeps DEF LockInv, BrPop
    <3> QED
      BY <2>8, <3>1 DEF BrPop, LockInv, Shape, Held, Owned, IssueOf
  <2>9. ASSUME NEW p \in Pod, PollTimeout(p) \/ Signal(p) \/ Restart(p) PROVE LockInv'
    <3>1. Shape'
      BY <2>9 DEF PollTimeout, Signal, Restart, LockInv, Shape, Routed
    <3>2. Held'
      BY <2>9 DEF PollTimeout, Signal, Restart, LockInv, Shape, Held
    <3>3. Owned'
      BY <2>9 DEF PollTimeout, Signal, Restart, LockInv, Owned, IssueOf
    <3> QED
      BY <3>1, <3>2, <3>3 DEF LockInv
  <2>10. ASSUME NEW s \in Slot, LockIssue(s) PROVE LockInv'
    <3>1. /\ st' \in [Slot -> {"free", "lock", "push"} \cup Locked]
          /\ Held' /\ st'[s] = "run" /\ \A t \in Slot \ {s} : st'[t] = st[t]
      BY <2>10, GotoKeeps DEF LockIssue, Locked
    <3>2. IssueOf(s) \in Issue
      BY <2>10 DEF LockIssue, LockInv, Held, IssueOf, Popped, Task
    <3> QED
      BY <2>10, <3>1, <3>2 DEF LockIssue, LockInv, Shape, Routed, Owned, IssueOf
  <2>11. ASSUME NEW s \in Slot, DropDuplicate(s) PROVE LockInv'
    BY <2>11, EndKeeps DEF DropDuplicate, LockInv, Shape, Routed, Owned, IssueOf, Locked
  <2>12. ASSUME NEW s \in Slot, WorkflowEnds(s) PROVE LockInv'
    <3> DEFINE again == [task[s].task EXCEPT !.attempts = @ + 1]
    <3>1. PICK next \in {"complete", "release", "giveup"} : Goto(s, next)
      BY <2>12 DEF WorkflowEnds
    <3>2. /\ st' \in [Slot -> {"free", "lock", "push"} \cup Locked]
          /\ Held' /\ st'[s] \in Locked /\ \A t \in Slot \ {s} : st'[t] = st[t]
      BY <2>12, <3>1, GotoKeeps DEF WorkflowEnds, Locked
    <3>3. task[s].task \in Task
      BY <2>12 DEF WorkflowEnds, LockInv, Held, Popped
    <3>4. again.attempts < MaxRetries => again \in Task
      BY <3>3 DEF Task
    <3>5. retry' \in [Slot -> Task \cup {NoTask}]
      BY <2>12, <3>4 DEF WorkflowEnds, LockInv, Shape
    <3> QED
      BY <2>12, <3>2, <3>5 DEF WorkflowEnds, LockInv, Shape, Routed, Owned, IssueOf, Locked
  <2>13. ASSUME NEW s \in Slot, Complete(s) \/ GiveUp(s) PROVE LockInv'
    <3>1. /\ st' \in [Slot -> {"free", "lock", "push"} \cup Locked]
          /\ Held' /\ st[s] \in Locked /\ \A t \in Slot \ {s} : st'[t] = st[t]
      BY <2>13, GotoKeeps DEF Complete, GiveUp, Locked
    <3> QED
      BY <2>13, <3>1 DEF Complete, GiveUp, LockInv, Shape, Routed, Owned, IssueOf
  <2>14. ASSUME NEW s \in Slot, Release(s) PROVE LockInv'
    <3>1. /\ st' \in [Slot -> {"free", "lock", "push"} \cup Locked]
          /\ Held' /\ st'[s] = "push" /\ \A t \in Slot \ {s} : st'[t] = st[t]
      BY <2>14, GotoKeeps DEF Release
    <3>2. /\ lock' \in [Issue -> Slot \cup {NoSlot}]
          /\ \A t \in Slot \ {s} : st[t] \in Locked /\ t \notin lost => lock'[IssueOf(t)] = t
      BY <2>14, UnlockKeeps DEF Release
    <3>3. UNCHANGED <<queue, loop, poll, popped, task, retry, lost>>
      BY <2>14 DEF Release
    <3>4. Shape'
      BY <3>1, <3>2, <3>3 DEF LockInv, Shape, Routed
    <3>5. Owned'
      BY <3>1, <3>2, <3>3 DEF Owned, IssueOf, Locked
    <3> QED
      BY <3>1, <3>4, <3>5 DEF LockInv
  <2>15. ASSUME NEW s \in Slot, Push(s) PROVE LockInv'
    <3>1. retry[s] # NoTask => retry[s] \in TasksOf(QueueOf(retry[s])) /\ QueueOf(retry[s]) \in QName
      BY DEF LockInv, Shape, TasksOf, QueueOf, QName
    <3>2. Routed'
      BY <2>15, <3>1, PushKeeps DEF Push, LockInv, Shape, Routed
    <3> QED
      BY <2>15, <3>2, EndKeeps DEF Push, LockInv, Shape, Owned, IssueOf, Locked
  <2>16. ASSUME NEW s \in Slot, Cancel(s) PROVE LockInv'
    <3>1. CASE st[s] \in {"lock", "push"} /\ End(s)
      BY <2>16, <3>1, EndKeeps DEF Cancel, LockInv, Shape, Routed, Owned, IssueOf, Locked
    <3>2. CASE st[s] \in {"run", "complete", "giveup", "release"} /\ Goto(s, "unwind") /\ UNCHANGED <<task, retry>>
      <4>1. /\ st' \in [Slot -> {"free", "lock", "push"} \cup Locked]
            /\ Held' /\ st[s] \in Locked /\ \A t \in Slot \ {s} : st'[t] = st[t]
        BY <2>16, <3>2, GotoKeeps DEF Cancel, Locked
      <4> QED
        BY <2>16, <3>2, <4>1 DEF Cancel, LockInv, Shape, Routed, Owned, IssueOf
    <3> QED
      BY <2>16, <3>1, <3>2 DEF Cancel
  <2>17. ASSUME NEW s \in Slot, Unwind(s) PROVE LockInv'
    <3>1. /\ lock' \in [Issue -> Slot \cup {NoSlot}]
          /\ \A t \in Slot \ {s} : st[t] \in Locked /\ t \notin lost => lock'[IssueOf(t)] = t
      BY <2>17, UnlockKeeps DEF Unwind
    <3>2. /\ UNCHANGED <<queue, lost, loop, poll, popped, repush>> /\ End(s)
      BY <2>17 DEF Unwind
    <3> QED
      BY <3>1, <3>2, EndKeeps DEF LockInv, Shape, Routed, Owned, IssueOf, Locked
  <2>18. ASSUME NEW p \in Pod, Crash(p) PROVE LockInv'
    BY <2>18 DEF Crash, LockInv, Shape, Routed, Held, Owned, IssueOf, Locked
  <2>19. ASSUME NEW p \in Pod, PollRaises(p) PROVE LockInv'
    BY <2>19 DEF PollRaises, LockInv, Shape, Routed, Held, Owned, IssueOf
  <2>20. ASSUME NEW p \in Pod, RepushFails(p) PROVE LockInv'
    <3>1. loop[p] = "repush" /\ UNCHANGED <<redis, loop, st, retry, lost>>
      BY <2>20 DEF RepushFails
    <3>2. CASE \E s \in repush[p] : /\ repush' = [repush EXCEPT ![p] = @ \ {s}]
                                    /\ task' = [task EXCEPT ![s] = NoTask]
                                    /\ UNCHANGED popped
      <4>1. PICK s \in repush[p] : /\ repush' = [repush EXCEPT ![p] = @ \ {s}]
                                   /\ task' = [task EXCEPT ![s] = NoTask]
        BY <3>2
      <4>2. s \in Slot /\ s[1] = p /\ st[s] = "free" /\ UNCHANGED <<poll, popped>>
        BY <2>20, <3>1, <3>2 DEF RepushFails, LockInv, Shape, Held
      <4>3. Held'
        BY <3>1, <4>1, <4>2 DEF LockInv, Shape, Held
      <4> QED
        BY <3>1, <4>1, <4>2, <4>3 DEF LockInv, Shape, Routed, Owned, IssueOf, Locked
    <3>3. CASE /\ repush[p] = {} /\ poll[p] = "popped"
               /\ popped' = [popped EXCEPT ![p] = NoTask] /\ UNCHANGED <<repush, task>>
      <4>1. poll' = [poll EXCEPT ![p] = "idle"]
        BY <2>20, <3>3 DEF RepushFails
      <4> QED
        BY <3>1, <3>3, <4>1 DEF LockInv, Shape, Routed, Held, Owned, IssueOf
    <3> QED
      BY <2>20, <3>2, <3>3 DEF RepushFails
  <2>21. ASSUME NEW s \in Slot, Outage(s) PROVE LockInv'
    <3>1. IssueOf(s) \in Issue
      BY <2>21 DEF Outage, LockInv, Held, IssueOf, Popped, Task, Locked
    <3>2. Shape' /\ Held'
      BY <2>21, <3>1 DEF Outage, LockInv, Shape, Routed, Held
    <3>3. Owned'
      BY <2>21, <3>1 DEF Outage, LockInv, Shape, Held, Owned, IssueOf, Popped, Task, Locked
    <3> QED
      BY <3>2, <3>3 DEF LockInv
  <2>22. ASSUME NEW s \in Slot, ReleaseFails(s) \/ WriteFails(s) PROVE LockInv'
    <3>1. CASE End(s)
      BY <2>22, <3>1, EndKeeps DEF ReleaseFails, WriteFails, LockInv, Shape, Routed, Owned, IssueOf, Locked
    <3>2. CASE (Goto(s, "push") \/ Goto(s, "unwind")) /\ UNCHANGED <<task, retry>>
      <4>1. /\ st' \in [Slot -> {"free", "lock", "push"} \cup Locked]
            /\ Held' /\ st[s] \in Locked \cup {"push"} /\ \A t \in Slot \ {s} : st'[t] = st[t]
        BY <2>22, <3>2, GotoKeeps DEF ReleaseFails, WriteFails, Locked
      <4>2. UNCHANGED <<queue, lock, lost, loop, poll, popped>>
        BY <2>22 DEF ReleaseFails, WriteFails
      <4>3. st[s] \in Locked
        BY <2>22, <3>2 DEF ReleaseFails, WriteFails, Goto, End, LockInv, Shape, Locked
      <4> QED
        BY <3>2, <4>1, <4>2, <4>3 DEF LockInv, Shape, Routed, Owned, IssueOf
    <3> QED
      BY <2>22, <3>1, <3>2 DEF ReleaseFails, WriteFails
  <2>23. ASSUME NEW s \in Slot, CancelAcquire(s) PROVE LockInv'
    <3>1. IssueOf(s) \in Issue
      BY <2>23 DEF CancelAcquire, LockInv, Held, IssueOf, Popped, Task
    <3> QED
      BY <2>23, <3>1, EndKeeps DEF CancelAcquire, LockInv, Shape, Routed, Owned, IssueOf, Locked
  <2>24. CASE UNCHANGED vars
    BY <2>24 DEF LockInv, Shape, Routed, Held, Owned, IssueOf
  <2> QED
    BY <2>1, <2>2, <2>3, <2>4, <2>5, <2>6, <2>7, <2>8, <2>9, <2>10, <2>11, <2>12, <2>13, <2>14,
       <2>15, <2>16, <2>17, <2>18, <2>19, <2>20, <2>21, <2>22, <2>23, <2>24
       DEF Next, Loop, Server, Handle, Faulty
<1> QED
  BY <1>1, <1>2, PTL DEF Spec

(***************************************************************************)
(* Two tasks work on one issue only if an outage took the lock from one.   *)
(***************************************************************************)
THEOREM LockSafety == Spec => []LockExclusive
<1>1. LockInv => LockExclusive
  BY AgentQueueAssumption DEF LockInv, Owned, LockExclusive
<1> QED
  BY <1>1, LockInvariant, PTL

(***************************************************************************)
(* Retries, re-pushes and orphaned polls return a task to the list it is   *)
(* routed to.                                                              *)
(***************************************************************************)
THEOREM PrioritySafety == Spec => []PriorityKept
<1>1. LockInv => PriorityKept
  <2> SUFFICES ASSUME LockInv, NEW q \in DOMAIN queue, NEW k \in DOMAIN queue[q]
               PROVE  QueueOf(queue[q][k]) = q
    BY DEF PriorityKept
  <2>1. q \in QName /\ queue[q] \in Seq(TasksOf(q))
    BY DEF LockInv, Shape, Routed
  <2>2. queue[q][k] \in TasksOf(q)
    BY <2>1
  <2> QED
    BY <2>2 DEF TasksOf
<1> QED
  BY <1>1, LockInvariant, PTL

-----------------------------------------------------------------------------
(***************************************************************************)
(* Where the permits of the semaphore are: free, with a task, or with the  *)
(* poll.  An orphaned poll gave its permit back, but nothing acquires it   *)
(* any more, so what the poll pops still has a place.                      *)
(***************************************************************************)
PermitOK(p) ==
    /\ sem[p] + Cardinality(Busy(p)) <= MaxConcurrent
    /\ loop[p] = "poll" => sem[p] + Cardinality(Busy(p)) < MaxConcurrent
    /\ Cardinality(Busy(p) \cup repush[p]) <= MaxConcurrent
    /\ poll[p] # "idle" => Cardinality(Busy(p) \cup repush[p]) < MaxConcurrent
    /\ loop[p] \in {"acquire", "exited"} => poll[p] = "idle"
    /\ loop[p] \notin {"gather", "repush"} => repush[p] = {}
    /\ loop[p] \in {"repush", "exited"} => Busy(p) = {}
Permits == sem \in [Pod -> Nat] /\ \A p \in Pod : PermitOK(p)

(* Slots can be counted. *)
LEMMA FiniteSlots ==
    \A p \in Pod : \A T \in SUBSET Slots(p) : IsFiniteSet(T) /\ Cardinality(T) \in Nat
<1>1. \A p \in Pod : IsFiniteSet(Slots(p))
  <2>1. IsFiniteSet(1 .. MaxConcurrent)
    BY FS_Interval, AgentQueueAssumption
  <2> QED
    BY <2>1, FS_Singleton, FS_Product DEF Slots
<1> QED
  BY <1>1, FS_Subset, FS_CardinalityType

(* So can busy slots and payloads to push back. *)
LEMMA SetFacts ==
    ASSUME LockInv, NEW p \in Pod
    PROVE  /\ Busy(p) \subseteq Slots(p) /\ repush[p] \subseteq Slots(p)
           /\ IsFiniteSet(Busy(p)) /\ Cardinality(Busy(p)) \in Nat
           /\ IsFiniteSet(repush[p]) /\ Cardinality(repush[p]) \in Nat
           /\ IsFiniteSet(Busy(p) \cup repush[p]) /\ Cardinality(Busy(p) \cup repush[p]) \in Nat
           /\ Cardinality({}) = 0
  BY FiniteSlots, FS_EmptySet DEF LockInv, Held, Busy

(* What is known of a pod's permits before a step. *)
Counted(p) ==
    /\ sem[p] \in Nat /\ MaxConcurrent \in Nat /\ Cardinality(Busy(p)) \in Nat
    /\ Cardinality(Busy(p) \cup repush[p]) \in Nat
    /\ repush[p] = {} => Busy(p) \cup repush[p] = Busy(p)
    /\ PermitOK(p)

(* The invariants give these facts. *)
LEMMA Counts ==
    ASSUME LockInv, Permits, NEW p \in Pod
    PROVE  Counted(p)
<1>1. Cardinality(Busy(p)) \in Nat /\ Cardinality(Busy(p) \cup repush[p]) \in Nat
  BY SetFacts
<1> QED
  BY <1>1, AgentQueueAssumption DEF Counted, Permits

(* A pod whose loop, semaphore and slots a step leaves alone. *)
LEMMA PodKept ==
    ASSUME NEW p \in Pod, PermitOK(p), Busy(p)' = Busy(p), repush'[p] = repush[p],
           sem'[p] = sem[p], loop'[p] = loop[p], poll'[p] = poll[p]
    PROVE  PermitOK(p)'
  BY DEF PermitOK

(* A step that neither frees nor fills a slot. *)
LEMMA AllKept ==
    ASSUME Permits, UNCHANGED <<sem, loop, poll, repush>>,
           \A t \in Slot : st[t] = "free" <=> st'[t] = "free"
    PROVE  Permits'
<1>1. \A p \in Pod : Busy(p)' = Busy(p)
  BY SlotFacts DEF Busy
<1> QED
  BY <1>1, PodKept DEF Permits

(* A task that ends returns its permit. *)
LEMMA EndPermits ==
    ASSUME LockInv, Permits, NEW s \in Slot, st[s] # "free", End(s),
           UNCHANGED <<loop, poll, repush>>
    PROVE  Permits'
<1> DEFINE p == s[1]
<1>1. p \in Pod /\ s \in Busy(p) /\ Busy(p)' = Busy(p) \ {s}
  BY SlotFacts DEF LockInv, Shape, Permits, End, Busy
<1>2. \A r \in Pod \ {p} : Busy(r)' = Busy(r) /\ sem'[r] = sem[r]
  BY SlotFacts DEF LockInv, Shape, Permits, End, Busy
<1>3. sem'[p] = sem[p] + 1
  BY <1>1 DEF Permits, End
<1>4. PermitOK(p)'
  <2>0. IsFiniteSet(Busy(p)) /\ IsFiniteSet(Busy(p) \cup repush[p])
    BY <1>1, SetFacts
  <2>1. Cardinality(Busy(p)') = Cardinality(Busy(p)) - 1 /\ Cardinality(Busy(p)') \in Nat
    BY <1>1, <2>0, FS_RemoveElement, FS_CardinalityType
  <2>2. Cardinality(Busy(p)' \cup repush[p]) <= Cardinality(Busy(p) \cup repush[p])
    <3>1. Busy(p)' \cup repush[p] \in SUBSET (Busy(p) \cup repush[p])
      BY <1>1
    <3> QED
      BY <2>0, <3>1, FS_Subset
  <2>3. /\ Cardinality(Busy(p)' \cup repush[p]) \in Nat
        /\ Cardinality(Busy(p) \cup repush[p]) \in Nat /\ Cardinality(Busy(p)) \in Nat
    BY <1>1, SetFacts, FiniteSlots
  <2> QED
    BY <1>1, <1>3, <2>1, <2>2, <2>3, AgentQueueAssumption DEF Permits, PermitOK
<1>5. sem' \in [Pod -> Nat]
  BY <1>1 DEF Permits, End
<1> QED
  BY <1>2, <1>4, <1>5, PodKept DEF Permits

(***************************************************************************)
(* The semaphore's permits, the tasks, the poll and the payloads still to  *)
(* be pushed back add up in every position of run_task_loop.               *)
(***************************************************************************)
THEOREM PermitInvariant == Spec => []Permits
<1> USE SlotFacts, AgentQueueAssumption DEF redis, pods, slots, bounds, vars
<1>1. Init => Permits
  <2> SUFFICES ASSUME Init PROVE Permits
    OBVIOUS
  <2>1. \A p \in Pod : Busy(p) = {} /\ Busy(p) \cup repush[p] = {}
    BY DEF Init, Busy
  <2>2. MaxConcurrent \in Nat /\ Cardinality({}) = 0
    BY FS_EmptySet
  <2>3. ASSUME NEW p \in Pod PROVE PermitOK(p)
    <3>1. /\ sem[p] = MaxConcurrent /\ poll[p] = "idle" /\ loop[p] = "acquire" /\ repush[p] = {}
          /\ Busy(p) = {} /\ Busy(p) \cup repush[p] = {}
      BY <2>1, <2>3 DEF Init
    <3> QED
      BY <2>2, <3>1 DEF PermitOK
  <2> QED
    BY <2>2, <2>3 DEF Init, Permits
<1>2. LockInv /\ Permits /\ [Next]_vars => Permits'
  <2> SUFFICES ASSUME LockInv, Permits, [Next]_vars PROVE Permits'
    OBVIOUS
  <2>1. ASSUME \/ \E i \in Issue : Submit(i) \/ Expire(i)
               \/ \E s \in Slot : Outage(s)
               \/ \E p \in Pod : Signal(p)
        PROVE  Permits'
    BY <2>1, AllKept DEF Submit, Expire, Outage, Signal
  <2>2. ASSUME NEW s \in Slot, Goto(s, "run") \/ Goto(s, "complete") \/ Goto(s, "giveup")
                                \/ Goto(s, "release") \/ Goto(s, "push") \/ Goto(s, "unwind"),
               st[s] # "free", UNCHANGED <<sem, loop, poll, repush>>
        PROVE  Permits'
    <3>1. \A t \in Slot : st[t] = "free" <=> st'[t] = "free"
      BY <2>2 DEF Goto, LockInv, Shape
    <3> QED
      BY <2>2, <3>1, AllKept
  <2>3. ASSUME NEW s \in Slot, Handle(s) \/ WorkflowEnds(s) PROVE Permits'
    <3>1. CASE End(s)
      <4>1. st[s] # "free" /\ UNCHANGED <<loop, poll, repush>>
        BY <2>3, <3>1 DEF Handle, LockIssue, DropDuplicate, WorkflowEnds, Complete, GiveUp, Release,
           Push, Cancel, Unwind
      <4> QED
        BY <3>1, <4>1, EndPermits
    <3>2. CASE ~End(s)
      BY <2>2, <2>3, <3>2
         DEF Handle, LockIssue, DropDuplicate, WorkflowEnds, Complete, GiveUp, Release, Push, Cancel, Unwind
    <3> QED
      BY <3>1, <3>2
  <2>4. ASSUME NEW s \in Slot, ReleaseFails(s) \/ WriteFails(s) \/ CancelAcquire(s) PROVE Permits'
    <3>1. st[s] # "free" /\ UNCHANGED <<loop, poll, repush>>
      BY <2>4 DEF ReleaseFails, WriteFails, CancelAcquire
    <3>2. CASE End(s)
      BY <3>1, <3>2, EndPermits
    <3>3. CASE ~End(s)
      BY <2>2, <2>4, <3>1, <3>3 DEF ReleaseFails, WriteFails, CancelAcquire
    <3> QED
      BY <3>2, <3>3
  <2>5. ASSUME NEW p \in Pod, UNCHANGED st,
               \A r \in Pod \ {p} : /\ sem'[r] = sem[r] /\ loop'[r] = loop[r]
                                   /\ poll'[r] = poll[r] /\ repush'[r] = repush[r],
               sem' \in [Pod -> Nat], Busy(p)' = Busy(p) => PermitOK(p)'
        PROVE  Permits'
    <3>1. \A r \in Pod : Busy(r)' = Busy(r)
      BY <2>5 DEF Busy
    <3> QED
      BY <2>5, <3>1, PodKept DEF Permits
  <2>6. ASSUME NEW p \in Pod, Acquire(p) PROVE Permits'
    <3>1. /\ sem[p] > 0 /\ sem'[p] = sem[p] - 1 /\ repush'[p] = repush[p]
          /\ loop[p] = "acquire" /\ loop'[p] = "poll" /\ poll'[p] = "waiting"
      BY <2>6 DEF Acquire, Permits, LockInv, Shape, Held
    <3>2. Busy(p)' = Busy(p) => PermitOK(p)'
      <4>1. Counted(p)
        BY Counts
      <4>2. repush[p] = {} /\ Busy(p) \cup repush[p] = Busy(p)
        BY <3>1, <4>1 DEF Counted, PermitOK
      <4>3. Busy(p)' = Busy(p) => Busy(p)' \cup repush'[p] = Busy(p)
        BY <3>1, <4>2
      <4> QED
        BY <3>1, <4>1, <4>2, <4>3 DEF Counted, PermitOK
    <3>3. UNCHANGED st /\ sem' \in [Pod -> Nat]
      BY <2>6 DEF Acquire, Permits
    <3>4. \A r \in Pod \ {p} : /\ sem'[r] = sem[r] /\ loop'[r] = loop[r]
                             /\ poll'[r] = poll[r] /\ repush'[r] = repush[r]
      BY <2>6 DEF Acquire, Permits, LockInv, Shape, Held
    <3> QED
      BY <2>5, <3>2, <3>3, <3>4
  <2>7. ASSUME NEW p \in Pod, AcquireStopped(p) PROVE Permits'
    <3>1. /\ sem'[p] = sem[p] /\ repush'[p] = repush[p] /\ poll'[p] = poll[p]
          /\ loop[p] = "acquire" /\ loop'[p] = "cancel"
      BY <2>7 DEF AcquireStopped, Permits, LockInv, Shape, Held
    <3>2. Busy(p)' = Busy(p) => PermitOK(p)'
      <4>1. Counted(p)
        BY Counts
      <4> QED
        BY <3>1, <4>1 DEF Counted, PermitOK
    <3>3. UNCHANGED st /\ sem' \in [Pod -> Nat]
      BY <2>7 DEF AcquireStopped, Permits
    <3>4. \A r \in Pod \ {p} : /\ sem'[r] = sem[r] /\ loop'[r] = loop[r]
                             /\ poll'[r] = poll[r] /\ repush'[r] = repush[r]
      BY <2>7 DEF AcquireStopped, Permits, LockInv, Shape, Held
    <3> QED
      BY <2>5, <3>2, <3>3, <3>4
  <2>8. ASSUME NEW p \in Pod, PollEmpty(p) PROVE Permits'
    <3>1. /\ sem'[p] = sem[p] + 1 /\ repush'[p] = repush[p]
          /\ loop[p] = "poll" /\ loop'[p] = "acquire" /\ poll'[p] = "idle"
      BY <2>8 DEF PollEmpty, Permits, LockInv, Shape, Held
    <3>2. Busy(p)' = Busy(p) => PermitOK(p)'
      <4>1. Counted(p)
        BY Counts
      <4> QED
        BY <3>1, <4>1 DEF Counted, PermitOK
    <3>3. UNCHANGED st /\ sem' \in [Pod -> Nat]
      BY <2>8 DEF PollEmpty, Permits
    <3>4. \A r \in Pod \ {p} : /\ sem'[r] = sem[r] /\ loop'[r] = loop[r]
                             /\ poll'[r] = poll[r] /\ repush'[r] = repush[r]
      BY <2>8 DEF PollEmpty, Permits, LockInv, Shape, Held
    <3> QED
      BY <2>5, <3>2, <3>3, <3>4
  <2>9. ASSUME NEW p \in Pod, PollStopped(p) PROVE Permits'
    <3>1. /\ sem'[p] = sem[p] + 1 /\ repush'[p] = repush[p] /\ poll'[p] = poll[p]
          /\ loop[p] = "poll" /\ loop'[p] = "cancel"
      BY <2>9 DEF PollStopped, Permits, LockInv, Shape, Held
    <3>2. Busy(p)' = Busy(p) => PermitOK(p)'
      <4>1. Counted(p)
        BY Counts
      <4> QED
        BY <3>1, <4>1 DEF Counted, PermitOK
    <3>3. UNCHANGED st /\ sem' \in [Pod -> Nat]
      BY <2>9 DEF PollStopped, Permits
    <3>4. \A r \in Pod \ {p} : /\ sem'[r] = sem[r] /\ loop'[r] = loop[r]
                             /\ poll'[r] = poll[r] /\ repush'[r] = repush[r]
      BY <2>9 DEF PollStopped, Permits, LockInv, Shape, Held
    <3> QED
      BY <2>5, <3>2, <3>3, <3>4
  <2>10. ASSUME NEW p \in Pod, BrPop(p) \/ PollTimeout(p) PROVE Permits'
    <3>1. /\ poll[p] = "waiting" /\ poll'[p] # "idle" /\ UNCHANGED <<sem, loop, repush, st>>
          /\ \A r \in Pod \ {p} : poll'[r] = poll[r]
      BY <2>10 DEF BrPop, PollTimeout, LockInv, Shape
    <3>2. Busy(p)' = Busy(p) => PermitOK(p)'
      BY <3>1 DEF Permits, PermitOK
    <3> QED
      BY <2>5, <3>1, <3>2 DEF Permits
  <2>11. ASSUME NEW p \in Pod, Dispatch(p) PROVE Permits'
    <3> DEFINE s == CHOOSE t \in Slots(p) : st[t] = "free"
    <3>1. s \in Slots(p) /\ st[s] = "free"
      BY <2>11 DEF Dispatch, Busy
    <3>2. /\ st' = [st EXCEPT ![s] = "lock"] /\ poll[p] = "popped" /\ loop[p] = "poll"
          /\ poll' = [poll EXCEPT ![p] = "idle"] /\ loop' = [loop EXCEPT ![p] = "acquire"]
          /\ UNCHANGED <<sem, repush>>
      BY <2>11 DEF Dispatch
    <3>3. Busy(p)' = Busy(p) \cup {s} /\ \A r \in Pod \ {p} : Busy(r)' = Busy(r)
      BY <3>1, <3>2 DEF Busy, LockInv, Shape
    <3>4. Cardinality(Busy(p)') = Cardinality(Busy(p)) + 1
      <4>1. s \notin Busy(p) /\ IsFiniteSet(Busy(p))
        BY <3>1, SetFacts DEF Busy
      <4> QED
        BY <3>3, <4>1, FS_AddElement
    <3>5. repush[p] = {} /\ Busy(p)' \cup repush'[p] = Busy(p)'
      BY <3>2 DEF Permits, PermitOK
    <3>6. PermitOK(p)'
      <4>1. poll'[p] = "idle" /\ loop'[p] = "acquire" /\ sem'[p] = sem[p] /\ repush'[p] = {}
        BY <3>2, <3>5 DEF LockInv, Shape
      <4> QED
        BY <3>2, <3>4, <3>5, <4>1, Counts DEF Counted, PermitOK
    <3> QED
      BY <3>2, <3>3, <3>6, PodKept DEF Permits, LockInv, Shape
  <2>12. ASSUME NEW p \in Pod, CancelActive(p) PROVE Permits'
    <3>1. /\ sem'[p] = sem[p] /\ repush'[p] = Busy(p) /\ poll'[p] = poll[p]
          /\ loop[p] = "cancel" /\ loop'[p] = "gather"
      BY <2>12 DEF CancelActive, Permits, LockInv, Shape, Held
    <3>2. Busy(p)' = Busy(p) => PermitOK(p)'
      <4>1. Counted(p)
        BY Counts
      <4>2. repush[p] = {} /\ Busy(p) \cup repush[p] = Busy(p)
        BY <3>1, <4>1 DEF Counted, PermitOK
      <4>3. Busy(p)' = Busy(p) => Busy(p)' \cup repush'[p] = Busy(p)
        BY <3>1, <4>2
      <4> QED
        BY <3>1, <4>1, <4>2, <4>3 DEF Counted, PermitOK
    <3>3. UNCHANGED st /\ sem' \in [Pod -> Nat]
      BY <2>12 DEF CancelActive, Permits
    <3>4. \A r \in Pod \ {p} : /\ sem'[r] = sem[r] /\ loop'[r] = loop[r]
                             /\ poll'[r] = poll[r] /\ repush'[r] = repush[r]
      BY <2>12 DEF CancelActive, Permits, LockInv, Shape, Held
    <3> QED
      BY <2>5, <3>2, <3>3, <3>4
  <2>13. ASSUME NEW p \in Pod, Gathered(p) PROVE Permits'
    <3>1. /\ sem'[p] = sem[p] /\ repush'[p] = repush[p] /\ poll'[p] = poll[p]
          /\ loop[p] = "gather" /\ loop'[p] = "repush" /\ Busy(p) = {}
      BY <2>13 DEF Gathered, Permits, LockInv, Shape, Held
    <3>2. Busy(p)' = Busy(p) => PermitOK(p)'
      BY <3>1, Counts, FS_EmptySet DEF Counted, PermitOK
    <3>3. UNCHANGED st /\ sem' \in [Pod -> Nat]
      BY <2>13 DEF Gathered, Permits
    <3>4. \A r \in Pod \ {p} : /\ sem'[r] = sem[r] /\ loop'[r] = loop[r]
                             /\ poll'[r] = poll[r] /\ repush'[r] = repush[r]
      BY <2>13 DEF Gathered, Permits, LockInv, Shape, Held
    <3> QED
      BY <2>5, <3>2, <3>3, <3>4
  <2>14. ASSUME NEW p \in Pod, Repush(p) \/ RepushFails(p) PROVE Permits'
    <3>1. /\ loop[p] = "repush" /\ UNCHANGED <<sem, loop, st>>
          /\ repush'[p] \subseteq repush[p] /\ (poll'[p] = "idle" \/ poll'[p] = poll[p])
          /\ \A r \in Pod \ {p} : poll'[r] = poll[r] /\ repush'[r] = repush[r]
      BY <2>14 DEF Repush, RepushFails, LockInv, Shape, Held
    <3>2. repush'[p] \subseteq repush[p]
      BY <3>1
    <3>3. ASSUME Busy(p)' = Busy(p) PROVE PermitOK(p)'
      <4>1. Cardinality(Busy(p)' \cup repush'[p]) <= Cardinality(Busy(p) \cup repush[p])
        BY <3>2, <3>3, SetFacts, FS_Subset
      <4>2. /\ Cardinality(Busy(p)' \cup repush'[p]) \in Nat
            /\ Cardinality(Busy(p) \cup repush[p]) \in Nat
        <5>1. Busy(p) \subseteq Slots(p) /\ repush[p] \subseteq Slots(p)
          BY SetFacts
        <5>2. Busy(p)' \cup repush'[p] \in SUBSET Slots(p)
          BY <3>2, <3>3, <5>1
        <5> QED
          BY <5>2, SetFacts, FiniteSlots
      <4> QED
        BY <3>1, <3>3, <4>1, <4>2, Counts DEF Counted, PermitOK
    <3> QED
      BY <2>5, <3>1, <3>3 DEF Permits
  <2>15. ASSUME NEW p \in Pod, ResolveOrphan(p) PROVE Permits'
    <3>1. /\ sem'[p] = sem[p] /\ repush'[p] = {} /\ repush[p] = {} /\ poll'[p] = "idle"
          /\ loop[p] = "repush" /\ loop'[p] = "exited"
      BY <2>15 DEF ResolveOrphan, Permits, LockInv, Shape, Held
    <3>2. Busy(p)' = Busy(p) => PermitOK(p)'
      BY <3>1, Counts, FS_EmptySet DEF Counted, PermitOK
    <3>3. UNCHANGED st /\ sem' \in [Pod -> Nat]
      BY <2>15 DEF ResolveOrphan, Permits
    <3>4. \A r \in Pod \ {p} : /\ sem'[r] = sem[r] /\ loop'[r] = loop[r]
                             /\ poll'[r] = poll[r] /\ repush'[r] = repush[r]
      BY <2>15 DEF ResolveOrphan, Permits, LockInv, Shape, Held
    <3> QED
      BY <2>5, <3>2, <3>3, <3>4
  <2>16. ASSUME NEW p \in Pod, Restart(p) PROVE Permits'
    <3>1. /\ sem'[p] = MaxConcurrent /\ repush'[p] = repush[p] /\ poll'[p] = poll[p]
          /\ loop[p] = "exited" /\ loop'[p] = "acquire"
      BY <2>16 DEF Restart, Permits, LockInv, Shape, Held
    <3>2. ASSUME Busy(p)' = Busy(p) PROVE PermitOK(p)'
      <4>1. Counted(p)
        BY Counts
      <4>2. Busy(p) = {} /\ Cardinality(Busy(p)) = 0 /\ repush[p] = {} /\ poll[p] = "idle"
        BY <3>1, <4>1, FS_EmptySet DEF Counted, PermitOK
      <4>3. Busy(p)' = {} /\ Busy(p)' \cup repush'[p] = {} /\ Cardinality({}) = 0
        BY <3>1, <3>2, <4>2, FS_EmptySet
      <4> QED
        BY <3>1, <4>2, <4>3, AgentQueueAssumption DEF PermitOK
    <3>3. UNCHANGED st /\ sem' \in [Pod -> Nat]
      BY <2>16 DEF Restart, Permits
    <3>4. \A r \in Pod \ {p} : /\ sem'[r] = sem[r] /\ loop'[r] = loop[r]
                             /\ poll'[r] = poll[r] /\ repush'[r] = repush[r]
      BY <2>16 DEF Restart, Permits, LockInv, Shape, Held
    <3> QED
      BY <2>5, <3>2, <3>3, <3>4
  <2>17. ASSUME NEW p \in Pod, PollRaises(p) PROVE Permits'
    <3>1. /\ sem'[p] = sem[p] /\ repush'[p] = repush[p] /\ poll'[p] = "idle" /\ poll[p] = "waiting"
          /\ loop[p] = "poll" /\ loop'[p] = "gather"
      BY <2>17 DEF PollRaises, Permits, LockInv, Shape, Held
    <3>2. Busy(p)' = Busy(p) => PermitOK(p)'
      <4>1. Counted(p)
        BY Counts
      <4> QED
        BY <3>1, <4>1 DEF Counted, PermitOK
    <3>3. UNCHANGED st /\ sem' \in [Pod -> Nat]
      BY <2>17 DEF PollRaises, Permits
    <3>4. \A r \in Pod \ {p} : /\ sem'[r] = sem[r] /\ loop'[r] = loop[r]
                             /\ poll'[r] = poll[r] /\ repush'[r] = repush[r]
      BY <2>17 DEF PollRaises, Permits, LockInv, Shape, Held
    <3> QED
      BY <2>5, <3>2, <3>3, <3>4
  <2>18. ASSUME NEW p \in Pod, Crash(p) PROVE Permits'
    <3>1. Busy(p)' = {} /\ \A r \in Pod \ {p} : Busy(r)' = Busy(r)
      BY <2>18 DEF Crash, Busy, LockInv, Shape
    <3>2. /\ UNCHANGED sem /\ loop'[p] = "exited" /\ poll'[p] = "idle" /\ repush'[p] = {}
          /\ \A r \in Pod \ {p} : loop'[r] = loop[r] /\ poll'[r] = poll[r] /\ repush'[r] = repush[r]
      BY <2>18 DEF Crash, LockInv, Shape, Held
    <3>3. PermitOK(p)'
      <4>1. Busy(p)' \cup repush'[p] = {}
        BY <3>1, <3>2
      <4>2. sem[p] \in Nat /\ sem[p] <= MaxConcurrent
        <5>1. Counted(p)
          BY Counts
        <5> QED
          BY <5>1 DEF Counted, PermitOK
      <4> QED
        BY <3>1, <3>2, <4>1, <4>2, FS_EmptySet DEF PermitOK
    <3> QED
      BY <3>1, <3>2, <3>3, PodKept DEF Permits
  <2>19. CASE UNCHANGED vars
    BY <2>19, AllKept
  <2> QED
    BY <2>1, <2>3, <2>4, <2>6, <2>7, <2>8, <2>9, <2>10, <2>11, <2>12, <2>13, <2>14, <2>15, <2>16,
       <2>17, <2>18, <2>19 DEF Next, Loop, Server, Faulty
<1> QED
  BY <1>1, <1>2, LockInvariant, PTL DEF Spec

(***************************************************************************)
(* A pod never holds more tasks than it has slots: not while it works, and *)
(* not while a shutdown pushes them back with an orphaned poll in flight.  *)
(***************************************************************************)
THEOREM MemorySafety == Spec => []MemoryBound
<1>1. LockInv /\ Permits => MemoryBound
  <2> SUFFICES ASSUME LockInv, Permits, NEW p \in Pod PROVE InMemory(p) <= MaxConcurrent
    BY DEF MemoryBound
  <2> QED
    BY Counts DEF Counted, PermitOK, InMemory
<1> QED
  BY <1>1, LockInvariant, PermitInvariant, PTL

-----------------------------------------------------------------------------
(* The part of TypeOK that neither locks nor permits depend on. *)
Rest ==
    /\ errors \subseteq Issue /\ completed \subseteq Issue /\ submitted \subseteq Issue
    /\ shutdown \in [Pod -> BOOLEAN] /\ cancelled \in [Slot -> BOOLEAN]
    /\ tasks \in Nat /\ stops \in Nat /\ faults \in Nat

(***************************************************************************)
(* Every variable keeps its type; no attempt beyond the last is queued and *)
(* the semaphore stays between zero and MaxConcurrent.                     *)
(***************************************************************************)
THEOREM TypeCorrect == Spec => []TypeOK
<1> USE SlotFacts, AgentQueueAssumption DEF redis, pods, slots, bounds, vars
<1>1. Init => Rest
  BY DEF Init, Rest
<1>2. LockInv /\ Rest /\ [Next]_vars => Rest'
  <2> SUFFICES ASSUME LockInv, Rest, [Next]_vars PROVE Rest'
    OBVIOUS
  <2>1. ASSUME NEW i \in Issue, Submit(i) \/ Expire(i) PROVE Rest'
    BY <2>1 DEF Submit, Expire, Rest
  <2>2. ASSUME NEW p \in Pod, Loop(p) \/ Server(p) \/ Signal(p) PROVE Rest'
    <3>1. CASE CancelActive(p)
      <4>1. cancelled' \in [Slot -> BOOLEAN]
        BY <3>1, Zenon DEF CancelActive, Rest
      <4> QED
        BY <3>1, <4>1 DEF CancelActive, Rest
    <3>2. CASE Restart(p) \/ Signal(p)
      <4>1. shutdown' \in [Pod -> BOOLEAN]
        BY <3>2, Zenon DEF Restart, Signal, Rest
      <4>2. stops' \in Nat
        BY <3>2 DEF Restart, Signal, Rest
      <4> QED
        BY <3>2, <4>1, <4>2 DEF Restart, Signal, Rest
    <3> QED
      BY <2>2, <3>1, <3>2
         DEF Loop, Acquire, AcquireStopped, Dispatch, PollEmpty, PollStopped, Gathered, Repush,
             ResolveOrphan, Server, BrPop, PollTimeout, Rest
  <2>3. ASSUME NEW s \in Slot, Complete(s) \/ GiveUp(s) PROVE Rest'
    <3>1. IssueOf(s) \in Issue
      BY <2>3 DEF Complete, GiveUp, LockInv, Held, IssueOf, Popped, Task
    <3> QED
      BY <2>3, <3>1 DEF Complete, GiveUp, Rest
  <2>4. ASSUME NEW s \in Slot, WorkflowEnds(s) \/ LockIssue(s) \/ DropDuplicate(s) \/ Release(s)
                              \/ Push(s) \/ Cancel(s) \/ Unwind(s)
        PROVE  Rest'
    <3>1. UNCHANGED <<errors, completed, submitted, shutdown, tasks, stops, faults>>
      BY <2>4 DEF WorkflowEnds, LockIssue, DropDuplicate, Release, Push, Cancel, Unwind
    <3>2. UNCHANGED cancelled \/ cancelled' = [cancelled EXCEPT ![s] = FALSE]
      BY <2>4 DEF WorkflowEnds, LockIssue, DropDuplicate, Release, Push, Cancel, Unwind, End
    <3> QED
      BY <3>1, <3>2 DEF Rest
  <2>5. ASSUME NEW p \in Pod, Crash(p) \/ PollRaises(p) \/ RepushFails(p) PROVE Rest'
    <3>1. faults' \in Nat
      BY <2>5 DEF Crash, PollRaises, RepushFails, Fault, Rest
    <3>2. cancelled' \in [Slot -> BOOLEAN]
      <4>1. CASE Crash(p)
        BY <4>1, Zenon DEF Crash, Rest
      <4>2. CASE PollRaises(p)
        BY <4>2, Zenon DEF PollRaises, Rest
      <4>3. CASE RepushFails(p)
        BY <4>3 DEF RepushFails, Rest
      <4> QED
        BY <2>5, <4>1, <4>2, <4>3
    <3> QED
      BY <2>5, <3>1, <3>2 DEF Crash, PollRaises, RepushFails, Rest
  <2>6. ASSUME NEW s \in Slot, Outage(s) \/ ReleaseFails(s) \/ WriteFails(s) \/ CancelAcquire(s)
        PROVE  Rest'
    <3>1. faults' \in Nat
      BY <2>6 DEF Outage, ReleaseFails, WriteFails, CancelAcquire, Fault, Rest
    <3>2. cancelled' \in [Slot -> BOOLEAN]
      BY <2>6 DEF Outage, ReleaseFails, WriteFails, CancelAcquire, End, Rest
    <3> QED
      BY <2>6, <3>1, <3>2 DEF Outage, ReleaseFails, WriteFails, CancelAcquire, Rest
  <2>7. CASE UNCHANGED vars
    BY <2>7 DEF Rest
  <2> QED
    BY <2>1, <2>2, <2>3, <2>4, <2>5, <2>6, <2>7 DEF Next, Handle, Faulty
<1>3. LockInv /\ Permits /\ Rest => TypeOK
  <2> SUFFICES ASSUME LockInv, Permits, Rest PROVE TypeOK
    OBVIOUS
  <2>1. \A p \in Pod : sem[p] \in 0 .. MaxConcurrent
    <3> TAKE p \in Pod
    <3>1. Counted(p)
      BY Counts
    <3> QED
      BY <3>1 DEF Counted, PermitOK
  <2>2. sem \in [Pod -> 0 .. MaxConcurrent]
    BY <2>1 DEF Permits
  <2> QED
    BY <2>2 DEF LockInv, Shape, Routed, QName, Held, Popped, Rest, TypeOK
<1> QED
  BY <1>1, <1>2, <1>3, LockInvariant, PermitInvariant, PTL DEF Spec

-----------------------------------------------------------------------------
(* Without a crash or a failed release a lock names a task that works.        *)
LockNamed == \A i \in Issue : lock[i] # NoSlot => st[lock[i]] \in Locked /\ IssueOf(lock[i]) = i

(* Whoever is cancelled is on the list of what the shutdown pushes back.      *)
Stopping ==
    /\ \A s \in Slot : cancelled[s] => st[s] # "free"
    /\ \A s \in Slot : cancelled[s] \/ st[s] = "unwind" => s \in repush[s[1]]
    /\ \A p \in Pod : repush[p] # {} => loop[p] \in {"gather", "repush"}

(* A task that ends has its result recorded, or a payload to try it again.    *)
Settled ==
    \A s \in Slot :
        /\ st[s] \in {"free", "lock", "run", "complete", "giveup"} => retry[s] = NoTask
        /\ st[s] \in {"release", "push"} =>
              IF retry[s] = NoTask THEN IssueOf(s) \in completed \cup errors ELSE retry[s].issue = IssueOf(s)

(***************************************************************************)
(* Why a task that leaves memory is not needed there: it was handled, goes *)
(* on under the lock its duplicate found, or is pushed back.               *)
(***************************************************************************)
KeepInv == LockNamed /\ Stopping /\ Settled

(* A task that ends. *)
LEMMA EndFacts ==
    ASSUME LockInv, cancelled \in [Slot -> BOOLEAN], NEW s \in Slot, End(s)
    PROVE  /\ st'[s] = "free" /\ retry'[s] = NoTask /\ ~cancelled'[s]
           /\ s \in repush[s[1]] => task' = task
           /\ \A t \in Slot \ {s} : /\ st'[t] = st[t] /\ task'[t] = task[t] /\ retry'[t] = retry[t]
                                   /\ cancelled'[t] = cancelled[t]
<1>1. ~cancelled'[s] /\ \A t \in Slot \ {s} : cancelled'[t] = cancelled[t]
  BY Zenon DEF End
<1> QED
  BY <1>1 DEF End, LockInv, Shape

(* The other tasks stay stoppable and settled when s ends. *)
LEMMA EndKeepsOthers ==
    ASSUME LockInv, KeepInv, cancelled \in [Slot -> BOOLEAN], NEW s \in Slot, End(s),
           UNCHANGED <<completed, errors, loop, repush>>
    PROVE  Stopping' /\ Settled'
<1> USE EndFacts
<1>1. Stopping'
  BY DEF KeepInv, Stopping
<1>2. Settled'
  BY DEF KeepInv, Settled, IssueOf
<1> QED
  BY <1>1, <1>2

(* A lock that names no other task stays so when s ends or gives it back. *)
LEMMA UnlockNamed ==
    ASSUME LockInv, LockNamed, NEW s \in Slot, st[s] # "free", Unlock(s),
           \A t \in Slot \ {s} : st'[t] = st[t] /\ task'[t] = task[t]
    PROVE  LockNamed'
<1>1. IssueOf(s) \in Issue /\ lock \in [Issue -> Slot \cup {NoSlot}] /\ NoSlot \notin Slot
  BY AgentQueueAssumption DEF LockInv, Shape, Held, IssueOf, Popped, Task
<1>2. ASSUME NEW i \in Issue, lock'[i] # NoSlot PROVE lock[i] = lock'[i] /\ lock[i] # s
  BY <1>1, <1>2 DEF Unlock, LockNamed
<1> QED
  BY <1>1, <1>2 DEF LockNamed, IssueOf

(* So does a step that leaves the locks and the tasks that work alone. *)
LEMMA LockNamedStays ==
    ASSUME LockInv, LockNamed, UNCHANGED lock,
           \A t \in Slot : st[t] \in Locked => st'[t] \in Locked /\ task'[t] = task[t]
    PROVE  LockNamed'
BY AgentQueueAssumption DEF LockInv, Shape, LockNamed, IssueOf

(***************************************************************************)
(* Locks name tasks that work, cancelled tasks are on their pod's list,    *)
(* and tasks on their way out are settled, as long as only outages strike. *)
(***************************************************************************)
THEOREM KeepInvariant ==
    ASSUME FaultKinds \subseteq {"outage"}
    PROVE  Spec => []KeepInv
<1> USE SlotFacts, AgentQueueAssumption DEF redis, pods, slots, bounds, vars
<1>1. Init => KeepInv
  BY DEF Init, KeepInv, LockNamed, Stopping, Settled
<1>2. LockInv /\ LockInv' /\ TypeOK /\ KeepInv /\ [Next]_vars => KeepInv'
  <2> SUFFICES ASSUME LockInv, LockInv', TypeOK, KeepInv, [Next]_vars PROVE KeepInv'
    OBVIOUS
  <2>0. cancelled \in [Slot -> BOOLEAN] /\ LockNamed /\ Stopping /\ Settled
    BY DEF TypeOK, KeepInv
  <2>1. ASSUME UNCHANGED <<lock, errors, completed, st, task, retry, cancelled, repush>>,
               \A p \in Pod : repush[p] # {} => loop'[p] = loop[p]
        PROVE  KeepInv'
    <3>1. LockNamed' /\ Settled'
      BY <2>0, <2>1 DEF LockNamed, Settled, IssueOf
    <3>2. Stopping'
      BY <2>0, <2>1 DEF Stopping
    <3> QED
      BY <3>1, <3>2 DEF KeepInv
  <2>2. ASSUME NEW i \in Issue, Expire(i) PROVE KeepInv'
    BY <2>0, <2>2 DEF Expire, LockNamed
  <2>3. ASSUME NEW p \in Pod, Acquire(p) \/ AcquireStopped(p) \/ PollEmpty(p) \/ PollStopped(p)
        PROVE  KeepInv'
    <3>1. loop[p] \in {"acquire", "poll"} /\ \A r \in Pod \ {p} : loop'[r] = loop[r]
      BY <2>3 DEF Acquire, AcquireStopped, PollEmpty, PollStopped, LockInv, Shape
    <3> QED
      BY <2>0, <2>1, <2>3, <3>1 DEF Acquire, AcquireStopped, PollEmpty, PollStopped, Stopping
  <2>4. ASSUME NEW p \in Pod, Dispatch(p) PROVE KeepInv'
    <3> DEFINE s == CHOOSE t \in Slots(p) : st[t] = "free"
    <3>1. s \in Slots(p) /\ st[s] = "free"
      BY <2>4 DEF Dispatch, Busy
    <3>2. /\ st' = [st EXCEPT ![s] = "lock"] /\ task' = [task EXCEPT ![s] = popped[p]]
          /\ loop' = [loop EXCEPT ![p] = "acquire"] /\ loop[p] = "poll"
          /\ UNCHANGED <<lock, errors, completed, repush, retry, cancelled>>
      BY <2>4 DEF Dispatch
    <3>3. s \in Slot /\ s[1] = p
      BY <3>1
    <3> HIDE DEF s
    <3>4. \A t \in Slot \ {s} : st'[t] = st[t] /\ task'[t] = task[t]
      BY <3>2 DEF LockInv, Shape
    <3>5. LockNamed'
      BY <2>0, <3>1, <3>2, <3>4, LockNamedStays DEF Locked
    <3>6. st'[s] = "lock"
      BY <3>2, <3>3 DEF LockInv, Shape
    <3>7. Settled'
      BY <2>0, <3>1, <3>2, <3>3, <3>4, <3>6 DEF Settled, IssueOf
    <3>8. Stopping'
      BY <2>0, <3>1, <3>2, <3>3, <3>4, <3>6 DEF Stopping, LockInv, Shape
    <3> QED
      BY <3>5, <3>7, <3>8 DEF KeepInv
  <2>5. ASSUME NEW p \in Pod, CancelActive(p) PROVE KeepInv'
    <3>1. /\ repush' = [repush EXCEPT ![p] = Busy(p)] /\ loop' = [loop EXCEPT ![p] = "gather"]
          /\ cancelled' = [s \in Slot |-> cancelled[s] \/ s \in Busy(p)]
          /\ UNCHANGED <<lock, errors, completed, st, task, retry>>
      BY <2>5 DEF CancelActive
    <3>2. LockNamed' /\ Settled'
      BY <2>0, <3>1 DEF LockNamed, Settled, IssueOf
    <3>3. \A s \in Slot : cancelled'[s] => cancelled[s] \/ s \in Busy(p)
      BY <3>1
    <3>4. repush[p] = {} /\ \A r \in Pod \ {p} : repush'[r] = repush[r] /\ loop'[r] = loop[r]
      BY <2>0, <2>5, <3>1 DEF CancelActive, Stopping, LockInv, Shape, Held
    <3>5. repush'[p] = Busy(p) /\ loop'[p] = "gather"
      BY <3>1 DEF LockInv, Shape, Held
    <3>6. \A s \in Slot : s \in Busy(p) <=> s[1] = p /\ st[s] # "free"
      BY DEF Busy
    <3>7. Stopping'
      <4>1. \A s \in Slot : cancelled'[s] => st'[s] # "free"
        BY <2>0, <3>1, <3>3, <3>6 DEF Stopping
      <4>2. \A s \in Slot : cancelled'[s] \/ st'[s] = "unwind" => s \in repush'[s[1]]
        BY <2>0, <3>1, <3>3, <3>4, <3>5, <3>6 DEF Stopping
      <4>3. \A r \in Pod : repush'[r] # {} => loop'[r] \in {"gather", "repush"}
        BY <2>0, <3>4, <3>5 DEF Stopping
      <4> QED
        BY <4>1, <4>2, <4>3 DEF Stopping
    <3> QED
      BY <3>2, <3>7 DEF KeepInv
  <2>6. ASSUME NEW p \in Pod, Gathered(p) PROVE KeepInv'
    <3>1. LockNamed' /\ Settled'
      BY <2>0, <2>6 DEF Gathered, LockNamed, Settled, IssueOf
    <3>2. Stopping'
      BY <2>0, <2>6 DEF Gathered, Stopping, LockInv, Shape
    <3> QED
      BY <3>1, <3>2 DEF KeepInv
  <2>7. ASSUME NEW p \in Pod, Repush(p) PROVE KeepInv'
    <3>1. PICK s \in repush[p] :
             /\ repush' = [repush EXCEPT ![p] = @ \ {s}]
             /\ task' = [task EXCEPT ![s] = NoTask]
      BY <2>7 DEF Repush
    <3>2. s \in Slot /\ s[1] = p /\ st[s] = "free" /\ loop[p] = "repush"
          /\ UNCHANGED <<lock, errors, completed, loop, st, retry, cancelled>>
      BY <2>7, <3>1 DEF Repush, LockInv, Held
    <3>3. \A t \in Slot \ {s} : task'[t] = task[t]
      BY <3>1 DEF LockInv, Shape
    <3>4. LockNamed'
      BY <2>0, <3>2, <3>3, LockNamedStays DEF Locked
    <3>5. Settled'
      BY <2>0, <3>2, <3>3 DEF Settled, IssueOf
    <3>6. Stopping'
      BY <2>0, <3>1, <3>2 DEF Stopping, LockInv, Held
    <3> QED
      BY <3>4, <3>5, <3>6 DEF KeepInv
  <2>8. ASSUME NEW p \in Pod, ResolveOrphan(p) PROVE KeepInv'
    <3>1. repush[p] = {} /\ \A r \in Pod \ {p} : loop'[r] = loop[r]
      BY <2>8 DEF ResolveOrphan, LockInv, Shape
    <3> QED
      BY <2>1, <2>8, <3>1 DEF ResolveOrphan
  <2>9. ASSUME NEW p \in Pod, Restart(p) PROVE KeepInv'
    <3>1. loop[p] = "exited" /\ \A r \in Pod \ {p} : loop'[r] = loop[r]
      BY <2>9 DEF Restart, LockInv, Shape
    <3> QED
      BY <2>0, <2>1, <2>9, <3>1 DEF Restart, Stopping
  <2>10. ASSUME NEW s \in Slot, LockIssue(s) PROVE KeepInv'
    <3>1. /\ st[s] = "lock" /\ lock' = [lock EXCEPT ![IssueOf(s)] = s] /\ st' = [st EXCEPT ![s] = "run"]
          /\ UNCHANGED <<errors, completed, loop, repush, task, retry, cancelled>>
      BY <2>10 DEF LockIssue, Goto
    <3>2. st'[s] = "run" /\ \A t \in Slot \ {s} : st'[t] = st[t]
      BY <3>1 DEF LockInv, Shape
    <3>3. Settled' /\ Stopping'
      BY <2>0, <3>1, <3>2 DEF Settled, Stopping, IssueOf
    <3>4. LockNamed'
      <4>1. ASSUME NEW i \in Issue, NEW x \in Slot, lock'[i] = x
            PROVE  st'[x] \in Locked /\ task'[x].task.issue = i
        <5>1. CASE i = IssueOf(s)
          <6>1. x = s
            BY <3>1, <4>1, <5>1 DEF LockInv, Shape
          <6> QED
            BY <3>1, <3>2, <5>1, <6>1 DEF IssueOf, Locked
        <5>2. CASE i # IssueOf(s)
          <6>1. lock[i] = x
            BY <3>1, <4>1, <5>2 DEF LockInv, Shape
          <6> QED
            BY <2>0, <3>1, <3>2, <6>1 DEF LockNamed, IssueOf, Locked
        <5> QED
          BY <5>1, <5>2
      <4> QED
        BY <4>1 DEF LockNamed, IssueOf, LockInv, Shape
    <3> QED
      BY <3>3, <3>4 DEF KeepInv
  <2>11. ASSUME NEW s \in Slot, End(s), st[s] \notin Locked, UNCHANGED <<lock, completed, errors, loop, repush>>
         PROVE  KeepInv'
    <3>1. Stopping' /\ Settled'
      BY <2>0, <2>11, EndKeepsOthers
    <3>2. LockNamed'
      BY <2>0, <2>11, EndFacts, LockNamedStays
    <3> QED
      BY <3>1, <3>2 DEF KeepInv
  <2>12. ASSUME NEW s \in Slot, st[s] \in Locked \ {"unwind"}, NEW next \in Locked, Goto(s, next),
                UNCHANGED <<lock, loop, repush, task>>, completed \cup errors \subseteq completed' \cup errors',
                Settled', \A t \in Slot : cancelled'[t] => cancelled[t],
                next = "unwind" => cancelled[s]
         PROVE  KeepInv'
    <3>1. st'[s] = next /\ \A t \in Slot \ {s} : st'[t] = st[t]
      BY <2>12 DEF Goto, LockInv, Shape
    <3>2. LockNamed'
      BY <2>0, <2>12, <3>1, LockNamedStays
    <3>3. Stopping'
      BY <2>0, <2>12, <3>1 DEF Stopping, Locked
    <3> QED
      BY <2>12, <3>2, <3>3 DEF KeepInv
  <2>13. ASSUME NEW s \in Slot, WorkflowEnds(s) PROVE KeepInv'
    <3> DEFINE again == [task[s].task EXCEPT !.attempts = @ + 1]
    <3>1. st[s] = "run" /\ UNCHANGED <<lock, errors, completed, loop, repush, task, cancelled>>
      BY <2>13 DEF WorkflowEnds
    <3>2. task[s].task \in Task
      BY <3>1 DEF LockInv, Held, Popped
    <3>3. again.issue = IssueOf(s)
      BY <3>2 DEF Task, IssueOf
    <3>4. again.attempts < MaxRetries => again \in Task
      BY <3>2 DEF Task
    <3>5. PICK next \in {"complete", "release", "giveup"} :
             /\ Goto(s, next)
             /\ next # "release" => UNCHANGED retry
             /\ next = "release" => again \in Task /\ retry' = [retry EXCEPT ![s] = again]
      BY <2>13, <3>4 DEF WorkflowEnds
    <3> HIDE DEF again
    <3>6. Settled'
      <4>1. st'[s] = next /\ \A t \in Slot \ {s} : st'[t] = st[t] /\ retry'[t] = retry[t]
        BY <3>5 DEF Goto, LockInv, Shape
      <4>2. next = "release" => retry'[s] = again /\ retry'[s] # NoTask
        <5>1. again \in Task => again # NoTask
          OBVIOUS
        <5> QED
          BY <3>5, <5>1 DEF LockInv, Shape
      <4> QED
        BY <2>0, <3>1, <3>3, <3>5, <4>1, <4>2 DEF Settled, IssueOf
    <3>7. completed \cup errors \subseteq completed' \cup errors' /\ \A t \in Slot : cancelled'[t] => cancelled[t]
      BY <3>1
    <3>8. st[s] \in Locked \ {"unwind"} /\ next \in Locked /\ next # "unwind"
      BY <3>1, <3>5 DEF Locked
    <3> QED
      BY <2>12, <3>1, <3>5, <3>6, <3>7, <3>8
  <2>14. ASSUME NEW s \in Slot, Complete(s) \/ GiveUp(s) PROVE KeepInv'
    <3>1. /\ st[s] \in Locked \ {"unwind"} /\ retry[s] = NoTask /\ Goto(s, "release")
          /\ IssueOf(s) \in completed' \cup errors' /\ completed \cup errors \subseteq completed' \cup errors'
          /\ UNCHANGED <<lock, loop, repush, task, retry, cancelled>>
      BY <2>0, <2>14 DEF Complete, GiveUp, Settled, Locked
    <3>2. st'[s] = "release" /\ \A t \in Slot \ {s} : st'[t] = st[t]
      BY <3>1 DEF Goto, LockInv, Shape
    <3>3. Settled'
      BY <2>0, <3>1, <3>2 DEF Settled, IssueOf
    <3>4. "release" \in Locked /\ \A t \in Slot : cancelled'[t] => cancelled[t]
      BY <3>1 DEF Locked
    <3> QED
      BY <2>12, <3>1, <3>3, <3>4
  <2>15. ASSUME NEW s \in Slot, Release(s) PROVE KeepInv'
    <3>1. /\ st[s] = "release" /\ st'[s] = "push" /\ \A t \in Slot \ {s} : st'[t] = st[t]
          /\ UNCHANGED <<completed, errors, loop, repush, task, retry>>
      BY <2>15 DEF Release, Goto, LockInv, Shape
    <3>2. ~cancelled'[s] /\ \A t \in Slot : cancelled'[t] => cancelled[t]
      BY <2>0, <2>15 DEF Release
    <3>3. LockNamed'
      BY <2>0, <2>15, <3>1, UnlockNamed DEF Release
    <3>4. Settled'
      BY <2>0, <3>1 DEF Settled, IssueOf
    <3>5. Stopping'
      BY <2>0, <3>1, <3>2 DEF Stopping
    <3> QED
      BY <3>3, <3>4, <3>5 DEF KeepInv
  <2>16. ASSUME NEW s \in Slot, Push(s) \/ DropDuplicate(s) PROVE KeepInv'
    BY <2>11, <2>16 DEF Push, DropDuplicate, Locked
  <2>17. ASSUME NEW s \in Slot, Cancel(s) PROVE KeepInv'
    <3>1. CASE st[s] \in {"lock", "push"} /\ End(s)
      BY <2>11, <2>17, <3>1 DEF Cancel, Locked
    <3>2. CASE /\ st[s] \in {"run", "complete", "giveup", "release"} /\ Goto(s, "unwind")
               /\ cancelled' = [cancelled EXCEPT ![s] = FALSE] /\ UNCHANGED <<task, retry>>
      <4>1. cancelled[s] /\ UNCHANGED <<lock, completed, errors, loop, repush>>
        BY <2>17 DEF Cancel
      <4>2. st'[s] = "unwind" /\ \A t \in Slot \ {s} : st'[t] = st[t]
        BY <3>2 DEF Goto, LockInv, Shape
      <4>3. Settled'
        BY <2>0, <3>2, <4>1, <4>2 DEF Settled, IssueOf
      <4>4. \A t \in Slot : cancelled'[t] => cancelled[t]
        BY <2>0, <3>2
      <4>5. st[s] \in Locked \ {"unwind"} /\ "unwind" \in Locked
        BY <3>2 DEF Locked
      <4> QED
        BY <2>12, <3>2, <4>1, <4>3, <4>4, <4>5
    <3> QED
      BY <2>17, <3>1, <3>2 DEF Cancel
  <2>18. ASSUME NEW s \in Slot, Unwind(s) PROVE KeepInv'
    <3>1. st[s] = "unwind" /\ Unlock(s) /\ End(s) /\ UNCHANGED <<completed, errors, loop, repush>>
      BY <2>18 DEF Unwind
    <3>2. Stopping' /\ Settled'
      BY <2>0, <3>1, EndKeepsOthers
    <3>3. LockNamed'
      BY <2>0, <3>1, EndFacts, UnlockNamed
    <3> QED
      BY <3>2, <3>3 DEF KeepInv
  <2>19. ASSUME NEW s \in Slot, Outage(s) PROVE KeepInv'
    <3>1. LockNamed'
      BY <2>0, <2>19 DEF Outage, LockNamed, IssueOf, LockInv, Shape
    <3>2. Stopping' /\ Settled'
      BY <2>0, <2>19 DEF Outage, Stopping, Settled, IssueOf
    <3> QED
      BY <3>1, <3>2 DEF KeepInv
  <2>20. ASSUME \/ \E i \in Issue : Submit(i)
                \/ \E p \in Pod : BrPop(p) \/ PollTimeout(p) \/ Signal(p)
                \/ UNCHANGED vars
         PROVE  KeepInv'
    BY <2>1, <2>20 DEF Submit, BrPop, PollTimeout, Signal
  <2>21. ~Faulty \/ \E s \in Slot : Outage(s)
    BY DEF Faulty, Fault, Crash, PollRaises, RepushFails, ReleaseFails, WriteFails, CancelAcquire
  <2> QED
    BY <2>2, <2>3, <2>4, <2>5, <2>6, <2>7, <2>8, <2>9, <2>10, <2>13, <2>14, <2>15, <2>16, <2>17,
       <2>18, <2>19, <2>20, <2>21 DEF Next, Loop, Server, Handle
<1> QED
  BY <1>1, <1>2, LockInvariant, TypeCorrect, PTL DEF Spec

(* Where the task of an issue may be. *)
Polled(i)  == \E p \in Pod : poll[p] = "popped" /\ popped[p].task.issue = i
Kept(s)    == st[s] # "free" \/ s \in repush[s[1]]
Working(i) == \E s \in Slot : Kept(s) /\ IssueOf(s) = i
Ended(i)   == i \in completed \cup errors

(* A push puts its task on a list and takes no other task off one. *)
LEMMA PushQueued ==
    ASSUME Routed, NEW q \in QName, NEW t \in Task, LPush(q, t) \/ RPush(q, t)
    PROVE  Queued(t.issue)' /\ \A i : Queued(i) => Queued(i)'
<1>1. queue \in [QName -> Seq(Task)] /\ queue[q] \in Seq(Task) /\ Len(queue[q]) \in Nat
  BY DEF Routed
<1>2. \A r \in QName \ {q} : queue'[r] = queue[r]
  BY <1>1 DEF LPush, RPush
<1>3. DOMAIN queue = QName /\ DOMAIN queue' = QName
  BY <1>1 DEF LPush, RPush
<1>4. CASE RPush(q, t)
  <2>1. queue'[q] = Append(queue[q], t)
    BY <1>1, <1>4 DEF RPush
  <2>2. /\ DOMAIN queue'[q] = 1 .. (Len(queue[q]) + 1) /\ DOMAIN queue[q] = 1 .. Len(queue[q])
        /\ queue'[q][Len(queue[q]) + 1] = t
        /\ \A k \in 1 .. Len(queue[q]) : queue'[q][k] = queue[q][k]
    BY <1>1, <2>1, AppendProperties
  <2>3. \A k \in DOMAIN queue[q] : k \in DOMAIN queue'[q] /\ queue'[q][k] = queue[q][k]
    BY <1>1, <2>2
  <2>4. Len(queue[q]) + 1 \in DOMAIN queue'[q]
    BY <1>1, <2>2
  <2> QED
    BY <1>2, <1>3, <2>2, <2>3, <2>4 DEF Queued
<1>5. CASE LPush(q, t)
  <2>1. queue'[q] = <<t>> \o queue[q]
    BY <1>1, <1>5 DEF LPush
  <2>2. /\ DOMAIN queue'[q] = 1 .. (Len(queue[q]) + 1) /\ DOMAIN queue[q] = 1 .. Len(queue[q])
        /\ queue'[q][1] = t
        /\ \A k \in 1 .. Len(queue[q]) : queue'[q][k + 1] = queue[q][k]
    BY <1>1, <2>1, ConcatProperties
  <2>3. \A k \in DOMAIN queue[q] : k + 1 \in DOMAIN queue'[q] /\ queue'[q][k + 1] = queue[q][k]
    BY <1>1, <2>2
  <2>4. 1 \in DOMAIN queue'[q]
    BY <1>1, <2>2
  <2>5. Queued(t.issue)'
    BY <1>3, <2>2, <2>4 DEF Queued
  <2>6. ASSUME NEW i, NEW r \in QName, NEW k \in DOMAIN queue[r], queue[r][k].issue = i PROVE Queued(i)'
    <3>1. CASE r = q
      BY <1>3, <2>3, <2>6, <3>1 DEF Queued
    <3>2. CASE r # q
      BY <1>2, <1>3, <2>6, <3>2 DEF Queued
    <3> QED
      BY <3>1, <3>2
  <2> QED
    BY <1>3, <2>5, <2>6 DEF Queued
<1> QED
  BY <1>4, <1>5

(* What BRPOP takes off a list is with the poll. *)
LEMMA PopQueued ==
    ASSUME Shape, NEW p \in Pod, BrPop(p), NEW i, Queued(i)
    PROVE  Queued(i)' \/ (poll'[p] = "popped" /\ popped'[p].task.issue = i)
<1>1. PICK q \in QName : /\ Len(queue[q]) > 0
                         /\ queue' = [queue EXCEPT ![q] = SubSeq(@, 1, Len(queue[q]) - 1)]
                         /\ popped' = [popped EXCEPT ![p] = [src |-> q, task |-> queue[q][Len(queue[q])]]]
                         /\ poll' = [poll EXCEPT ![p] = "popped"]
  BY DEF BrPop, QName
<1>2. queue \in [QName -> Seq(Task)] /\ queue[q] \in Seq(Task) /\ Len(queue[q]) \in Nat
  BY DEF Shape, Routed
<1>3. PICK r \in QName : \E k \in DOMAIN queue[r] : queue[r][k].issue = i
  BY <1>2 DEF Queued
<1>7. PICK k \in DOMAIN queue[r] : queue[r][k].issue = i
  BY <1>3
<1>4. CASE r # q
  <2>1. queue'[r] = queue[r] /\ DOMAIN queue' = QName
    BY <1>1, <1>2, <1>4
  <2> QED
    BY <1>7, <2>1 DEF Queued
<1>5. CASE r = q /\ k = Len(queue[q])
  BY <1>1, <1>5, <1>7 DEF Shape
<1>6. CASE r = q /\ k # Len(queue[q])
  <2>1. queue'[q] = SubSeq(queue[q], 1, Len(queue[q]) - 1) /\ DOMAIN queue' = QName
    BY <1>1, <1>2
  <2>2. k \in 1 .. Len(queue[q]) - 1
    BY <1>2, <1>6, <1>7
  <2>3. k \in DOMAIN queue'[q] /\ queue'[q][k] = queue[q][k]
    BY <1>2, <2>1, <2>2
  <2> QED
    BY <1>6, <1>7, <2>1, <2>3 DEF Queued
<1> QED
  BY <1>4, <1>5, <1>6

(* A step of a task that keeps every other task, and its own unless told. *)
LEMMA OthersStay ==
    ASSUME NoTaskLost, UNCHANGED <<submitted, poll, popped, repush>>, NEW s \in Slot,
           \A i : Ended(i) \/ Queued(i) => Ended(i)' \/ Queued(i)',
           \A t \in Slot \ {s} : st'[t] = st[t] /\ task'[t] = task[t],
           NEW j, Kept(s) => j = IssueOf(s), Kept(s) => Ended(j)' \/ Queued(j)' \/ Working(j)'
    PROVE  NoTaskLost'
<1>1. ASSUME NEW i, Working(i) PROVE Ended(i)' \/ Queued(i)' \/ Working(i)'
  <2>1. PICK t \in Slot : Kept(t) /\ IssueOf(t) = i
    BY <1>1 DEF Working
  <2>2. CASE t = s
    BY <2>1, <2>2
  <2>3. CASE t # s
    BY <2>1, <2>3 DEF Kept, Working, IssueOf
  <2> QED
    BY <2>2, <2>3
<1>2. \A i : Polled(i) => Polled(i)'
  BY DEF Polled
<1>3. \A i \in submitted : Ended(i) \/ Queued(i) \/ Polled(i) \/ Working(i)
  BY DEF NoTaskLost, Carried, Ended, Polled, Working, Kept
<1>4. \A i \in submitted' : Ended(i)' \/ Queued(i)' \/ Polled(i)' \/ Working(i)'
  BY <1>1, <1>2, <1>3
<1> QED
  BY <1>4 DEF NoTaskLost, Carried, Ended, Polled, Working, Kept

(* A step after which everything that was somewhere is somewhere. *)
LEMMA AllStay ==
    ASSUME NoTaskLost, UNCHANGED submitted,
           \A i : Ended(i) \/ Queued(i) \/ Polled(i) \/ Working(i)
                  => Ended(i)' \/ Queued(i)' \/ Polled(i)' \/ Working(i)'
    PROVE  NoTaskLost'
<1>1. \A i \in submitted : Ended(i) \/ Queued(i) \/ Polled(i) \/ Working(i)
  BY DEF NoTaskLost, Carried, Ended, Polled, Working, Kept
<1>2. \A i \in submitted' : Ended(i)' \/ Queued(i)' \/ Polled(i)' \/ Working(i)'
  BY <1>1
<1> QED
  BY <1>2 DEF NoTaskLost, Carried, Ended, Polled, Working, Kept

(***************************************************************************)
(* Unless a fault other than an outage strikes, an issue that was          *)
(* submitted is handled, queued or in the memory of a pod: a duplicate is  *)
(* dropped only while the task that holds the lock goes on, and a task     *)
(* that is cancelled is on the list of what the shutdown pushes back.      *)
(***************************************************************************)
THEOREM NothingLost ==
    ASSUME FaultKinds \subseteq {"outage"}
    PROVE  Spec => []NoTaskLost
<1> USE SlotFacts, AgentQueueAssumption DEF redis, pods, slots, bounds, vars
<1>1. Init => NoTaskLost
  BY DEF Init, NoTaskLost
<1>2. LockInv /\ Permits /\ KeepInv /\ TypeOK /\ NoTaskLost /\ [Next]_vars => NoTaskLost'
  <2> SUFFICES ASSUME LockInv, Permits, KeepInv, TypeOK, NoTaskLost, [Next]_vars PROVE NoTaskLost'
    OBVIOUS
  <2>0. Shape /\ Routed /\ LockNamed /\ Stopping /\ Settled /\ cancelled \in [Slot -> BOOLEAN]
    BY DEF LockInv, Shape, KeepInv, TypeOK
  <2>1. ASSUME UNCHANGED <<queue, completed, errors, submitted, poll, popped>>,
               \A s \in Slot : Kept(s) => Kept(s)' /\ task'[s] = task[s]
        PROVE  NoTaskLost'
    BY <2>1, AllStay DEF Ended, Queued, Polled, Working, IssueOf
  <2>2. ASSUME NEW i \in Issue, Submit(i) PROVE NoTaskLost'
    <3> DEFINE t == [issue |-> i, attempts |-> 0]
    <3>1. t \in Task /\ QueueOf(t) \in QName
      BY DEF Task, QueueOf, QName
    <3>2. t.issue = i /\ LPush(QueueOf(t), t)
      BY <2>2 DEF Submit
    <3>3. Queued(i)' /\ \A j : Queued(j) => Queued(j)'
      <4> HIDE DEF t
      <4> QED
        BY <2>0, <3>1, <3>2, PushQueued
    <3> QED
      BY <2>2, <3>3 DEF Submit, NoTaskLost, Carried, IssueOf
  <2>3. ASSUME NEW p \in Pod, BrPop(p) PROVE NoTaskLost'
    <3>1. \A i : Queued(i) => Queued(i)' \/ Polled(i)'
      BY <2>0, <2>3, PopQueued DEF Polled
    <3>2. \A i : Polled(i) => Polled(i)'
      BY <2>3 DEF BrPop, Polled, LockInv, Shape
    <3>3. \A i : (Ended(i) => Ended(i)') /\ (Working(i) => Working(i)')
      BY <2>3 DEF BrPop, Ended, Working, Kept, IssueOf
    <3> QED
      BY <2>3, <3>1, <3>2, <3>3, AllStay DEF BrPop
  <2>4. ASSUME NEW p \in Pod, PollTimeout(p) \/ Acquire(p) \/ PollEmpty(p) PROVE NoTaskLost'
    <3>1. poll[p] # "popped"
      BY <2>4 DEF PollTimeout, Acquire, PollEmpty, Permits, PermitOK
    <3>2. \A i : Polled(i) => Polled(i)'
      BY <2>4, <3>1 DEF PollTimeout, Acquire, PollEmpty, Polled, LockInv, Shape
    <3>3. UNCHANGED <<queue, completed, errors, submitted, repush, st, task>>
      BY <2>4 DEF PollTimeout, Acquire, PollEmpty
    <3> QED
      BY <3>2, <3>3, AllStay DEF Ended, Queued, Working, Kept, IssueOf
  <2>5. ASSUME NEW p \in Pod, AcquireStopped(p) \/ PollStopped(p) \/ Gathered(p) \/ Signal(p) \/ Restart(p)
        PROVE  NoTaskLost'
    <3>1. UNCHANGED <<queue, completed, errors, submitted, poll, popped, repush, st, task>>
      BY <2>5 DEF AcquireStopped, PollStopped, Gathered, Signal, Restart
    <3> QED
      BY <2>1, <3>1 DEF Kept
  <2>6. ASSUME NEW p \in Pod, Dispatch(p) PROVE NoTaskLost'
    <3>1. LET x == CHOOSE t \in Slots(p) : st[t] = "free" IN x \in Slots(p) /\ st[x] = "free"
      BY <2>6 DEF Dispatch, Busy
    <3>2. PICK s \in Slots(p) :
             /\ st[s] = "free" /\ st' = [st EXCEPT ![s] = "lock"] /\ task' = [task EXCEPT ![s] = popped[p]]
             /\ poll' = [poll EXCEPT ![p] = "idle"] /\ popped' = [popped EXCEPT ![p] = NoTask]
             /\ loop[p] = "poll"
             /\ UNCHANGED <<queue, completed, errors, submitted, repush>>
      BY <2>6, <3>1 DEF Dispatch
    <3>3. s \in Slot /\ s[1] = p /\ ~Kept(s)
      <4>1. s \in Slot /\ s[1] = p
        BY ONLY s \in Slots(p), p \in Pod DEF Slots, Slot
      <4>2. repush[p] = {}
        BY <3>2 DEF Permits, PermitOK
      <4>3. ~Kept(s)
        BY ONLY <3>2, <4>1, <4>2 DEF Kept
      <4> QED
        BY <4>1, <4>3
    <3>4. st'[s] = "lock" /\ task'[s] = popped[p] /\ \A t \in Slot \ {s} : st'[t] = st[t] /\ task'[t] = task[t]
      BY <3>2, <3>3 DEF LockInv, Shape
    <3>5. \A i : Working(i) => Working(i)'
      BY <3>2, <3>3, <3>4 DEF Working, Kept, IssueOf
    <3>6. \A r \in Pod \ {p} : poll'[r] = poll[r] /\ popped'[r] = popped[r]
      BY <3>2 DEF LockInv, Shape
    <3>7. popped[p].task.issue = IssueOf(s)' /\ Kept(s)'
      BY <3>4 DEF IssueOf, Kept
    <3>8. \A i : Polled(i) => Polled(i)' \/ Working(i)'
      BY <3>3, <3>6, <3>7 DEF Polled, Working
    <3> QED
      BY <3>2, <3>5, <3>8, AllStay DEF Ended, Queued
  <2>7. ASSUME NEW p \in Pod, CancelActive(p) PROVE NoTaskLost'
    <3>1. loop[p] = "cancel" /\ UNCHANGED <<queue, completed, errors, submitted, poll, popped, st, task>>
          /\ \A r \in Pod \ {p} : repush'[r] = repush[r]
      BY <2>7 DEF CancelActive, LockInv, Held
    <3>2. repush[p] = {}
      BY <3>1 DEF Permits, PermitOK
    <3>3. \A s \in Slot : Kept(s) => Kept(s)'
      BY <3>1, <3>2 DEF Kept
    <3> QED
      BY <2>1, <3>1, <3>3
  <2>8. ASSUME NEW p \in Pod, Repush(p) PROVE NoTaskLost'
    <3>1. PICK s \in repush[p] :
             /\ RPush(task[s].src, task[s].task)
             /\ repush' = [repush EXCEPT ![p] = @ \ {s}]
             /\ task' = [task EXCEPT ![s] = NoTask]
      BY <2>8 DEF Repush
    <3>2. s \in Slot /\ s[1] = p /\ task[s] \in Popped
          /\ UNCHANGED <<completed, errors, submitted, poll, popped, st>>
      BY <2>8, <3>1 DEF Repush, LockInv, Held
    <3>3. PICK q \in QName, t \in Task : q = task[s].src /\ t = task[s].task
      BY <3>2 DEF Popped
    <3>4. t.issue = IssueOf(s) /\ Queued(t.issue)' /\ \A i : Queued(i) => Queued(i)'
      BY <2>0, <3>1, <3>3, PushQueued DEF IssueOf
    <3>5. \A r \in Slot \ {s} : task'[r] = task[r] /\ (Kept(r) => Kept(r)')
      BY <3>1, <3>2 DEF Kept, LockInv, Shape, Held
    <3>6. \A i : Working(i) => Working(i)' \/ Queued(i)'
      BY <3>4, <3>5 DEF Working, IssueOf
    <3> QED
      BY <3>2, <3>4, <3>6, AllStay DEF Ended, Polled
  <2>9. ASSUME NEW p \in Pod, ResolveOrphan(p) PROVE NoTaskLost'
    <3>1. /\ UNCHANGED <<completed, errors, submitted, st, task, repush>>
          /\ \A r \in Pod \ {p} : poll'[r] = poll[r] /\ popped'[r] = popped[r]
      BY <2>9 DEF ResolveOrphan, LockInv, Shape
    <3>2. \A i : Working(i) => Working(i)'
      BY <3>1 DEF Working, Kept, IssueOf
    <3>3. CASE poll[p] = "popped"
      <4>1. RPush(popped[p].src, popped[p].task) /\ popped[p] \in Popped
        BY <2>9, <3>3 DEF ResolveOrphan, LockInv, Held
      <4>2. PICK q \in QName, t \in Task : q = popped[p].src /\ t = popped[p].task
        BY <4>1 DEF Popped
      <4>3. Queued(t.issue)' /\ \A i : Queued(i) => Queued(i)'
        BY <2>0, <4>1, <4>2, PushQueued
      <4>4. \A i : Polled(i) => Polled(i)' \/ Queued(i)'
        BY <3>1, <4>2, <4>3 DEF Polled
      <4> QED
        BY <3>1, <3>2, <4>3, <4>4, AllStay DEF Ended
    <3>4. CASE poll[p] # "popped"
      <4>1. UNCHANGED queue /\ \A i : Polled(i) => Polled(i)'
        BY <2>9, <3>1, <3>4 DEF ResolveOrphan, Polled
      <4> QED
        BY <3>1, <3>2, <4>1, AllStay DEF Ended, Queued
    <3> QED
      BY <3>3, <3>4
  <2>10. ASSUME NEW s \in Slot, NEW next \in {"push"} \cup Locked, Goto(s, next),
                UNCHANGED <<queue, submitted, poll, popped, repush, task>>,
                completed \cup errors \subseteq completed' \cup errors'
         PROVE  NoTaskLost'
    <3>1. \A t \in Slot : st[t] # "free" => st'[t] # "free"
      BY <2>10 DEF Goto, LockInv, Shape, Locked
    <3>2. \A i : Working(i) => Working(i)'
      BY <2>10, <3>1 DEF Working, Kept, IssueOf
    <3> QED
      BY <2>10, <3>2, AllStay DEF Ended, Queued, Polled
  <2>11. ASSUME NEW s \in Slot, LockIssue(s) \/ WorkflowEnds(s) \/ Complete(s) \/ GiveUp(s) \/ Release(s)
         PROVE  NoTaskLost'
    <3>1. \E next \in {"run", "complete", "giveup", "release", "push"} : Goto(s, next)
      BY <2>11 DEF LockIssue, WorkflowEnds, Complete, GiveUp, Release
    <3>2. /\ UNCHANGED <<queue, submitted, poll, popped, repush, task>>
          /\ completed \cup errors \subseteq completed' \cup errors'
      BY <2>11 DEF LockIssue, WorkflowEnds, Complete, GiveUp, Release
    <3> QED
      BY <2>10, <3>1, <3>2 DEF Locked
  <2>12. ASSUME NEW s \in Slot, End(s), UNCHANGED <<submitted, completed, errors, poll, popped, repush>>,
                \A i : Queued(i) => Queued(i)',
                NEW j, j = IssueOf(s), s \notin repush[s[1]] => Ended(j)' \/ Queued(j)' \/ Working(j)'
         PROVE  NoTaskLost'
    <3>1. \A t \in Slot \ {s} : st'[t] = st[t] /\ task'[t] = task[t]
      BY <2>0, <2>12, EndFacts
    <3>2. s \in repush[s[1]] => Working(j)'
      <4>1. s \in repush[s[1]] => task' = task
        BY <2>0, <2>12, EndFacts
      <4> QED
        BY <2>12, <4>1 DEF Working, Kept, IssueOf
    <3>3. \A i : Ended(i) => Ended(i)'
      BY <2>12 DEF Ended
    <3> QED
      BY <2>12, <3>1, <3>2, <3>3, OthersStay
  <2>13. ASSUME NEW s \in Slot, DropDuplicate(s) PROVE NoTaskLost'
    <3>1. End(s) /\ UNCHANGED <<queue, submitted, completed, errors, poll, popped, repush>>
      BY <2>13 DEF DropDuplicate
    <3>2. PICK j \in Issue : j = IssueOf(s)
      BY <2>13 DEF DropDuplicate, LockInv, Held, IssueOf, Popped, Task
    <3>3. PICK t \in Slot : t = lock[j] /\ st[t] \in Locked /\ IssueOf(t) = j
      BY <2>0, <2>13, <3>2 DEF DropDuplicate, LockNamed, LockInv, Shape
    <3>4. t # s /\ st[t] # "free"
      BY <2>13, <3>3 DEF DropDuplicate, Locked
    <3>5. Working(j)'
      BY <2>0, <3>1, <3>3, <3>4, EndFacts DEF Working, Kept, IssueOf
    <3> QED
      BY <2>12, <3>1, <3>2, <3>5 DEF Queued
  <2>14. ASSUME NEW s \in Slot, Push(s) PROVE NoTaskLost'
    <3>1. End(s) /\ st[s] = "push" /\ UNCHANGED <<submitted, completed, errors, poll, popped, repush>>
      BY <2>14 DEF Push
    <3>2. PICK j : j = IssueOf(s)
      OBVIOUS
    <3>3. CASE retry[s] = NoTask
      <4>1. UNCHANGED queue /\ Ended(j)'
        BY <2>0, <2>14, <3>1, <3>2, <3>3 DEF Push, Settled, Ended
      <4> QED
        BY <2>12, <3>1, <3>2, <4>1 DEF Queued
    <3>4. CASE retry[s] # NoTask
      <4>1. PICK t \in Task : t = retry[s]
        BY <3>4 DEF LockInv, Shape
      <4>2. t.issue = j /\ LPush(QueueOf(t), t) /\ QueueOf(t) \in QName
        BY <2>0, <2>14, <3>1, <3>2, <3>4, <4>1 DEF Push, Settled, QueueOf, QName
      <4>3. Queued(t.issue)' /\ \A i : Queued(i) => Queued(i)'
        BY <2>0, <4>2, PushQueued
      <4>4. Queued(j)'
        BY <4>2, <4>3
      <4> QED
        BY <2>12, <3>1, <3>2, <4>3, <4>4
    <3> QED
      BY <3>3, <3>4
  <2>15. ASSUME NEW s \in Slot, End(s), s \in repush[s[1]],
                UNCHANGED <<queue, submitted, completed, errors, poll, popped, repush>>
         PROVE  NoTaskLost'
    BY <2>12, <2>15 DEF Queued
  <2>16. ASSUME NEW s \in Slot, Cancel(s) PROVE NoTaskLost'
    <3>1. s \in repush[s[1]] /\ UNCHANGED <<queue, submitted, completed, errors, poll, popped, repush>>
      BY <2>0, <2>16 DEF Cancel, Stopping
    <3>2. CASE End(s)
      BY <2>15, <3>1, <3>2
    <3>3. CASE Goto(s, "unwind") /\ UNCHANGED task
      BY <2>10, <3>1, <3>3 DEF Locked
    <3> QED
      BY <2>16, <3>2, <3>3 DEF Cancel
  <2>17. ASSUME NEW s \in Slot, Unwind(s) PROVE NoTaskLost'
    BY <2>0, <2>15, <2>17 DEF Unwind, Stopping
  <2>18. ASSUME (\E i \in Issue : Expire(i)) \/ (\E s \in Slot : Outage(s)) \/ UNCHANGED vars
         PROVE  NoTaskLost'
    <3>1. UNCHANGED <<queue, completed, errors, submitted, poll, popped, repush, st, task>>
      BY <2>18 DEF Expire, Outage
    <3> QED
      BY <2>1, <3>1 DEF Kept
  <2>19. ~Faulty \/ \E s \in Slot : Outage(s)
    BY DEF Faulty, Fault, Crash, PollRaises, RepushFails, ReleaseFails, WriteFails, CancelAcquire
  <2> QED
    BY <2>2, <2>3, <2>4, <2>5, <2>6, <2>7, <2>8, <2>9, <2>11, <2>13, <2>14, <2>16, <2>17, <2>18, <2>19
       DEF Next, Loop, Server, Handle
<1> QED
  BY <1>1, <1>2, LockInvariant, PermitInvariant, KeepInvariant, TypeCorrect, PTL DEF Spec
=============================================================================
