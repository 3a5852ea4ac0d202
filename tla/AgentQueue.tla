----------------------------- MODULE AgentQueue -----------------------------
(***************************************************************************)
(* A list-backed agent (rebase, backport, rebuild) in queue mode:          *)
(* run_task_loop of ymir/common/base_utils.py around a process_task that   *)
(* takes the per-issue lock of ymir/common/issue_lock.py, runs the         *)
(* workflow, and completes, retries or gives up.                           *)
(*                                                                         *)
(* Queues are Redis lists: producers and retries LPUSH at the front, BRPOP *)
(* takes from the back of the first non-empty queue, a shutdown RPUSHes to *)
(* the back.  Several pods share the queues; each holds up to              *)
(* MaxConcurrent tasks.  A lock token is a fresh uuid; as a slot has at    *)
(* most one locked task at a time the slot stands for its token.           *)
(***************************************************************************)
EXTENDS Integers, Sequences, FiniteSets

CONSTANTS
    Issue,          \* Jira issues
    Urgent,         \* issues whose tasks are user_triggered (ymir_todo)
    Pod,
    NoSlot,         \* no lock holder
    NoTask,         \* no task
    MaxConcurrent,  \* MAX_CONCURRENT_TASKS
    MaxRetries,     \* MAX_RETRIES
    FaultKinds,     \* faults in use, see Fault
    MaxTasks,       \* bound: submissions in a behaviour
    MaxStops,       \* bound: SIGTERMs in a behaviour
    MaxFaults       \* bound: faults in a behaviour

Slot == Pod \X (1 .. MaxConcurrent)
Task == [issue : Issue, attempts : 0 .. MaxRetries - 1]

ASSUME AgentQueueAssumption ==
    /\ Urgent \subseteq Issue
    /\ NoSlot \notin Slot /\ NoTask \notin Task
    /\ MaxConcurrent \in Nat \ {0} /\ MaxRetries \in Nat \ {0}
    /\ FaultKinds \subseteq {"crash", "poll", "outage", "release", "write", "cancel"}
    /\ MaxTasks \in Nat /\ MaxStops \in Nat /\ MaxFaults \in Nat

VARIABLES
    queue,      \* queue["todo"], queue["normal"]: the priority twin and the queue
    lock,       \* lock[i]: the slot whose token is stored under lock:<agent>:i
    errors,     \* issues with an entry in the error list
    completed,  \* issues pushed to the completed list
    loop,       \* loop[p]: position of the pod's run_task_loop
    shutdown,   \* shutdown_event of the pod
    sem,        \* free permits of the pod's semaphore
    poll,       \* the poll in flight: "idle", "waiting", "empty" or "popped"
    popped,     \* popped[p]: what it popped
    repush,     \* to_repush: the slots whose payloads are still to be pushed back
    st,         \* st[s]: position of the task in slot s
    task,       \* task[s]: its original payload
    retry,      \* retry[s]: the payload process_task will re-queue, or NoTask
    cancelled,  \* cancelled[s]: task.cancel() was called, not delivered yet
    lost,       \* history: tasks whose lock an outage took away
    submitted,  \* history: issues submitted
    tasks,      \* number of submissions
    stops,
    faults

redis == <<queue, lock, errors, completed>>
pods  == <<loop, shutdown, sem, poll, popped, repush>>
slots == <<st, task, retry, cancelled>>
bounds == <<lost, submitted, tasks, stops, faults>>
vars  == <<redis, pods, slots, bounds>>

QueueOf(t) == IF t.issue \in Urgent THEN "todo" ELSE "normal"
Slots(p) == {p} \X (1 .. MaxConcurrent)
Busy(p)  == {s \in Slots(p) : st[s] # "free"}

Locked == {"run", "complete", "giveup", "release", "unwind"}    \* inside issue_lock

LPush(q, t) == queue' = [queue EXCEPT ![q] = <<t>> \o @]
RPush(q, t) == queue' = [queue EXCEPT ![q] = Append(@, t)]

Init ==
    /\ queue = [q \in {"todo", "normal"} |-> <<>>]
    /\ lock = [i \in Issue |-> NoSlot]
    /\ errors = {} /\ completed = {}
    /\ loop = [p \in Pod |-> "acquire"]
    /\ shutdown = [p \in Pod |-> FALSE]
    /\ sem = [p \in Pod |-> MaxConcurrent]
    /\ poll = [p \in Pod |-> "idle"]
    /\ popped = [p \in Pod |-> NoTask]
    /\ repush = [p \in Pod |-> {}]
    /\ st = [s \in Slot |-> "free"]
    /\ task = [s \in Slot |-> NoTask]
    /\ retry = [s \in Slot |-> NoTask]
    /\ cancelled = [s \in Slot |-> FALSE]
    /\ lost = {} /\ submitted = {} /\ tasks = 0 /\ stops = 0 /\ faults = 0

-----------------------------------------------------------------------------
(* Producers: triage dispatch or an operator's requeue, possibly twice.     *)
Submit(i) ==
    /\ tasks < MaxTasks /\ i \notin completed \cup errors
    /\ tasks' = tasks + 1
    /\ submitted' = submitted \cup {i}
    /\ LET t == [issue |-> i, attempts |-> 0] IN LPush(QueueOf(t), t)
    /\ UNCHANGED <<lock, errors, completed, pods, slots, lost, stops, faults>>

-----------------------------------------------------------------------------
(* run_task_loop.                                                           *)

(* Mutant: the queue is polled before a slot is free. *)
AcquireAnyway(p) ==
    /\ loop[p] = "acquire" /\ ~shutdown[p]
    /\ sem' = [sem EXCEPT ![p] = IF @ > 0 THEN @ - 1 ELSE @]
    /\ loop' = [loop EXCEPT ![p] = "poll"]
    /\ poll' = [poll EXCEPT ![p] = "waiting"]
    /\ UNCHANGED <<redis, shutdown, popped, repush, slots, bounds>>

(* A slot of the semaphore first, then the BRPOP is issued. *)
Acquire(p) ==
    /\ loop[p] = "acquire" /\ ~shutdown[p] /\ sem[p] > 0
    /\ sem' = [sem EXCEPT ![p] = @ - 1]
    /\ loop' = [loop EXCEPT ![p] = "poll"]
    /\ poll' = [poll EXCEPT ![p] = "waiting"]
    /\ UNCHANGED <<redis, shutdown, popped, repush, slots, bounds>>

(* Mutant: shutdown is looked at only once a slot is free. *)
AcquireFirst(p) ==
    /\ loop[p] = "acquire" /\ shutdown[p] /\ sem[p] > 0
    /\ loop' = [loop EXCEPT ![p] = "cancel"]
    /\ UNCHANGED <<redis, shutdown, sem, poll, popped, repush, slots, bounds>>

(* The acquire is raced against shutdown: the loop ends with all slots busy. *)
AcquireStopped(p) ==
    /\ loop[p] = "acquire" /\ shutdown[p]
    /\ loop' = [loop EXCEPT ![p] = "cancel"]
    /\ UNCHANGED <<redis, shutdown, sem, poll, popped, repush, slots, bounds>>

(* Redis serves the BRPOP, also when the loop no longer waits for it. *)
BrPop(p) ==
    /\ poll[p] = "waiting"
    /\ LET q == IF queue["todo"] # <<>> THEN "todo" ELSE "normal"
           n == Len(queue[q])
       IN  /\ n > 0
           /\ queue' = [queue EXCEPT ![q] = SubSeq(@, 1, n - 1)]
           /\ popped' = [popped EXCEPT ![p] = [src |-> q, task |-> queue[q][n]]]
    /\ poll' = [poll EXCEPT ![p] = "popped"]
    /\ UNCHANGED <<lock, errors, completed, loop, shutdown, sem, repush, slots, bounds>>

PollTimeout(p) ==
    /\ poll[p] = "waiting" /\ \A q \in DOMAIN queue : queue[q] = <<>>
    /\ poll' = [poll EXCEPT ![p] = "empty"]
    /\ UNCHANGED <<redis, loop, shutdown, sem, popped, repush, slots, bounds>>

(* A result is dispatched even when shutdown was set at the same moment. *)
Dispatch(p) ==
    /\ loop[p] = "poll" /\ poll[p] = "popped"
    /\ LET s == CHOOSE t \in Slots(p) : st[t] = "free"
       IN /\ Busy(p) # Slots(p)
          /\ st' = [st EXCEPT ![s] = "lock"]
          /\ task' = [task EXCEPT ![s] = popped[p]]
    /\ popped' = [popped EXCEPT ![p] = NoTask]
    /\ poll' = [poll EXCEPT ![p] = "idle"]
    /\ loop' = [loop EXCEPT ![p] = "acquire"]
    /\ UNCHANGED <<redis, shutdown, sem, repush, retry, cancelled, bounds>>

PollEmpty(p) ==
    /\ loop[p] = "poll" /\ poll[p] = "empty"
    /\ sem' = [sem EXCEPT ![p] = @ + 1]
    /\ poll' = [poll EXCEPT ![p] = "idle"]
    /\ loop' = [loop EXCEPT ![p] = "acquire"]
    /\ UNCHANGED <<redis, shutdown, popped, repush, slots, bounds>>

(* Shutdown wins the race: the poll is left running as orphan_poll_task. *)
PollStopped(p) ==
    /\ loop[p] = "poll" /\ shutdown[p]
    /\ sem' = [sem EXCEPT ![p] = @ + 1]
    /\ loop' = [loop EXCEPT ![p] = "cancel"]
    /\ UNCHANGED <<redis, shutdown, poll, popped, repush, slots, bounds>>

(* Mutant: active is read after the gather emptied it. *)
CancelActiveLate(p) ==
    /\ loop[p] = "cancel"
    /\ repush' = [repush EXCEPT ![p] = {}]
    /\ cancelled' = [s \in Slot |-> cancelled[s] \/ s \in Busy(p)]
    /\ loop' = [loop EXCEPT ![p] = "gather"]
    /\ UNCHANGED <<redis, shutdown, sem, poll, popped, st, task, retry, bounds>>

(* The snapshot is taken before the tasks are cancelled. *)
CancelActive(p) ==
    /\ loop[p] = "cancel"
    /\ repush' = [repush EXCEPT ![p] = Busy(p)]
    /\ cancelled' = [s \in Slot |-> cancelled[s] \/ s \in Busy(p)]
    /\ loop' = [loop EXCEPT ![p] = "gather"]
    /\ UNCHANGED <<redis, shutdown, sem, poll, popped, st, task, retry, bounds>>

Gathered(p) ==
    /\ loop[p] = "gather" /\ Busy(p) = {}
    /\ loop' = [loop EXCEPT ![p] = "repush"]
    /\ UNCHANGED <<redis, shutdown, sem, poll, popped, repush, slots, bounds>>

Repush(p) ==
    /\ loop[p] = "repush"
    /\ \E s \in repush[p] :
          /\ RPush(task[s].src, task[s].task)
          /\ repush' = [repush EXCEPT ![p] = @ \ {s}]
          /\ task' = [task EXCEPT ![s] = NoTask]
    /\ UNCHANGED <<lock, errors, completed, loop, shutdown, sem, poll, popped,
                   st, retry, cancelled, bounds>>

(* The orphaned poll is awaited and what it popped is pushed back too. *)
ResolveOrphan(p) ==
    /\ loop[p] = "repush" /\ repush[p] = {} /\ poll[p] # "waiting"
    /\ IF poll[p] = "popped" THEN RPush(popped[p].src, popped[p].task) ELSE UNCHANGED queue
    /\ loop' = [loop EXCEPT ![p] = "exited"]
    /\ poll' = [poll EXCEPT ![p] = "idle"]
    /\ popped' = [popped EXCEPT ![p] = NoTask]
    /\ UNCHANGED <<lock, errors, completed, shutdown, sem, repush, slots, bounds>>

-----------------------------------------------------------------------------
(* process_task and issue_lock.                                             *)

(* _run's finally: the permit is returned and the task is done. *)
End(s) ==
    /\ task' = IF s \in repush[s[1]] THEN task ELSE [task EXCEPT ![s] = NoTask]
    /\ st' = [st EXCEPT ![s] = "free"]
    /\ retry' = [retry EXCEPT ![s] = NoTask]
    /\ cancelled' = [cancelled EXCEPT ![s] = FALSE]
    /\ sem' = [sem EXCEPT ![s[1]] = @ + 1]

Goto(s, next) == st' = [st EXCEPT ![s] = next]
IssueOf(s)    == task[s].task.issue

(* SET NX succeeds. *)
LockIssue(s) ==
    /\ st[s] = "lock" /\ lock[IssueOf(s)] = NoSlot
    /\ lock' = [lock EXCEPT ![IssueOf(s)] = s]
    /\ Goto(s, "run")
    /\ lost' = lost \ {s}
    /\ UNCHANGED <<queue, errors, completed, pods, task, retry, cancelled,
                   submitted, tasks, stops, faults>>

(* The lock is taken: the task is dropped as a duplicate. *)
DropDuplicate(s) ==
    /\ st[s] = "lock" /\ lock[IssueOf(s)] # NoSlot
    /\ End(s)
    /\ UNCHANGED <<redis, loop, shutdown, poll, popped, repush, bounds>>

(***************************************************************************)
(* The workflow succeeds, or fails: retry() decides on the attempts, and   *)
(* the backport agent gives up at once on a failure it cannot retry.       *)
(***************************************************************************)
WorkflowEnds(s) ==
    LET again == [task[s].task EXCEPT !.attempts = @ + 1]
    IN  /\ st[s] = "run"
        /\ \/ Goto(s, "complete") /\ UNCHANGED retry
           \/ /\ again.attempts < MaxRetries
              /\ Goto(s, "release") /\ retry' = [retry EXCEPT ![s] = again]
           \/ Goto(s, "giveup") /\ UNCHANGED retry
        /\ UNCHANGED <<redis, pods, task, cancelled, bounds>>

(* Completed list, then the issue's error entries are cleared. *)
Complete(s) ==
    /\ st[s] = "complete"
    /\ completed' = completed \cup {IssueOf(s)}
    /\ errors' = errors \ {IssueOf(s)}
    /\ Goto(s, "release")
    /\ UNCHANGED <<queue, lock, pods, task, retry, cancelled, bounds>>

GiveUp(s) ==
    /\ st[s] = "giveup"
    /\ errors' = errors \cup {IssueOf(s)}
    /\ Goto(s, "release")
    /\ UNCHANGED <<queue, lock, completed, pods, task, retry, cancelled, bounds>>

(* Mutant: the lock is deleted whoever holds it. *)
UnlockAny(s) == lock' = [lock EXCEPT ![IssueOf(s)] = NoSlot]

(* Compare-and-delete. *)
Unlock(s) ==
    lock' = IF lock[IssueOf(s)] = s THEN [lock EXCEPT ![IssueOf(s)] = NoSlot] ELSE lock

(***************************************************************************)
(* The lock is released before the retry is pushed.  A cancellation that   *)
(* arrives while the heartbeat task is awaited is swallowed by suppress.   *)
(***************************************************************************)
Release(s) ==
    /\ st[s] = "release"
    /\ Unlock(s)
    /\ Goto(s, "push")
    /\ cancelled' = [cancelled EXCEPT ![s] = FALSE]
    /\ UNCHANGED <<queue, errors, completed, pods, task, retry, bounds>>

(* Mutant: every retry goes to the ordinary queue. *)
PushNormal(s) ==
    /\ st[s] = "push"
    /\ IF retry[s] = NoTask THEN UNCHANGED queue ELSE LPush("normal", retry[s])
    /\ End(s)
    /\ UNCHANGED <<lock, errors, completed, loop, shutdown, poll, popped, repush, bounds>>

Push(s) ==
    /\ st[s] = "push"
    /\ IF retry[s] = NoTask THEN UNCHANGED queue ELSE LPush(QueueOf(retry[s]), retry[s])
    /\ End(s)
    /\ UNCHANGED <<lock, errors, completed, loop, shutdown, poll, popped, repush, bounds>>

(***************************************************************************)
(* CancelledError is delivered: the lock is released on the way out, and   *)
(* before the lock or in the last push there is nothing left to undo.      *)
(***************************************************************************)
Cancel(s) ==
    /\ cancelled[s]
    /\ \/ /\ st[s] \in {"run", "complete", "giveup", "release"}
          /\ Goto(s, "unwind")
          /\ cancelled' = [cancelled EXCEPT ![s] = FALSE]
          /\ UNCHANGED <<sem, task, retry>>
       \/ st[s] \in {"lock", "push"} /\ End(s)
    /\ UNCHANGED <<redis, loop, shutdown, poll, popped, repush, bounds>>

Unwind(s) ==
    /\ st[s] = "unwind"
    /\ Unlock(s)
    /\ End(s)
    /\ UNCHANGED <<queue, errors, completed, loop, shutdown, poll, popped, repush, bounds>>

-----------------------------------------------------------------------------
(* Lock expiry, signals, restarts and faults.                               *)

(* The TTL ends a lock that no heartbeat extends any more. *)
Expire(i) ==
    /\ lock[i] # NoSlot
    /\ ~(st[lock[i]] \in Locked /\ IssueOf(lock[i]) = i)
    /\ lock' = [lock EXCEPT ![i] = NoSlot]
    /\ UNCHANGED <<queue, errors, completed, pods, slots, bounds>>

Signal(p) ==
    /\ loop[p] # "exited" /\ ~shutdown[p] /\ stops < MaxStops
    /\ stops' = stops + 1
    /\ shutdown' = [shutdown EXCEPT ![p] = TRUE]
    /\ UNCHANGED <<redis, loop, sem, poll, popped, repush, slots, lost, submitted, tasks, faults>>

Restart(p) ==
    /\ loop[p] = "exited"
    /\ loop' = [loop EXCEPT ![p] = "acquire"]
    /\ shutdown' = [shutdown EXCEPT ![p] = FALSE]
    /\ sem' = [sem EXCEPT ![p] = MaxConcurrent]
    /\ UNCHANGED <<redis, poll, popped, repush, slots, bounds>>

Fault(kind) == /\ kind \in FaultKinds /\ faults < MaxFaults
               /\ faults' = faults + 1

(* SIGKILL or OOM: what the pod holds is gone. *)
Crash(p) ==
    /\ loop[p] # "exited" /\ Fault("crash")
    /\ loop' = [loop EXCEPT ![p] = "exited"]
    /\ poll' = [poll EXCEPT ![p] = "idle"]
    /\ popped' = [popped EXCEPT ![p] = NoTask]
    /\ repush' = [repush EXCEPT ![p] = {}]
    /\ st' = [s \in Slot |-> IF s \in Slots(p) THEN "free" ELSE st[s]]
    /\ task' = [s \in Slot |-> IF s \in Slots(p) THEN NoTask ELSE task[s]]
    /\ retry' = [s \in Slot |-> IF s \in Slots(p) THEN NoTask ELSE retry[s]]
    /\ cancelled' = [s \in Slot |-> s \notin Slots(p) /\ cancelled[s]]
    /\ UNCHANGED <<redis, shutdown, sem, lost, submitted, tasks, stops>>

(***************************************************************************)
(* The BRPOP raises: the exception leaves run_task_loop, asyncio.run       *)
(* cancels the tasks in flight, and nothing is pushed back.                *)
(***************************************************************************)
PollRaises(p) ==
    /\ loop[p] = "poll" /\ poll[p] = "waiting" /\ Fault("poll")
    /\ poll' = [poll EXCEPT ![p] = "idle"]
    /\ cancelled' = [s \in Slot |-> cancelled[s] \/ s \in Busy(p)]
    /\ loop' = [loop EXCEPT ![p] = "gather"]
    /\ UNCHANGED <<redis, shutdown, sem, popped, repush, st, task, retry,
                   lost, submitted, tasks, stops>>

(* A push of the shutdown raises: logged, and the loop goes on. *)
RepushFails(p) ==
    /\ loop[p] = "repush" /\ Fault("write")
    /\ \/ \E s \in repush[p] : /\ repush' = [repush EXCEPT ![p] = @ \ {s}]
                                /\ task' = [task EXCEPT ![s] = NoTask]
                                /\ UNCHANGED popped
       \/ /\ repush[p] = {} /\ poll[p] = "popped"
          /\ popped' = [popped EXCEPT ![p] = NoTask] /\ UNCHANGED <<repush, task>>
    /\ poll' = [poll EXCEPT ![p] = IF @ = "popped" /\ repush[p] = {} THEN "idle" ELSE @]
    /\ UNCHANGED <<redis, loop, shutdown, sem, st, retry, cancelled, lost, submitted, tasks, stops>>

(* Redis is unreachable for longer than the TTL: a live task loses its lock. *)
Outage(s) ==
    /\ st[s] \in Locked /\ lock[IssueOf(s)] = s /\ Fault("outage")
    /\ lock' = [lock EXCEPT ![IssueOf(s)] = NoSlot]
    /\ lost' = lost \cup {s}
    /\ UNCHANGED <<queue, errors, completed, pods, slots, submitted, tasks, stops>>

(* release_issue_lock raises: logged, the lock is left to expire. *)
ReleaseFails(s) ==
    /\ st[s] \in {"release", "unwind"} /\ Fault("release")
    /\ \/ st[s] = "release" /\ Goto(s, "push") /\ UNCHANGED <<sem, task, retry, cancelled>>
       \/ st[s] = "unwind" /\ End(s)
    /\ UNCHANGED <<redis, loop, shutdown, poll, popped, repush, lost, submitted, tasks, stops>>

(* A list write raises: the exception is logged by _run and the task ends. *)
WriteFails(s) ==
    /\ st[s] \in {"complete", "giveup", "push"} /\ Fault("write")
    /\ \/ st[s] = "push" /\ retry[s] # NoTask /\ End(s)
       \/ st[s] # "push" /\ Goto(s, "unwind") /\ UNCHANGED <<sem, task, retry, cancelled>>
    /\ UNCHANGED <<redis, loop, shutdown, poll, popped, repush, lost, submitted, tasks, stops>>

(* The cancellation hits a SET NX whose effect the task never learns of. *)
CancelAcquire(s) ==
    /\ cancelled[s] /\ st[s] = "lock" /\ lock[IssueOf(s)] = NoSlot /\ Fault("cancel")
    /\ lock' = [lock EXCEPT ![IssueOf(s)] = s]
    /\ End(s)
    /\ UNCHANGED <<queue, errors, completed, loop, shutdown, poll, popped, repush,
                   lost, submitted, tasks, stops>>

-----------------------------------------------------------------------------
Loop(p) ==
    \/ Acquire(p) \/ AcquireStopped(p)
    \/ Dispatch(p) \/ PollEmpty(p) \/ PollStopped(p)
    \/ CancelActive(p) \/ Gathered(p) \/ Repush(p) \/ ResolveOrphan(p)
    \/ Restart(p)

Server(p) == BrPop(p) \/ PollTimeout(p)

Handle(s) ==
    \/ LockIssue(s) \/ DropDuplicate(s)
    \/ Complete(s) \/ GiveUp(s) \/ Release(s) \/ Push(s)
    \/ Cancel(s) \/ Unwind(s)

Faulty ==
    \/ \E p \in Pod : Crash(p) \/ PollRaises(p) \/ RepushFails(p)
    \/ \E s \in Slot : Outage(s) \/ ReleaseFails(s) \/ WriteFails(s) \/ CancelAcquire(s)

Next ==
    \/ \E i \in Issue : Submit(i) \/ Expire(i)
    \/ \E p \in Pod : Loop(p) \/ Server(p) \/ Signal(p)
    \/ \E s \in Slot : Handle(s) \/ WorkflowEnds(s)
    \/ Faulty

Spec == Init /\ [][Next]_vars

(***************************************************************************)
(* The event loop, Redis and the platform make progress.  Nothing is       *)
(* assumed of the workflows: a build may poll for hours.                   *)
(***************************************************************************)
Progress ==
    /\ \A p \in Pod : WF_vars(Loop(p)) /\ WF_vars(Server(p))
    /\ \A s \in Slot : WF_vars(Handle(s))
FairSpec == Spec /\ Progress

(* Workflows end: agents and builds run under timeouts. *)
WorkflowsEnd == \A s \in Slot : WF_vars(WorkflowEnds(s))

-----------------------------------------------------------------------------
TypeOK ==
    /\ queue \in [{"todo", "normal"} -> Seq(Task)]
    /\ lock \in [Issue -> Slot \cup {NoSlot}]
    /\ errors \subseteq Issue /\ completed \subseteq Issue /\ submitted \subseteq Issue /\ lost \subseteq Slot
    /\ loop \in [Pod -> {"acquire", "poll", "cancel", "gather", "repush", "exited"}]
    /\ shutdown \in [Pod -> BOOLEAN] /\ cancelled \in [Slot -> BOOLEAN]
    /\ sem \in [Pod -> 0 .. MaxConcurrent]
    /\ poll \in [Pod -> {"idle", "waiting", "empty", "popped"}]
    /\ popped \in [Pod -> [src : {"todo", "normal"}, task : Task] \cup {NoTask}]
    /\ repush \in [Pod -> SUBSET Slot]
    /\ st \in [Slot -> {"free", "lock", "push"} \cup Locked]
    /\ task \in [Slot -> [src : {"todo", "normal"}, task : Task] \cup {NoTask}]
    /\ retry \in [Slot -> Task \cup {NoTask}]
    /\ tasks \in Nat /\ stops \in Nat /\ faults \in Nat

(***************************************************************************)
(* "Acquires a semaphore slot before popping to ensure we never hold more  *)
(* tasks in memory than we can process": a crash of run_task_loop costs at *)
(* most MaxConcurrent tasks, also in the middle of a shutdown.             *)
(***************************************************************************)
InMemory(p) == Cardinality(Busy(p) \cup repush[p]) + (IF poll[p] = "popped" THEN 1 ELSE 0)
MemoryBound == \A p \in Pod : InMemory(p) <= MaxConcurrent

(***************************************************************************)
(* No task is lost by polling, retries, duplicates or shutdowns: an issue  *)
(* that was submitted and neither completed nor given up is in a queue or  *)
(* in the memory of a pod that will process it or push it back.            *)
(***************************************************************************)
Queued(i)  == \E q \in DOMAIN queue : \E k \in DOMAIN queue[q] : queue[q][k].issue = i
Carried(i) ==
    \/ \E p \in Pod : poll[p] = "popped" /\ popped[p].task.issue = i
    \/ \E s \in Slot : (st[s] # "free" \/ s \in repush[s[1]]) /\ IssueOf(s) = i
NoTaskLost ==
    \A i \in submitted : i \in completed \cup errors \/ Queued(i) \/ Carried(i)

(***************************************************************************)
(* issue_lock admits one task per issue.  Two tasks work on the same issue *)
(* only when an outage longer than the TTL took the lock from one of them; *)
(* neither the late release of that one, nor an expiry, nor a restart,     *)
(* takes the lock from its successor.                                      *)
(***************************************************************************)
LockExclusive ==
    \A s, t \in Slot :
        (/\ s # t /\ st[s] \in Locked /\ st[t] \in Locked
         /\ IssueOf(s) = IssueOf(t)) => s \in lost \/ t \in lost

(***************************************************************************)
(* User-triggered tasks stay in the priority queue and others out of it,   *)
(* through retries, shutdown re-pushes and orphaned polls.                 *)
(***************************************************************************)
PriorityKept ==
    \A q \in DOMAIN queue : \A k \in DOMAIN queue[q] : QueueOf(queue[q][k]) = q

(***************************************************************************)
(* A pod that is asked to stop does stop, even with every slot held by a   *)
(* workflow that never ends and with a poll in flight.                     *)
(***************************************************************************)
ShutdownTerminates == \A p \in Pod : shutdown[p] ~> loop[p] = "exited"

(***************************************************************************)
(* Every submitted issue is eventually completed or put on the error list, *)
(* provided that workflows end.                                            *)
(***************************************************************************)
EveryTaskHandled ==
    WorkflowsEnd => \A i \in Issue : i \in submitted ~> i \in completed \cup errors

(* Pods that are asked to stop do stop, and no task is forgotten.             *)
LoopSettles == ShutdownTerminates /\ EveryTaskHandled
=============================================================================
