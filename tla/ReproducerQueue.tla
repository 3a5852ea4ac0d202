-------------------------- MODULE ReproducerQueue --------------------------
(***************************************************************************)
(* The reproducer agent in queue mode: the workflow lock and its blocked   *)
(* lists (ymir/common/reproducer_lock.py), the delayed retries             *)
(* (ymir/common/delayed_queue.py) and poll_reproducer and process_task of  *)
(* ymir/agents/reproducer_agent.py, run by run_task_loop.                  *)
(*                                                                         *)
(* One replica: a poller and MaxConcurrent task slots over one Redis.  The *)
(* agent installs no shutdown handler, so a SIGTERM is a crash.  A lock    *)
(* value carries activated_at and is unique; tokens are numbers here.      *)
(***************************************************************************)
EXTENDS Integers, Sequences, FiniteSets

CONSTANTS
    Issue,
    Urgent,         \* issues whose tasks are user_triggered
    LockId,         \* package and CVE or clone root
    LockOf,         \* LockOf[i]: resolve_reproducer_lock_id
    Slot,           \* MAX_CONCURRENT_TASKS task slots
    Poller,         \* the poll in flight
    NoTask,
    MaxRetries,     \* MAX_RETRIES
    Deployments,    \* the task slots in use and the faults that can happen
    MaxJobs         \* bound: submissions in a behaviour

Job  == 1 .. MaxJobs
Task == [job : Job, issue : Issue, attempts : 0 .. MaxRetries - 1]

ASSUME ReproducerQueueAssumption ==
    /\ Urgent \subseteq Issue
    /\ LockOf \in [Issue -> LockId]
    /\ Poller \notin Slot /\ NoTask \notin Task
    /\ MaxRetries \in Nat \ {0} /\ MaxJobs \in Nat
    /\ Deployments \subseteq
           [slots : SUBSET Slot, max : Nat,     \* bound: faults in a behaviour
            faults : SUBSET {"crash", "overrun", "label", "release", "disabled", "metadata"}]

VARIABLES
    queue,      \* queue["todo"], queue["normal"]
    blocked,    \* blocked[l]: reproducer_blocked:<package>:<lock_id>
    delayed,    \* members of reproducer_queue_delayed
    ready,      \* those of them whose score has passed
    lock,       \* lock[l]: the token in reproducer_creation_lock, 0 if none
    stale,      \* tokens older than the threshold
    tokens,     \* number of tokens made
    label,      \* label[i]: the reproducer label of the issue
    errors,     \* jobs in the error list
    completed,  \* jobs in the completed list
    pc,         \* pc[a]: position of slot or poller a
    task,       \* task[s]: the task in slot s
    token,      \* token[s]: its lock_token, 0 if none
    hand,       \* hand[a]: a payload LPOPped from a blocked list, not yet pushed
    snap,       \* sweep: the entries of the HGETALL still to be handled
    sweeping,   \* sweep: the lock whose blocked list is being promoted
    due,        \* promote_due_tasks: members still to be moved
    jobs,       \* number of submissions
    issueOf,    \* history: the issue of each job
    deployment, \* the member of Deployments at work
    skipped,    \* history: jobs dropped on purpose
    killed,     \* history: jobs in memory when the process was killed
    swept,      \* history: slots whose lock a sweep removed
    faults

store  == <<queue, blocked, delayed, ready, lock, stale, tokens, errors, completed>>
slots  == <<task, token>>
poller == <<snap, sweeping, due>>
past   == <<issueOf, deployment, killed>>
hist   == <<jobs, past, skipped, swept, faults>>
vars   == <<store, label, pc, slots, hand, poller, hist>>

Actor == Slot \cup {Poller}

QueueOf(t) == IF t.issue \in Urgent THEN "todo" ELSE "normal"
LPush(t)   == queue' = [queue EXCEPT ![QueueOf(t)] = <<t>> \o @]
Goto(a, next) == pc' = [pc EXCEPT ![a] = next]
Lock(s)    == LockOf[task[s].issue]

Fault(kind) == /\ kind \in deployment.faults /\ faults < deployment.max
               /\ faults' = faults + 1

Init ==
    /\ queue = [q \in {"todo", "normal"} |-> <<>>]
    /\ blocked = [l \in LockId |-> <<>>]
    /\ delayed = {} /\ ready = {}
    /\ lock = [l \in LockId |-> 0] /\ stale = {} /\ tokens = 0
    /\ label = [i \in Issue |-> "none"]
    /\ errors = {} /\ completed = {}
    /\ pc = [a \in Actor |-> "idle"]
    /\ task = [s \in Slot |-> NoTask]
    /\ token = [s \in Slot |-> 0]
    /\ hand = [a \in Actor |-> NoTask]
    /\ snap = {} /\ sweeping = {} /\ due = {}
    /\ jobs = 0 /\ issueOf = <<>> /\ skipped = {} /\ swept = {} /\ faults = 0
    /\ deployment \in Deployments /\ killed = {}

-----------------------------------------------------------------------------
(* _enqueue_reproducer of the triage agent, or the fetcher. *)
Submit(i) ==
    /\ jobs < MaxJobs
    /\ jobs' = jobs + 1
    /\ issueOf' = Append(issueOf, i)
    /\ LPush([job |-> jobs + 1, issue |-> i, attempts |-> 0])
    /\ UNCHANGED <<blocked, delayed, ready, lock, stale, tokens, errors, completed,
                   label, pc, slots, hand, poller, deployment, killed, skipped, swept, faults>>

(* The score of a delayed member passes. *)
DelayPasses(t) ==
    /\ t \in delayed \ ready
    /\ ready' = ready \cup {t}
    /\ UNCHANGED <<queue, blocked, delayed, lock, stale, tokens, errors, completed,
                   label, pc, slots, hand, poller, hist>>

(***************************************************************************)
(* A lock entry grows older than six hours.  It is never refreshed, so a   *)
(* run that lasts longer loses its lock while it goes on.                  *)
(***************************************************************************)
Held(l) == \E s \in Slot : pc[s] # "idle" /\ token[s] = lock[l]
Age(l) ==
    /\ lock[l] # 0 /\ lock[l] \notin stale
    /\ IF Held(l) THEN Fault("overrun") ELSE UNCHANGED faults
    /\ stale' = stale \cup {lock[l]}
    /\ UNCHANGED <<queue, blocked, delayed, ready, lock, tokens, errors, completed,
                   label, pc, slots, hand, poller, jobs, past, skipped, swept>>

-----------------------------------------------------------------------------
(* promote_blocked_reproducer_tasks: LPOP and LPUSH, two commands a task.   *)

PromotePop(a, l, done) ==
    /\ IF blocked[l] = <<>>
       THEN done /\ UNCHANGED <<blocked, hand>>
       ELSE /\ hand' = [hand EXCEPT ![a] = Head(blocked[l])]
            /\ blocked' = [blocked EXCEPT ![l] = Tail(@)]
            /\ Goto(a, "push")
            /\ UNCHANGED <<slots, sweeping, swept>>
    /\ UNCHANGED <<queue, delayed, ready, lock, stale, tokens, errors, completed,
                   label, snap, due, jobs, past, skipped, faults>>

PromotePush(a) ==
    /\ pc[a] = "push"
    /\ LPush(hand[a])
    /\ hand' = [hand EXCEPT ![a] = NoTask]
    /\ Goto(a, "promote")
    /\ UNCHANGED <<blocked, delayed, ready, lock, stale, tokens, errors, completed,
                   label, slots, poller, hist>>

-----------------------------------------------------------------------------
(* poll_reproducer, entered by run_task_loop once a slot is free.           *)

Free == {s \in deployment.slots : pc[s] = "idle"}

(* sweep_stale_reproducer_locks reads the hash. *)
SweepScan ==
    /\ pc[Poller] = "idle" /\ Free # {}
    /\ snap' = {<<l, lock[l]>> : l \in {k \in LockId : lock[k] \in stale}}
    /\ Goto(Poller, "sweep")
    /\ UNCHANGED <<store, label, slots, hand, sweeping, due, hist>>

(* Mutant: the waiters of a swept lock are not promoted. *)
SweepEntryOnly ==
    /\ pc[Poller] = "sweep"
    /\ \E e \in snap :
          /\ snap' = snap \ {e}
          /\ lock' = IF lock[e[1]] = e[2] THEN [lock EXCEPT ![e[1]] = 0] ELSE lock
          /\ swept' = IF lock[e[1]] = e[2]
                      THEN swept \cup {s \in Slot : token[s] = e[2]} ELSE swept
    /\ UNCHANGED <<queue, blocked, delayed, ready, stale, tokens, errors, completed,
                   label, pc, slots, hand, sweeping, due, jobs, past, skipped, faults>>

(* Compare-and-delete, then promote the waiters of that lock. *)
SweepEntry ==
    /\ pc[Poller] = "sweep"
    /\ \E e \in snap :
          /\ snap' = snap \ {e}
          /\ IF lock[e[1]] = e[2]
             THEN /\ lock' = [lock EXCEPT ![e[1]] = 0]
                  /\ swept' = swept \cup {s \in Slot : token[s] = e[2]}
                  /\ sweeping' = {e[1]}
                  /\ Goto(Poller, "promote")
             ELSE UNCHANGED <<lock, swept, sweeping, pc>>
    /\ UNCHANGED <<queue, blocked, delayed, ready, stale, tokens, errors, completed,
                   label, slots, hand, due, jobs, past, skipped, faults>>

SweepPromote ==
    /\ pc[Poller] = "promote"
    /\ \E l \in sweeping :
          PromotePop(Poller, l, sweeping' = {} /\ Goto(Poller, "sweep") /\ UNCHANGED <<slots, swept>>)

(* promote_due_tasks: one ZRANGEBYSCORE, then a MULTI for each member. *)
DueScan ==
    /\ pc[Poller] = "sweep" /\ snap = {}
    /\ due' = ready
    /\ Goto(Poller, "due")
    /\ UNCHANGED <<store, label, slots, hand, snap, sweeping, hist>>

DuePromote ==
    /\ pc[Poller] = "due"
    /\ \E t \in due :
          /\ LPush(t)
          /\ delayed' = delayed \ {t} /\ ready' = ready \ {t} /\ due' = due \ {t}
    /\ UNCHANGED <<blocked, lock, stale, tokens, errors, completed,
                   label, pc, slots, hand, snap, sweeping, hist>>

(* BRPOP of the two lists, and the task is started in a free slot. *)
BrPop ==
    /\ pc[Poller] = "due" /\ due = {}
    /\ LET q == IF queue["todo"] # <<>> THEN "todo" ELSE "normal"
           n == Len(queue[q])
           s == CHOOSE x \in Free : TRUE
       IN  \/ /\ n > 0
              /\ queue' = [queue EXCEPT ![q] = SubSeq(@, 1, n - 1)]
              /\ task' = [task EXCEPT ![s] = queue[q][n]]
              /\ pc' = [pc EXCEPT ![s] = "guard", ![Poller] = "idle"]
           \/ n = 0 /\ Goto(Poller, "idle") /\ UNCHANGED <<queue, task>>
    /\ UNCHANGED <<blocked, delayed, ready, lock, stale, tokens, errors, completed,
                   label, token, hand, poller, hist>>

-----------------------------------------------------------------------------
(* process_task.                                                            *)

Clear(s) == /\ task' = [task EXCEPT ![s] = NoTask]
            /\ token' = [token EXCEPT ![s] = 0]
            /\ swept' = swept \ {s}
End(s) == Goto(s, "idle") /\ Clear(s)

(***************************************************************************)
(* The labels are read: a finished issue is skipped unless the user asked  *)
(* for the run.  So is a package whose reproducer is disabled.  A task     *)
(* without package metadata goes to retry() without a lock.                *)
(***************************************************************************)
Guard(s) ==
    LET t == task[s] IN
    /\ pc[s] = "guard"
    /\ \/ /\ \/ label[t.issue] = "terminal" /\ t.issue \notin Urgent /\ UNCHANGED faults
             \/ Fault("disabled")
          /\ skipped' = skipped \cup {t.job}
          /\ End(s)
       \/ /\ label[t.issue] # "terminal" \/ t.issue \in Urgent
          /\ \/ Goto(s, "acquire") /\ UNCHANGED faults
             \/ Goto(s, "retry") /\ Fault("metadata")
          /\ UNCHANGED <<skipped, slots, swept>>
    /\ UNCHANGED <<store, label, hand, poller, jobs, past>>

(* try_acquire_reproducer_lock. *)
Acquire(s) ==
    /\ pc[s] = "acquire"
    /\ IF lock[Lock(s)] = 0
       THEN /\ lock' = [lock EXCEPT ![Lock(s)] = tokens + 1]
            /\ tokens' = tokens + 1
            /\ token' = [token EXCEPT ![s] = tokens + 1]
            /\ Goto(s, "stage")
       ELSE Goto(s, "blockedstage") /\ UNCHANGED <<lock, tokens, token>>
    /\ UNCHANGED <<queue, blocked, delayed, ready, stale, errors, completed,
                   label, task, hand, poller, hist>>

(***************************************************************************)
(* _stage_reproducer_in_progress, by the holder and by a waiter alike: the *)
(* critical label write succeeds or the task goes to retry().              *)
(***************************************************************************)
Stage(s) ==
    /\ pc[s] \in {"stage", "blockedstage"}
    /\ \/ /\ label' = [label EXCEPT ![task[s].issue] = "in_progress"]
          /\ Goto(s, IF pc[s] = "stage" THEN "run" ELSE "park")
          /\ UNCHANGED faults
       \/ Fault("label") /\ Goto(s, "retry") /\ UNCHANGED label
    /\ UNCHANGED <<store, slots, hand, poller, jobs, past, skipped, swept>>

(* enqueue_blocked_reproducer_task. *)
Park(s) ==
    /\ pc[s] = "park"
    /\ blocked' = [blocked EXCEPT ![Lock(s)] = Append(@, task[s])]
    /\ End(s)
    /\ UNCHANGED <<queue, delayed, ready, lock, stale, tokens, errors, completed,
                   label, hand, poller, jobs, past, skipped, faults>>

(***************************************************************************)
(* run_workflow: an exception, a retryable infrastructure error, or a      *)
(* result for handle_results to write.                                     *)
(***************************************************************************)
RunWorkflow(s) ==
    /\ pc[s] = "run"
    /\ \E next \in {"retry", "defer", "finalize"} : Goto(s, next)
    /\ UNCHANGED <<store, label, slots, hand, poller, hist>>

(* handle_results: the terminal label, then a comment that may raise. *)
HandleResults(s) ==
    /\ pc[s] = "finalize"
    /\ label' = [label EXCEPT ![task[s].issue] = "terminal"]
    /\ \E next \in {"retry", "complete"} : Goto(s, next)
    /\ UNCHANGED <<store, slots, hand, poller, hist>>

(* After retry(): the lock is released, or there is none. *)
AfterRetry(s) ==
    IF token[s] = 0 THEN End(s) ELSE Goto(s, "release") /\ UNCHANGED <<slots, swept>>

(***************************************************************************)
(* retry(): pushed back at once, or after the delay for an infrastructure  *)
(* error, or given up.  The lock is still held.                            *)
(***************************************************************************)
Retry(s) ==
    LET again == [task[s] EXCEPT !.attempts = @ + 1] IN
    /\ pc[s] \in {"retry", "defer"}
    /\ \/ /\ again.attempts < MaxRetries
          /\ IF pc[s] = "retry" THEN LPush(again) /\ UNCHANGED delayed
                                ELSE delayed' = delayed \cup {again} /\ UNCHANGED queue
          /\ UNCHANGED <<errors, label>>
       \/ /\ again.attempts >= MaxRetries
          /\ label' = [label EXCEPT ![again.issue] = "terminal"]
          /\ errors' = errors \cup {again.job}
          /\ UNCHANGED <<queue, delayed>>
    /\ AfterRetry(s)
    /\ UNCHANGED <<blocked, ready, lock, stale, tokens, completed,
                   hand, poller, jobs, past, skipped, faults>>

(* The completed list; a good result also clears the issue's earlier errors. *)
Complete(s) ==
    /\ pc[s] = "complete"
    /\ completed' = completed \cup {task[s].job}
    /\ \E good \in BOOLEAN :
          errors' = IF good THEN {j \in errors : issueOf[j] # task[s].issue} ELSE errors
    /\ Goto(s, "release")
    /\ UNCHANGED <<queue, blocked, delayed, ready, lock, stale, tokens,
                   label, slots, hand, poller, hist>>

(* Mutant: the lock is deleted whoever holds it. *)
ReleaseAny(s) ==
    /\ pc[s] = "release"
    /\ lock' = [lock EXCEPT ![Lock(s)] = 0]
    /\ Goto(s, "promote")
    /\ UNCHANGED <<queue, blocked, delayed, ready, stale, tokens, errors, completed,
                   label, slots, hand, poller, hist>>

(* release_reproducer_lock in the finally. *)
Release(s) ==
    /\ pc[s] = "release"
    /\ \/ /\ lock[Lock(s)] = token[s]
          /\ lock' = [lock EXCEPT ![Lock(s)] = 0]
          /\ Goto(s, "promote")
          /\ UNCHANGED <<slots, swept, faults>>
       \/ lock[Lock(s)] # token[s] /\ End(s) /\ UNCHANGED <<lock, faults>>
       \/ Fault("release") /\ End(s) /\ UNCHANGED lock
    /\ UNCHANGED <<queue, blocked, delayed, ready, stale, tokens, errors, completed,
                   label, hand, poller, jobs, past, skipped>>

ReleasePromote(s) ==
    /\ pc[s] = "promote"
    /\ PromotePop(s, Lock(s), End(s) /\ UNCHANGED sweeping)

-----------------------------------------------------------------------------
(* The process is killed: what it holds in memory is gone. *)
InMemory == ({task[s] : s \in Slot} \cup {hand[a] : a \in Actor}) \ {NoTask}
Crash ==
    /\ Fault("crash")
    /\ pc' = [a \in Actor |-> "idle"]
    /\ task' = [s \in Slot |-> NoTask] /\ token' = [s \in Slot |-> 0]
    /\ hand' = [a \in Actor |-> NoTask]
    /\ snap' = {} /\ sweeping' = {} /\ due' = {} /\ swept' = {}
    /\ killed' = killed \cup {t.job : t \in InMemory}
    /\ UNCHANGED <<store, label, jobs, issueOf, deployment, skipped>>

Poll ==
    \/ SweepScan \/ SweepEntry \/ SweepPromote
    \/ DueScan \/ DuePromote \/ BrPop
    \/ PromotePush(Poller)

ProcessTask(s) ==
    \/ Guard(s) \/ Acquire(s) \/ Stage(s) \/ Park(s)
    \/ RunWorkflow(s) \/ HandleResults(s) \/ Retry(s) \/ Complete(s)
    \/ Release(s) \/ ReleasePromote(s) \/ PromotePush(s)

Next ==
    \/ \E i \in Issue : Submit(i)
    \/ \E t \in delayed : DelayPasses(t)
    \/ \E l \in LockId : Age(l)
    \/ Poll
    \/ \E s \in Slot : ProcessTask(s)
    \/ Crash

Spec == Init /\ [][Next]_vars

(* The event loop makes progress, workflows end, and time passes. *)
FairSpec ==
    /\ Spec
    /\ WF_vars(Poll)
    /\ \A s \in Slot : WF_vars(ProcessTask(s))
    /\ \A l \in LockId : WF_vars(~Held(l) /\ Age(l))

-----------------------------------------------------------------------------
TypeOK ==
    /\ queue \in [{"todo", "normal"} -> Seq(Task)]
    /\ blocked \in [LockId -> Seq(Task)]
    /\ delayed \subseteq Task /\ ready \subseteq delayed /\ due \subseteq ready
    /\ lock \in [LockId -> 0 .. tokens] /\ stale \subseteq 1 .. tokens /\ tokens \in Nat
    /\ label \in [Issue -> {"none", "in_progress", "terminal"}]
    /\ errors \subseteq Job /\ completed \subseteq Job /\ skipped \subseteq Job
    /\ pc \in [Actor -> {"idle", "guard", "acquire", "blockedstage", "stage", "park", "run",
                         "finalize", "retry", "defer", "complete", "release", "promote",
                         "push", "sweep", "due"}]
    /\ task \in [Slot -> Task \cup {NoTask}]
    /\ token \in [Slot -> 0 .. tokens]
    /\ hand \in [Actor -> Task \cup {NoTask}]
    /\ snap \subseteq LockId \X (1 .. tokens)
    /\ sweeping \subseteq LockId /\ swept \subseteq Slot
    /\ jobs \in 0 .. MaxJobs /\ issueOf \in Seq(Issue) /\ killed \subseteq Job
    /\ deployment \in Deployments /\ faults \in 0 .. deployment.max

Where(i) ==     \* tasks of issue i, wherever they are
    {t \in delayed
           \cup (UNION {{queue[q][k] : k \in DOMAIN queue[q]} : q \in DOMAIN queue})
           \cup (UNION {{blocked[l][k] : k \in DOMAIN blocked[l]} : l \in LockId})
           \cup InMemory : t.issue = i}

(***************************************************************************)
(* No job is lost between the queues, the blocked lists, the delayed set   *)
(* and the slots: it ends completed, errored or skipped (an error entry    *)
(* may be cleared by a later success of the issue).  A crash loses what    *)
(* was in memory and nothing else.                                         *)
(***************************************************************************)
NoTaskLost ==
    \A j \in 1 .. jobs :
        \/ j \in completed \cup errors \cup skipped \cup killed
        \/ \E k \in completed : issueOf[k] = issueOf[j]
        \/ \E t \in Where(issueOf[j]) : t.job = j

(***************************************************************************)
(* ymir_reproducer_in_progress never outlives the work: while an issue has *)
(* it, some task of the issue is queued, parked, delayed or running, or    *)
(* was killed with the process.  (A package whose reproducer is disabled   *)
(* between two attempts keeps the label: its retry is skipped.)            *)
(***************************************************************************)
InProgressHasTask ==
    \A i \in Issue :
        "disabled" \notin deployment.faults /\ label[i] = "in_progress" => Where(i) # {} \/ \E j \in killed : issueOf[j] = i

(* Neither a task nor the mark it left on its issue is stranded.            *)
NothingStranded == NoTaskLost /\ InProgressHasTask

(***************************************************************************)
(* Two tasks that both believe to hold a lock: only if the sweep took it   *)
(* from one of them.  A late release never takes a successor's lock.       *)
(***************************************************************************)
Working(s) == token[s] # 0 /\ pc[s] \notin {"promote", "push"}
LateReleaseSafe ==
    \A s, t \in Slot :
        s # t /\ Working(s) /\ Working(t) /\ Lock(s) = Lock(t) => s \in swept \/ t \in swept

(***************************************************************************)
(* "One full reproducer run at a time per package+lock_id"                 *)
(* (docs/reproducer_architecture.md).                                      *)
(***************************************************************************)
OneRunAtATime ==
    \A s, t \in Slot :
        s # t /\ pc[s] = "run" /\ pc[t] = "run" => Lock(s) # Lock(t)

(***************************************************************************)
(* "Blocked list; promoted on release or stale sweep"                      *)
(* (docs/reproducer_architecture.md): whoever waits on a blocked list has  *)
(* somebody to wake it, a holder of the lock or a promotion under way.     *)
(***************************************************************************)
WaiterHasWaker ==
    \A l \in LockId :
        blocked[l] # <<>> =>
            \/ lock[l] # 0
            \/ l \in sweeping
            \/ \E s \in Slot : pc[s] \in {"promote", "push"} /\ Lock(s) = l

(***************************************************************************)
(* A task parked behind a lock that a crash or a failed release left       *)
(* behind leaves the blocked list in the end.  One slot: with several, a   *)
(* waiter can miss the release (WaiterHasWaker).                           *)
(***************************************************************************)
ParkedResumes ==
    \A l \in LockId :
        (Cardinality(deployment.slots) = 1 /\ blocked[l] # <<>>) ~> blocked[l] = <<>>

(* No task, mark or lock is lost or taken from its holder by a late release.  *)
QueueSound == NothingStranded /\ LateReleaseSafe
=============================================================================
