---------------------------- MODULE IssueRouting ----------------------------
(***************************************************************************)
(* The way of a Jira issue through the system, and the labels that keep it *)
(* from being worked on twice or forgotten: the fetcher cron jobs          *)
(* (ymir/jira_issue_fetcher) turn labels into triage tasks, the triage     *)
(* agent turns a triage task into a label and a fix task, a fix agent      *)
(* (rebase, backport, rebuild) turns that into an outcome label.           *)
(*                                                                         *)
(* Labels, queues and locks are the only memory they share.  A fetcher     *)
(* acts on what it read at the start of its sweep.  The order of a queue   *)
(* and the lock's lease are AgentQueue's subject: here a queue is a bag,   *)
(* and a live holder keeps its lock.                                       *)
(***************************************************************************)
EXTENDS Integers, FiniteSets

CONSTANTS
    Issue,
    Modular,        \* issues skipped under SKIP_MODULAR
    Fetcher,        \* the fetcher cron jobs
    TodoFetcher,    \* those whose query is labels = "ymir_todo"
    Triager,        \* task slots of the triage agents
    Fixer,          \* task slots of the fix agents
    NoWorker, NoTask,
    MaxRetries,     \* MAX_RETRIES
    Threshold,      \* QUEUE_DEPTH_THRESHOLD of the fetchers that have one
    Resolutions,    \* what triage may resolve to
    FixOutcomes,    \* how a fix workflow may end
    Triggers,       \* labels people add
    FaultKinds,     \* faults in use, see Fault
    MaxTriggers,    \* bound: labels people add in a behaviour
    MaxFaults       \* bound: faults in a behaviour

Worker == Triager \cup Fixer
Kind   == {"triage", "fix"}
Task   == [issue : Issue, user : BOOLEAN, attempts : 0 .. MaxRetries - 1]

(***************************************************************************)
(* "triaged" stands for ymir_triaged_{backport,rebase,rebuild}, "outcome"  *)
(* for every label that ends the work on an issue, "errored" and "failed"  *)
(* for the labels of a stage with that suffix.                             *)
(***************************************************************************)
InFlight == {"in_progress", "triaged"}
Label    == InFlight \cup {"todo", "retry", "outcome", "errored", "failed", "manual"}

ASSUME IssueRoutingAssumption ==
    /\ Modular \subseteq Issue /\ TodoFetcher \subseteq Fetcher
    /\ IsFiniteSet(Issue)
    /\ Triager \cap Fixer = {}
    /\ NoWorker \notin Worker /\ "ghost" \notin Worker /\ NoTask \notin Task
    /\ MaxRetries \in Nat \ {0} /\ Threshold \in Nat
    /\ Resolutions \subseteq {"fix", "undispatched", "clarify", "final", "postpone", "hold", "error"}
    /\ FixOutcomes \subseteq {"done", "failed", "refused", "error"}
    /\ Triggers \subseteq {"todo", "retry"}
    /\ FaultKinds \subseteq {"crash", "stop", "critical", "swallow", "read", "flip", "scan", "backlog", "slow", "close"}
    /\ MaxTriggers \in Nat /\ MaxFaults \in Nat

VARIABLES
    labels,     \* labels[i]: the issue's ymir_ labels
    aged,       \* issues not updated for stale_label_threshold_hours
    closed,     \* issues whose status is Closed or Done
    parked,     \* parked[i]: its entries in lists no agent drains
    queue,      \* queue[k]: bag of the tasks in the queues of the stage
    lock,       \* lock[k][i]: holder of the stage's lock, "ghost" if it died
    fet,        \* fet[f]: the sweep of the fetcher
    st,         \* st[w]: position of the task in the slot
    task,       \* task[w]: its payload
    cur,        \* cur[w]: current_labels, read by the triage agent
    res,        \* res[w]: the resolution of its triage
    requeue,    \* requeue[w]: the payload to push after the lock is released
    triggers, faults

jira  == <<labels, aged, closed>>
redis == <<parked, queue, lock>>
slots == <<st, task, cur, res, requeue>>
bounds == <<triggers, faults>>
vars  == <<jira, redis, fet, slots, bounds>>

KindOf(w)  == IF w \in Triager THEN "triage" ELSE "fix"
IssueOf(w) == task[w].issue
Queued(k, i) == \E t \in Task : t.issue = i /\ queue[k][t] > 0
Copies(k, t) == {<<t, n>> : n \in 1 .. queue[k][t]}
Depth == Cardinality(UNION {Copies("triage", t) : t \in Task})

Idle == [pc |-> "idle", unread |-> {}, seen |-> [i \in Issue |-> {}], stale |-> {},
         existing |-> {}, locked |-> {}, user |-> {}, retry |-> {}, left |-> {},
         found |-> {}, cap |-> 0]

Init ==
    /\ labels = [i \in Issue |-> {}] /\ aged = {} /\ closed = {}
    /\ parked = [i \in Issue |-> {}]
    /\ queue = [k \in Kind |-> [t \in Task |-> 0]]
    /\ lock = [k \in Kind |-> [i \in Issue |-> NoWorker]]
    /\ fet = [f \in Fetcher |-> Idle]
    /\ st = [w \in Worker |-> "idle"] /\ task = [w \in Worker |-> NoTask]
    /\ cur = [w \in Worker |-> {}] /\ res = [w \in Worker |-> "none"]
    /\ requeue = [w \in Worker |-> NoTask]
    /\ triggers = 0 /\ faults = 0

(* A label edit: removals of absent labels are no-ops, "updated" is reset. *)
Edit(i, remove, add) ==
    /\ labels' = [labels EXCEPT ![i] = (@ \ remove) \cup add]
    /\ aged' = aged \ {i}
    /\ UNCHANGED closed

Push(k, t) == queue' = [queue EXCEPT ![k][t] = @ + 1]

Fault(kind) == kind \in FaultKinds /\ faults < MaxFaults /\ faults' = faults + 1

-----------------------------------------------------------------------------
(* People and time *)

AddLabel(i, l) ==
    /\ l \in Triggers /\ triggers < MaxTriggers /\ l \notin labels[i]
    /\ triggers' = triggers + 1
    /\ Edit(i, {}, {l})
    /\ UNCHANGED <<redis, fet, slots, faults>>

(* A day passes without an update: no sweep lasts that long (activeDeadlineSeconds), a task  *)
(* waits that long in a queue only under "backlog" and runs that long only under "slow".     *)
(* Only an in-flight label can become stale, and the write that adds it resets "updated".    *)
Age(i) ==
    /\ i \notin aged /\ labels[i] \cap InFlight # {} /\ \A f \in Fetcher : fet[f].pc = "idle"
    /\ "backlog" \in FaultKinds \/ \A k \in Kind : ~Queued(k, i)
    /\ "slow" \in FaultKinds \/ \A w \in Worker : st[w] # "idle" => IssueOf(w) # i
    /\ aged' = aged \cup {i}
    /\ UNCHANGED <<labels, closed, redis, fet, slots, bounds>>

Close(i) ==
    /\ Fault("close") /\ i \notin closed
    /\ closed' = closed \cup {i} /\ aged' = aged \ {i}
    /\ UNCHANGED <<labels, redis, fet, slots, triggers>>

(* The lock of a dead holder expires. *)
Expire(k, i) ==
    /\ lock[k][i] = "ghost"
    /\ lock' = [lock EXCEPT ![k][i] = NoWorker]
    /\ UNCHANGED <<jira, parked, queue, fet, slots, bounds>>

-----------------------------------------------------------------------------
(* The fetcher *)

(* run and search_issues: the labels and the timestamps of the sweep. *)
Search(f) ==
    /\ fet[f].pc = "idle"
    /\ fet' = [fet EXCEPT ![f] =
           [Idle EXCEPT !.pc = "depth", !.seen = labels, !.stale = aged,
               !.found = IF f \in TodoFetcher THEN {i \in Issue : "todo" \in labels[i]} ELSE Issue]]
    /\ UNCHANGED <<jira, redis, slots, bounds>>

(* push_cap, read right before the push; the ymir_todo job has no threshold. *)
ReadDepth(f) ==
    /\ fet[f].pc = "depth"
    /\ LET cap == IF f \in TodoFetcher THEN Cardinality(Issue)
                  ELSE IF Depth < Threshold THEN Threshold - Depth ELSE 0
       IN  fet' = [fet EXCEPT ![f] =
               IF cap = 0 \/ fet[f].found = {} THEN Idle
               ELSE [@ EXCEPT !.pc = "scan", !.cap = cap, !.unread = Kind \cup {"parked"}]]
    /\ UNCHANGED <<jira, redis, slots, bounds>>

(* _get_existing_issue_keys: one LRANGE per list, in no fixed order. *)
KeysIn(q) == IF q = "parked" THEN {i \in Issue : parked[i] # {}}
             ELSE {i \in Issue : Queued(q, i)}
ReadQueue(f) ==
    /\ fet[f].pc = "scan"
    /\ \E q \in fet[f].unread :
           fet' = [fet EXCEPT ![f] = [fet[f] EXCEPT !.unread = @ \ {q}, !.existing = @ \cup KeysIn(q)]]
    /\ UNCHANGED <<jira, redis, slots, bounds>>

(* A failed LRANGE is logged and skipped. *)
ReadQueueFails(f) ==
    /\ Fault("scan") /\ fet[f].pc = "scan"
    /\ \E q \in fet[f].unread : fet' = [fet EXCEPT ![f].unread = @ \ {q}]
    /\ UNCHANGED <<jira, redis, slots, triggers>>

(* _get_locked_issue_keys looks at the triage locks only. *)
ReadLocks(f) ==
    /\ fet[f].pc = "scan" /\ fet[f].unread = {}
    /\ fet' = [fet EXCEPT ![f] = [fet[f] EXCEPT !.pc = "mark", !.left = fet[f].found,
                          !.locked = {i \in Issue : lock["triage"][i] # NoWorker}]]
    /\ UNCHANGED <<jira, redis, slots, bounds>>

(* _find_stale_in_flight_label, on the labels of the sweep. *)
Ignorable == {"retry", "todo"}
StaleTriageOnly(ls, old) == {l \in {"in_progress"} \cap ls : old /\ ls \ {l} \subseteq Ignorable}    \* mutant
Stale(ls, old) == {l \in InFlight \cap ls : old /\ ls \ {l} \subseteq Ignorable}

Todo(f, i)      == "todo" \in fet[f].seen[i] /\ "in_progress" \notin fet[f].seen[i]
AbandonedInQueue(f, i) == Stale(fet[f].seen[i], i \in fet[f].stale) # {} /\ i \in fet[f].existing    \* mutant
Abandoned(f, i) == Stale(fet[f].seen[i], i \in fet[f].stale) # {} /\ i \notin fet[f].existing
Marking(f, i)   == fet[f].pc = "mark" /\ i \in fet[f].left
Mark(f, i, field) == fet' = [fet EXCEPT ![f] = [fet[f] EXCEPT !.left = @ \ {i}, ![field] = @ \cup {i}]]

MarkTodo(f, i) ==
    /\ Marking(f, i) /\ Todo(f, i)
    /\ Mark(f, i, "user")
    /\ UNCHANGED <<jira, redis, slots, bounds>>

(* The author of the label could not be verified, or is no employee: then the label is removed as well. *)
MarkUnverified(f, i) ==
    /\ Marking(f, i) /\ Todo(f, i)
    /\ Mark(f, i, "existing")
    /\ Edit(i, {"todo"}, {}) \/ UNCHANGED jira
    /\ UNCHANGED <<redis, slots, bounds>>

(* The safety net: a label left behind becomes ymir_retry_needed. *)
MarkAbandoned(f, i) ==
    /\ Marking(f, i) /\ ~Todo(f, i) /\ Abandoned(f, i)
    /\ Mark(f, i, "retry")
    /\ \E l \in Stale(fet[f].seen[i], TRUE) : Edit(i, {l}, {"retry"})
    /\ UNCHANGED <<redis, slots, bounds>>

MarkAbandonedFails(f, i) ==
    /\ Fault("flip") /\ Marking(f, i) /\ ~Todo(f, i) /\ Abandoned(f, i)
    /\ Mark(f, i, "existing")
    /\ UNCHANGED <<jira, redis, slots, triggers>>

(* No labels: nothing to mark, a new issue. *)
MarkByLabels(f, i) ==
    /\ Marking(f, i) /\ ~Todo(f, i) /\ ~Abandoned(f, i)
    /\ LET ls == fet[f].seen[i]
       IN  IF ls = {} THEN fet' = [fet EXCEPT ![f].left = @ \ {i}]
           ELSE Mark(f, i, IF "retry" \in ls /\ "in_progress" \notin ls THEN "retry" ELSE "existing")
    /\ UNCHANGED <<jira, redis, slots, bounds>>

Marked(f) ==
    /\ fet[f].pc = "mark" /\ fet[f].left = {}
    /\ fet' = [fet EXCEPT ![f] = [fet[f] EXCEPT !.pc = "push", !.left = fet[f].found,
                          !.seen = Idle.seen, !.stale = {}]]     \* not read again
    /\ UNCHANGED <<jira, redis, slots, bounds>>

(* The second loop of push_issues_to_queue. *)
Pushing(f, i) == fet[f].pc = "push" /\ i \in fet[f].left /\ fet[f].cap > 0
Rerun(f, i)   == i \in fet[f].user \cup fet[f].retry
Skipped(f, i) ==
    \/ i \in Modular /\ i \notin fet[f].user
    \/ i \in fet[f].existing /\ ~Rerun(f, i)
SkipIssue(f, i) ==
    /\ Pushing(f, i) /\ Skipped(f, i)
    /\ fet' = [fet EXCEPT ![f].left = @ \ {i}]
    /\ UNCHANGED <<jira, redis, slots, bounds>>

(* After the trigger is consumed, a locked issue is not enqueued. *)
Consumed(f, i) ==
    fet' = [fet EXCEPT ![f] = [fet[f] EXCEPT !.left = @ \ {i},
                       !.pc = IF i \in fet[f].locked THEN "push" ELSE "enqueue",
                       !.unread = IF i \in fet[f].locked THEN {} ELSE {i}]]

Consume(f, i) ==
    /\ Pushing(f, i) /\ ~Skipped(f, i)
    /\ IF Rerun(f, i)
       THEN Edit(i, {IF i \in fet[f].user THEN "todo" ELSE "retry"}, {"in_progress"})
       ELSE UNCHANGED jira
    /\ Consumed(f, i)
    /\ UNCHANGED <<redis, slots, bounds>>

PushUnconsumed(f, i) ==     \* mutant
    /\ Fault("flip") /\ Pushing(f, i) /\ ~Skipped(f, i) /\ Rerun(f, i)
    /\ Consumed(f, i)
    /\ UNCHANGED <<jira, redis, slots, triggers>>

ConsumeFails(f, i) ==
    /\ Fault("flip") /\ Pushing(f, i) /\ ~Skipped(f, i) /\ Rerun(f, i)
    /\ fet' = [fet EXCEPT ![f].left = @ \ {i}]
    /\ UNCHANGED <<jira, redis, slots, triggers>>

Enqueue(f) ==
    /\ fet[f].pc = "enqueue"
    /\ \E i \in fet[f].unread :
           Push("triage", [issue |-> i, user |-> i \in fet[f].user, attempts |-> 0])
    /\ fet' = [fet EXCEPT ![f] = [fet[f] EXCEPT !.pc = "push", !.unread = {}, !.cap = @ - 1]]
    /\ UNCHANGED <<jira, parked, lock, slots, bounds>>

EndSweep(f) ==
    /\ fet[f].pc = "push" /\ (fet[f].left = {} \/ fet[f].cap = 0)
    /\ fet' = [fet EXCEPT ![f] = Idle]
    /\ UNCHANGED <<jira, redis, slots, bounds>>

(* The job is killed, by activeDeadlineSeconds for one. *)
FetcherDies(f) ==
    /\ Fault("crash") /\ fet[f].pc # "idle"
    /\ fet' = [fet EXCEPT ![f] = Idle]
    /\ UNCHANGED <<jira, redis, slots, triggers>>

Sweep(f) ==
    \/ Search(f) \/ ReadDepth(f) \/ ReadQueue(f) \/ ReadLocks(f) \/ Marked(f)
    \/ Enqueue(f) \/ EndSweep(f)
    \/ \E i \in Issue : \/ MarkTodo(f, i) \/ MarkAbandoned(f, i) \/ MarkByLabels(f, i)
                        \/ SkipIssue(f, i) \/ Consume(f, i)

-----------------------------------------------------------------------------
(* Queue, lock and shutdown, the same for every agent *)

Goto(w, pc) == st' = [st EXCEPT ![w] = pc]
AtEnd(w) ==
    /\ Goto(w, "idle")
    /\ task' = [task EXCEPT ![w] = NoTask]
    /\ cur' = [cur EXCEPT ![w] = {}] /\ res' = [res EXCEPT ![w] = "none"]
    /\ requeue' = [requeue EXCEPT ![w] = NoTask]

Take(w) ==
    /\ st[w] = "idle"
    /\ \E t \in Task :
           /\ queue[KindOf(w)][t] > 0
           /\ queue' = [queue EXCEPT ![KindOf(w)][t] = @ - 1]
           /\ task' = [task EXCEPT ![w] = t]
    /\ Goto(w, "lock")
    /\ UNCHANGED <<jira, parked, lock, fet, cur, res, requeue, bounds>>

Acquire(w) ==
    /\ st[w] = "lock" /\ lock[KindOf(w)][IssueOf(w)] = NoWorker
    /\ lock' = [lock EXCEPT ![KindOf(w)][IssueOf(w)] = w]
    /\ Goto(w, IF w \in Triager THEN "read" ELSE "run")
    /\ UNCHANGED <<jira, parked, queue, fet, task, cur, res, requeue, bounds>>

(* "already locked by another worker; dropping duplicate" *)
DropDuplicate(w) ==
    /\ st[w] = "lock" /\ lock[KindOf(w)][IssueOf(w)] # NoWorker
    /\ AtEnd(w)
    /\ UNCHANGED <<jira, redis, fet, bounds>>

Unlocked(w) ==
    IF st[w] # "idle" /\ lock[KindOf(w)][IssueOf(w)] = w
    THEN [lock EXCEPT ![KindOf(w)][IssueOf(w)] = NoWorker] ELSE lock

Release(w) ==
    /\ st[w] = "release"
    /\ lock' = Unlocked(w)
    /\ IF requeue[w] = NoTask THEN AtEnd(w)
       ELSE Goto(w, "requeue") /\ UNCHANGED <<task, cur, res, requeue>>
    /\ UNCHANGED <<jira, parked, queue, fet, bounds>>

Requeue(w) ==
    /\ st[w] = "requeue"
    /\ Push(KindOf(w), requeue[w])
    /\ AtEnd(w)
    /\ UNCHANGED <<jira, parked, lock, fet, bounds>>

(* retry(): the next attempt is pushed after the release, or the task is given up. *)
Fail(w) ==
    IF task[w].attempts + 1 < MaxRetries
    THEN /\ Goto(w, "release")
         /\ requeue' = [requeue EXCEPT ![w] = [task[w] EXCEPT !.attempts = @ + 1]]
    ELSE Goto(w, "giveup") /\ UNCHANGED requeue

(* Label writes that are not critical are logged and forgotten when they fail. *)
BestEffort(w, remove, add) ==
    \/ Edit(IssueOf(w), remove, add) /\ UNCHANGED faults
    \/ Fault("swallow") /\ UNCHANGED jira

GiveUp(w) ==
    /\ st[w] = "giveup"
    /\ BestEffort(w, IF w \in Triager THEN {"in_progress", "manual"} ELSE {"triaged"}, {"errored"})
    /\ Goto(w, "error")
    /\ UNCHANGED <<redis, fet, task, cur, res, requeue, triggers>>

PushError(w) ==
    /\ st[w] = "error"
    /\ parked' = [parked EXCEPT ![IssueOf(w)] = @ \cup {KindOf(w)}]
    /\ Goto(w, "release")
    /\ UNCHANGED <<jira, queue, lock, fet, task, cur, res, requeue, bounds>>

(* clear_resolved_errors *)
Clear(w) ==
    /\ st[w] = "clear"
    /\ parked' = [parked EXCEPT ![IssueOf(w)] = @ \ {KindOf(w)}]
    /\ Goto(w, "release")
    /\ UNCHANGED <<jira, queue, lock, fet, task, cur, res, requeue, bounds>>

(* SIGTERM: the task is cancelled where it stands, the original payload goes back to its queue. *)
Stop(w) ==
    /\ Fault("stop") /\ st[w] # "idle"
    /\ lock' = Unlocked(w)
    /\ Push(KindOf(w), task[w])
    /\ AtEnd(w)
    /\ UNCHANGED <<jira, parked, fet, triggers>>

(* SIGKILL, OOM: the task is gone, its lock stays until it expires. *)
Crash(w) ==
    /\ Fault("crash") /\ st[w] # "idle"
    /\ lock' = IF lock[KindOf(w)][IssueOf(w)] = w
               THEN [lock EXCEPT ![KindOf(w)][IssueOf(w)] = "ghost"] ELSE lock
    /\ AtEnd(w)
    /\ UNCHANGED <<jira, parked, queue, fet, triggers>>

-----------------------------------------------------------------------------
(* The triage agent *)

(* The label check of _process_triage_locked; a failed read yields no labels. *)
Terminal == Label \ {"in_progress", "todo"}
OutcomesOnly(w, ls) ==     \* mutant
    /\ ls \cap {"outcome", "errored"} # {} /\ "retry" \notin ls /\ "in_progress" \notin ls
    /\ ~task[w].user

Duplicate(w, ls) ==
    /\ ls \cap Terminal # {} /\ "retry" \notin ls /\ "in_progress" \notin ls
    /\ ~task[w].user

Proceed(w, ls) ==
    /\ cur' = [cur EXCEPT ![w] = ls]
    /\ Goto(w, IF Duplicate(w, ls) THEN "release" ELSE "stamp")
    /\ UNCHANGED <<jira, redis, fet, task, res, requeue, triggers>>

ReadIssue(w) ==
    /\ w \in Triager /\ st[w] = "read" /\ IssueOf(w) \notin closed
    /\ Proceed(w, labels[IssueOf(w)])
    /\ UNCHANGED faults

ReadFails(w) ==
    /\ Fault("read") /\ w \in Triager /\ st[w] = "read"
    /\ Proceed(w, {})

(* A closed issue is skipped; a user's ymir_todo is removed if the fetcher left it. *)
SkipClosed(w) ==
    /\ w \in Triager /\ st[w] = "read" /\ IssueOf(w) \in closed
    /\ IF task[w].user /\ "todo" \in labels[IssueOf(w)]
       THEN BestEffort(w, {"todo"}, {}) ELSE UNCHANGED <<jira, faults>>
    /\ Goto(w, "release")
    /\ UNCHANGED <<redis, fet, task, cur, res, requeue, triggers>>

Stamp(w) ==
    /\ w \in Triager /\ st[w] = "stamp"
    /\ Edit(IssueOf(w), cur[w] \ {"in_progress"}, {"in_progress"})
    /\ Goto(w, "run") /\ cur' = [cur EXCEPT ![w] = {}]     \* not read again
    /\ UNCHANGED <<redis, fet, task, res, requeue, bounds>>

StampFails(w) ==
    /\ Fault("critical") /\ w \in Triager /\ st[w] = "stamp"
    /\ Fail(w)
    /\ UNCHANGED <<jira, redis, fet, task, cur, res, triggers>>

(* run_workflow; when the branch must be created by hand it writes the labels itself. *)
Triage(w, r) ==
    /\ w \in Triager /\ st[w] = "run" /\ r \in Resolutions \ {"error"}
    /\ res' = [res EXCEPT ![w] = r]
    /\ IF r = "hold"
       THEN Edit(IssueOf(w), {"in_progress"}, {"triaged", "manual"}) /\ Goto(w, "clear")
       ELSE UNCHANGED jira /\ Goto(w, "label")
    /\ UNCHANGED <<redis, fet, task, cur, requeue, bounds>>

(* The workflow raised, or resolved to an error. *)
TriageFails(w) ==
    /\ w \in Triager /\ st[w] = "run" /\ "error" \in Resolutions
    /\ Fail(w)
    /\ UNCHANGED <<jira, redis, fet, task, cur, res, bounds>>

(* The terminal label is the dedup anchor that replaces in_progress. *)
TerminalLabel(w) ==
    /\ st[w] = "label"
    /\ LET stale == IF res[w] = "postpone" THEN {"in_progress", "manual"} ELSE {"in_progress"}
       IN  Edit(IssueOf(w), stale, {IF res[w] \in {"fix", "undispatched"} THEN "triaged" ELSE "outcome"})
    /\ Goto(w, "dispatch")
    /\ UNCHANGED <<redis, fet, task, cur, res, requeue, bounds>>

(* Its failure is raised out of process_task: the task is over. *)
TerminalLabelFails(w) ==
    /\ Fault("critical") /\ st[w] = "label"
    /\ Goto(w, "release")
    /\ UNCHANGED <<jira, redis, fet, task, cur, res, requeue, triggers>>

(* "undispatched": no target branch, or AUTO_CHAIN is off. *)
Dispatch(w) ==
    /\ st[w] = "dispatch"
    /\ CASE res[w] = "fix" ->
               Push("fix", [issue |-> IssueOf(w), user |-> task[w].user, attempts |-> 0]) /\ UNCHANGED parked
         [] res[w] = "clarify" ->
               parked' = [parked EXCEPT ![IssueOf(w)] = @ \cup {"clarification"}] /\ UNCHANGED queue
         [] OTHER -> UNCHANGED <<parked, queue>>
    /\ Goto(w, "clear") /\ res' = [res EXCEPT ![w] = "none"]     \* not read again
    /\ UNCHANGED <<jira, lock, fet, task, cur, requeue, bounds>>

-----------------------------------------------------------------------------
(* A fix agent *)

Fix(w, r) ==
    /\ w \in Fixer /\ st[w] = "run" /\ r \in FixOutcomes
    /\ IF r = "error" THEN Fail(w)
       ELSE Goto(w, CASE r = "done" -> "done" [] r = "failed" -> "failed" [] r = "refused" -> "giveup")
            /\ UNCHANGED requeue
    /\ UNCHANGED <<jira, redis, fet, task, cur, res, bounds>>

FixDone(w) ==
    /\ st[w] = "done"
    /\ BestEffort(w, {"triaged", "errored", "failed"}, {"outcome"})
    /\ Goto(w, "clear")
    /\ UNCHANGED <<redis, fet, task, cur, res, requeue, triggers>>

(* set_jira_labels drops a "_failed" label unless the run is user-triggered. *)
FixFailed(w) ==
    /\ st[w] = "failed"
    /\ BestEffort(w, {"triaged"}, IF task[w].user THEN {"failed"} ELSE {})
    /\ Fail(w)
    /\ UNCHANGED <<redis, fet, task, cur, res, triggers>>

Work(w) ==
    \/ Take(w) \/ Acquire(w) \/ DropDuplicate(w) \/ Release(w) \/ Requeue(w)
    \/ GiveUp(w) \/ PushError(w) \/ Clear(w)
    \/ ReadIssue(w) \/ SkipClosed(w) \/ Stamp(w) \/ TriageFails(w) \/ TerminalLabel(w) \/ Dispatch(w)
    \/ FixDone(w) \/ FixFailed(w)
    \/ \E r \in Resolutions : Triage(w, r)
    \/ \E r \in FixOutcomes : Fix(w, r)

Faulty ==
    \/ \E w \in Worker : Stop(w) \/ Crash(w) \/ ReadFails(w) \/ StampFails(w) \/ TerminalLabelFails(w)
    \/ \E f \in Fetcher : ReadQueueFails(f) \/ FetcherDies(f)
    \/ \E f \in Fetcher, i \in Issue : MarkAbandonedFails(f, i) \/ ConsumeFails(f, i)
    \/ \E i \in Issue : Close(i)

Next ==
    \/ \E i \in Issue : Age(i) \/ (\E l \in Triggers : AddLabel(i, l)) \/ (\E k \in Kind : Expire(k, i))
    \/ \E f \in Fetcher : Sweep(f) \/ \E i \in Issue : MarkUnverified(f, i)
    \/ \E w \in Worker : Work(w)
    \/ Faulty

Spec == Init /\ [][Next]_vars

(* The cron jobs run again and again, with pauses in which days pass; agents work, locks expire. *)
FairSpec ==
    /\ Spec
    /\ \A f \in Fetcher : WF_vars(Sweep(f))
    /\ \A w \in Worker : WF_vars(Work(w))
    /\ \A i \in Issue : SF_vars(Age(i)) /\ \A k \in Kind : WF_vars(Expire(k, i))

-----------------------------------------------------------------------------
Sweeping == [pc : {"idle", "depth", "scan", "mark", "push", "enqueue"},
             unread : SUBSET (Kind \cup {"parked"} \cup Issue),
             seen : [Issue -> SUBSET Label], stale : SUBSET Issue, existing : SUBSET Issue,
             locked : SUBSET Issue, user : SUBSET Issue, retry : SUBSET Issue,
             left : SUBSET Issue, found : SUBSET Issue, cap : Nat]

TypeOK ==
    /\ labels \in [Issue -> SUBSET Label] /\ aged \subseteq Issue /\ closed \subseteq Issue
    /\ parked \in [Issue -> SUBSET {"triage", "fix", "clarification"}]
    /\ queue \in [Kind -> [Task -> Nat]]
    /\ lock \in [Kind -> [Issue -> Worker \cup {NoWorker, "ghost"}]]
    /\ fet \in [Fetcher -> Sweeping]
    /\ st \in [Worker -> {"idle", "lock", "read", "stamp", "run", "label", "dispatch", "clear",
                          "giveup", "error", "done", "failed", "release", "requeue"}]
    /\ task \in [Worker -> Task \cup {NoTask}] /\ requeue \in [Worker -> Task \cup {NoTask}]
    /\ cur \in [Worker -> SUBSET Label] /\ res \in [Worker -> Resolutions \cup {"none"}]
    /\ triggers \in Nat /\ faults \in Nat

(* Somebody will still act on the issue without the safety net: a queued task, a worker, a fetcher about to push. *)
Carried(i) ==
    \/ \E k \in Kind : Queued(k, i)
    \/ \E w \in Worker : st[w] # "idle" /\ IssueOf(w) = i
    \/ \E f \in Fetcher : fet[f].pc = "enqueue" /\ i \in fet[f].unread

(* A later sweep will find its label abandoned. *)
Recoverable(i) == Stale(labels[i], TRUE) # {} /\ parked[i] = {}

Marks(i) == labels[i] \cap InFlight # {} /\ "manual" \notin labels[i]

(***************************************************************************)
(* IN_FLIGHT_LABELS and the staleness check together never leave an issue  *)
(* marked as being worked on that nobody works on and no later sweep picks *)
(* up: whatever is lost to crashes, failed critical writes and shutdowns   *)
(* is found again.                                                         *)
(***************************************************************************)
NeverWedged == \A i \in Issue : Marks(i) => Carried(i) \/ Recoverable(i)

(***************************************************************************)
(* "Planned redeployments are instead handled instantly by the SIGTERM     *)
(* handler in run_task_loop": the marks on an issue never have to wait for *)
(* the safety net.                                                         *)
(***************************************************************************)
InFlightCarried == \A i \in Issue : Marks(i) => Carried(i)

(* The tasks among ts, queued (with multiplicity) or held by a worker of the stage. *)
Tasks(k, ts) ==
    (UNION {Copies(k, t) : t \in ts})
        \cup {w \in Worker : KindOf(w) = k /\ st[w] # "idle" /\ task[w] \in ts}
FixTasks(i) == Tasks("fix", {t \in Task : t.issue = i})

(***************************************************************************)
(* Deduplication across queues, labels and locks: one fix task at a time   *)
(* for an issue, wherever it is.                                           *)
(***************************************************************************)
OneFix == \A i \in Issue : Cardinality(FixTasks(i)) <= 1

(***************************************************************************)
(* A ymir_todo label is consumed once: the trigger is swapped before the   *)
(* task is pushed, so a stage never has more user-triggered tasks than     *)
(* people made requests, whatever is retried or recovered later.           *)
(***************************************************************************)
OneRunPerTodo ==
    \A k \in Kind : Cardinality(Tasks(k, {t \in Task : t.user})) <= triggers

(***************************************************************************)
(* The in-progress anchor exists so that no "second triage will run in     *)
(* parallel": an issue is not triaged while a fix agent still has it.      *)
(***************************************************************************)
TriageBeforeFix ==
    \A i \in Issue : \A w \in Triager :
        (st[w] \in {"run", "label"} /\ IssueOf(w) = i) => FixTasks(i) = {}

(***************************************************************************)
(* An in-flight label does not stay forever: the work behind it ends or is *)
(* found abandoned and started again.                                      *)
(***************************************************************************)
Settles ==
    \A i \in Issue : \A l \in InFlight :
        (l \in labels[i] /\ "manual" \notin labels[i]) ~> (l \notin labels[i] \/ "manual" \in labels[i])

(* ymir_retry_needed, the safety net's own trigger, is always consumed. *)
RetryHonoured == \A i \in Issue : "retry" \in labels[i] ~> "retry" \notin labels[i]

(* Stages of one issue do not overlap: one fix at a time, and no triage while *)
(* a fix is under way.                                                        *)
StagesExclude == OneFix /\ TriageBeforeFix
=============================================================================
