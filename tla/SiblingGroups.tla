--------------------------- MODULE SiblingGroups ---------------------------
(***************************************************************************)
(* Triage of the issues that one rebase can close together: the queue mode *)
(* of ymir/agents/triage_agent.py with ymir/agents/rebase_consolidation.py.*)
(* The issue that is triaged first queues its siblings and waits; the      *)
(* sibling that ends last sends it to triage again, and then it goes to    *)
(* the rebase agent, which looks for the siblings that wait for it.        *)
(*                                                                         *)
(* Composed with the sweeps of postponed issues; the fetcher is reduced to *)
(* its two effects, the first task of an issue and the 24 hour net.        *)
(***************************************************************************)
EXTENDS PostponedSweeps, FiniteSets

CONSTANTS Slot, NoTask

Resolution == {"rebase", "decided", "postponed", "no_patch"}

SetupType ==
    [slots : SUBSET Slot,
     fetched : SUBSET Issue,                    \* issues of the fetcher's filter
     resolutions : [Issue -> SUBSET Resolution],
     faults : SUBSET {"error", "crash", "label", "marker", "terminal", "sweep", "remove"},
     reproduces : BOOLEAN,                      \* the package has reproduction enabled
     max : Nat]                                 \* bound: faults in a behaviour

ASSUME SiblingGroupsAssumption ==
    /\ Setups \subseteq SetupType
    /\ MaxRetries \in Nat \ {0}
    /\ NoTask \notin Task
    /\ IsFiniteSet(Issue)

VARIABLES
    markers,    \* markers[i]: primaries in the sibling comments of i, oldest first
    holder,     \* holder[i]: the triage lock, a set of at most one slot
    pc,         \* pc[s]: position in process_task
    task,       \* task[s]
    mem,        \* mem[s]: the local variables of process_task
    rebaseq,    \* rebaseq[i]: tasks of i in the rebase queue
    rebasing,   \* issues whose rebase is under way
    merged,     \* merged[i]: siblings that the last rebase of i took in
    reproq      \* issues in the reproducer queue

triage == <<markers, holder, pc, task, mem>>
rebase == <<rebaseq, rebasing, merged, reproq>>
common == <<labels, queue, setup, failures>>
groupsVars == <<common, blocker, sweeps, triage, rebase>>

Forgotten == [cur |-> {}, sib |-> FALSE, wait |-> FALSE, res |-> "none", cand |-> {}, next |-> {}, count |-> 0]
I(s) == task[s].issue

GroupsInit ==
    /\ setup \in Setups
    /\ labels = [i \in Issue |-> {}]
    /\ queue = <<>> /\ failures = 0
    /\ SweepsInit
    /\ markers = [i \in Issue |-> <<>>]
    /\ holder = [i \in Issue |-> {}]
    /\ pc = [s \in Slot |-> "idle"]
    /\ task = [s \in Slot |-> NoTask]
    /\ mem = [s \in Slot |-> Forgotten]
    /\ rebaseq = [i \in Issue |-> 0]
    /\ rebasing = {}
    /\ merged = [i \in Issue |-> {}]
    /\ reproq = {}

SlotGoes(s, next) == pc' = [pc EXCEPT ![s] = next]
(* Mutant: the coordination labels count as results. *)
TerminalAny(L) == L \ {"in_progress"}

Terminal(L) == L \ {"in_progress", "sibling", "waiting"}      \* _terminal_ymir_labels

-----------------------------------------------------------------------------
(* BRPOP, then SET NX of the lock; a duplicate is dropped. *)
Take(s) ==
    /\ s \in setup.slots /\ pc[s] = "idle" /\ queue # <<>>
    /\ LET t == Last(queue) IN
          IF holder[t.issue] = {}
          THEN /\ holder' = [holder EXCEPT ![t.issue] = {s}]
               /\ task' = [task EXCEPT ![s] = t]
               /\ SlotGoes(s, "guard")
          ELSE UNCHANGED <<holder, task, pc>>
    /\ queue' = Front(queue)
    /\ UNCHANGED <<labels, setup, failures, blocker, sweeps, markers, mem, rebase>>

(* The lock is released, and a retry goes back to the queue after that. *)
Done(s) ==
    /\ SlotGoes(s, "idle")
    /\ holder' = [holder EXCEPT ![I(s)] = @ \ {s}]
    /\ task' = [task EXCEPT ![s] = NoTask]
    /\ mem' = [mem EXCEPT ![s] = Forgotten]

(* Mutant: a task is not dropped because of the labels. *)
GuardNone(s) ==
    /\ pc[s] = "guard"
    /\ SlotGoes(s, "stamp")
    /\ mem' = [mem EXCEPT ![s].cur = labels[I(s)]]
    /\ UNCHANGED <<common, blocker, sweeps, markers, rebase, holder, task>>

(* The labels are read; a result without a request to redo it ends the task. *)
Guard(s) ==
    /\ pc[s] = "guard"
    /\ IF Terminal(labels[I(s)]) # {} /\ "in_progress" \notin labels[I(s)]
       THEN Done(s)
       ELSE /\ SlotGoes(s, "stamp")
            /\ mem' = [mem EXCEPT ![s].cur = labels[I(s)]]
            /\ UNCHANGED <<holder, task>>
    /\ UNCHANGED <<common, blocker, sweeps, markers, rebase>>

(* ymir_triage_in_progress; the other labels that were read go away. *)
Stamp(s) ==
    /\ pc[s] = "stamp"
    /\ Edit(I(s), {"in_progress"}, mem[s].cur \ {"in_progress", "waiting"})
    /\ SlotGoes(s, "analyse")
    /\ UNCHANGED <<queue, setup, failures, blocker, sweeps, markers, holder, task, mem, rebase>>

(***************************************************************************)
(* run_triage_analysis reads what the issue is in its group, then the      *)
(* model decides; anything may raise.  A rebase takes the model minutes:   *)
(* a sweep that saw the issue before is past it.                           *)
(***************************************************************************)
Analyse(s) ==
    /\ pc[s] = "analyse"
    /\ \/ \E r \in setup.resolutions[I(s)] :
             /\ r = "rebase" => \A k \in Postponement : I(s) \notin sweeps[k].issue \cup sweeps[k].todo
             /\ mem' = [mem EXCEPT ![s] = [mem[s] EXCEPT !.res = r,
                                   !.sib = markers[I(s)] # <<>>,
                                   !.wait = "waiting" \in labels[I(s)]]]
             /\ blocker' = IF r = "postponed" THEN [blocker EXCEPT ![I(s)] = "open"] ELSE blocker
             /\ SlotGoes(s, IF r = "rebase" THEN "consolidate" ELSE "label")
             /\ UNCHANGED failures
       \/ Failure("error") /\ SlotGoes(s, "retry") /\ UNCHANGED <<mem, blocker>>
    /\ UNCHANGED <<labels, queue, setup, sweeps, markers, holder, task, rebase>>

-----------------------------------------------------------------------------
(* consolidate_rebase_siblings and queue_siblings_for_triage.               *)

(* build_rebase_siblings_jql does not find issues with a result. *)
Candidates(i) ==
    {c \in Issue \ {i} : labels[c] \cap {"triaged_rebase", "decided", "rebased", "errored"} = {}}

(* A sibling has no siblings of its own. *)
Consolidate(s) ==
    /\ pc[s] = "consolidate"
    /\ IF mem[s].sib \/ "sibling" \in labels[I(s)] \/ markers[I(s)] # <<>>
       THEN /\ mem' = [mem EXCEPT ![s] = [mem[s] EXCEPT !.sib = TRUE, !.wait = FALSE]]
            /\ SlotGoes(s, "comment")
       ELSE /\ mem' = [mem EXCEPT ![s].cand = Candidates(I(s))]
            /\ SlotGoes(s, "candidates")
    /\ UNCHANGED <<common, blocker, sweeps, markers, holder, task, rebase>>

(* The labels of a candidate are read once more. *)
CheckCandidate(s) ==
    /\ pc[s] = "candidates"
    /\ \E c \in mem[s].cand :
          IF labels[c] \cap {"sibling", "triaged_rebase", "decided", "rebased", "errored"} # {}
          THEN mem' = [mem EXCEPT ![s].cand = @ \ {c}] /\ UNCHANGED pc
          ELSE SlotGoes(s, "sibling") /\ mem' = [mem EXCEPT ![s] = [mem[s] EXCEPT !.cand = @ \ {c}, !.next = {c}]]
    /\ UNCHANGED <<common, blocker, sweeps, markers, holder, task, rebase>>

LabelSibling(s, c) ==
    /\ pc[s] = "sibling" /\ c \in mem[s].next
    /\ BestEffort(c, {"sibling"}, {})
    /\ SlotGoes(s, "marker")
    /\ UNCHANGED <<queue, setup, blocker, sweeps, markers, holder, task, mem, rebase>>

(* The comment that names the primary; without it the label is taken back. *)
MarkSibling(s, c) ==
    /\ pc[s] = "marker" /\ c \in mem[s].next
    /\ \/ /\ markers' = [markers EXCEPT ![c] = IF I(s) \in Range(@) THEN @ ELSE Append(@, I(s))]
          /\ SlotGoes(s, "push")
          /\ UNCHANGED <<labels, mem, failures>>
       \/ /\ Failure("marker")
          /\ Edit(c, {}, {"sibling"})
          /\ mem' = [mem EXCEPT ![s].next = {}]
          /\ SlotGoes(s, "candidates")
          /\ UNCHANGED markers
    /\ UNCHANGED <<queue, setup, blocker, sweeps, holder, task, rebase>>

PushSibling(s, c) ==
    /\ pc[s] = "push" /\ c \in mem[s].next
    /\ LPush(Fresh(c))
    /\ mem' = [mem EXCEPT ![s] = [mem[s] EXCEPT !.next = {}, !.count = 1]]
    /\ SlotGoes(s, "candidates")
    /\ UNCHANGED <<labels, setup, failures, blocker, sweeps, markers, holder, task, rebase>>

(* After the last candidate: ymir_rebase_waiting_for_siblings. *)
LabelWaiting(s) ==
    /\ pc[s] = "candidates" /\ mem[s].cand = {}
    /\ IF mem[s].count > 0
       THEN BestEffort(I(s), {"waiting"}, {}) /\ mem' = [mem EXCEPT ![s].wait = TRUE]
       ELSE UNCHANGED <<labels, failures, mem>>
    /\ SlotGoes(s, "comment")
    /\ UNCHANGED <<queue, setup, blocker, sweeps, markers, holder, task, rebase>>

(* The result is posted, which may raise. *)
Comment(s) ==
    /\ pc[s] = "comment"
    /\ \/ SlotGoes(s, "label") /\ UNCHANGED failures
       \/ Failure("error") /\ SlotGoes(s, "retry")
    /\ UNCHANGED <<labels, queue, setup, blocker, sweeps, markers, holder, task, mem, rebase>>

-----------------------------------------------------------------------------
(* Whether the result of a primary is withheld until its siblings are done. *)
Waits(s) == mem[s].res = "rebase" /\ (mem[s].wait \/ "waiting" \in mem[s].cur)

(* A failing write leaves process_task: nobody is told, the lock is released. *)
LabelResult(s) ==
    LET r == mem[s].res
        result == IF r = "rebase" THEN "triaged_rebase" ELSE r
    IN
    /\ pc[s] = "label"
    /\ \/ /\ \/ /\ r \in Postponement
                /\ Edit(I(s), {r}, {"in_progress", "waiting"} \cup (Postponement \ {r}))
             \/ /\ r \notin Postponement
                /\ Edit(I(s), IF Waits(s) THEN {} ELSE {result},
                        {"in_progress"} \cup (IF mem[s].sib THEN {"sibling"} ELSE {})
                                        \cup (IF Waits(s) THEN {} ELSE {"waiting"}))
          /\ SlotGoes(s, IF mem[s].sib THEN "check" ELSE "dispatch")
          /\ UNCHANGED <<failures, holder, task, mem>>
       \/ Failure("terminal") /\ Done(s) /\ UNCHANGED labels
    /\ UNCHANGED <<queue, setup, blocker, sweeps, markers, rebase>>

-----------------------------------------------------------------------------
(* check_and_queue_primary_if_ready, by a sibling that ended.               *)

Primary(i) == Head(markers[i])          \* get_rebase_primary_issue

(* Mutant: a sibling in triage does not count as pending. *)
PendingQueued(p) ==
    {c \in Issue \ {p} :
        /\ labels[c] \cap {"triaged_rebase", "decided", "rebased", "failed", "errored"} = {}
        /\ "sibling" \in labels[c]}

(* Siblings of p that triage has not decided yet. *)
Pending(p) ==
    {c \in Issue \ {p} :
        /\ labels[c] \cap {"triaged_rebase", "decided", "rebased", "failed", "errored"} = {}
        /\ \/ "sibling" \in labels[c]
           \/ "in_progress" \in labels[c] /\ p \in Range(markers[c])}

CheckPrimary(s) ==
    /\ pc[s] = "check"
    /\ SlotGoes(s, IF markers[I(s)] # <<>> /\ "waiting" \in labels[Primary(I(s))]
               THEN "siblings" ELSE "dispatch")
    /\ UNCHANGED <<common, blocker, sweeps, markers, holder, task, mem, rebase>>

CheckSiblings(s) ==
    /\ pc[s] = "siblings"
    /\ SlotGoes(s, IF Pending(Primary(I(s))) = {} THEN "unwait" ELSE "dispatch")
    /\ UNCHANGED <<common, blocker, sweeps, markers, holder, task, mem, rebase>>

(* The critical write; when it fails the primary is not queued. *)
ReleasePrimary(s) ==
    /\ pc[s] = "unwait"
    /\ \/ Edit(Primary(I(s)), {}, {"waiting"}) /\ SlotGoes(s, "primary") /\ UNCHANGED failures
       \/ Failure("terminal") /\ SlotGoes(s, "dispatch") /\ UNCHANGED labels
    /\ UNCHANGED <<queue, setup, blocker, sweeps, markers, holder, task, mem, rebase>>

PushPrimary(s) ==
    /\ pc[s] = "primary"
    /\ LPush(Fresh(Primary(I(s))))
    /\ SlotGoes(s, "dispatch")
    /\ UNCHANGED <<labels, setup, failures, blocker, sweeps, markers, holder, task, mem, rebase>>

-----------------------------------------------------------------------------
(* Only a primary that does not wait goes to the rebase agent; every result    *)
(* but a postponement may ask for a reproduction, a primary that waits too.    *)
Dispatch(s) ==
    /\ pc[s] = "dispatch"
    /\ IF mem[s].res = "rebase" /\ ~mem[s].sib /\ ~Waits(s)
       THEN rebaseq' = [rebaseq EXCEPT ![I(s)] = @ + 1]
       ELSE UNCHANGED rebaseq
    /\ reproq' \in {reproq} \cup
          IF setup.reproduces /\ mem[s].res \notin Postponement THEN {reproq \cup {I(s)}} ELSE {}
    /\ Done(s)
    /\ UNCHANGED <<common, blocker, sweeps, markers, rebasing, merged>>

(* retry(): the task goes back after the lock is released, or is given up. *)
Retry(s) ==
    LET again == [task[s] EXCEPT !.attempts = @ + 1] IN
    /\ pc[s] = "retry"
    /\ IF again.attempts < MaxRetries
       THEN LPush(again) /\ UNCHANGED labels
       ELSE Edit(I(s), {"errored"}, {"in_progress"}) /\ UNCHANGED queue
    /\ Done(s)
    /\ UNCHANGED <<setup, failures, blocker, sweeps, markers, rebase>>

(* The pods are killed; the locks expire before anybody asks for them. *)
Crash ==
    /\ Failure("crash")
    /\ pc' = [s \in Slot |-> "idle"] /\ task' = [s \in Slot |-> NoTask]
    /\ mem' = [s \in Slot |-> Forgotten] /\ holder' = [i \in Issue |-> {}]
    /\ UNCHANGED <<labels, queue, setup, blocker, sweeps, markers, rebase>>

-----------------------------------------------------------------------------
(* The rebase agent.                                                        *)

(* find_triaged_rebase_siblings, early in the workflow. *)
RebaseStart(i) ==
    /\ rebaseq[i] > 0 /\ i \notin rebasing
    /\ rebaseq' = [rebaseq EXCEPT ![i] = @ - 1]
    /\ rebasing' = rebasing \cup {i}
    /\ merged' = [merged EXCEPT ![i] = {c \in Issue \ {i} : "triaged_rebase" \in labels[c]
                                                            /\ i \in Range(markers[c])}]
    /\ UNCHANGED <<common, blocker, sweeps, triage, reproq>>

(***************************************************************************)
(* update_labels_for_all_issues with the consolidated issues of the task.  *)
(* Triage leaves them empty; what the workflow found is not among them.    *)
(***************************************************************************)
RebaseEnd(i) ==
    /\ i \in rebasing
    /\ rebasing' = rebasing \ {i}
    /\ \E outcome \in {"rebased", "failed"} : Edit(i, {outcome}, {"triaged_rebase"})
    /\ UNCHANGED <<queue, setup, failures, blocker, sweeps, triage, rebaseq, merged, reproq>>

-----------------------------------------------------------------------------
(* The reproducer agent labels the issue, first as being reproduced, then with *)
(* the outcome; triage does not tell these labels apart.                       *)
Reproduce(i) ==
    /\ i \in reproq /\ reproq' = reproq \ {i}
    /\ Edit(i, {"reproduced"}, {})
    /\ UNCHANGED <<queue, setup, failures, blocker, sweeps, triage, rebaseq, rebasing, merged>>

-----------------------------------------------------------------------------
(* The fetcher, see IssueRouting.                                           *)

Tasks(i) == {k \in DOMAIN queue : queue[k].issue = i}

Fetch(i) ==
    /\ i \in setup.fetched /\ labels[i] = {}
    /\ Tasks(i) = {} /\ holder[i] = {}
    /\ LPush(Fresh(i))
    /\ UNCHANGED <<labels, setup, failures, blocker, sweeps, triage, rebase>>

(* A day without anything to do; then whatever looks abandoned is fetched. *)
Quiet ==
    /\ queue = <<>> /\ rebasing = {} /\ \A i \in Issue : rebaseq[i] = 0
    /\ \A s \in Slot : pc[s] = "idle"
    /\ \A k \in Postponement : sweeps[k].at = "idle"
Abandoned == {i \in setup.fetched : labels[i] \in {{"in_progress"}, {"triaged_rebase"}}}
Rescue ==
    /\ Quiet /\ Abandoned # {}
    /\ labels' = [i \in Issue |-> IF i \in Abandoned THEN {} ELSE labels[i]]
    /\ queue' = SetToSeq({Fresh(i) : i \in Abandoned})
    /\ UNCHANGED <<setup, failures, blocker, sweeps, triage, rebase>>

-----------------------------------------------------------------------------
ProcessTask(s) ==
    \/ Take(s) \/ Guard(s) \/ Stamp(s) \/ Analyse(s) \/ Consolidate(s)
    \/ CheckCandidate(s) \/ LabelWaiting(s) \/ Comment(s)
    \/ \E c \in Issue : LabelSibling(s, c) \/ MarkSibling(s, c) \/ PushSibling(s, c)
    \/ LabelResult(s) \/ CheckPrimary(s) \/ CheckSiblings(s)
    \/ ReleasePrimary(s) \/ PushPrimary(s) \/ Dispatch(s) \/ Retry(s)

Sweeping == /\ \/ \E k \in Postponement : SweepStep(k) \/ SweepDies(k)
               \/ \E i \in Issue : BlockerSettles(i)
            /\ UNCHANGED <<triage, rebase>>

GroupsNext ==
    \/ \E i \in Issue : Fetch(i)
    \/ \E s \in Slot : ProcessTask(s)
    \/ \E i \in Issue : RebaseStart(i) \/ RebaseEnd(i) \/ Reproduce(i)
    \/ Sweeping
    \/ Rescue
    \/ Crash

GroupsSpec == GroupsInit /\ [][GroupsNext]_groupsVars

(***************************************************************************)
(* Agents work, cron jobs run.  A day passes only when nothing goes on; it *)
(* does so again and again, so the net needs strong fairness.              *)
(***************************************************************************)
GroupsFairSpec ==
    /\ GroupsSpec
    /\ \A s \in Slot : WF_groupsVars(ProcessTask(s))
    /\ \A i \in Issue : WF_groupsVars(Fetch(i)) /\ WF_groupsVars(RebaseStart(i) \/ RebaseEnd(i))
                        /\ WF_groupsVars(Reproduce(i))
    /\ \A k \in Postponement : WF_groupsVars(SweepStep(k) /\ UNCHANGED <<triage, rebase>>)
    /\ SF_groupsVars(Rescue)

-----------------------------------------------------------------------------
GroupsTypeOK ==
    /\ setup \in Setups /\ failures \in 0 .. setup.max
    /\ labels \in [Issue -> SUBSET Label]
    /\ queue \in Seq(Task)
    /\ blocker \in [Issue -> {"open", "done", "closed"}]
    /\ \A k \in Postponement : sweeps[k].todo \subseteq Issue
    /\ markers \in [Issue -> Seq(Issue)] /\ \A i \in Issue : IsInjective(markers[i])
    /\ \A i \in Issue : holder[i] = {s \in Slot : pc[s] # "idle" /\ I(s) = i}
    /\ task \in [Slot -> Task \cup {NoTask}]
    /\ \A s \in Slot : (pc[s] = "idle") = (task[s] = NoTask)
    /\ rebaseq \in [Issue -> Nat] /\ rebasing \subseteq Issue
    /\ merged \in [Issue -> SUBSET Issue]

(***************************************************************************)
(* Siblings that end at the same moment may both release the primary; it   *)
(* still goes to the rebase agent once.                                    *)
(***************************************************************************)
OneRebase == \A i \in Issue : rebaseq[i] + (IF i \in rebasing THEN 1 ELSE 0) <= 1

(* The labels and comments implement the barrier.                          *)
Deciding == {"triaged_rebase", "decided", "rebased", "failed", "errored"}
Invited(p)   == {c \in Issue : p \in Range(markers[c])}
Undecided(p) == {c \in Invited(p) : labels[c] \cap Deciding = {}}
Needing(p)   == {c \in Invited(p) : "triaged_rebase" \in labels[c]}
Sure == setup.faults \cap {"label", "crash"} = {}
Barrier == INSTANCE RebaseBarrier WITH
    pending <- [p \in Issue |-> Undecided(p)],
    ready   <- [p \in Issue |-> Needing(p)],
    reliable <- Sure
BarrierKept == Barrier!Spec

(***************************************************************************)
(* "A rebase primary requeued after its siblings finish must still run"    *)
(* (_terminal_ymir_labels): the sibling that ends last finds the primary   *)
(* waiting and sends it to triage, which does not drop it.                 *)
(***************************************************************************)
Calm == Cardinality(setup.slots) = 1 /\ setup.max = 0
Rerun(i) == \E s \in Slot : pc[s] = "stamp" /\ I(s) = i
PrimaryReruns == \A i \in Issue : Calm /\ "waiting" \in labels[i] ~> "waiting" \notin labels[i] /\ Rerun(i)

(***************************************************************************)
(* The same where nothing is reproduced: the labels of the reproducer make *)
(* triage drop the primary.  Nor does it hold with a second agent, which   *)
(* can end a sibling before the primary has its waiting label, nor when    *)
(* the last sibling ends in an error: nobody looks at the primary again.   *)
(***************************************************************************)
PrimaryReleased ==
    \A i \in Issue : Calm /\ ~setup.reproduces /\ "waiting" \in labels[i]
        ~> "waiting" \notin labels[i] /\ Rerun(i)

(***************************************************************************)
(* An issue is triaged again once its blocker is gone, however the sweeps, *)
(* which push first and edit the labels later, fall in with its triage.    *)
(***************************************************************************)
PostponedRetriaged ==
    \A i \in Issue : (Calm /\ labels[i] \cap Postponement # {} /\ blocker[i] # "open")
        ~> Rerun(i)

(* "Update Jira labels for primary issue and all consolidated siblings". *)
LabelledTogether ==
    \A p \in Issue : labels[p] \in {{"rebased"}, {"failed"}} => \A c \in merged[p] : labels[c] = labels[p]

(* Whatever waits, for its group or for a blocker, is triaged again.          *)
GroupsSettle == PrimaryReleased /\ PostponedRetriaged
=============================================================================
