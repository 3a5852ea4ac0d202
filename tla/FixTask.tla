------------------------------- MODULE FixTask -------------------------------
(* A task of a fix agent (backport, rebase or rebuild) from its first attempt  *)
(* to its last: what the agents share.  A worker pops the payload, runs the    *)
(* workflow of its agent step by step on a fresh clone, publishes a commit and *)
(* a merge request, and labels the issue; a failed attempt is queued again     *)
(* until MAX_RETRIES.  Locks and queues are AgentQueue's; dry runs are left    *)
(* out.  Any call of a step may fail.                                          *)
EXTENDS AgentLimits

CONSTANTS MaxBuildAttempts,     \* MAX_BUILD_ATTEMPTS
          MaxIncrementalFixes,  \* MAX_INCREMENTAL_FIX_ATTEMPTS
          Setups                \* kinds of task and of deployment to consider

ASSUME FixTaskAssumption ==
    /\ MaxBuildAttempts \in Nat \ {0} /\ MaxIncrementalFixes \in Nat
    /\ Setups \subseteq [agent: {"backport", "rebase", "rebuild"},
                         modular: BOOLEAN, konflux: BOOLEAN, user: BOOLEAN,
                         candidate: BOOLEAN, sibling: BOOLEAN]

(* A tree is what the spec and its patches hold; the verdict is that of the    *)
(* last build of this very change.                                             *)
Tree == [change: {"none", "inherited", "fix"}, verdict: {"untested", "green", "timeout"},
         bumps: 0..MaxBuildAttempts + MaxIncrementalFixes + 2, log: BOOLEAN]
Pristine == [change |-> "none", verdict |-> "untested", bumps |-> 0, log |-> FALSE]
NoCommit == [change |-> "none"]

(* The part of a task that lives in its payload. *)
Payload == [attempts: 0..MaxRetries, checkpoint: Tree \cup {NoCommit}, disabled: BOOLEAN]
NoPayload == [attempts |-> -1]

(* The state of a workflow; a backport uses all of it. *)
WorkflowState ==
    [attempts: 0..MaxBuildAttempts, incremental: 0..MaxIncrementalFixes, cherry: BOOLEAN,
     bumped: BOOLEAN, log: BOOLEAN, result: {"none", "ok", "no_srpm", "failed"},
     inherit: BOOLEAN, builds: 0..MaxBuildAttempts, retried: BOOLEAN, disabled: BOOLEAN,
     checkpoint: Tree \cup {NoCommit}, mode: {"full", "none", "resume"},
     pushed: BOOLEAN, url: BOOLEAN, new: BOOLEAN]
StateOf(p) ==
    [attempts |-> MaxBuildAttempts, incremental |-> 0, cherry |-> FALSE, bumped |-> FALSE,
     log |-> FALSE, result |-> "none", inherit |-> FALSE, builds |-> 0, retried |-> FALSE,
     disabled |-> p.disabled, checkpoint |-> p.checkpoint, mode |-> "full",
     pushed |-> FALSE, url |-> FALSE, new |-> FALSE]

Steps == {"check_if_sibling", "change_jira_status", "find_consolidated_siblings",
          "resume_inherited_publication", "fork_and_prepare_dist_git",
          "prepare_normal_backport", "evaluate_inherit_source", "run_backport_agent",
          "run_rebase_agent", "run_build_agent", "fix_build_error",
          "validate_inherited_build", "update_release", "stage_changes", "run_log_agent",
          "commit_inherited_change", "push_inherited_change", "open_inherited_mr",
          "commit_push_and_open_mr", "commit_push_and_build",
          "submit_consolidation_job", "comment_in_jira"}

VARIABLES
    setup,      \* the kind of task, fixed
    queue,      \* the payload that waits in the agent's queue, or NoPayload
    popped,     \* the payload as it was popped: what a shutdown pushes again
    task,       \* the task in memory; its metadata is shared with the workflow
    step,       \* the next step of the workflow, or "idle", "raised", "ended"
    s,          \* the workflow's state
    clone,      \* the local clone: tree, index and local commit
    gitlab,     \* the fork's update branch and the merge request
    jira,       \* label of the issue, comments posted by the agent
    lists,      \* error list, completed list, consolidation queue
    shutdowns

fixVars == <<setup, queue, popped, task, step, s, clone, gitlab, jira, lists, shutdowns>>
workflow == <<step, s, clone, gitlab, jira, lists>>
outside  == <<setup, queue, popped, shutdowns>>

TypeOK ==
    /\ setup \in Setups
    /\ queue \in Payload \cup {NoPayload} /\ popped \in Payload \cup {NoPayload}
    /\ task \in Payload
    /\ step \in Steps \cup {"idle", "raised", "ended"}
    /\ s \in WorkflowState
    /\ clone \in [tree: Tree, index: Tree, commit: Tree \cup {NoCommit}]
    /\ gitlab \in [branch: Tree \cup {NoCommit}, mr: BOOLEAN]
    /\ jira \in [label: {"triaged", "none", "failed", "errored", "done"},
                 comments: SUBSET {"result", "error"}]
    /\ lists \in [errors: BOOLEAN, completed: BOOLEAN, job: BOOLEAN]
    /\ shutdowns \in 0..MaxShutdowns

NewPayload == [attempts |-> 0, checkpoint |-> NoCommit, disabled |-> FALSE]
NewClone == [tree |-> Pristine, index |-> Pristine, commit |-> NoCommit]

FixInit ==
    /\ setup \in Setups
    /\ queue \in {NewPayload, NoPayload} /\ popped = NoPayload /\ task = NewPayload
    /\ step = "idle" /\ s = StateOf(NewPayload)
    /\ clone = NewClone
    /\ gitlab = [branch |-> NoCommit, mr |-> FALSE]
    /\ jira = [label |-> "triaged", comments |-> {}]
    /\ lists = [errors |-> FALSE, completed |-> FALSE, job |-> FALSE]
    /\ shutdowns = 0

-----------------------------------------------------------------------------
(* Steps.  Each leaves what it does not name alone: Keep(...) says which of    *)
(* the workflow's outer effects a step does not have.                          *)

At(agent, name) == setup.agent = agent /\ step = name
Goto(name) == step' = name
With(name, new) == step' = name /\ s' = new
Failed(state) == [state EXCEPT !.result = "failed"]
(* A failed result is reported; an exception ends the workflow. *)
Report  == With("comment_in_jira", Failed(s))
Raise   == With("raised", s)
Succeeded == s.result \in {"ok", "no_srpm"}

Edit(tree) == clone' = [clone EXCEPT !.tree = tree]
NoEdit     == UNCHANGED clone
Private    == UNCHANGED <<gitlab, jira, lists, task>>

(* push_changes is forced; a push that fails may have been accepted. *)
Pushed(ok) ==
    \/ gitlab' = [gitlab EXCEPT !.branch = clone.commit]
    \/ ~ok /\ UNCHANGED gitlab

(* open_update_merge_request opens the merge request of the update branch or   *)
(* finds it; a call that fails may have opened it.                             *)
Opened == [gitlab EXCEPT !.mr = TRUE]

(* commit_push_and_open_mr of tasks.py: commit what is staged, push, open.     *)
Publish(failed, next) ==
    LET committed == [clone EXCEPT !.commit = clone.index]
        pushed    == [gitlab EXCEPT !.branch = clone.index]
    IN  \/ /\ With(next, [s EXCEPT !.url = TRUE, !.new = ~gitlab.mr,
                                   !.result = IF @ = "none" THEN "ok" ELSE @])
           /\ clone' = committed /\ gitlab' = [pushed EXCEPT !.mr = TRUE]
        \/ /\ With(next, [failed EXCEPT !.url = FALSE])
           /\ \/ NoEdit /\ UNCHANGED gitlab
              \/ clone' = committed /\ gitlab' \in {gitlab, pushed, [pushed EXCEPT !.mr = TRUE]}

(* update_release of tasks.py. *)
Bumped == [clone.tree EXCEPT !.bumps = @ + 1]

(* The comment of a step; one about an error is posted for users only. *)
Tell(what) ==
    jira' = [jira EXCEPT !.comments =
                IF what = "error" /\ ~setup.user THEN @ ELSE @ \cup {what}]

-----------------------------------------------------------------------------
(* process_task, common to the three agents. *)

FirstStep == IF setup.agent = "rebase" THEN "check_if_sibling" ELSE "change_jira_status"

Start ==
    /\ step = "idle" /\ queue # NoPayload
    /\ popped' = queue /\ task' = queue /\ queue' = NoPayload
    /\ With(FirstStep, StateOf(queue))
    /\ clone' = NewClone
    /\ UNCHANGED <<setup, gitlab, jira, lists, shutdowns>>

(* Label writes are best effort; "failed" labels are written for users only.   *)
Labelled(j, label) ==
    {j, [j EXCEPT !.label = IF label = "failed" /\ ~setup.user THEN "none" ELSE label]}

(* finalize_failure: label, a comment if one is given, an entry of the error   *)
(* list.                                                                       *)
Finalize(j, comment) ==
    /\ \E l \in Labelled(j, "errored") :
          jira' \in {l} \cup (IF comment THEN {[l EXCEPT !.comments = @ \cup {"error"}]} ELSE {})
    /\ lists' = [lists EXCEPT !.errors = TRUE]
    /\ UNCHANGED queue

(* retry: queue the task again, with its metadata, or finalize. *)
Retry(t, j, comment) ==
    LET again == [t EXCEPT !.attempts = @ + 1]
    IN  /\ task' = again
        /\ IF again.attempts < MaxRetries
             THEN queue' = again /\ jira' = j /\ UNCHANGED lists
             ELSE Finalize(j, comment)

Finish == step' = "idle" /\ popped' = NoPayload /\ UNCHANGED <<setup, s, clone, gitlab, shutdowns>>

(* The workflow raised, or ended without a result, which the log line of the   *)
(* agent trips over.                                                           *)
AttemptRaised ==
    /\ step = "raised" \/ (step = "ended" /\ s.result = "none")
    /\ Retry(task, jira, TRUE)
    /\ Finish

AttemptSucceeded ==
    /\ step = "ended" /\ Succeeded
    /\ jira' \in Labelled(jira, "done")
    /\ lists' = [lists EXCEPT !.completed = @ \/ ~setup.modular, !.errors = FALSE]
    /\ UNCHANGED <<queue, task>>
    /\ Finish

(* A backport that must not be repeated is finalized at once; one whose commit *)
(* may have been pushed takes its checkpoint along (_configure_task_retry).    *)
Resumable == s.mode # "resume" \/ s.checkpoint # NoCommit
RetryState == IF s.mode = "resume" THEN [task EXCEPT !.checkpoint = s.checkpoint] ELSE task

AttemptFailed ==
    /\ step = "ended" /\ s.result = "failed"
    /\ IF s.mode = "none" \/ ~Resumable
         THEN Finalize(jira, FALSE) /\ UNCHANGED task
         ELSE \E j \in Labelled(jira, "failed") : Retry(RetryState, j, FALSE)
    /\ Finish

(* The pod shuts down: the workflow is cancelled and the payload pushed again  *)
(* as it was popped.                                                           *)
Shutdown ==
    /\ step \notin {"idle"} /\ shutdowns < MaxShutdowns
    /\ shutdowns' = shutdowns + 1
    /\ queue' = popped /\ popped' = NoPayload /\ step' = "idle"
    /\ UNCHANGED <<setup, task, s, clone, gitlab, jira, lists>>

Attempt == Start \/ AttemptRaised \/ AttemptSucceeded \/ AttemptFailed

(* The issue is done with: nothing queued, nothing running. *)
Settled == step = "idle" /\ queue = NoPayload
=============================================================================
