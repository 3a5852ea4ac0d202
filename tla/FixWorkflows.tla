---------------------------- MODULE FixWorkflows ----------------------------
(* The three fix agents and what they promise about the merge request they     *)
(* leave behind.                                                               *)
EXTENDS BackportWorkflow, RebaseWorkflow, RebuildWorkflow

Work == BackportStep \/ RebaseStep \/ RebuildStep \/ Attempt

-----------------------------------------------------------------------------
(* What is on the update branch, and so in the merge request, is one whole     *)
(* update: its release bumped once and its changelog entry included, however   *)
(* often the build was repaired, the clone made anew or the task repeated.     *)
(* backport_agent.py promises "exactly once per backport"; the update tool is  *)
(* not idempotent and the repair loop passes it every time.                    *)
PublishedWhole ==
    gitlab.branch # NoCommit => gitlab.branch.bumps = 1 /\ gitlab.branch.log

(* The live branch only ever holds a change that was built since it was last   *)
(* edited: an inherited commit by a green build, the agent's own also by one   *)
(* that timed out.  Modular packages and rebuilds are not built.               *)
PublishedValidated ==
    gitlab.branch # NoCommit /\ setup.agent # "rebuild" /\ ~setup.modular =>
        gitlab.branch.verdict \in
            IF gitlab.branch.change = "inherited" THEN {"green"} ELSE {"green", "timeout"}

(* Once an inherited commit is on the branch, no later attempt replaces it     *)
(* (jira_label_workflow_routing.md: "retry metadata resumes MR publication     *)
(* without rerunning either backport path"), although its push may have been   *)
(* reported as failed and its comment may have failed.  A shutdown is the      *)
(* exception: it pushes the payload of before the attempt.                     *)
InheritedKept ==
    [][gitlab.branch.change = "inherited" /\ shutdowns = 0
           => gitlab'.branch = gitlab.branch]_fixVars

(* An issue that is done has its merge request (docs/qe-agents-overview.md:    *)
(* "MR opened, ymir_backported set").                                          *)
DoneHasMR == jira.label = "done" => gitlab.mr

(* A task that ends in the error list has left a comment on its issue          *)
(* (jira_label_workflow_routing.md: "posted once when processing stops",       *)
(* "regardless of trigger"): here for a task no user triggered.               *)
ErrorsReported ==
    [][~setup.user /\ step = "ended" /\ s.result = "failed" /\ ~lists.errors /\ lists'.errors
           => jira'.comments # {}]_fixVars

(* What is published is one whole update, built since it was last edited, and  *)
(* an inherited one stays.                                                     *)
PublishedSound == []PublishedWhole /\ []PublishedValidated /\ InheritedKept
=============================================================================
