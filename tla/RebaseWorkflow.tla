--------------------------- MODULE RebaseWorkflow ---------------------------
(* The steps of the rebase agent.  The package is built before its release is  *)
(* bumped and its changelog written; a failed build starts over on a fresh     *)
(* clone.  Which siblings the rebase takes in is SiblingGroups'.               *)
EXTENDS FixTask

R(name) == At("rebase", name)

(* An issue marked as sibling leaves without a result; a marker that cannot be *)
(* read is no marker.                                                          *)
CheckIfSibling ==
    /\ R("check_if_sibling")
    /\ \/ setup.sibling /\ Goto("ended")
       \/ Goto("change_jira_status")
    /\ UNCHANGED s /\ NoEdit /\ Private

(* Both are best effort. *)
RebaseChangeJiraStatus ==
    /\ R("change_jira_status") /\ With("find_consolidated_siblings", s) /\ NoEdit /\ Private
FindConsolidatedSiblings ==
    /\ R("find_consolidated_siblings") /\ With("fork_and_prepare_dist_git", s) /\ NoEdit /\ Private

RebaseForkAndPrepare ==
    /\ R("fork_and_prepare_dist_git")
    /\ \/ With("run_rebase_agent", s) /\ clone' = NewClone
       \/ Raise /\ NoEdit
    /\ Private

RunRebaseAgent ==
    /\ R("run_rebase_agent")
    /\ \/ /\ \E result \in {"ok", "no_srpm"} :
                With(IF setup.modular THEN "update_release" ELSE "run_build_agent",
                     [s EXCEPT !.result = result])
          /\ Edit([clone.tree EXCEPT !.change = "fix", !.verdict = "untested"])
       \/ (Report \/ Raise) /\ NoEdit
    /\ Private

(* Without an SRPM the input of the build is invalid.  Konflux builds a        *)
(* provisional commit, which publication folds into one.                       *)
RunBuildAgent ==
    /\ R("run_build_agent")
    /\ LET candidate == IF setup.konflux
                          THEN [clone EXCEPT !.index = clone.tree, !.commit = clone.tree]
                          ELSE clone
           less == [s EXCEPT !.attempts = @ - 1]
       IN  \/ s.result = "no_srpm" /\ Raise /\ clone' \in {clone, candidate}
           \/ /\ s.result = "ok" /\ With("update_release", s)
              /\ \E verdict \in {"green", "timeout"} :
                    clone' = [candidate EXCEPT !.tree.verdict = verdict]
           \/ s.result = "ok" /\ Report /\ clone' = candidate  \* no build system
           \/ /\ s.result = "ok" /\ clone' = candidate
              /\ IF less.attempts = 0 THEN With("comment_in_jira", Failed(less))
                 ELSE With("fork_and_prepare_dist_git", less)
           \/ s.result = "ok" /\ setup.konflux /\ Raise /\ clone' \in {clone, candidate}
    /\ Private

RebaseUpdateRelease ==
    /\ R("update_release")
    /\ \/ With("stage_changes", s) /\ Edit(Bumped)
       \/ Report /\ NoEdit
    /\ Private

RebaseStageChanges ==
    /\ R("stage_changes")
    /\ With(IF s.log THEN "commit_push_and_open_mr" ELSE "run_log_agent", s)
    /\ clone' = [clone EXCEPT !.index = clone.tree]
    /\ Private

RebaseRunLogAgent ==
    /\ R("run_log_agent")
    /\ \/ With("stage_changes", [s EXCEPT !.log = TRUE]) /\ Edit([clone.tree EXCEPT !.log = TRUE])
       \/ Raise /\ NoEdit
    /\ Private

RebaseCommitPushAndOpenMR ==
    /\ R("commit_push_and_open_mr")
    /\ Publish(Failed(s), "comment_in_jira")
    /\ UNCHANGED <<jira, lists, task>>

(* Comments are best effort. *)
RebaseCommentInJira ==
    /\ R("comment_in_jira")
    /\ Goto("ended") /\ UNCHANGED s
    /\ Tell(IF Succeeded THEN "result" ELSE "error") \/ UNCHANGED jira
    /\ NoEdit /\ UNCHANGED <<gitlab, lists, task>>

RebaseStep ==
    /\ \/ CheckIfSibling \/ RebaseChangeJiraStatus \/ FindConsolidatedSiblings
       \/ RebaseForkAndPrepare \/ RunRebaseAgent \/ RunBuildAgent \/ RebaseUpdateRelease
       \/ RebaseStageChanges \/ RebaseRunLogAgent \/ RebaseCommitPushAndOpenMR
       \/ RebaseCommentInJira
    /\ UNCHANGED outside
=============================================================================
