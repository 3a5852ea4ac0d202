-------------------------- MODULE RebuildWorkflow ---------------------------
(* The steps of the rebuild agent: bump the release, write the changelog,      *)
(* publish.  The package is not built and the change may be empty.             *)
EXTENDS FixTask

U(name) == At("rebuild", name)

RebuildChangeJiraStatus ==
    /\ U("change_jira_status") /\ With("fork_and_prepare_dist_git", s) /\ NoEdit /\ Private

RebuildForkAndPrepare ==
    /\ U("fork_and_prepare_dist_git")
    /\ \/ With("update_release", s) /\ clone' = NewClone
       \/ Raise /\ NoEdit
    /\ Private

RebuildUpdateRelease ==
    /\ U("update_release")
    /\ \/ With("stage_changes", s) /\ Edit(Bumped)
       \/ Report /\ NoEdit
    /\ Private

RebuildStageChanges ==
    /\ U("stage_changes")
    /\ With(IF s.log THEN "commit_push_and_open_mr" ELSE "run_log_agent", s)
    /\ clone' = [clone EXCEPT !.index = clone.tree]
    /\ Private

RebuildRunLogAgent ==
    /\ U("run_log_agent")
    /\ \/ With("stage_changes", [s EXCEPT !.log = TRUE]) /\ Edit([clone.tree EXCEPT !.log = TRUE])
       \/ Raise /\ NoEdit
    /\ Private

RebuildCommitPushAndOpenMR ==
    /\ U("commit_push_and_open_mr")
    /\ Publish(Failed(s), "submit_consolidation_job")
    /\ UNCHANGED <<jira, lists, task>>

(* Best effort, and only for a merge request this attempt created. *)
RebuildSubmitConsolidationJob ==
    /\ U("submit_consolidation_job")
    /\ With("comment_in_jira", s)
    /\ lists' \in {lists} \cup
          (IF s.url /\ Succeeded /\ s.new THEN {[lists EXCEPT !.job = TRUE]} ELSE {})
    /\ NoEdit /\ UNCHANGED <<gitlab, jira, task>>

RebuildCommentInJira ==
    /\ U("comment_in_jira")
    /\ Goto("ended") /\ UNCHANGED s
    /\ Tell(IF Succeeded THEN "result" ELSE "error") \/ UNCHANGED jira
    /\ NoEdit /\ UNCHANGED <<gitlab, lists, task>>

RebuildStep ==
    /\ \/ RebuildChangeJiraStatus \/ RebuildForkAndPrepare \/ RebuildUpdateRelease
       \/ RebuildStageChanges \/ RebuildRunLogAgent \/ RebuildCommitPushAndOpenMR
       \/ RebuildSubmitConsolidationJob \/ RebuildCommentInJira
    /\ UNCHANGED outside
=============================================================================
