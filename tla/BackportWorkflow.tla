-------------------------- MODULE BackportWorkflow --------------------------
(* The steps of the backport agent.  A Y-stream CVE with a shipped Z-stream    *)
(* fix first tries to inherit that fix; any failure before the commit is       *)
(* published falls back to the agent's own backport, a failure after it is     *)
(* resumed from a checkpoint in the task.  A build that fails is repaired in   *)
(* place (cherry-pick workflow) or the backport starts over (git am).          *)
EXTENDS FixTask

B(name) == At("backport", name)

ChangeJiraStatus ==
    /\ B("change_jira_status")
    /\ Goto(IF s.checkpoint # NoCommit THEN "resume_inherited_publication"
                                        ELSE "fork_and_prepare_dist_git")
    /\ UNCHANGED s /\ NoEdit /\ Private

(* The checkpoint holds everything publication needs; it is only resumed when  *)
(* the branch is seen to hold its commit.                                      *)
Restored == [s EXCEPT !.mode = "resume", !.log = TRUE, !.result = "ok"]

ResumeInheritedPublication ==
    /\ B("resume_inherited_publication")
    /\ clone' = [clone EXCEPT !.commit = s.checkpoint]
    /\ \/ gitlab.branch = s.checkpoint /\ With("open_inherited_mr", [Restored EXCEPT !.pushed = TRUE])
       \/ With("comment_in_jira", Failed(Restored))
    /\ Private

CanInherit == ~s.disabled /\ setup.candidate

ForkAndPrepare ==
    /\ B("fork_and_prepare_dist_git")
    /\ \/ /\ With(IF CanInherit THEN "evaluate_inherit_source" ELSE "prepare_normal_backport",
                  [s EXCEPT !.cherry = FALSE, !.incremental = 0, !.bumped = FALSE,
                            !.inherit = FALSE, !.builds = 0, !.pushed = FALSE,
                            !.result = "none", !.log = FALSE])
          /\ clone' = NewClone
       \/ Raise /\ NoEdit
    /\ Private

PrepareNormalBackport ==
    /\ B("prepare_normal_backport")
    /\ (With("run_backport_agent", s) \/ Raise) /\ NoEdit /\ Private

-----------------------------------------------------------------------------
(* Inheritance. *)

(* _disable_ystream_inheritance: in the workflow and in the task's metadata.   *)
Disabled(state)   == [state EXCEPT !.disabled = TRUE, !.checkpoint = NoCommit]
DisabledTask      == [task EXCEPT !.disabled = TRUE, !.checkpoint = NoCommit]
Forgotten(state) ==
    [state EXCEPT !.inherit = FALSE, !.builds = 0, !.pushed = FALSE,
                  !.result = "none", !.log = FALSE]

(* cleanup_inherit_attempt and handle_inherit_cleanup_failure: the clone is    *)
(* reset, or made anew, once for another try, then for a normal backport.      *)
CleanUp(state, t) ==
    \/ /\ With("prepare_normal_backport", Disabled(Forgotten(state)))
       /\ task' = DisabledTask
       /\ clone' = NewClone
    \/ /\ ~state.disabled /\ ~state.retried
       /\ With("fork_and_prepare_dist_git", [state EXCEPT !.retried = TRUE])
       /\ task' = t /\ NoEdit
    \/ /\ state.disabled \/ state.retried
       /\ With("fork_and_prepare_dist_git", Disabled(state))
       /\ task' = DisabledTask /\ NoEdit
    \/ With("raised", state) /\ task' = t /\ NoEdit
Abandon     == CleanUp(Disabled(s), DisabledTask) /\ UNCHANGED <<gitlab, jira, lists>>
TryNormally == CleanUp(s, task) /\ UNCHANGED <<gitlab, jira, lists>>

Inherited == [change |-> "inherited", verdict |-> "untested", bumps |-> 1, log |-> TRUE]

(* The change is applied and adapted, the release bumped, a changelog entry    *)
(* added; it may fail after any of these.                                      *)
EvaluateInheritSource ==
    /\ B("evaluate_inherit_source")
    /\ \/ /\ With("stage_changes", [s EXCEPT !.inherit = TRUE, !.log = TRUE, !.result = "ok",
                                             !.builds = MaxBuildAttempts])
          /\ Edit(Inherited) /\ Private
       \* AlreadyInheritedError: the task is not repeated
       \/ With("comment_in_jira", [Failed(s) EXCEPT !.mode = "none"]) /\ NoEdit /\ Private
       \* ImmutablePatchError, InheritedPatchApplyError
       \/ Abandon
       \/ TryNormally

CommitInheritedChange ==
    /\ B("commit_inherited_change")
    /\ \/ /\ With("validate_inherited_build", s)
          /\ clone' = [clone EXCEPT !.commit = clone.index] /\ Private
       \/ TryNormally

(* Only a green build validates; everything else uses up an attempt.  The      *)
(* scratch branch of Konflux is not the update branch.                         *)
ValidateInheritedBuild ==
    /\ B("validate_inherited_build")
    /\ \/ LET green == [clone.commit EXCEPT !.verdict = "green"]
          IN  /\ With("push_inherited_change", [s EXCEPT !.checkpoint = green])
              /\ clone' = [clone EXCEPT !.commit = green] /\ Private
       \/ /\ s.builds > 1
          /\ With("validate_inherited_build", [s EXCEPT !.builds = @ - 1])
          /\ NoEdit /\ Private
       \/ s.builds <= 1 /\ TryNormally
       \/ setup.konflux /\ Raise /\ NoEdit /\ Private

(* Mutant: the checkpoint is only kept for a push known to have worked. *)
PushThenCheckpoint ==
    /\ B("push_inherited_change")
    /\ LET resuming == [s EXCEPT !.mode = "resume"]
       IN  \/ /\ With("open_inherited_mr", [resuming EXCEPT !.pushed = TRUE])
              /\ Pushed(TRUE) /\ task' = [task EXCEPT !.checkpoint = s.checkpoint]
           \/ With("comment_in_jira", Failed(resuming)) /\ Pushed(FALSE) /\ UNCHANGED task
    /\ NoEdit /\ UNCHANGED <<jira, lists>>

(* The checkpoint is in the metadata before the push, whose error is           *)
(* reconciled with the head of the remote branch.                              *)
PushInheritedChange ==
    /\ B("push_inherited_change")
    /\ task' = [task EXCEPT !.checkpoint = s.checkpoint]
    /\ LET resuming == [s EXCEPT !.mode = "resume"]
       IN  \/ /\ With("open_inherited_mr", [resuming EXCEPT !.pushed = TRUE])
              /\ Pushed(TRUE)
           \/ With("comment_in_jira", Failed(resuming)) /\ Pushed(FALSE)
    /\ NoEdit /\ UNCHANGED <<jira, lists>>

OpenInheritedMR ==
    /\ B("open_inherited_mr")
    /\ \/ /\ With("submit_consolidation_job", [s EXCEPT !.url = TRUE, !.new = ~gitlab.mr])
          /\ gitlab' = Opened
       \/ /\ With("submit_consolidation_job", [Failed(s) EXCEPT !.mode = "resume"])
          /\ gitlab' \in {gitlab, Opened}
    /\ NoEdit /\ UNCHANGED <<jira, lists, task>>

-----------------------------------------------------------------------------
(* The agent's own backport. *)

(* What the agent leaves in the tree has not been built yet; it may report     *)
(* success without an SRPM.                                                    *)
Patched == [clone.tree EXCEPT !.change = "fix", !.verdict = "untested"]

RunBackportAgent ==
    /\ B("run_backport_agent")
    /\ \/ /\ \E result \in {"ok", "no_srpm"}, cherry \in BOOLEAN :
                With("update_release", [s EXCEPT !.result = result, !.cherry = cherry])
          /\ Edit(Patched)
       \/ (Report \/ Raise) /\ NoEdit
    /\ Private

StopFixing == Report

(* One more repair; without a candidate fix nothing is rebuilt. *)
FixBuildError ==
    /\ B("fix_build_error")
    /\ LET fixing == [s EXCEPT !.incremental = @ + 1]
       IN  IF s.incremental >= MaxIncrementalFixes THEN StopFixing /\ NoEdit
           ELSE \/ With("fork_and_prepare_dist_git", s) /\ NoEdit  \* upstream clone is gone
                \/ /\ \E result \in {"ok", "no_srpm"} :
                         With("update_release", [fixing EXCEPT !.result = result])
                   /\ Edit(Patched)
                \/ /\ With(IF fixing.incremental < MaxIncrementalFixes
                             THEN "fix_build_error" ELSE "comment_in_jira", Failed(fixing))
                   /\ NoEdit
                \/ With("comment_in_jira", Failed(fixing)) /\ NoEdit  \* exception
    /\ Private

UpdateRelease ==
    /\ B("update_release")
    /\ \/ s.bumped /\ With("stage_changes", s) /\ NoEdit
       \/ ~s.bumped /\ With("stage_changes", [s EXCEPT !.bumped = TRUE]) /\ Edit(Bumped)
       \/ ~s.bumped /\ Report /\ NoEdit
    /\ Private

StageChanges ==
    /\ B("stage_changes")
    /\ \/ /\ With(IF s.inherit THEN "commit_inherited_change"
                  ELSE IF ~s.log THEN "run_log_agent"
                  ELSE IF setup.modular THEN "commit_push_and_open_mr"
                  ELSE "commit_push_and_build", s)
          /\ clone' = [clone EXCEPT !.index = clone.tree] /\ Private
       \/ s.inherit /\ Abandon          \* InheritCandidateError
       \/ Report /\ NoEdit /\ Private

RunLogAgent ==
    /\ B("run_log_agent")
    /\ \/ /\ With("stage_changes", [s EXCEPT !.log = TRUE])
          /\ Edit([clone.tree EXCEPT !.log = TRUE])
       \/ Raise /\ NoEdit
    /\ Private

CommitPushAndOpenMR ==
    /\ B("commit_push_and_open_mr")
    /\ Publish(Failed(s), "comment_in_jira")
    /\ UNCHANGED <<jira, lists, task>>

(* A green or timed-out build is pushed and its merge request opened; a failed *)
(* one uses up an attempt and goes back to the repair or to a fresh clone.     *)
Built(verdict) == [clone.index EXCEPT !.verdict = verdict]

PublishBuilt(verdict) ==
    LET built  == [s EXCEPT !.incremental = 0]
        pushed == [gitlab EXCEPT !.branch = Built(verdict)]
    IN  /\ clone' = [clone EXCEPT !.commit = Built(verdict)]
        /\ \/ /\ With("submit_consolidation_job", [built EXCEPT !.url = TRUE, !.new = ~gitlab.mr])
              /\ gitlab' = [pushed EXCEPT !.mr = TRUE]
           \/ /\ With("submit_consolidation_job", [Failed(built) EXCEPT !.url = FALSE])
              /\ gitlab' \in {gitlab, pushed, [pushed EXCEPT !.mr = TRUE]}

(* Mutant: a failed build does not count. *)
AfterFailedBuildUncounted ==
    IF s.cherry THEN With("fix_build_error", s) ELSE With("fork_and_prepare_dist_git", s)

AfterFailedBuild ==
    LET less == [s EXCEPT !.attempts = @ - 1]
    IN  IF less.attempts = 0 THEN With("comment_in_jira", Failed(less))
        ELSE IF ~s.cherry THEN With("fork_and_prepare_dist_git", less)
        ELSE IF s.incremental >= MaxIncrementalFixes THEN With("comment_in_jira", Failed(less))
        ELSE With("fix_build_error", less)

CommitPushAndBuild ==
    /\ B("commit_push_and_build")
    /\ \/ s.result = "no_srpm" /\ With("comment_in_jira", s) /\ NoEdit /\ UNCHANGED gitlab
       \/ s.result # "no_srpm" /\ \E verdict \in {"green", "timeout"} : PublishBuilt(verdict)
       \* no commit, no scratch branch, or no build system
       \/ s.result # "no_srpm" /\ Report /\ NoEdit /\ UNCHANGED gitlab
       \/ /\ s.result # "no_srpm" /\ AfterFailedBuild /\ UNCHANGED gitlab
          /\ clone' = [clone EXCEPT !.commit = clone.index]
    /\ UNCHANGED <<jira, lists, task>>

-----------------------------------------------------------------------------

(* Only a merge request this attempt created is announced to the consolidation *)
(* queue.  A malformed ymir.yaml is reported on the issue, which may raise.    *)
SubmitConsolidationJob ==
    /\ B("submit_consolidation_job")
    /\ LET announced == s.url /\ Succeeded /\ s.new /\ ~setup.modular
       IN  \/ /\ With("comment_in_jira", s) /\ UNCHANGED jira
              /\ lists' \in {lists} \cup (IF announced THEN {[lists EXCEPT !.job = TRUE]} ELSE {})
           \/ /\ announced /\ Tell("error") /\ With("comment_in_jira", s) /\ UNCHANGED lists
           \/ announced /\ setup.user /\ Raise /\ UNCHANGED <<jira, lists>>
    /\ NoEdit /\ UNCHANGED <<gitlab, task>>

(* A comment that fails repeats the attempt, unless the inherited commit is    *)
(* published or the result is final.                                           *)
CommentInJira ==
    /\ B("comment_in_jira")
    /\ LET what == IF Succeeded THEN "result" ELSE "error"
       IN  \/ Goto("ended") /\ Tell(what)
           \/ /\ what = "result" \/ setup.user
              /\ Goto(IF ~s.pushed /\ s.mode # "none" THEN "raised" ELSE "ended")
              /\ UNCHANGED jira
    /\ UNCHANGED s /\ NoEdit /\ UNCHANGED <<gitlab, lists, task>>

Inheritance ==
    \/ ResumeInheritedPublication \/ EvaluateInheritSource \/ CommitInheritedChange
    \/ ValidateInheritedBuild \/ PushInheritedChange \/ OpenInheritedMR

BackportStep ==
    /\ \/ Inheritance \/ ChangeJiraStatus \/ ForkAndPrepare \/ PrepareNormalBackport
       \/ RunBackportAgent \/ FixBuildError \/ UpdateRelease \/ StageChanges \/ RunLogAgent
       \/ CommitPushAndOpenMR \/ CommitPushAndBuild \/ SubmitConsolidationJob \/ CommentInJira
    /\ UNCHANGED outside
=============================================================================
