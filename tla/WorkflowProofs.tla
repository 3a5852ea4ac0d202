---------------------------- MODULE WorkflowProofs ----------------------------
(***************************************************************************)
(* Proofs about the workflows of the agents that work on an issue, for any *)
(* issues, deployments, retries, repairs and shutdowns: a fix is asked for *)
(* with reason and once, what is published is one whole and built update,  *)
(* and a reproduction claims only what is open for review.                 *)
(***************************************************************************)
EXTENDS AgentWorkflows, TLAPS

-----------------------------------------------------------------------------
(* The issue: what its triage and its reproduction may hold. *)
Labels     == TriageLabel \cup ReproducerLabel
TriageType ==
    [result : Fixes \cup {"none", "not_affected", "clarification", "analysis", "postponed", "error"},
     target : {"none", "stream", "zstream"}, exists : {"yes", "no", "unknown"},
     policy : {"manual", "automatic", "unknown"}, checked : {"no", "affected", "skipped"},
     root : {"unasked", "asked", "unknown"}, role : {"alone", "sibling", "waiting"},
     siblings : BOOLEAN, seen : SUBSET Labels]
TriageTypes ==
    /\ triageQueue \in Nat \cup {-1} /\ triaging \in Nat /\ stops \in Nat
    /\ t \in TriageType /\ labels \in SUBSET Labels
    /\ sent \in [fix : Nat, lists : SUBSET {"errors", "reported"}]

(* A triage task that can still ask for a fix. *)
Undecided == triageQueue # -1 \/ tstep \notin {"idle", "reproduce"}
Counted ==
    /\ triageQueue = -1 \/ tstep = "idle"
    /\ sent.fix <= stops + 1 /\ (Undecided => sent.fix <= stops)

(* The steps before a check was made, and those after the last one. *)
Early == {"read", "stamp", "check_cve_eligibility", "run_triage_analysis", "verify_rebase_author",
          "determine_target_branch"}
Late  == {"consolidate_rebuild_siblings", "consolidate_rebase_siblings", "comment_in_jira", "hold_sibling",
          "hold_primary", "label", "label_siblings", "dispatch", "reproduce"}

(* What the workflow's state says of the issue. *)
Checked ==
    /\ tstep \in Early => /\ t.target = "none" /\ t.exists = "unknown" /\ t.policy = "unknown"
                          /\ t.checked = "no" /\ t.root = "unasked"
    /\ t.result = "rebase" /\ tstep \notin {"verify_rebase_author", "raised"} => issue.trusted
    /\ t.checked = "affected" => issue.affected
    /\ tstep \in Late \cup {"verify_rebuild_buildroot"} /\ t.result \in Fixes /\ t.target # "none" /\ issue.cve
         => t.checked # "no"
    /\ t.exists # "unknown" => t.exists = IF issue.missing THEN "no" ELSE "yes"
    /\ t.policy # "unknown" => t.policy = IF issue.manual THEN "manual" ELSE "automatic"
    /\ t.exists = "no" /\ tstep # "raised" => t.policy # "unknown"
    /\ t.root = "asked" /\ t.result = "rebuild" => issue.ready

TriageInv == TriageTypes /\ Counted /\ Checked

(* What a reproduction may hold.  A result that leads to the label "created"  *)
(* needs an open merge request with the test; a machine is reserved only      *)
(* between the analysis and the clean-up.                                     *)
Flags == {"success", "adapted", "exists", "reason", "retry"}
ReproTypes ==
    /\ r \in [attempts : Nat, base : {"none"} \cup TestsBranch, result : SUBSET Flags, lints : Nat, raised : BOOLEAN]
    /\ tests \in [TestsBranch -> [open : BOOLEAN, ours : BOOLEAN]]
    /\ reserved \in BOOLEAN
Announced == \E b \in Open : tests[b].ours
Claimed   == rstep = "handle_results" /\ NeedsMR(r.result) => Announced
Machines  == rstep \in {"idle", "guard", "stage", "bootstrap", "over"} => ~reserved
ReproInv  == ReproTypes /\ Claimed /\ Machines

Reproductions == reproQueue \in SUBSET Nat

IssueInv == TriageInv /\ ReproInv /\ Reproductions

-----------------------------------------------------------------------------
(* A fix task: what its variables may be. *)
TreeType   == [change : {"none", "inherited", "fix"}, verdict : {"untested", "green", "timeout"}, bumps : Nat,
               log : BOOLEAN]
CommitType == TreeType \cup {NoCommit}
TaskType   == [attempts : Nat, checkpoint : CommitType, disabled : BOOLEAN]
StateType  ==
    [attempts : Int, incremental : Int, cherry : BOOLEAN, bumped : BOOLEAN, log : BOOLEAN,
     result : {"none", "ok", "no_srpm", "failed"}, inherit : BOOLEAN, builds : Int, retried : BOOLEAN,
     disabled : BOOLEAN, checkpoint : CommitType, mode : {"full", "none", "resume"}, pushed : BOOLEAN,
     url : BOOLEAN, new : BOOLEAN]
CloneType  == [tree : TreeType, index : TreeType, commit : CommitType]
FixTypes ==
    /\ setup.agent \in {"backport", "rebase", "rebuild"} /\ shutdowns \in Nat
    /\ queue \in TaskType \cup {NoPayload} /\ popped \in TaskType \cup {NoPayload} /\ task \in TaskType
    /\ s \in StateType /\ clone \in CloneType /\ gitlab \in [branch : CommitType, mr : BOOLEAN]
    /\ step # "idle" => queue = NoPayload

(* A whole update, and the verdict that allows to publish it. *)
Whole(tree) == tree.bumps = 1 /\ tree.log
Valid(tree) ==
    setup.agent # "rebuild" /\ ~setup.modular =>
        tree.verdict \in IF tree.change = "inherited" THEN {"green"} ELSE {"green", "timeout"}
Published == gitlab.branch # NoCommit => Whole(gitlab.branch) /\ Valid(gitlab.branch)

(* The tree of the agent's own backport, with the release bumped if the state *)
(* says so and an entry in the changelog if it says so; from the first change *)
(* on, after the bump, and when it is committed.                              *)
Changed   == {"fix_build_error", "update_release", "stage_changes", "run_log_agent", "commit_push_and_open_mr",
              "commit_push_and_build"}
Commits   == {"commit_push_and_open_mr", "commit_push_and_build"}
Ordinary  == {"prepare_normal_backport", "run_backport_agent"} \cup Changed
OwnBackport ==
    (step \in Ordinary \ {"stage_changes"} \/ (step = "stage_changes" /\ ~s.inherit)) =>
        /\ ~s.inherit /\ clone.tree.bumps = (IF s.bumped THEN 1 ELSE 0) /\ clone.tree.log = s.log
        /\ step \in Changed => clone.tree.change = "fix"
        /\ step \in Changed \ {"update_release"} => s.bumped
        /\ step \in Commits => clone.index = clone.tree /\ s.log
        /\ step = "commit_push_and_open_mr" => setup.modular

(* An inherited change on its way to the branch. *)
Bequest(tree) == tree.change = "inherited" /\ Whole(tree)
Inheriting ==
    /\ step \in {"evaluate_inherit_source", "commit_inherited_change", "validate_inherited_build"} => ~s.bumped
    /\ step = "stage_changes" /\ s.inherit => ~s.bumped /\ Bequest(clone.tree)
    /\ step = "commit_inherited_change" => Bequest(clone.index)
    /\ step = "validate_inherited_build" => Bequest(clone.commit)
    /\ step = "push_inherited_change" =>
         Bequest(clone.commit) /\ clone.commit.verdict = "green" /\ s.checkpoint = clone.commit
BackportFacts == setup.agent = "backport" => OwnBackport /\ Inheriting

(* A rebase is built before the release is bumped. *)
RebaseFacts ==
    setup.agent = "rebase" =>
        /\ step \in {"check_if_sibling", "change_jira_status", "find_consolidated_siblings",
                     "fork_and_prepare_dist_git", "run_rebase_agent", "run_build_agent", "update_release"} => ~s.log
        /\ step \in {"run_rebase_agent", "run_build_agent", "update_release"} =>
             clone.tree.bumps = 0 /\ ~clone.tree.log
        /\ step \in {"run_build_agent", "update_release", "stage_changes", "run_log_agent", "commit_push_and_open_mr"}
             => clone.tree.change = "fix"
        /\ step \in {"update_release", "stage_changes", "run_log_agent", "commit_push_and_open_mr"} /\ ~setup.modular
             => clone.tree.verdict \in {"green", "timeout"}
        /\ step \in {"stage_changes", "run_log_agent", "commit_push_and_open_mr"} =>
             clone.tree.bumps = 1 /\ clone.tree.log = s.log
        /\ step = "commit_push_and_open_mr" => clone.index = clone.tree /\ s.log

(* A rebuild is not built at all. *)
RebuildFacts ==
    setup.agent = "rebuild" =>
        /\ step \in {"change_jira_status", "fork_and_prepare_dist_git", "update_release"} => ~s.log
        /\ step = "update_release" => clone.tree.bumps = 0 /\ ~clone.tree.log
        /\ step \in {"stage_changes", "run_log_agent", "commit_push_and_open_mr"} =>
             clone.tree.bumps = 1 /\ clone.tree.log = s.log /\ clone.tree.change = "none"
        /\ step = "commit_push_and_open_mr" => clone.index = clone.tree /\ s.log
        /\ step = "update_release" => clone.tree.change = "none"

(* Once an inherited commit is on the branch, and no shutdown pushes an older *)
(* payload, every attempt has its checkpoint and only opens the merge request. *)
Resuming == {"change_jira_status", "resume_inherited_publication", "open_inherited_mr", "submit_consolidation_job",
             "comment_in_jira", "raised", "ended"}
Kept ==
    gitlab.branch.change = "inherited" /\ shutdowns = 0 =>
        /\ setup.agent = "backport"
        /\ queue # NoPayload => queue.checkpoint # NoCommit
        /\ step # "idle" => step \in Resuming /\ s.checkpoint # NoCommit /\ task.checkpoint # NoCommit

FixInv == FixTypes /\ Published /\ BackportFacts /\ RebaseFacts /\ RebuildFacts /\ Kept

-----------------------------------------------------------------------------
(* A step of triage that only thinks. *)
LEMMA Thinks ==
    ASSUME TriageInv, InMemory, tstep \notin {"idle", "reproduce"}, tstep' \notin {"idle", "reproduce"},
           t' \in TriageType, Checked'
    PROVE  TriageInv'
BY DEF TriageInv, TriageTypes, Counted, Undecided, InMemory

(* The steps up to the decision about the target branch. *)
LEMMA AnalysisKeeps ==
    ASSUME TriageInv, CheckCVEEligibility \/ RunTriageAnalysis \/ AnalysisRaises \/ VerifyRebaseAuthor
    PROVE  TriageInv'
<1>1. t \in TriageType /\ Checked
  BY DEF TriageInv, TriageTypes
<1>2. CASE CheckCVEEligibility
  <2>1. t' \in TriageType /\ Checked'
    BY <1>1, <1>2 DEF CheckCVEEligibility, TriageRaises, Triaging, Go, Resolve, InMemory, TriageType, Checked, Early, Late,
                      Fixes
  <2> QED
    BY <1>2, <2>1, Thinks DEF CheckCVEEligibility, TriageRaises, Triaging, Go
<1>3. CASE RunTriageAnalysis
  <2> DEFINE Answered(role, res) ==
               /\ t' = [Resolve(res) EXCEPT !.role = role]
               /\ \/ res = "rebase" /\ tstep' = "verify_rebase_author"
                  \/ res \in {"backport", "rebuild", "postponed"} /\ tstep' = "determine_target_branch"
                  \/ res \notin Fixes /\ tstep' \in {"comment_in_jira", "label"}
             results == Fixes \cup {"clarification", "analysis", "not_affected", "postponed", "error"}
  <2>1. PICK role \in {"alone", "waiting"}, res \in results : Answered(role, res)
    <3>1. PICK role \in {"alone", "waiting"} :
            \/ Go("verify_rebase_author", [Resolve("rebase") EXCEPT !.role = role])
            \/ \E res \in {"backport", "rebuild"} :
                  Go("determine_target_branch", [Resolve(res) EXCEPT !.role = role])
            \/ \E res \in {"clarification", "analysis", "not_affected"} :
                  Go("comment_in_jira", [Resolve(res) EXCEPT !.role = role])
            \/ Go(IF issue.cve THEN "determine_target_branch" ELSE "comment_in_jira",
                  [Resolve("postponed") EXCEPT !.role = role])
            \/ Go("label", [Resolve("error") EXCEPT !.role = role])
      BY <1>3 DEF RunTriageAnalysis
    <3>2. CASE Go("verify_rebase_author", [Resolve("rebase") EXCEPT !.role = role])
      <4>1. Answered(role, "rebase")
        BY <3>2 DEF Go
      <4> QED
        BY <4>1 DEF Fixes
    <3>3. ASSUME NEW res \in {"backport", "rebuild"},
                 Go("determine_target_branch", [Resolve(res) EXCEPT !.role = role])
          PROVE  \E role2 \in {"alone", "waiting"}, res2 \in results : Answered(role2, res2)
      <4>1. Answered(role, res)
        BY <3>3 DEF Go
      <4> QED
        BY <4>1 DEF Fixes
    <3>4. ASSUME NEW res \in {"clarification", "analysis", "not_affected"},
                 Go("comment_in_jira", [Resolve(res) EXCEPT !.role = role])
          PROVE  \E role2 \in {"alone", "waiting"}, res2 \in results : Answered(role2, res2)
      <4>1. Answered(role, res)
        BY <3>4 DEF Go, Fixes
      <4> QED
        BY <4>1
    <3>5. CASE Go(IF issue.cve THEN "determine_target_branch" ELSE "comment_in_jira",
                  [Resolve("postponed") EXCEPT !.role = role])
      <4>1. Answered(role, "postponed")
        BY <3>5 DEF Go, Fixes
      <4> QED
        BY <4>1
    <3>6. CASE Go("label", [Resolve("error") EXCEPT !.role = role])
      <4>1. Answered(role, "error")
        BY <3>6 DEF Go, Fixes
      <4> QED
        BY <4>1
    <3> QED
      BY <3>1, <3>2, <3>3, <3>4, <3>5, <3>6
  <2>2. /\ t' \in TriageType /\ t'.result = res /\ t'.target = t.target /\ t'.exists = t.exists
        /\ t'.policy = t.policy /\ t'.checked = t.checked /\ t'.root = t.root
    <3>1. PICK answer : answer = [t EXCEPT !.result = res]
      OBVIOUS
    <3>2. t' = [answer EXCEPT !.role = role]
      BY <2>1, <3>1 DEF Resolve
    <3>3. res \in Fixes \cup {"none", "not_affected", "clarification", "analysis", "postponed", "error"}
      BY ONLY res \in results
    <3>4. /\ answer \in TriageType /\ answer.result = res /\ answer.target = t.target /\ answer.exists = t.exists
          /\ answer.policy = t.policy /\ answer.checked = t.checked /\ answer.root = t.root
      <4>1. t \in TriageType
        BY <1>1
      <4> QED
        BY ONLY <3>1, <3>3, <4>1 DEF TriageType
    <3>5. /\ t' \in TriageType /\ t'.result = answer.result /\ t'.target = answer.target /\ t'.exists = answer.exists
          /\ t'.policy = answer.policy /\ t'.checked = answer.checked /\ t'.root = answer.root
      BY ONLY <3>2, <3>4, role \in {"alone", "waiting"} DEF TriageType
    <3> QED
      BY <3>4, <3>5
  <2>3. tstep = "run_triage_analysis" /\ issue' = issue
    BY <1>3 DEF RunTriageAnalysis, Triaging, InMemory
  <2>4. Checked'
    BY <1>1, <2>1, <2>2, <2>3 DEF Checked, Early, Late, Fixes
  <2> QED
    BY <1>3, <2>1, <2>2, <2>3, <2>4, Thinks DEF RunTriageAnalysis
<1>4. CASE AnalysisRaises
  <2>1. t' \in TriageType /\ Checked'
    BY <1>1, <1>4 DEF AnalysisRaises, TriageRaises, Triaging, Go, InMemory, TriageType, Checked, Early, Late, Fixes
  <2> QED
    BY <1>4, <2>1, Thinks DEF AnalysisRaises, TriageRaises, Triaging, Go
<1>5. CASE VerifyRebaseAuthor
  <2>1. t' \in TriageType /\ Checked'
    BY <1>1, <1>5 DEF VerifyRebaseAuthor, TriageRaises, Triaging, Go, Resolve, InMemory, TriageType, Checked, Early, Late,
                      Fixes
  <2> QED
    BY <1>5, <2>1, Thinks DEF VerifyRebaseAuthor, TriageRaises, Triaging, Go
<1> QED
  BY <1>2, <1>3, <1>4, <1>5

(* What is recorded of the target branch is true of the issue. *)
LEMMA Records ==
    ASSUME NEW state \in TriageType, NEW found \in Existence(state),
           state.exists # "unknown" => state.exists = (IF issue.missing THEN "no" ELSE "yes"),
           state.policy # "unknown" => state.policy = (IF issue.manual THEN "manual" ELSE "automatic")
    PROVE  /\ found \in TriageType /\ Policy(found) \in TriageType
           /\ found.exists # "unknown" => found.exists = (IF issue.missing THEN "no" ELSE "yes")
           /\ found.policy = state.policy /\ found.checked = state.checked /\ found.root = state.root
           /\ found.result = state.result /\ found.target = state.target
           /\ Policy(found).exists = found.exists /\ Policy(found).checked = found.checked
           /\ Policy(found).root = found.root /\ Policy(found).result = found.result
           /\ Policy(found).target = found.target
           /\ Policy(found).policy # "unknown" => Policy(found).policy = (IF issue.manual THEN "manual" ELSE "automatic")
           /\ found.exists = "no" => Policy(found).policy # "unknown"
<1>1. found = state \/ found = [state EXCEPT !.exists = IF issue.missing THEN "no" ELSE "yes"]
  BY DEF Existence
<1>2. /\ found \in TriageType /\ found.policy = state.policy /\ found.checked = state.checked /\ found.root = state.root
      /\ found.result = state.result /\ found.target = state.target
      /\ found.exists # "unknown" => found.exists = (IF issue.missing THEN "no" ELSE "yes")
  BY <1>1 DEF TriageType
<1>3. PICK known : known = Policy(found)
  OBVIOUS
<1>4. \/ known = found /\ (found.exists = "no" => found.policy # "unknown")
      \/ known = [found EXCEPT !.policy = IF issue.manual THEN "manual" ELSE "automatic"]
  BY <1>3 DEF Policy
<1>5. /\ known \in TriageType /\ known.exists = found.exists /\ known.checked = found.checked /\ known.root = found.root
      /\ known.result = found.result /\ known.target = found.target
      /\ known.policy # "unknown" => known.policy = (IF issue.manual THEN "manual" ELSE "automatic")
      /\ found.exists = "no" => known.policy # "unknown"
  BY <1>2, <1>4 DEF TriageType
<1> QED
  BY <1>2, <1>3, <1>5

(* The checks that depend on the branch. *)
LEMMA BranchChecksKeep ==
    ASSUME TriageInv, DetermineTargetBranch \/ CheckCVEApplicability \/ VerifyRebuildBuildroot
    PROVE  TriageInv'
<1>1. t \in TriageType /\ Checked
  BY DEF TriageInv, TriageTypes
<1> DEFINE after == {"consolidate_rebuild_siblings", "consolidate_rebase_siblings", "comment_in_jira"}
<1>2. \A state : AfterApplicability(state) \in after
  BY DEF AfterApplicability
<1>3. CASE DetermineTargetBranch
  <2>1. tstep = "determine_target_branch" /\ issue' = issue
    BY <1>3 DEF DetermineTargetBranch, Triaging, InMemory
  <2>2. CASE TriageRaises
    <3>1. Checked' /\ t' \in TriageType
      BY <1>1, <2>1, <2>2 DEF TriageRaises, Go, Checked, Early, Late
    <3> QED
      BY <1>3, <2>1, <2>2, <3>1, Thinks DEF TriageRaises, Go, DetermineTargetBranch
  <2>3. ASSUME NEW target \in {"none", "stream", "zstream"}, NEW found \in Existence([t EXCEPT !.target = target]),
               \/ Go(IF issue.cve THEN "check_cve_applicability" ELSE AfterApplicability(found), Policy(found))
               \/ Go("raised", found)
        PROVE  TriageInv'
    <3>1. PICK state : state = [t EXCEPT !.target = target]
      OBVIOUS
    <3>2. /\ state \in TriageType /\ state.exists = t.exists /\ state.policy = t.policy /\ state.checked = t.checked
          /\ state.root = t.root /\ state.result = t.result /\ state.target = target
      BY <1>1, <3>1 DEF TriageType
    <3>3. found \in Existence(state)
      BY <2>3, <3>1
    <3>4. PICK known : known = Policy(found)
      OBVIOUS
    <3>5. /\ state.exists # "unknown" => state.exists = (IF issue.missing THEN "no" ELSE "yes")
          /\ state.policy # "unknown" => state.policy = (IF issue.manual THEN "manual" ELSE "automatic")
      BY <1>1, <3>2 DEF Checked
    <3>6. /\ found \in TriageType /\ known \in TriageType
          /\ found.exists # "unknown" => found.exists = (IF issue.missing THEN "no" ELSE "yes")
          /\ found.policy = state.policy /\ found.checked = state.checked /\ found.root = state.root
          /\ found.result = state.result
          /\ known.exists = found.exists /\ known.checked = found.checked
          /\ known.root = found.root /\ known.result = found.result
          /\ known.policy # "unknown" => known.policy = (IF issue.manual THEN "manual" ELSE "automatic")
          /\ found.exists = "no" => known.policy # "unknown"
      BY <3>2, <3>3, <3>4, <3>5, Records
    <3>7. \/ /\ t' = known
             /\ \/ issue.cve /\ tstep' = "check_cve_applicability"
                \/ ~issue.cve /\ tstep' \in after
          \/ t' = found /\ tstep' = "raised"
      BY <1>2, <2>3, <3>4 DEF Go
    <3>8. Checked'
      BY <1>1, <2>1, <3>2, <3>6, <3>7 DEF Checked, Early, Late
    <3>9. t' \in TriageType /\ tstep' \notin {"idle", "reproduce"}
      BY <3>6, <3>7
    <3> QED
      BY <1>3, <2>1, <3>8, <3>9, Thinks DEF DetermineTargetBranch
  <2> QED
    BY <1>3, <2>2, <2>3 DEF DetermineTargetBranch
<1>4. CASE CheckCVEApplicability
  <2>1. tstep = "check_cve_applicability" /\ issue' = issue
    BY <1>4 DEF CheckCVEApplicability, Triaging, InMemory
  <2>2. CASE t.target = "none" /\ Go("comment_in_jira", t)
    <3>1. Checked' /\ t' \in TriageType
      BY <1>1, <2>1, <2>2 DEF Go, Checked, Early, Late
    <3> QED
      BY <1>4, <2>1, <2>2, <3>1, Thinks DEF Go, CheckCVEApplicability
  <2> DEFINE next == IF t.result = "rebuild" THEN "verify_rebuild_buildroot" ELSE AfterApplicability(t)
  <2>3. ASSUME NEW found \in IF t.exists = "unknown" THEN Existence(t) ELSE {t},
               \/ Go("raised", found)
               \/ Go(AfterApplicability(t), [Policy(found) EXCEPT !.checked = "skipped"])
               \/ Go(next, [Policy(found) EXCEPT !.checked = "skipped"])
               \/ issue.affected /\ Go(next, [Policy(found) EXCEPT !.checked = "affected"])
               \/ Go("comment_in_jira", [Policy(found) EXCEPT !.result = "not_affected"])
        PROVE  TriageInv'
    <3>1. found \in Existence(t)
      BY <2>3 DEF Existence
    <3>2. PICK known : known = Policy(found)
      OBVIOUS
    <3>3. /\ t.exists # "unknown" => t.exists = (IF issue.missing THEN "no" ELSE "yes")
          /\ t.policy # "unknown" => t.policy = (IF issue.manual THEN "manual" ELSE "automatic")
      BY <1>1 DEF Checked
    <3>4. /\ found \in TriageType /\ known \in TriageType
          /\ found.exists # "unknown" => found.exists = (IF issue.missing THEN "no" ELSE "yes")
          /\ found.policy = t.policy /\ found.checked = t.checked /\ found.root = t.root
          /\ found.result = t.result
          /\ known.exists = found.exists /\ known.checked = found.checked
          /\ known.root = found.root /\ known.result = found.result
          /\ known.policy # "unknown" => known.policy = (IF issue.manual THEN "manual" ELSE "automatic")
          /\ found.exists = "no" => known.policy # "unknown"
      BY <1>1, <3>1, <3>2, <3>3, Records
    <3>5. PICK skipped : skipped = [known EXCEPT !.checked = "skipped"]
      OBVIOUS
    <3>6. PICK affected : affected = [known EXCEPT !.checked = "affected"]
      OBVIOUS
    <3>7. PICK spared : spared = [known EXCEPT !.result = "not_affected"]
      OBVIOUS
    <3>8. /\ skipped \in TriageType /\ skipped.checked = "skipped" /\ skipped.exists = known.exists
          /\ skipped.root = known.root /\ skipped.result = known.result /\ skipped.policy = known.policy
      BY <3>4, <3>5 DEF TriageType
    <3>9. /\ affected \in TriageType /\ affected.checked = "affected" /\ affected.exists = known.exists
          /\ affected.root = known.root /\ affected.result = known.result /\ affected.policy = known.policy
      BY <3>4, <3>6 DEF TriageType
    <3>10. /\ spared \in TriageType /\ spared.checked = known.checked /\ spared.exists = known.exists
           /\ spared.root = known.root /\ spared.result = "not_affected" /\ spared.policy = known.policy
      BY <3>4, <3>7 DEF TriageType
    <3>11. next \in after \cup {"verify_rebuild_buildroot"}
      BY <1>2
    <3>12. \/ t' = found /\ tstep' = "raised"
           \/ /\ tstep' \in after \cup {"verify_rebuild_buildroot"}
              /\ t' = skipped \/ (t' = affected /\ issue.affected) \/ t' = spared
      BY <1>2, <2>3, <3>2, <3>5, <3>6, <3>7, <3>11 DEF Go
    <3>13. Checked'
      BY <1>1, <2>1, <3>4, <3>8, <3>9, <3>10, <3>12 DEF Checked, Early, Late, Fixes
    <3>14. t' \in TriageType /\ tstep' \notin {"idle", "reproduce"}
      BY <3>4, <3>8, <3>9, <3>10, <3>12
    <3> QED
      BY <1>4, <2>1, <3>13, <3>14, Thinks DEF CheckCVEApplicability
  <2> QED
    BY <1>4, <2>2, <2>3 DEF CheckCVEApplicability
<1>5. CASE VerifyRebuildBuildroot
  <2>1. tstep = "verify_rebuild_buildroot" /\ issue' = issue
    BY <1>5 DEF VerifyRebuildBuildroot, Triaging, InMemory
  <2>2. PICK unknown : unknown = [t EXCEPT !.root = "unknown"]
    OBVIOUS
  <2>3. PICK asked : asked = [t EXCEPT !.root = "asked"]
    OBVIOUS
  <2>4. PICK late : late = [[t EXCEPT !.result = "postponed"] EXCEPT !.root = "asked"]
    OBVIOUS
  <2>5. /\ unknown \in TriageType /\ unknown.checked = t.checked /\ unknown.exists = t.exists /\ unknown.root = "unknown"
        /\ unknown.result = t.result /\ unknown.policy = t.policy /\ unknown.target = t.target
    BY <1>1, <2>2 DEF TriageType
  <2>6. /\ asked \in TriageType /\ asked.checked = t.checked /\ asked.exists = t.exists /\ asked.root = "asked"
        /\ asked.result = t.result /\ asked.policy = t.policy /\ asked.target = t.target
    BY <1>1, <2>3 DEF TriageType
  <2>7. /\ late \in TriageType /\ late.checked = t.checked /\ late.exists = t.exists /\ late.result = "postponed"
        /\ late.policy = t.policy /\ late.target = t.target
    BY <1>1, <2>4 DEF TriageType
  <2>8. \/ tstep' = "consolidate_rebuild_siblings" /\ (t' = unknown \/ (t' = asked /\ issue.ready))
        \/ tstep' = "comment_in_jira" /\ t' = late
        \/ tstep' = "raised" /\ t' = t
    BY <1>5, <2>2, <2>3, <2>4 DEF VerifyRebuildBuildroot, TriageRaises, Go, Resolve
  <2>9. Checked'
    BY <1>1, <2>1, <2>5, <2>6, <2>7, <2>8 DEF Checked, Early, Late, Fixes
  <2> QED
    BY <1>1, <1>5, <2>1, <2>5, <2>6, <2>7, <2>8, <2>9, Thinks DEF VerifyRebuildBuildroot
<1> QED
  BY <1>3, <1>4, <1>5

(* The siblings of the issue, the comment, and the hold. *)
LEMMA SiblingsKeep ==
    ASSUME TriageInv, ConsolidateRebuildSiblings \/ ConsolidateRebaseSiblings \/ CommentResult \/ HoldSibling \/ HoldPrimary
                      \/ LabelSiblings
    PROVE  TriageInv'
<1>1. t \in TriageType /\ Checked /\ labels \in SUBSET Labels
  BY DEF TriageInv, TriageTypes
<1>2. tstep \in Late \ {"reproduce", "dispatch"} /\ tstep' \in Late \cup {"raised"} /\ tstep' # "reproduce"
  BY DEF ConsolidateRebuildSiblings, ConsolidateRebaseSiblings, CommentResult, HoldSibling, HoldPrimary, LabelSiblings,
         TriageRaises, Triaging, Go, Late
<1>3. UNCHANGED <<issue, triageQueue, triaging, sent, stops>>
  BY DEF ConsolidateRebuildSiblings, ConsolidateRebaseSiblings, CommentResult, HoldSibling, HoldPrimary, LabelSiblings,
         InMemory
<1>4. /\ t' \in TriageType /\ t'.checked = t.checked /\ t'.exists = t.exists /\ t'.root = t.root
      /\ t'.result = t.result /\ t'.policy = t.policy /\ t'.target = t.target
  <2>1. \/ t' = t
        \/ \E some \in BOOLEAN : t' = [t EXCEPT !.siblings = some]
        \/ t' = [t EXCEPT !.role = "sibling"]
        \/ t' = [t EXCEPT !.role = "waiting"]
    BY DEF ConsolidateRebuildSiblings, ConsolidateRebaseSiblings, CommentResult, HoldSibling, HoldPrimary, LabelSiblings,
           TriageRaises, Go
  <2> QED
    BY <1>1, <2>1 DEF TriageType
<1>5. labels' \in SUBSET Labels
  BY <1>1 DEF ConsolidateRebuildSiblings, ConsolidateRebaseSiblings, CommentResult, HoldSibling, HoldPrimary,
              LabelSiblings, InMemory, Relabel, Labels, TriageLabel
<1>6. Checked'
  BY <1>1, <1>2, <1>3, <1>4 DEF Checked, Early, Late
<1>7. Counted'
  BY <1>2, <1>3 DEF TriageInv, Counted, Undecided, Late
<1> QED
  BY <1>3, <1>4, <1>5, <1>6, <1>7 DEF TriageInv, TriageTypes

(* The state of a workflow that has not begun knows nothing of the issue. *)
LEMMA FreshState ==
    FreshTriage \in TriageType /\ FreshTriage.result = "none" /\ FreshTriage.checked = "no" /\ FreshTriage.exists = "unknown"
    /\ FreshTriage.policy = "unknown" /\ FreshTriage.root = "unasked" /\ FreshTriage.target = "none"
BY DEF FreshTriage, TriageType

(* Whatever ends a triage task leaves the workflow as new. *)
LEMMA OverKeeps ==
    ASSUME TriageInv, TriageOver, labels' \in SUBSET Labels, sent' \in [fix : Nat, lists : SUBSET {"errors", "reported"}],
           sent'.fix = sent.fix, tstep # "idle",
           triageQueue' = triageQueue \/ (Undecided /\ triageQueue' \in Nat)
    PROVE  TriageInv'
<1>1. tstep' = "idle" /\ t' = FreshTriage /\ triaging' = 0 /\ UNCHANGED <<issue, stops>>
  BY DEF TriageOver, Go
<1>2. Checked'
  BY <1>1, FreshState DEF Checked, Early, Late, Fixes
<1>3. triageQueue = -1
  BY DEF TriageInv, Counted
<1>4. Counted'
  BY <1>1, <1>3 DEF TriageInv, TriageTypes, Counted, Undecided
<1>5. TriageTypes'
  BY <1>1, <1>3, FreshState DEF TriageInv, TriageTypes
<1> QED
  BY <1>2, <1>4, <1>5 DEF TriageInv

(* A task that is tried again, or that fails for good. *)
LEMMA RetryKeeps ==
    ASSUME TriageInv, NEW now \in SUBSET Labels, RetryTriage(now), tstep \notin {"idle", "reproduce"}
    PROVE  TriageInv'
<1>1. /\ TriageOver /\ triaging \in Nat
      /\ triageQueue' = triageQueue \/ triageQueue' = triaging + 1
      /\ labels' \in {now, (now \ {"in_progress", "manual"}) \cup {"errored"}}
      /\ sent' = sent \/ sent' = [sent EXCEPT !.lists = sent.lists \cup {"errors"}]
  BY DEF RetryTriage, TriageInv, TriageTypes
<1>2. labels' \in SUBSET Labels
  BY <1>1 DEF Labels, TriageLabel
<1>3. sent' \in [fix : Nat, lists : SUBSET {"errors", "reported"}] /\ sent'.fix = sent.fix
  BY <1>1 DEF TriageInv, TriageTypes
<1>4. Undecided
  BY DEF Undecided
<1> QED
  BY <1>1, <1>2, <1>3, <1>4, OverKeeps

(* The task is popped, its labels are read and the issue is stamped. *)
LEMMA StartKeeps ==
    ASSUME TriageInv, PopTriage \/ ReadLabels \/ StampIssue \/ TriageRaised
    PROVE  TriageInv'
<1>1. t \in TriageType /\ Checked /\ labels \in SUBSET Labels
  BY DEF TriageInv, TriageTypes
<1>2. CASE PopTriage
  <2>1. tstep = "idle" /\ tstep' = "read" /\ t' = FreshTriage /\ triageQueue \in Nat /\ triaging' = triageQueue
        /\ triageQueue' = -1 /\ UNCHANGED <<issue, labels, sent, stops>>
    BY <1>2 DEF PopTriage, Go, TriageInv, TriageTypes
  <2>2. Checked'
    BY <2>1, FreshState DEF Checked, Early, Late, Fixes
  <2>3. Counted'
    BY <2>1 DEF TriageInv, Counted, Undecided
  <2>4. TriageTypes'
    BY <2>1, FreshState DEF TriageInv, TriageTypes
  <2> QED
    BY <2>2, <2>3, <2>4 DEF TriageInv
<1>3. CASE ReadLabels
  <2>1. tstep = "read"
    BY <1>3 DEF ReadLabels, Triaging
  <2>2. CASE TriageOver /\ UNCHANGED <<triageQueue, labels, sibling, sent, reproQueue>>
    BY <1>1, <2>1, <2>2, OverKeeps DEF TriageInv, TriageTypes
  <2>3. CASE Go("stamp", [t EXCEPT !.seen = labels]) /\ InMemory
    <3>1. /\ t' \in TriageType /\ t'.checked = t.checked /\ t'.exists = t.exists /\ t'.root = t.root
          /\ t'.result = t.result /\ t'.policy = t.policy /\ t'.target = t.target
      BY <1>1, <2>3 DEF Go, TriageType
    <3>2. Checked' /\ tstep' = "stamp"
      BY <1>1, <2>1, <2>3, <3>1 DEF Go, Checked, Early, Late, InMemory
    <3> QED
      BY <2>1, <2>3, <3>1, <3>2, Thinks
  <2>4. CASE Go("stamp", t) /\ InMemory
    <3>1. Checked' /\ tstep' = "stamp" /\ t' = t
      BY <1>1, <2>1, <2>4 DEF Go, Checked, Early, Late, InMemory
    <3> QED
      BY <1>1, <2>1, <2>4, <3>1, Thinks
  <2> QED
    BY <1>3, <2>2, <2>3, <2>4 DEF ReadLabels
<1>4. CASE StampIssue
  <2> DEFINE stamped == (labels \ (t.seen \ {"in_progress", "waiting"})) \cup {"in_progress"}
  <2>1. tstep = "stamp" /\ stamped \in SUBSET Labels
    BY <1>1, <1>4 DEF StampIssue, Triaging, Labels, TriageLabel
  <2>2. CASE Go("check_cve_eligibility", t) /\ labels' = stamped
             /\ UNCHANGED <<issue, triageQueue, triaging, sibling, sent, reproQueue, stops>>
    <3>1. Checked'
      BY <1>1, <2>1, <2>2 DEF Go, Checked, Early, Late
    <3>2. Counted'
      BY <2>1, <2>2 DEF Go, TriageInv, Counted, Undecided
    <3> QED
      BY <2>1, <2>2, <3>1, <3>2 DEF Go, TriageInv, TriageTypes
  <2>3. ASSUME NEW now \in {labels, stamped}, RetryTriage(now) PROVE TriageInv'
    BY <1>1, <2>1, <2>3, RetryKeeps
  <2> QED
    BY <1>4, <2>2, <2>3 DEF StampIssue
<1>5. CASE TriageRaised
  BY <1>1, <1>5, RetryKeeps DEF TriageRaised, Triaging
<1> QED
  BY <1>2, <1>3, <1>4, <1>5

(* The result is labelled and sent on, and a reproduction asked for. *)
LEMMA ResultKeeps ==
    ASSUME TriageInv, LabelResult \/ DispatchResult \/ EnqueueReproducer
    PROVE  TriageInv'
<1>1. t \in TriageType /\ Checked /\ labels \in SUBSET Labels /\ sent \in [fix : Nat, lists : SUBSET {"errors", "reported"}]
  BY DEF TriageInv, TriageTypes
<1>2. CASE LabelResult
  <2>1. tstep = "label"
    BY <1>2 DEF LabelResult, Triaging
  <2>2. CASE TriageEscapes /\ UNCHANGED labels
    BY <1>1, <2>1, <2>2, OverKeeps DEF TriageEscapes, TriageOver
  <2>3. ASSUME Go("label_siblings", t), UNCHANGED <<issue, triageQueue, triaging, sibling, sent, reproQueue, stops>>,
               labels' \in SUBSET Labels
        PROVE  TriageInv'
    <3>1. Checked'
      BY <1>1, <2>1, <2>3 DEF Go, Checked, Early, Late
    <3>2. Counted'
      BY <2>1, <2>3 DEF Go, TriageInv, Counted, Undecided
    <3> QED
      BY <2>3, <3>1, <3>2 DEF Go, TriageInv, TriageTypes
  <2>4. ASSUME NEW remove, NEW add \in SUBSET {"postponed", "triaged", "resolved"}, Relabel(remove, add)
        PROVE  labels' \in SUBSET Labels
    BY <1>1, <2>4 DEF Relabel, Labels, TriageLabel
  <2> DEFINE done == IF t.result \in Fixes THEN "triaged" ELSE "resolved"
             still == UNCHANGED <<issue, triageQueue, triaging, sibling, sent, reproQueue, stops>>
  <2>5. CASE TriageEscapes /\ UNCHANGED labels
    BY <2>2, <2>5
  <2>6. ASSUME Go("label_siblings", t), still,
               CASE t.result = "postponed" -> Relabel({"in_progress", "manual", "waiting"}, {"postponed"})
                 [] t.result # "postponed" /\ (t.result = "error" \/ Hold) -> UNCHANGED labels
                 [] t.result # "postponed" /\ t.result # "error" /\ ~Hold ->
                       IF WaitsForSiblings THEN Relabel({"in_progress"}, {})
                       ELSE Relabel({"in_progress", "waiting"}, {done})
        PROVE  TriageInv'
    <3>1. CASE t.result = "postponed"
      <4>1. Relabel({"in_progress", "manual", "waiting"}, {"postponed"})
        BY <2>6, <3>1
      <4> QED
        BY <2>3, <2>4, <2>6, <4>1
    <3>2. CASE t.result # "postponed" /\ (t.result = "error" \/ Hold)
      <4>1. UNCHANGED labels
        BY <2>6, <3>2
      <4> QED
        BY <1>1, <2>3, <2>6, <4>1
    <3>3. CASE t.result # "postponed" /\ t.result # "error" /\ ~Hold
      <4>1. Relabel({"in_progress"}, {}) \/ Relabel({"in_progress", "waiting"}, {done})
        BY <2>6, <3>3
      <4> QED
        BY <2>3, <2>4, <2>6, <4>1
    <3> QED
      BY <3>1, <3>2, <3>3
  <2> QED
    BY <1>2, <2>5, <2>6 DEF LabelResult
<1>3. CASE DispatchResult
  <2>1. tstep = "dispatch"
    BY <1>3 DEF DispatchResult, Triaging
  <2>2. CASE RetryTriage(labels)
    BY <1>1, <2>1, <2>2, RetryKeeps
  <2>3. CASE TriageEscapes /\ UNCHANGED labels
    BY <1>1, <2>1, <2>3, OverKeeps DEF TriageEscapes, TriageOver
  <2>4. ASSUME Go("reproduce", t), UNCHANGED <<issue, triageQueue, triaging, labels, sibling, reproQueue, stops>>,
               \/ sent' = [sent EXCEPT !.lists = sent.lists \cup {"reported"}]
               \/ sent' = [sent EXCEPT !.fix = sent.fix + 1]
               \/ sent' = sent
        PROVE  TriageInv'
    <3>1. Checked'
      BY <1>1, <2>1, <2>4 DEF Go, Checked, Early, Late
    <3>2. sent' \in [fix : Nat, lists : SUBSET {"errors", "reported"}] /\ sent'.fix <= sent.fix + 1
      BY <1>1, <2>4
    <3>3. Undecided /\ sent.fix <= stops /\ triageQueue = -1
      BY <2>1 DEF TriageInv, Counted, Undecided
    <3>4. sent.fix \in Nat /\ stops \in Nat /\ sent'.fix \in Nat
      BY <1>1, <3>2 DEF TriageInv, TriageTypes
    <3>5. Counted'
      BY <2>4, <3>2, <3>3, <3>4 DEF Go, Counted, Undecided
    <3> QED
      BY <2>4, <3>1, <3>2, <3>5 DEF Go, TriageInv, TriageTypes
  <2> QED
    BY <1>3, <2>2, <2>3, <2>4 DEF DispatchResult
<1>4. CASE EnqueueReproducer
  <2>1. tstep = "reproduce" /\ sent' \in {sent, [sent EXCEPT !.lists = sent.lists \ {"errors"}]} /\ TriageOver
        /\ UNCHANGED <<triageQueue, labels>>
    BY <1>4 DEF EnqueueReproducer, Triaging
  <2>2. sent' \in [fix : Nat, lists : SUBSET {"errors", "reported"}] /\ sent'.fix = sent.fix
    BY <1>1, <2>1
  <2> QED
    BY <1>1, <2>1, <2>2, OverKeeps
<1> QED
  BY <1>2, <1>3, <1>4

(* A shutdown pushes the task again. *)
LEMMA ShutdownKeeps ==
    ASSUME TriageInv, TriageShutdown
    PROVE  TriageInv'
<1>1. /\ tstep # "idle" /\ tstep' = "idle" /\ t' = FreshTriage /\ triaging' = 0 /\ stops' = stops + 1
      /\ triageQueue' = triaging /\ UNCHANGED <<issue, labels, sent>>
  BY DEF TriageShutdown, Go
<1>2. Checked'
  BY <1>1, FreshState DEF Checked, Early, Late, Fixes
<1>3. sent.fix <= stops + 1 /\ sent.fix \in Nat /\ stops \in Nat /\ triaging \in Nat
  BY DEF TriageInv, TriageTypes, Counted
<1>4. Counted'
  BY <1>1, <1>3 DEF Counted, Undecided
<1> QED
  BY <1>1, <1>2, <1>3, <1>4, FreshState DEF TriageInv, TriageTypes

(* Nothing but triage touches the task; the reproduction adds its own labels. *)
LEMMA BesidesKeeps ==
    ASSUME TriageInv, UNCHANGED <<issue, triageQueue, triaging, tstep, t, sent>>, labels' \in SUBSET Labels,
           stops' \in {stops, stops + 1}
    PROVE  TriageInv'
<1>1. TriageTypes'
  BY DEF TriageInv, TriageTypes
<1>2. Checked'
  BY DEF TriageInv, Checked
<1>3. sent.fix \in Nat /\ stops \in Nat
  BY DEF TriageInv, TriageTypes
<1>4. Counted'
  BY <1>3 DEF TriageInv, Counted, Undecided
<1> QED
  BY <1>1, <1>2, <1>4 DEF TriageInv

(* What a reproduction does to the labels. *)
LEMMA ReproducerLabels ==
    ASSUME labels \in SUBSET Labels, ReproducerStep
    PROVE  labels' \in SUBSET Labels
<1>1. {"reproducing", "reproducer_errored"} \subseteq Labels
  BY DEF Labels, ReproducerLabel
<1>2. ASSUME NEW now \in SUBSET Labels, RetryReproduction(now)
      PROVE  labels' \in SUBSET Labels
  BY <1>1, <1>2 DEF RetryReproduction
<1>3. CASE StageInProgress
  <2>1. (labels \ ReproTerminal) \cup {"reproducing"} \in SUBSET Labels
    BY <1>1
  <2> QED
    BY <1>2, <1>3, <2>1 DEF StageInProgress
<1>4. CASE HandleResults
  <2>1. ResultLabel(r.result) \in Labels
    BY DEF ResultLabel, Labels, ReproducerLabel
  <2> QED
    BY <1>4, <2>1 DEF HandleResults
<1>5. CASE EndReproduction
  BY <1>2, <1>5 DEF EndReproduction
<1>6. CASE PopReproduction \/ GuardReproduction \/ BootstrapTestsClone \/ RunReproducerAnalysis \/ ValidateTmtLint
           \/ FixTmtLint \/ CreateMergeRequest \/ Cleanup
  BY <1>6 DEF PopReproduction, GuardReproduction, BootstrapTestsClone, RunReproducerAnalysis, ValidateTmtLint, FixTmtLint,
              CreateMergeRequest, Cleanup, InClone
<1> QED
  BY <1>3, <1>4, <1>5, <1>6 DEF ReproducerStep

(* Every step of the issue's agents. *)
LEMMA TriageKeeps ==
    ASSUME TriageInv, Next
    PROVE  TriageInv'
<1>1. CASE TriageStep
  BY <1>1, AnalysisKeeps, BranchChecksKeep, SiblingsKeep, StartKeeps, ResultKeeps DEF TriageStep
<1>2. CASE TriageShutdown
  BY <1>2, ShutdownKeeps
<1>3. CASE UNCHANGED triageVars
  BY <1>3, BesidesKeeps DEF triageVars, TriageInv, TriageTypes
<1>4. CASE ReproducerStep
  <2>1. UNCHANGED <<issue, triageQueue, triaging, tstep, t, sent, stops>>
    BY <1>4 DEF ReproducerStep, PopReproduction, GuardReproduction, StageInProgress, BootstrapTestsClone,
                RunReproducerAnalysis, ValidateTmtLint, FixTmtLint, CreateMergeRequest, HandleResults, Cleanup,
                EndReproduction, RetryReproduction, ReproOver, InClone, NoTriage
  <2> QED
    BY <1>4, <2>1, BesidesKeeps, ReproducerLabels DEF TriageInv, TriageTypes
<1>5. CASE ReproducerShutdown
  BY <1>5, BesidesKeeps DEF ReproducerShutdown, TriageInv, TriageTypes
<1>6. CASE OtherStream
  BY <1>6, BesidesKeeps DEF OtherStream, NoTriage, TriageInv, TriageTypes
<1> QED
  BY <1>1, <1>2, <1>3, <1>4, <1>5, <1>6 DEF Next, FixNext, TriageNext, ReproNext, Stop

(* Only the dispatch of a result asks for a fix, and it asks for one that the *)
(* checks allow.                                                               *)
LEMMA DispatchStep ==
    ASSUME TriageInv, Next, sent'.fix > sent.fix
    PROVE  /\ t.target # "none"
           /\ t.result = "rebase" => issue.trusted
           /\ issue.cve /\ t.checked = "affected" => issue.affected
           /\ issue.cve => t.checked # "no"
           /\ t.target = "zstream" /\ issue.missing /\ issue.manual => t.exists = "unknown"
           /\ t.result = "rebuild" /\ t.root = "asked" => issue.ready
<1>1. sent \in [fix : Nat, lists : SUBSET {"errors", "reported"}] /\ sent.fix \in Nat
  BY DEF TriageInv, TriageTypes
<1>2. DispatchResult /\ t.result \in Fixes /\ MayFix
  <2>1. ~UNCHANGED sent
    BY <1>1
  <2>2. ASSUME NEW lists2, sent' = [sent EXCEPT !.lists = lists2]
        PROVE  FALSE
    BY <1>1, <2>2
  <2>3. ASSUME NEW now, RetryTriage(now)
        PROVE  FALSE
    BY <2>1, <2>2, <2>3 DEF RetryTriage
  <2>4. TriageStep
    BY <2>1 DEF Next, FixNext, ReproNext, TriageNext, Stop, TriageShutdown, ReproducerShutdown, OtherStream, triageVars,
                ReproducerStep, PopReproduction, GuardReproduction, StageInProgress, BootstrapTestsClone,
                RunReproducerAnalysis, ValidateTmtLint, FixTmtLint, CreateMergeRequest, HandleResults, Cleanup,
                EndReproduction, RetryReproduction, ReproOver, InClone, NoTriage
  <2>5. ~StampIssue /\ ~TriageRaised
    BY <2>1, <2>3 DEF StampIssue, TriageRaised
  <2>6. ~EnqueueReproducer
    BY <2>1, <2>2 DEF EnqueueReproducer
  <2>7. DispatchResult
    BY <2>1, <2>4, <2>5, <2>6
       DEF TriageStep, PopTriage, ReadLabels, TriageOver, CheckCVEEligibility, RunTriageAnalysis, AnalysisRaises,
           VerifyRebaseAuthor, DetermineTargetBranch, CheckCVEApplicability, VerifyRebuildBuildroot,
           ConsolidateRebuildSiblings, ConsolidateRebaseSiblings, CommentResult, HoldSibling, HoldPrimary, LabelResult,
           LabelSiblings, TriageEscapes, InMemory
  <2> QED
    BY <2>1, <2>2, <2>3, <2>7 DEF DispatchResult, TriageEscapes
<1>3. tstep = "dispatch" /\ Checked /\ t \in TriageType
  BY <1>2 DEF DispatchResult, Triaging, TriageInv, TriageTypes
<1>4. t.target # "none" /\ ~Hold /\ (t.result = "rebase" => t.role = "alone")
  BY <1>2 DEF MayFix
<1>5. ~(t.policy = "manual" /\ t.exists = "no")
  BY <1>2, <1>4 DEF Hold
<1>6. t.target = "zstream" /\ issue.missing /\ issue.manual => t.exists = "unknown"
  BY <1>3, <1>5 DEF Checked
<1> QED
  BY <1>2, <1>3, <1>4, <1>6 DEF Checked, Late

-----------------------------------------------------------------------------
(* The label "created" stands for a result that needs a merge request. *)
LEMMA CreatedNeedsMR ==
    ASSUME NEW res, "retry" \notin res, ResultLabel(res) = "created"
    PROVE  NeedsMR(res)
<1>1. CASE {"adapted", "success"} \subseteq res
  BY <1>1 DEF NeedsMR
<1>2. CASE ~({"adapted", "success"} \subseteq res) /\ "exists" \in res
  <2>1. ResultLabel(res) = "exists"
    BY <1>2, Zenon DEF ResultLabel
  <2> QED
    BY <2>1
<1>3. CASE ~({"adapted", "success"} \subseteq res) /\ "exists" \notin res /\ "success" \in res
  BY <1>3 DEF NeedsMR
<1>4. CASE ~({"adapted", "success"} \subseteq res) /\ "exists" \notin res /\ "success" \notin res
  <2>1. ResultLabel(res) = "unreproducible" \/ ResultLabel(res) = "failed"
    BY <1>4, Zenon DEF ResultLabel
  <2> QED
    BY <2>1
<1> QED
  BY <1>1, <1>2, <1>3, <1>4

(* A task that is over, or has just begun, claims nothing and holds nothing. *)
LEMMA FreshReproduction ==
    ASSUME NEW n \in Nat
    PROVE  Fresh(n) \in [attempts : Nat, base : {"none"} \cup TestsBranch, result : SUBSET Flags, lints : Nat,
                         raised : BOOLEAN]
BY DEF Fresh

(* A reproduction ends only when its machines were cancelled. *)
LEMMA ReproOverKeeps ==
    ASSUME ReproInv, ReproOver, rstep \in {"guard", "stage", "over"}
    PROVE  ReproInv'
<1>1. rstep' = "idle" /\ r' = Fresh(0) /\ UNCHANGED <<tests, reserved>>
  BY DEF ReproOver, Then
<1>2. ReproTypes'
  BY <1>1, FreshReproduction DEF ReproInv, ReproTypes
<1> QED
  BY <1>1, <1>2 DEF ReproInv, Claimed, Machines

(* The analysis and the repair of its test: what they answer leads to a merge *)
(* request or claims none.                                                     *)
LEMMA AnswerKeeps ==
    ASSUME ReproInv, RunReproducerAnalysis \/ FixTmtLint
    PROVE  ReproInv'
<1>1. /\ \/ \E res \in Answer :
                rstep' = (IF NeedsMR(res) THEN "validate_tmt_lint" ELSE "handle_results") /\ r' = [r EXCEPT !.result = res]
         \/ rstep' = "cleanup" /\ r' = [r EXCEPT !.raised = TRUE]
      /\ Reserves /\ InClone
  <2>1. CASE RunReproducerAnalysis
    BY <2>1 DEF RunReproducerAnalysis, Then, Fails
  <2>2. CASE FixTmtLint
    BY <2>2 DEF FixTmtLint, Then, Fails
  <2> QED
    BY <2>1, <2>2
<1>2. UNCHANGED tests
  BY <1>1 DEF InClone
<1>3. reserved' \in BOOLEAN
  BY <1>1 DEF Reserves, ReproInv, ReproTypes
<1>4. ASSUME NEW res \in Answer,
             rstep' = (IF NeedsMR(res) THEN "validate_tmt_lint" ELSE "handle_results"), r' = [r EXCEPT !.result = res]
      PROVE  ReproInv'
  <2>1. res \in SUBSET Flags
    BY DEF Answer, Flags
  <2>2. PICK new : new = [r EXCEPT !.result = res]
    OBVIOUS
  <2>3. /\ new \in [attempts : Nat, base : {"none"} \cup TestsBranch, result : SUBSET Flags, lints : Nat,
                    raised : BOOLEAN]
        /\ new.result = res
    BY <2>1, <2>2 DEF ReproInv, ReproTypes
  <2>4. r' = new /\ rstep' = IF NeedsMR(res) THEN "validate_tmt_lint" ELSE "handle_results"
    BY <1>4, <2>2
  <2> QED
    BY <1>1, <1>2, <1>3, <2>3, <2>4 DEF ReproInv, ReproTypes, Claimed, Machines, NeedsMR
<1>5. CASE rstep' = "cleanup" /\ r' = [r EXCEPT !.raised = TRUE]
  BY <1>1, <1>2, <1>3, <1>5 DEF ReproInv, ReproTypes, Claimed, Machines
<1> QED
  BY <1>1, <1>4, <1>5

(* The lint loop and the merge request: only one that is open and has the test *)
(* keeps the success of the result.                                            *)
LEMMA MergeRequestKeeps ==
    ASSUME ReproInv, ValidateTmtLint \/ CreateMergeRequest
    PROVE  ReproInv'
<1>1. r \in [attempts : Nat, base : {"none"} \cup TestsBranch, result : SUBSET Flags, lints : Nat, raised : BOOLEAN]
      /\ tests \in [TestsBranch -> [open : BOOLEAN, ours : BOOLEAN]] /\ reserved \in BOOLEAN
  BY DEF ReproInv, ReproTypes
<1>2. CASE ValidateTmtLint
  <2>1. PICK unsuccessful : unsuccessful = [r EXCEPT !.result = r.result \ {"success"}]
    OBVIOUS
  <2>2. PICK fixing : fixing = [r EXCEPT !.lints = r.lints + 1]
    OBVIOUS
  <2>3. UNCHANGED <<tests, reserved>>
    BY <1>2 DEF ValidateTmtLint, InClone
  <2>4. \/ rstep' \in {"create_merge_request", "fix_tmt_lint"} /\ r' \in {r, fixing}
        \/ rstep' = "handle_results" /\ r' = unsuccessful
    BY <1>2, <2>1, <2>2 DEF ValidateTmtLint, Then
  <2>5. r' \in [attempts : Nat, base : {"none"} \cup TestsBranch, result : SUBSET Flags, lints : Nat, raised : BOOLEAN]
    BY <1>1, <2>1, <2>2, <2>4
  <2>6. "success" \notin unsuccessful.result
    BY <1>1, <2>1
  <2> QED
    BY <1>1, <2>3, <2>4, <2>5, <2>6 DEF ReproInv, ReproTypes, Claimed, Machines, NeedsMR
<1>3. CASE CreateMergeRequest
  <2>1. PICK target \in Targets :
          LET found  == [r EXCEPT !.result = r.result \cup IF target.matched THEN {"adapted"} ELSE {}]
              pushed == [tests EXCEPT ![target.branch].ours = TRUE]
              opened == [pushed EXCEPT ![target.branch].open = TRUE]
          IN  \/ Then("handle_results", found) /\ tests' = opened
              \/ /\ Then("handle_results", [found EXCEPT !.result = found.result \ {"success"}])
                 /\ tests' \in {tests, pushed, opened}
    BY <1>3 DEF CreateMergeRequest
  <2>2. target.branch \in TestsBranch
    BY <1>1 DEF Targets, Target, Open, TestsBranch
  <2>3. PICK found : found = [r EXCEPT !.result = r.result \cup IF target.matched THEN {"adapted"} ELSE {}]
    OBVIOUS
  <2>4. PICK lost : lost = [found EXCEPT !.result = found.result \ {"success"}]
    OBVIOUS
  <2>5. PICK pushed : pushed = [tests EXCEPT ![target.branch].ours = TRUE]
    OBVIOUS
  <2>6. PICK opened : opened = [pushed EXCEPT ![target.branch].open = TRUE]
    OBVIOUS
  <2>7. found \in [attempts : Nat, base : {"none"} \cup TestsBranch, result : SUBSET Flags, lints : Nat, raised : BOOLEAN]
    BY <1>1, <2>3 DEF Flags
  <2>8. /\ lost \in [attempts : Nat, base : {"none"} \cup TestsBranch, result : SUBSET Flags, lints : Nat, raised : BOOLEAN]
        /\ "success" \notin lost.result
    BY <2>4, <2>7
  <2>9. pushed \in [TestsBranch -> [open : BOOLEAN, ours : BOOLEAN]] /\ pushed[target.branch].ours
    BY <1>1, <2>2, <2>5
  <2>10. /\ opened \in [TestsBranch -> [open : BOOLEAN, ours : BOOLEAN]]
         /\ opened[target.branch].open /\ opened[target.branch].ours
    BY <2>2, <2>6, <2>9
  <2>11. /\ rstep' = "handle_results" /\ UNCHANGED reserved
         /\ \/ r' = found /\ tests' = opened
            \/ r' = lost /\ tests' \in {tests, pushed, opened}
    BY <1>3, <2>1, <2>3, <2>4, <2>5, <2>6 DEF CreateMergeRequest, Then
  <2>12. ReproTypes'
    BY <1>1, <2>7, <2>8, <2>9, <2>10, <2>11 DEF ReproTypes
  <2>13. CASE r' = found /\ tests' = opened
    <3>1. Announced'
      BY <2>2, <2>10, <2>13 DEF Announced, Open
    <3> QED
      BY <2>11, <2>12, <3>1 DEF ReproInv, Claimed, Machines
  <2>14. CASE r' = lost
    BY <2>8, <2>11, <2>12, <2>14 DEF ReproInv, Claimed, Machines, NeedsMR
  <2> QED
    BY <2>11, <2>13, <2>14
<1> QED
  BY <1>2, <1>3

(* The beginning, the results, and the end. *)
LEMMA AroundKeeps ==
    ASSUME ReproInv, PopReproduction \/ GuardReproduction \/ StageInProgress \/ BootstrapTestsClone \/ HandleResults
                     \/ Cleanup \/ EndReproduction \/ ReproducerShutdown \/ OtherStream,
           Reproductions
    PROVE  ReproInv'
<1>1. r \in [attempts : Nat, base : {"none"} \cup TestsBranch, result : SUBSET Flags, lints : Nat, raised : BOOLEAN]
      /\ tests \in [TestsBranch -> [open : BOOLEAN, ours : BOOLEAN]] /\ reserved \in BOOLEAN
  BY DEF ReproInv, ReproTypes
<1>2. ASSUME rstep' # "handle_results", Machines', UNCHANGED tests, r' = r \/ r' = [r EXCEPT !.raised = TRUE]
      PROVE  ReproInv'
  <2>1. r' \in [attempts : Nat, base : {"none"} \cup TestsBranch, result : SUBSET Flags, lints : Nat, raised : BOOLEAN]
    BY <1>1, <1>2
  <2>2. reserved' \in BOOLEAN
    BY <1>1 DEF PopReproduction, GuardReproduction, StageInProgress, BootstrapTestsClone, HandleResults, Cleanup,
                EndReproduction, ReproducerShutdown, OtherStream, RetryReproduction, ReproOver, Released
  <2> QED
    BY <1>1, <1>2, <2>1, <2>2 DEF ReproInv, ReproTypes, Claimed
<1>3. CASE PopReproduction
  <2>1. PICK n \in reproQueue : rstep' = "guard" /\ r' = Fresh(n) /\ rstep = "idle" /\ UNCHANGED <<tests, reserved>>
    BY <1>3 DEF PopReproduction, Then
  <2>2. n \in Nat
    BY <2>1 DEF Reproductions
  <2> QED
    BY <1>1, <2>1, <2>2, FreshReproduction DEF ReproInv, ReproTypes, Claimed, Machines
<1>4. CASE GuardReproduction
  BY <1>2, <1>4, ReproOverKeeps DEF GuardReproduction, Reproducing, Then, InClone, ReproInv, Machines
<1>5. CASE StageInProgress
  <2>1. rstep = "stage"
    BY <1>5 DEF StageInProgress, Reproducing
  <2>2. ReproOver \/ (rstep' = "bootstrap" /\ r' = r /\ UNCHANGED <<tests, reserved>>)
    BY <1>5 DEF StageInProgress, RetryReproduction, Then
  <2> QED
    BY <1>2, <2>1, <2>2, ReproOverKeeps DEF ReproInv, Machines
<1>6. CASE BootstrapTestsClone
  <2>1. rstep' \in {"run_reproducer_analysis", "cleanup"} /\ UNCHANGED <<tests, reserved>>
        /\ (r' \in {r, [r EXCEPT !.raised = TRUE]} \/ \E b \in TestsBranch : r' = [r EXCEPT !.base = b])
    BY <1>6 DEF BootstrapTestsClone, Fails, Then, InClone, Open
  <2>2. r' \in [attempts : Nat, base : {"none"} \cup TestsBranch, result : SUBSET Flags, lints : Nat, raised : BOOLEAN]
    BY <1>1, <2>1
  <2> QED
    BY <1>1, <2>1, <2>2 DEF ReproInv, ReproTypes, Claimed, Machines
<1>7. CASE HandleResults
  <2>1. rstep' = "cleanup" /\ r' \in {r, [r EXCEPT !.raised = TRUE]} /\ UNCHANGED tests
    BY <1>7 DEF HandleResults, Then, Fails
  <2> QED
    BY <1>2, <2>1 DEF Machines
<1>8. CASE Cleanup
  BY <1>2, <1>8 DEF Cleanup, Then, Released, InClone, Machines
<1>9. CASE EndReproduction
  <2>1. rstep = "over" /\ ReproOver
    BY <1>9 DEF EndReproduction, Reproducing, RetryReproduction
  <2> QED
    BY <2>1, ReproOverKeeps
<1>10. CASE ReproducerShutdown
  BY <1>1, <1>10, FreshReproduction DEF ReproducerShutdown, Then, Released, ReproInv, ReproTypes, Claimed, Machines
<1>11. CASE OtherStream
  <2>1. PICK joined : joined = [tests EXCEPT !["shared"].open = TRUE]
    OBVIOUS
  <2>2. joined \in [TestsBranch -> [open : BOOLEAN, ours : BOOLEAN]]
    BY <1>1, <2>1 DEF TestsBranch
  <2>3. tests' = joined /\ rstep = "idle" /\ UNCHANGED <<rstep, r, reserved>>
    BY <1>11, <2>1 DEF OtherStream
  <2> QED
    BY <1>1, <2>2, <2>3 DEF ReproInv, ReproTypes, Claimed, Machines
<1> QED
  BY <1>3, <1>4, <1>5, <1>6, <1>7, <1>8, <1>9, <1>10, <1>11

(* Reproductions are queued by triage, by a retry and by a shutdown. *)
LEMMA ReproductionsKept ==
    ASSUME ReproTypes, Reproductions, Next
    PROVE  Reproductions'
<1>1. r.attempts \in Nat /\ r.attempts + 1 \in Nat
  BY DEF ReproTypes
<1>2. UNCHANGED reproQueue \/ (\E n \in Nat : reproQueue' = reproQueue \cup {n}) \/ reproQueue' \in SUBSET reproQueue
  <2>1. CASE TriageStep
    BY <2>1 DEF TriageStep, PopTriage, ReadLabels, StampIssue, CheckCVEEligibility, RunTriageAnalysis, AnalysisRaises,
                VerifyRebaseAuthor, DetermineTargetBranch, CheckCVEApplicability, VerifyRebuildBuildroot,
                ConsolidateRebuildSiblings, ConsolidateRebaseSiblings, CommentResult, HoldSibling, HoldPrimary,
                TriageRaised, LabelResult, LabelSiblings, DispatchResult, EnqueueReproducer, RetryTriage, TriageEscapes,
                InMemory
  <2>2. CASE TriageShutdown \/ UNCHANGED <<triageVars, reproVars>>
    BY <2>2 DEF TriageShutdown, triageVars
  <2>3. ASSUME NEW now, RetryReproduction(now)
        PROVE  UNCHANGED reproQueue \/ \E n \in Nat : reproQueue' = reproQueue \cup {n}
    BY <1>1, <2>3 DEF RetryReproduction
  <2>4. CASE StageInProgress \/ EndReproduction
    BY <2>3, <2>4 DEF StageInProgress, EndReproduction
  <2>5. CASE PopReproduction \/ GuardReproduction \/ BootstrapTestsClone \/ RunReproducerAnalysis \/ ValidateTmtLint
             \/ FixTmtLint \/ CreateMergeRequest \/ HandleResults \/ Cleanup
    BY <2>5 DEF PopReproduction, GuardReproduction, BootstrapTestsClone, RunReproducerAnalysis, ValidateTmtLint,
                FixTmtLint, CreateMergeRequest, HandleResults, Cleanup, InClone
  <2>6. CASE ReproducerShutdown \/ OtherStream
    BY <1>1, <2>6 DEF ReproducerShutdown, OtherStream
  <2> QED
    BY <2>1, <2>2, <2>4, <2>5, <2>6 DEF Next, FixNext, TriageNext, ReproNext, Stop, ReproducerStep
<1> QED
  BY <1>2 DEF Reproductions

(* The invariant of an issue is inductive. *)
LEMMA IssueKeeps ==
    ASSUME IssueInv, [Next]_vars
    PROVE  IssueInv'
<1>1. CASE Next
  <2>1. TriageInv'
    BY <1>1, TriageKeeps DEF IssueInv
  <2>2. ReproInv'
    <3>1. CASE UNCHANGED reproVars
      BY <3>1 DEF IssueInv, ReproInv, ReproTypes, Claimed, Announced, Open, Machines, reproVars
    <3>2. CASE ReproducerStep
      BY <3>2, AnswerKeeps, MergeRequestKeeps, AroundKeeps DEF ReproducerStep, IssueInv
    <3>3. CASE ReproducerShutdown \/ OtherStream
      BY <3>3, AroundKeeps DEF IssueInv
    <3> QED
      BY <1>1, <3>1, <3>2, <3>3 DEF Next, FixNext, TriageNext, ReproNext, Stop
  <2>3. Reproductions'
    BY <1>1, ReproductionsKept DEF IssueInv, ReproInv
  <2> QED
    BY <2>1, <2>2, <2>3 DEF IssueInv
<1>2. CASE UNCHANGED vars
  <2>1. UNCHANGED triageVars /\ UNCHANGED reproVars
    BY <1>2 DEF vars
  <2>2. UNCHANGED <<issue, triageQueue, triaging, tstep, t, labels, sent, reproQueue, stops>>
    BY <2>1 DEF triageVars
  <2>3. TriageInv'
    BY <2>2, BesidesKeeps DEF IssueInv, TriageInv, TriageTypes
  <2>4. ReproInv'
    BY <2>1 DEF IssueInv, ReproInv, ReproTypes, Claimed, Announced, Open, Machines, reproVars
  <2> QED
    BY <2>2, <2>3, <2>4 DEF IssueInv, Reproductions
<1> QED
  BY <1>1, <1>2

(* No step of triage claims a reproduction. *)
LEMMA TriageClaimsNothing ==
    ASSUME TriageStep \/ TriageShutdown
    PROVE  "created" \notin labels' \ labels
<1>1. ASSUME NEW remove, NEW add, "created" \notin add, Relabel(remove, add)
      PROVE  "created" \notin labels' \ labels
  BY <1>1 DEF Relabel
<1>2. ASSUME NEW now, "created" \notin now \ labels, RetryTriage(now)
      PROVE  "created" \notin labels' \ labels
  BY <1>2 DEF RetryTriage
<1>3. CASE StampIssue
  <2> DEFINE stamped == (labels \ (t.seen \ {"in_progress", "waiting"})) \cup {"in_progress"}
  <2>1. "created" \notin stamped \ labels
    OBVIOUS
  <2> QED
    BY <1>2, <1>3, <2>1 DEF StampIssue
<1>4. CASE ConsolidateRebaseSiblings
  BY <1>4 DEF ConsolidateRebaseSiblings
<1>5. CASE HoldPrimary
  BY <1>1, <1>5 DEF HoldPrimary
<1>6. CASE LabelResult
  <2>1. CASE UNCHANGED labels
    BY <2>1
  <2>2. ASSUME CASE t.result = "postponed" -> Relabel({"in_progress", "manual", "waiting"}, {"postponed"})
                 [] t.result # "postponed" /\ (t.result = "error" \/ Hold) -> UNCHANGED labels
                 [] t.result # "postponed" /\ t.result # "error" /\ ~Hold ->
                       IF WaitsForSiblings THEN Relabel({"in_progress"}, {})
                       ELSE Relabel({"in_progress", "waiting"}, {IF t.result \in Fixes THEN "triaged" ELSE "resolved"})
        PROVE  "created" \notin labels' \ labels
    <3>1. \/ Relabel({"in_progress", "manual", "waiting"}, {"postponed"})
          \/ UNCHANGED labels
          \/ Relabel({"in_progress"}, {})
          \/ Relabel({"in_progress", "waiting"}, {IF t.result \in Fixes THEN "triaged" ELSE "resolved"})
      <4>1. CASE t.result = "postponed"
        BY <2>2, <4>1
      <4>2. CASE t.result # "postponed" /\ (t.result = "error" \/ Hold)
        BY <2>2, <4>2
      <4>3. CASE t.result # "postponed" /\ t.result # "error" /\ ~Hold
        BY <2>2, <4>3
      <4> QED
        BY <4>1, <4>2, <4>3
    <3>2. "created" \notin {IF t.result \in Fixes THEN "triaged" ELSE "resolved"}
      OBVIOUS
    <3> QED
      BY <1>1, <3>1, <3>2
  <2> QED
    BY <1>6, <2>1, <2>2 DEF LabelResult
<1>7. CASE TriageRaised \/ DispatchResult
  BY <1>2, <1>7 DEF TriageRaised, DispatchResult
<1>8. CASE PopTriage \/ ReadLabels \/ CheckCVEEligibility \/ RunTriageAnalysis \/ AnalysisRaises \/ VerifyRebaseAuthor
           \/ DetermineTargetBranch \/ CheckCVEApplicability \/ VerifyRebuildBuildroot \/ ConsolidateRebuildSiblings
           \/ CommentResult \/ HoldSibling \/ LabelSiblings \/ EnqueueReproducer \/ TriageShutdown
  BY <1>8 DEF PopTriage, ReadLabels, CheckCVEEligibility, RunTriageAnalysis, AnalysisRaises, VerifyRebaseAuthor,
              DetermineTargetBranch, CheckCVEApplicability, VerifyRebuildBuildroot, ConsolidateRebuildSiblings,
              CommentResult, HoldSibling, LabelSiblings, EnqueueReproducer, TriageShutdown, InMemory
<1> QED
  BY <1>3, <1>4, <1>5, <1>6, <1>7, <1>8 DEF TriageStep

(* A label that claims a test is written by a reproduction that has its merge *)
(* request open.                                                               *)
LEMMA CreatedStep ==
    ASSUME IssueInv, Next, labels' \ labels = {"created"}
    PROVE  Announced
<1>1. "created" \in labels' /\ "created" \notin labels
  OBVIOUS
<1>2. ReproducerStep
  BY <1>1, TriageClaimsNothing DEF Next, FixNext, TriageNext, ReproNext, Stop, triageVars, ReproducerShutdown, OtherStream
<1>3. ASSUME NEW now, "created" \notin now, RetryReproduction(now)
      PROVE  FALSE
  BY <1>1, <1>3 DEF RetryReproduction
<1>4. HandleResults
  <2>1. ~EndReproduction
    BY <1>1, <1>3 DEF EndReproduction
  <2>2. ~StageInProgress
    <3>1. "created" \notin (labels \ ReproTerminal) \cup {"reproducing"}
      BY DEF ReproTerminal
    <3> QED
      BY <1>1, <1>3, <3>1 DEF StageInProgress
  <2> QED
    BY <1>1, <1>2, <2>1, <2>2
       DEF ReproducerStep, PopReproduction, GuardReproduction, BootstrapTestsClone, RunReproducerAnalysis,
           ValidateTmtLint, FixTmtLint, CreateMergeRequest, Cleanup, InClone
<1>5. "retry" \notin r.result /\ ResultLabel(r.result) = "created"
  BY <1>1, <1>4 DEF HandleResults
<1>6. NeedsMR(r.result)
  BY <1>5, CreatedNeedsMR
<1> QED
  BY <1>4, <1>6 DEF HandleResults, Reproducing, IssueInv, ReproInv, Claimed

(* The first state of an issue. *)
LEMMA IssueInit ==
    ASSUME Init
    PROVE  IssueInv
<1>1. TriageInv
  BY FreshState DEF Init, TriageInit, TriageInv, TriageTypes, Counted, Undecided, Checked, Early, Late, Fixes
<1>2. ReproInv
  BY FreshReproduction DEF Init, ReproInit, ReproInv, ReproTypes, Claimed, Machines
<1> QED
  BY <1>1, <1>2 DEF Init, TriageInit, IssueInv, Reproductions

(* What triage and reproduction know of their issue holds in every state. *)
THEOREM IssueInvariant == Spec => []IssueInv
BY IssueInit, IssueKeeps, PTL DEF Spec

(* The code asks for a fix only when its checks allow it, and once a shutdown; *)
(* FixJustified of AgentWorkflows, about process_task and the workflow of       *)
(* triage_agent.py, for any issue and however many retries and shutdowns.       *)
THEOREM FixesAreJustified == Spec => FixJustified
<1>1. IssueInv => FixSentOnce
  <2> SUFFICES ASSUME IssueInv
               PROVE  FixSentOnce
    OBVIOUS
  <2>1. sent.fix \in Nat /\ stops \in Nat /\ sent.fix <= stops + 1
    BY DEF IssueInv, TriageInv, TriageTypes, Counted
  <2> QED
    BY <2>1 DEF FixSentOnce
<1>2. IssueInv /\ [Next]_vars =>
        [sent'.fix > sent.fix =>
          /\ t.target # "none"
          /\ t.result = "rebase" => issue.trusted
          /\ issue.cve /\ t.checked = "affected" => issue.affected
          /\ issue.cve => t.checked # "no"
          /\ t.target = "zstream" /\ issue.missing /\ issue.manual => t.exists = "unknown"
          /\ t.result = "rebuild" /\ t.root = "asked" => issue.ready]_vars
  BY DispatchStep DEF IssueInv
<1> QED
  BY <1>1, <1>2, IssueInvariant, PTL DEF Spec, FixJustified, DispatchJustified

(* What reproduction claims is open for review, and what it reserved is given  *)
(* back: ReproductionSound of AgentWorkflows, about reproducer_agent.py and    *)
(* tf_cleanup_middleware.py.                                                    *)
THEOREM ReproductionIsSound == Spec => ReproductionSound
<1>1. IssueInv => MachinesReleased
  BY DEF IssueInv, ReproInv, Machines, MachinesReleased
<1>2. IssueInv /\ [Next]_vars => [labels' \ labels = {"created"} => \E b \in Open : tests[b].ours]_vars
  BY CreatedStep DEF Announced
<1> QED
  BY <1>1, <1>2, IssueInvariant, PTL DEF Spec, ReproductionSound, CreatedHasMR

-----------------------------------------------------------------------------
(* What the steps of a fix task do to the workflow's state; only four of its  *)
(* parts matter to what is published.                                         *)
Alike(x, y) == x.checkpoint = y.checkpoint /\ x.inherit = y.inherit /\ x.bumped = y.bumped /\ x.log = y.log

(* A failure, and what a step reports beside the change itself. *)
LEMMA StateOperators ==
    ASSUME NEW x \in StateType
    PROVE  /\ Failed(x) \in StateType /\ Alike(Failed(x), x)
           /\ \A res \in {"ok", "no_srpm"} : [x EXCEPT !.result = res] \in StateType /\ Alike([x EXCEPT !.result = res], x)
           /\ [x EXCEPT !.log = TRUE] \in StateType /\ [x EXCEPT !.log = TRUE].log
           /\ [x EXCEPT !.log = TRUE].bumped = x.bumped /\ [x EXCEPT !.log = TRUE].inherit = x.inherit
           /\ [x EXCEPT !.log = TRUE].checkpoint = x.checkpoint
           /\ [x EXCEPT !.attempts = x.attempts - 1] \in StateType /\ Alike([x EXCEPT !.attempts = x.attempts - 1], x)
           /\ [x EXCEPT !.incremental = x.incremental + 1] \in StateType
           /\ Alike([x EXCEPT !.incremental = x.incremental + 1], x)
           /\ [x EXCEPT !.incremental = 0] \in StateType /\ Alike([x EXCEPT !.incremental = 0], x)
<1>1. Failed(x) \in StateType /\ Alike(Failed(x), x)
  BY DEF StateType, Failed, Alike
<1>2. ASSUME NEW res \in {"ok", "no_srpm"}
      PROVE  [x EXCEPT !.result = res] \in StateType /\ Alike([x EXCEPT !.result = res], x)
  BY DEF StateType, Alike
<1>3. /\ [x EXCEPT !.log = TRUE] \in StateType /\ [x EXCEPT !.log = TRUE].log
      /\ [x EXCEPT !.log = TRUE].bumped = x.bumped /\ [x EXCEPT !.log = TRUE].inherit = x.inherit
      /\ [x EXCEPT !.log = TRUE].checkpoint = x.checkpoint
  BY DEF StateType
<1>4. [x EXCEPT !.attempts = x.attempts - 1] \in StateType /\ Alike([x EXCEPT !.attempts = x.attempts - 1], x)
  BY DEF StateType, Alike
<1>5. /\ [x EXCEPT !.incremental = x.incremental + 1] \in StateType
      /\ Alike([x EXCEPT !.incremental = x.incremental + 1], x)
  BY DEF StateType, Alike
<1>6. [x EXCEPT !.incremental = 0] \in StateType /\ Alike([x EXCEPT !.incremental = 0], x)
  BY DEF StateType, Alike
<1> QED
  BY <1>1, <1>2, <1>3, <1>4, <1>5, <1>6

(* The trees that the steps make. *)
LEMMA TreeOperators ==
    /\ Pristine \in TreeType /\ Pristine.bumps = 0 /\ ~Pristine.log
    /\ NewClone \in CloneType /\ NewClone.tree = Pristine
    /\ \A tree \in TreeType : tree # NoCommit
    /\ \A task2 \in TaskType : task2 # NoPayload
    /\ NewPayload \in TaskType
<1>1. Pristine \in TreeType /\ Pristine.bumps = 0 /\ ~Pristine.log
  BY DEF Pristine, TreeType
<1>2. NewClone \in CloneType /\ NewClone.tree = Pristine
  BY <1>1 DEF NewClone, CloneType, CommitType
<1>3. ASSUME NEW tree \in TreeType, tree = NoCommit PROVE FALSE
  <2>1. "log" \in DOMAIN tree
    BY DEF TreeType
  <2>2. "log" \notin DOMAIN NoCommit
    BY DEF NoCommit
  <2> QED
    BY <1>3, <2>1, <2>2
<1>4. ASSUME NEW task2 \in TaskType, task2 = NoPayload PROVE FALSE
  <2>1. task2.attempts \in Nat
    BY DEF TaskType
  <2>2. NoPayload.attempts = -1
    BY DEF NoPayload
  <2> QED
    BY <1>4, <2>1, <2>2
<1>5. NewPayload \in TaskType
  BY DEF NewPayload, TaskType, CommitType
<1> QED
  BY <1>1, <1>2, <1>3, <1>4, <1>5

(* The state of a new attempt. *)
LEMMA StartState ==
    ASSUME NEW p \in TaskType
    PROVE  /\ StateOf(p) \in StateType /\ ~StateOf(p).log /\ ~StateOf(p).bumped /\ ~StateOf(p).inherit
           /\ StateOf(p).checkpoint = p.checkpoint
BY FixTaskAssumption DEF StateOf, StateType, TaskType

(* A step of the workflow that leaves the branch alone. *)
LEMMA WorksOn ==
    ASSUME FixInv, step # "idle", UNCHANGED outside,
           s' \in StateType, clone' \in CloneType, task' \in TaskType,
           gitlab' \in [branch : CommitType, mr : BOOLEAN], gitlab'.branch = gitlab.branch,
           step \in Resuming /\ s.checkpoint # NoCommit =>
               step' \in Resuming /\ s'.checkpoint = s.checkpoint /\ task'.checkpoint = task.checkpoint,
           BackportFacts', RebaseFacts', RebuildFacts'
    PROVE  FixInv'
<1>1. FixTypes'
  BY DEF FixInv, FixTypes, outside
<1>2. Published'
  BY DEF FixInv, Published, Whole, Valid, outside
<1>3. Kept'
  BY DEF FixInv, FixTypes, Kept, outside
<1> QED
  BY <1>1, <1>2, <1>3 DEF FixInv

(* A step that ends the workflow's work on the clone. *)
Quiet == {"comment_in_jira", "raised", "ended", "submit_consolidation_job", "open_inherited_mr"}
LEMMA QuietKeeps ==
    ASSUME FixInv, step # "idle", UNCHANGED outside, step' \in Quiet,
           s' \in StateType, clone' \in CloneType, task' \in TaskType,
           gitlab' \in [branch : CommitType, mr : BOOLEAN], gitlab'.branch = gitlab.branch,
           step \in Resuming => s'.checkpoint = s.checkpoint /\ task'.checkpoint = task.checkpoint
    PROVE  FixInv'
<1>1. BackportFacts' /\ RebaseFacts' /\ RebuildFacts'
  BY DEF BackportFacts, OwnBackport, Inheriting, Ordinary, Changed, Commits, RebaseFacts, RebuildFacts, Quiet
<1> QED
  BY <1>1, WorksOn DEF Quiet, Resuming

(* A commit of the agent's own that is whole and built moves the branch. *)
LEMMA BranchMoves ==
    ASSUME FixInv, step # "idle", UNCHANGED outside, UNCHANGED task, step' \in {"comment_in_jira", "submit_consolidation_job"},
           s' \in StateType, clone' \in CloneType, gitlab' \in [branch : CommitType, mr : BOOLEAN],
           Whole(gitlab'.branch), Valid(gitlab'.branch), gitlab'.branch.change # "inherited"
    PROVE  FixInv'
<1>1. FixTypes'
  BY DEF FixInv, FixTypes, outside
<1>2. Published'
  BY DEF Published, Whole, Valid, outside
<1>3. Kept'
  BY DEF Kept
<1>4. BackportFacts' /\ RebaseFacts' /\ RebuildFacts'
  BY DEF BackportFacts, OwnBackport, Inheriting, Ordinary, Changed, Commits, RebaseFacts, RebuildFacts
<1> QED
  BY <1>1, <1>2, <1>3, <1>4 DEF FixInv

(* The commit that publication makes reaches the branch, or it does not; the  *)
(* workflow goes on to a step that leaves the clone alone.                     *)
LEMMA PublishKeeps ==
    ASSUME FixInv, UNCHANGED outside, UNCHANGED task, NEW next \in {"comment_in_jira", "submit_consolidation_job"},
           Publish(Failed(s), next), step = "commit_push_and_open_mr",
           Whole(clone.index), Valid(clone.index), clone.index.change # "inherited"
    PROVE  FixInv'
<1>1. s \in StateType /\ clone \in CloneType /\ gitlab \in [branch : CommitType, mr : BOOLEAN] /\ task \in TaskType
  BY DEF FixInv, FixTypes
<1>2. PICK committed : committed = [clone EXCEPT !.commit = clone.index]
  OBVIOUS
<1>3. PICK pushed : pushed = [gitlab EXCEPT !.branch = clone.index]
  OBVIOUS
<1>4. PICK opened : opened = [pushed EXCEPT !.mr = TRUE]
  OBVIOUS
<1>5. clone.index \in TreeType
  BY <1>1 DEF CloneType
<1>6. committed \in CloneType
  BY <1>1, <1>2, <1>5 DEF CloneType, CommitType
<1>7. pushed \in [branch : CommitType, mr : BOOLEAN] /\ pushed.branch = clone.index
  BY <1>1, <1>3, <1>5 DEF CommitType
<1>8. opened \in [branch : CommitType, mr : BOOLEAN] /\ opened.branch = clone.index
  BY <1>4, <1>7
<1>9. PICK done : done = [s EXCEPT !.url = TRUE, !.new = ~gitlab.mr,
                                  !.result = IF s.result = "none" THEN "ok" ELSE s.result]
  OBVIOUS
<1>10. PICK failed : failed = [Failed(s) EXCEPT !.url = FALSE]
  OBVIOUS
<1>11. done \in StateType /\ done.checkpoint = s.checkpoint
  BY <1>1, <1>9 DEF StateType
<1>12. failed \in StateType /\ failed.checkpoint = s.checkpoint
  BY <1>1, <1>10 DEF StateType, Failed
<1>13. /\ step' = next
       /\ s' \in {done, failed} /\ clone' \in {clone, committed} /\ gitlab' \in {gitlab, pushed, opened}
  BY <1>2, <1>3, <1>4, <1>9, <1>10 DEF Publish, With, NoEdit
<1>14. /\ s' \in StateType /\ s'.checkpoint = s.checkpoint /\ clone' \in CloneType
       /\ gitlab' \in [branch : CommitType, mr : BOOLEAN]
  BY <1>1, <1>6, <1>7, <1>8, <1>11, <1>12, <1>13
<1>15. CASE gitlab' = gitlab
  BY <1>1, <1>13, <1>14, <1>15, QuietKeeps DEF Quiet
<1>16. CASE gitlab'.branch = clone.index
  BY <1>13, <1>14, <1>16, BranchMoves
<1> QED
  BY <1>7, <1>8, <1>13, <1>15, <1>16

(* Whatever changes the clone's tree keeps the rest of it. *)
LEMMA Edits ==
    ASSUME clone \in CloneType, NEW tree \in TreeType, Edit(tree)
    PROVE  clone' \in CloneType /\ clone'.tree = tree /\ clone'.index = clone.index /\ clone'.commit = clone.commit
BY DEF Edit, CloneType

(* The bump of the release, the changelog entry and the staging. *)
LEMMA TreeEdits ==
    ASSUME clone \in CloneType
    PROVE  /\ Bumped \in TreeType /\ Bumped.bumps = clone.tree.bumps + 1 /\ Bumped.log = clone.tree.log
           /\ Bumped.change = clone.tree.change /\ Bumped.verdict = clone.tree.verdict
           /\ [clone.tree EXCEPT !.log = TRUE] \in TreeType /\ [clone.tree EXCEPT !.log = TRUE].log
           /\ [clone.tree EXCEPT !.log = TRUE].bumps = clone.tree.bumps
           /\ [clone.tree EXCEPT !.log = TRUE].change = clone.tree.change
           /\ [clone.tree EXCEPT !.log = TRUE].verdict = clone.tree.verdict
           /\ [clone EXCEPT !.index = clone.tree] \in CloneType
           /\ [clone EXCEPT !.index = clone.tree].index = clone.tree
           /\ [clone EXCEPT !.index = clone.tree].tree = clone.tree
<1>1. PICK tree : tree = clone.tree
  OBVIOUS
<1>2. tree \in TreeType
  BY <1>1 DEF CloneType
<1>3. PICK bumped : bumped = [tree EXCEPT !.bumps = tree.bumps + 1]
  OBVIOUS
<1>4. /\ bumped \in TreeType /\ bumped.bumps = tree.bumps + 1 /\ bumped.log = tree.log
      /\ bumped.change = tree.change /\ bumped.verdict = tree.verdict
  BY <1>2, <1>3 DEF TreeType
<1>5. PICK logged : logged = [tree EXCEPT !.log = TRUE]
  OBVIOUS
<1>6. /\ logged \in TreeType /\ logged.bumps = tree.bumps /\ logged.log
      /\ logged.change = tree.change /\ logged.verdict = tree.verdict
  BY <1>2, <1>5 DEF TreeType
<1>7. PICK staged : staged = [clone EXCEPT !.index = clone.tree]
  OBVIOUS
<1>8. staged \in CloneType /\ staged.index = tree /\ staged.tree = tree
  BY <1>1, <1>7 DEF CloneType
<1> QED
  BY <1>1, <1>3, <1>4, <1>5, <1>6, <1>7, <1>8 DEF Bumped

(* Every step of the rebuild agent. *)
LEMMA RebuildKeeps ==
    ASSUME FixInv, RebuildStep
    PROVE  FixInv'
<1>1. /\ s \in StateType /\ clone \in CloneType /\ task \in TaskType
      /\ gitlab \in [branch : CommitType, mr : BOOLEAN] /\ UNCHANGED outside
  BY DEF FixInv, FixTypes, RebuildStep
<1>2. setup.agent = "rebuild" /\ setup' = setup /\ step # "idle"
  BY DEF RebuildStep, RebuildChangeJiraStatus, RebuildForkAndPrepare, RebuildUpdateRelease, RebuildStageChanges,
         RebuildRunLogAgent, RebuildCommitPushAndOpenMR, RebuildSubmitConsolidationJob, RebuildCommentInJira, U, At, outside
<1>3. BackportFacts' /\ RebaseFacts'
  BY <1>2 DEF BackportFacts, RebaseFacts
<1>4. ~(step \in Resuming /\ step = "fork_and_prepare_dist_git") /\ Kept /\ RebuildFacts
  BY DEF Resuming, FixInv
<1>5. ASSUME UNCHANGED <<gitlab, task>>, s' \in StateType, clone' \in CloneType, RebuildFacts',
             step \notin Resuming
      PROVE  FixInv'
  BY <1>1, <1>2, <1>3, <1>5, WorksOn
<1>6. ASSUME UNCHANGED <<gitlab, task>>, s' \in StateType, s'.checkpoint = s.checkpoint, clone' \in CloneType,
             step' \in Quiet
      PROVE  FixInv'
  BY <1>1, <1>2, <1>6, QuietKeeps
<1>7. CASE RebuildChangeJiraStatus
  <2>1. step = "change_jira_status" /\ step' = "fork_and_prepare_dist_git" /\ UNCHANGED <<s, clone, gitlab, task>>
    BY <1>7 DEF RebuildChangeJiraStatus, U, At, With, NoEdit, Private
  <2>2. ~s.log
    BY <1>2, <1>4, <2>1 DEF RebuildFacts
  <2>3. RebuildFacts'
    BY <2>1, <2>2 DEF RebuildFacts
  <2>4. FixTypes' /\ Published'
    BY <1>1, <1>2, <2>1 DEF FixInv, FixTypes, Published, Whole, Valid, outside
  <2>5. Kept'
    BY <1>1, <1>2, <1>4, <2>1 DEF Kept, outside
  <2> QED
    BY <1>3, <2>3, <2>4, <2>5 DEF FixInv
<1>8. CASE RebuildForkAndPrepare
  <2>1. step = "fork_and_prepare_dist_git" /\ UNCHANGED <<s, gitlab, task>>
        /\ ((step' = "update_release" /\ clone' = NewClone) \/ (step' = "raised" /\ UNCHANGED clone))
    BY <1>8 DEF RebuildForkAndPrepare, U, At, With, Raise, NoEdit, Private
  <2>2. ~s.log
    BY <1>2, <1>4, <2>1 DEF RebuildFacts
  <2>3. RebuildFacts' /\ clone' \in CloneType
    BY <1>1, <2>1, <2>2, TreeOperators DEF RebuildFacts, Pristine
  <2> QED
    BY <1>1, <1>5, <2>1, <2>3 DEF Resuming
<1>9. CASE RebuildUpdateRelease
  <2>1. step = "update_release" /\ UNCHANGED <<gitlab, task>>
    BY <1>9 DEF RebuildUpdateRelease, U, At, Private
  <2>2. CASE With("stage_changes", s) /\ Edit(Bumped)
    <3>1. /\ clone' \in CloneType /\ clone'.tree.bumps = clone.tree.bumps + 1 /\ clone'.tree.log = clone.tree.log
          /\ clone'.tree.change = clone.tree.change
      BY <1>1, <2>2, Edits, TreeEdits
    <3>2. RebuildFacts'
      BY <1>1, <1>2, <1>4, <2>1, <2>2, <3>1 DEF RebuildFacts, With, CloneType, StateType, TreeType
    <3> QED
      BY <1>1, <1>5, <2>1, <2>2, <3>1, <3>2 DEF With, Resuming
  <2>3. CASE Report /\ NoEdit
    BY <1>1, <1>6, <2>1, <2>3, StateOperators DEF Report, With, NoEdit, Quiet, Alike
  <2> QED
    BY <1>9, <2>2, <2>3 DEF RebuildUpdateRelease
<1>10. CASE RebuildStageChanges
  <2>1. /\ step = "stage_changes" /\ UNCHANGED <<s, gitlab, task>> /\ clone' = [clone EXCEPT !.index = clone.tree]
        /\ step' = IF s.log THEN "commit_push_and_open_mr" ELSE "run_log_agent"
    BY <1>10 DEF RebuildStageChanges, U, At, With, Private
  <2>2. clone' \in CloneType /\ clone'.index = clone.tree /\ clone'.tree = clone.tree
    BY <1>1, <2>1, TreeEdits
  <2>3. RebuildFacts'
    BY <1>2, <1>4, <2>1, <2>2 DEF RebuildFacts
  <2> QED
    BY <1>1, <1>5, <2>1, <2>2, <2>3 DEF Resuming
<1>11. CASE RebuildRunLogAgent
  <2>1. step = "run_log_agent" /\ UNCHANGED <<gitlab, task>>
    BY <1>11 DEF RebuildRunLogAgent, U, At, Private
  <2>2. CASE With("stage_changes", [s EXCEPT !.log = TRUE]) /\ Edit([clone.tree EXCEPT !.log = TRUE])
    <3>1. /\ clone' \in CloneType /\ clone'.tree.bumps = clone.tree.bumps /\ clone'.tree.log
          /\ clone'.tree.change = clone.tree.change
      BY <1>1, <2>2, Edits, TreeEdits
    <3>2. s' \in StateType /\ s'.log /\ step' = "stage_changes"
      BY <1>1, <2>2, StateOperators DEF With
    <3>3. RebuildFacts'
      BY <1>1, <1>2, <1>4, <2>1, <3>1, <3>2 DEF RebuildFacts, CloneType, StateType, TreeType
    <3> QED
      BY <1>5, <2>1, <3>1, <3>2, <3>3 DEF Resuming
  <2>3. CASE Raise /\ NoEdit
    BY <1>1, <1>6, <2>1, <2>3 DEF Raise, With, NoEdit, Quiet
  <2> QED
    BY <1>11, <2>2, <2>3 DEF RebuildRunLogAgent
<1>12. CASE RebuildCommitPushAndOpenMR
  <2>1. step = "commit_push_and_open_mr" /\ Publish(Failed(s), "submit_consolidation_job") /\ UNCHANGED task
    BY <1>12 DEF RebuildCommitPushAndOpenMR, U, At
  <2>2. Whole(clone.index) /\ Valid(clone.index) /\ clone.index.change # "inherited"
    BY <1>2, <1>4, <2>1 DEF RebuildFacts, Whole, Valid
  <2> QED
    BY <1>1, <2>1, <2>2, PublishKeeps
<1>13. CASE RebuildSubmitConsolidationJob \/ RebuildCommentInJira
  <2>1. step' \in Quiet /\ UNCHANGED <<s, clone, gitlab, task>>
    BY <1>13 DEF RebuildSubmitConsolidationJob, RebuildCommentInJira, With, Goto, NoEdit, Quiet
  <2> QED
    BY <1>1, <1>6, <2>1
<1> QED
  BY <1>7, <1>8, <1>9, <1>10, <1>11, <1>12, <1>13 DEF RebuildStep

(* Every step of the rebase agent. *)
LEMMA RebaseKeeps ==
    ASSUME FixInv, RebaseStep
    PROVE  FixInv'
<1>1. /\ s \in StateType /\ clone \in CloneType /\ task \in TaskType
      /\ gitlab \in [branch : CommitType, mr : BOOLEAN] /\ UNCHANGED outside
  BY DEF FixInv, FixTypes, RebaseStep
<1>2. setup.agent = "rebase" /\ setup' = setup /\ step # "idle"
  BY DEF RebaseStep, CheckIfSibling, RebaseChangeJiraStatus, FindConsolidatedSiblings, RebaseForkAndPrepare,
         RunRebaseAgent, RunBuildAgent, RebaseUpdateRelease, RebaseStageChanges, RebaseRunLogAgent,
         RebaseCommitPushAndOpenMR, RebaseCommentInJira, R, At, outside
<1>3. BackportFacts' /\ RebuildFacts'
  BY <1>2 DEF BackportFacts, RebuildFacts
<1>4. Kept /\ RebaseFacts
  BY DEF FixInv
<1>5. ASSUME UNCHANGED <<gitlab, task>>, s' \in StateType, clone' \in CloneType, RebaseFacts', step' # "idle"
      PROVE  FixInv'
  <2>1. FixTypes' /\ Published'
    BY <1>1, <1>2, <1>5 DEF FixInv, FixTypes, Published, Whole, Valid, outside
  <2>2. Kept'
    BY <1>1, <1>2, <1>4, <1>5 DEF Kept, outside
  <2> QED
    BY <1>3, <1>5, <2>1, <2>2 DEF FixInv
<1>6. ASSUME UNCHANGED <<gitlab, task>>, s' \in StateType, clone' \in CloneType, step' \in Quiet
      PROVE  FixInv'
  BY <1>5, <1>6 DEF RebaseFacts, Quiet
<1>7. CASE CheckIfSibling \/ RebaseChangeJiraStatus \/ FindConsolidatedSiblings
  <2>1. /\ step \in {"check_if_sibling", "change_jira_status", "find_consolidated_siblings"}
        /\ step' \in {"ended", "change_jira_status", "find_consolidated_siblings", "fork_and_prepare_dist_git"}
        /\ UNCHANGED <<s, clone, gitlab, task>>
    BY <1>7 DEF CheckIfSibling, RebaseChangeJiraStatus, FindConsolidatedSiblings, R, At, With, Goto, NoEdit, Private
  <2>2. RebaseFacts'
    BY <1>2, <1>4, <2>1 DEF RebaseFacts
  <2> QED
    BY <1>1, <1>5, <2>1, <2>2
<1>8. CASE RebaseForkAndPrepare
  <2>1. step = "fork_and_prepare_dist_git" /\ UNCHANGED <<s, gitlab, task>>
        /\ ((step' = "run_rebase_agent" /\ clone' = NewClone) \/ (step' = "raised" /\ UNCHANGED clone))
    BY <1>8 DEF RebaseForkAndPrepare, R, At, With, Raise, NoEdit, Private
  <2>2. ~s.log
    BY <1>2, <1>4, <2>1 DEF RebaseFacts
  <2>3. RebaseFacts' /\ clone' \in CloneType
    BY <1>1, <2>1, <2>2, TreeOperators DEF RebaseFacts
  <2> QED
    BY <1>1, <1>5, <2>1, <2>3
<1>9. CASE RunRebaseAgent
  <2>1. step = "run_rebase_agent" /\ UNCHANGED <<gitlab, task>>
    BY <1>9 DEF RunRebaseAgent, R, At, Private
  <2>2. ASSUME NEW result \in {"ok", "no_srpm"},
               With(IF setup.modular THEN "update_release" ELSE "run_build_agent", [s EXCEPT !.result = result]),
               Edit([clone.tree EXCEPT !.change = "fix", !.verdict = "untested"])
        PROVE  FixInv'
    <3>1. PICK tree : tree = clone.tree
      OBVIOUS
    <3>2. PICK new : new = [tree EXCEPT !.change = "fix", !.verdict = "untested"]
      OBVIOUS
    <3>3. /\ new \in TreeType /\ new.change = "fix" /\ new.bumps = tree.bumps /\ new.log = tree.log
          /\ tree \in TreeType
      BY <1>1, <3>1, <3>2 DEF TreeType, CloneType
    <3>4. Edit(new)
      BY <2>2, <3>1, <3>2
    <3>5. clone' \in CloneType /\ clone'.tree = new
      BY <1>1, <3>3, <3>4, Edits
    <3>6. s' \in StateType /\ s'.log = s.log
      <4>1. s' = [s EXCEPT !.result = result]
        BY <2>2 DEF With
      <4> QED
        BY <1>1, <4>1 DEF StateType
    <3>7. /\ step' = IF setup.modular THEN "update_release" ELSE "run_build_agent"
      BY <2>2 DEF With
    <3>8. RebaseFacts'
      BY <1>2, <1>4, <2>1, <3>1, <3>3, <3>5, <3>6, <3>7 DEF RebaseFacts
    <3> QED
      BY <1>5, <2>1, <3>5, <3>6, <3>7, <3>8
  <2>3. CASE (Report \/ Raise) /\ NoEdit
    <3>1. step' \in Quiet /\ s' \in StateType /\ UNCHANGED clone
      BY <1>1, <2>3, StateOperators DEF Report, Raise, With, NoEdit, Quiet
    <3> QED
      BY <1>1, <1>6, <2>1, <3>1
  <2> QED
    BY <1>9, <2>2, <2>3 DEF RunRebaseAgent
<1>10. CASE RunBuildAgent
  <2>1. step = "run_build_agent" /\ UNCHANGED <<gitlab, task>>
    BY <1>10 DEF RunBuildAgent, R, At, Private
  <2>2. PICK candidate : candidate = IF setup.konflux THEN [clone EXCEPT !.index = clone.tree, !.commit = clone.tree]
                                                      ELSE clone
    OBVIOUS
  <2>3. candidate \in CloneType /\ candidate.tree = clone.tree
    BY <1>1, <2>2 DEF CloneType, CommitType
  <2>4. PICK less : less = [s EXCEPT !.attempts = s.attempts - 1]
    OBVIOUS
  <2>5. less \in StateType /\ less.log = s.log
    BY <1>1, <2>4, StateOperators DEF Alike
  <2>6. \/ clone' \in {clone, candidate} /\ (Report \/ Raise \/ With("comment_in_jira", Failed(less)))
        \/ clone' = candidate /\ With("fork_and_prepare_dist_git", less)
        \/ /\ With("update_release", s)
           /\ \E verdict \in {"green", "timeout"} : clone' = [candidate EXCEPT !.tree.verdict = verdict]
    <3>1. CASE s.result = "no_srpm" /\ Raise /\ clone' \in {clone, candidate}
      BY <3>1
    <3> QED
      BY <1>10, <2>2, <2>4 DEF RunBuildAgent
  <2>7. CASE clone' \in {clone, candidate} /\ (Report \/ Raise \/ With("comment_in_jira", Failed(less)))
    <3>1. s' \in StateType /\ step' \in Quiet
      BY <1>1, <2>5, <2>7, StateOperators DEF Report, Raise, With, Quiet
    <3> QED
      BY <1>1, <1>6, <2>1, <2>3, <2>7, <3>1
  <2>8. CASE clone' = candidate /\ With("fork_and_prepare_dist_git", less)
    <3>1. RebaseFacts'
      BY <1>2, <1>4, <2>1, <2>5, <2>8 DEF RebaseFacts, With
    <3> QED
      BY <1>5, <2>1, <2>3, <2>5, <2>8, <3>1 DEF With
  <2>9. ASSUME With("update_release", s), NEW verdict \in {"green", "timeout"},
               clone' = [candidate EXCEPT !.tree.verdict = verdict]
        PROVE  FixInv'
    <3>1. PICK tree : tree = clone.tree
      OBVIOUS
    <3>2. PICK built : built = [tree EXCEPT !.verdict = verdict]
      OBVIOUS
    <3>3. /\ built \in TreeType /\ built.verdict = verdict /\ built.bumps = tree.bumps /\ built.log = tree.log
          /\ built.change = tree.change
      BY <1>1, <3>1, <3>2 DEF TreeType, CloneType
    <3>4. clone' = [candidate EXCEPT !.tree = built]
      BY <2>3, <2>9, <3>1, <3>2
    <3>5. clone' \in CloneType /\ clone'.tree = built
      BY <2>3, <3>3, <3>4 DEF CloneType
    <3>6. RebaseFacts'
      BY <1>2, <1>4, <2>1, <2>9, <3>1, <3>3, <3>5 DEF RebaseFacts, With
    <3> QED
      BY <1>1, <1>5, <2>1, <2>9, <3>5, <3>6 DEF With
  <2> QED
    BY <2>6, <2>7, <2>8, <2>9
<1>11. CASE RebaseUpdateRelease
  <2>1. step = "update_release" /\ UNCHANGED <<gitlab, task>>
    BY <1>11 DEF RebaseUpdateRelease, R, At, Private
  <2>2. CASE With("stage_changes", s) /\ Edit(Bumped)
    <3>1. /\ clone' \in CloneType /\ clone'.tree.bumps = clone.tree.bumps + 1 /\ clone'.tree.log = clone.tree.log
          /\ clone'.tree.change = clone.tree.change /\ clone'.tree.verdict = clone.tree.verdict
      BY <1>1, <2>2, Edits, TreeEdits
    <3>2. RebaseFacts'
      BY <1>1, <1>2, <1>4, <2>1, <2>2, <3>1 DEF RebaseFacts, With, CloneType, StateType, TreeType
    <3> QED
      BY <1>1, <1>5, <2>1, <2>2, <3>1, <3>2 DEF With
  <2>3. CASE Report /\ NoEdit
    BY <1>1, <1>6, <2>1, <2>3, StateOperators DEF Report, With, NoEdit, Quiet
  <2> QED
    BY <1>11, <2>2, <2>3 DEF RebaseUpdateRelease
<1>12. CASE RebaseStageChanges
  <2>1. /\ step = "stage_changes" /\ UNCHANGED <<s, gitlab, task>> /\ clone' = [clone EXCEPT !.index = clone.tree]
        /\ step' = IF s.log THEN "commit_push_and_open_mr" ELSE "run_log_agent"
    BY <1>12 DEF RebaseStageChanges, R, At, With, Private
  <2>2. clone' \in CloneType /\ clone'.index = clone.tree /\ clone'.tree = clone.tree
    BY <1>1, <2>1, TreeEdits
  <2>3. RebaseFacts'
    BY <1>2, <1>4, <2>1, <2>2 DEF RebaseFacts
  <2> QED
    BY <1>1, <1>5, <2>1, <2>2, <2>3
<1>13. CASE RebaseRunLogAgent
  <2>1. step = "run_log_agent" /\ UNCHANGED <<gitlab, task>>
    BY <1>13 DEF RebaseRunLogAgent, R, At, Private
  <2>2. CASE With("stage_changes", [s EXCEPT !.log = TRUE]) /\ Edit([clone.tree EXCEPT !.log = TRUE])
    <3>1. /\ clone' \in CloneType /\ clone'.tree.bumps = clone.tree.bumps /\ clone'.tree.log
          /\ clone'.tree.change = clone.tree.change /\ clone'.tree.verdict = clone.tree.verdict
      BY <1>1, <2>2, Edits, TreeEdits
    <3>2. s' \in StateType /\ s'.log /\ step' = "stage_changes"
      BY <1>1, <2>2, StateOperators DEF With
    <3>3. clone'.tree.log = s'.log
      BY <3>1, <3>2 DEF CloneType, StateType, TreeType
    <3>4. RebaseFacts'
      BY <1>2, <1>4, <2>1, <3>1, <3>2, <3>3 DEF RebaseFacts
    <3> QED
      BY <1>5, <2>1, <3>1, <3>2, <3>4
  <2>3. CASE Raise /\ NoEdit
    BY <1>1, <1>6, <2>1, <2>3 DEF Raise, With, NoEdit, Quiet
  <2> QED
    BY <1>13, <2>2, <2>3 DEF RebaseRunLogAgent
<1>14. CASE RebaseCommitPushAndOpenMR
  <2>1. step = "commit_push_and_open_mr" /\ Publish(Failed(s), "comment_in_jira") /\ UNCHANGED task
    BY <1>14 DEF RebaseCommitPushAndOpenMR, R, At
  <2>2. Whole(clone.index) /\ Valid(clone.index) /\ clone.index.change # "inherited"
    BY <1>2, <1>4, <2>1 DEF RebaseFacts, Whole, Valid
  <2> QED
    BY <1>1, <2>1, <2>2, PublishKeeps
<1>15. CASE RebaseCommentInJira
  <2>1. step' \in Quiet /\ UNCHANGED <<s, clone, gitlab, task>>
    BY <1>15 DEF RebaseCommentInJira, Goto, NoEdit, Quiet
  <2> QED
    BY <1>1, <1>6, <2>1
<1> QED
  BY <1>7, <1>8, <1>9, <1>10, <1>11, <1>12, <1>13, <1>14, <1>15 DEF RebaseStep

-----------------------------------------------------------------------------
(* An inherited change that is given up leaves nothing behind in the clone of *)
(* the agent's own backport.                                                   *)
LEMMA CleanUpKeeps ==
    ASSUME FixInv, setup.agent = "backport", step \notin Resuming \cup {"idle"}, UNCHANGED outside, UNCHANGED gitlab,
           NEW x \in StateType, ~x.bumped, NEW task2 \in TaskType, CleanUp(x, task2)
    PROVE  FixInv'
<1>1. /\ s \in StateType /\ clone \in CloneType /\ task \in TaskType
      /\ gitlab \in [branch : CommitType, mr : BOOLEAN]
  BY DEF FixInv, FixTypes
<1>2. DisabledTask \in TaskType
  BY <1>1 DEF DisabledTask, TaskType, CommitType
<1>3. PICK again : again = [x EXCEPT !.retried = TRUE]
  OBVIOUS
<1>4. PICK plain : plain = Disabled(x)
  OBVIOUS
<1>5. PICK forgotten : forgotten = Forgotten(x)
  OBVIOUS
<1>6. PICK own : own = Disabled(forgotten)
  OBVIOUS
<1>7. again \in StateType
  BY <1>3 DEF StateType
<1>8. plain \in StateType
  BY <1>4 DEF StateType, Disabled, CommitType
<1>9. forgotten \in StateType /\ ~forgotten.bumped /\ ~forgotten.inherit /\ ~forgotten.log
  <2>1. PICK left : left = [x EXCEPT !.inherit = FALSE]
    OBVIOUS
  <2>2. left \in StateType /\ left.bumped = x.bumped /\ left.inherit = FALSE
    BY <2>1 DEF StateType
  <2>3. PICK none : none = [left EXCEPT !.builds = 0]
    OBVIOUS
  <2>4. none \in StateType /\ none.bumped = x.bumped /\ none.inherit = FALSE
    BY <2>2, <2>3 DEF StateType
  <2>5. forgotten = [none EXCEPT !.pushed = FALSE, !.result = "none", !.log = FALSE]
    BY <1>5, <2>1, <2>3 DEF Forgotten
  <2> QED
    BY <2>4, <2>5 DEF StateType
<1>10. own \in StateType /\ ~own.bumped /\ ~own.inherit /\ ~own.log
  BY <1>6, <1>9 DEF StateType, Disabled, CommitType
<1>11. \/ step' = "prepare_normal_backport" /\ s' = own /\ task' = DisabledTask /\ clone' = NewClone
       \/ step' = "fork_and_prepare_dist_git" /\ s' = again /\ task' = task2 /\ UNCHANGED clone
       \/ step' = "fork_and_prepare_dist_git" /\ s' = plain /\ task' = DisabledTask /\ UNCHANGED clone
       \/ step' = "raised" /\ s' = x /\ task' = task2 /\ UNCHANGED clone
  BY <1>3, <1>4, <1>5, <1>6 DEF CleanUp, With, NoEdit
<1>12. s' \in StateType /\ task' \in TaskType /\ clone' \in CloneType
  BY <1>1, <1>2, <1>7, <1>8, <1>10, <1>11, TreeOperators
<1>13. BackportFacts'
  BY <1>10, <1>11, TreeOperators DEF BackportFacts, OwnBackport, Inheriting, Ordinary, Changed, Commits, StateType, TreeType
<1>14. RebaseFacts' /\ RebuildFacts'
  BY DEF RebaseFacts, RebuildFacts, outside
<1> QED
  BY <1>1, <1>12, <1>13, <1>14, WorksOn

(* What every step of the backport agent starts from. *)
LEMMA BackportStarts ==
    ASSUME FixInv, BackportStep
    PROVE  /\ s \in StateType /\ clone \in CloneType /\ task \in TaskType
           /\ gitlab \in [branch : CommitType, mr : BOOLEAN] /\ UNCHANGED outside
           /\ setup.agent = "backport" /\ step # "idle" /\ setup' = setup
           /\ OwnBackport /\ Inheriting /\ RebaseFacts' /\ RebuildFacts'
<1>1. /\ s \in StateType /\ clone \in CloneType /\ task \in TaskType
      /\ gitlab \in [branch : CommitType, mr : BOOLEAN] /\ UNCHANGED outside
  BY DEF FixInv, FixTypes, BackportStep
<1>2. setup.agent = "backport" /\ step # "idle"
  BY DEF BackportStep, Inheritance, ResumeInheritedPublication, EvaluateInheritSource, CommitInheritedChange,
         ValidateInheritedBuild, PushInheritedChange, OpenInheritedMR, ChangeJiraStatus, ForkAndPrepare,
         PrepareNormalBackport, RunBackportAgent, FixBuildError, UpdateRelease, StageChanges, RunLogAgent,
         CommitPushAndOpenMR, CommitPushAndBuild, SubmitConsolidationJob, CommentInJira, B, At
<1>3. setup' = setup
  BY <1>1 DEF outside
<1> QED
  BY <1>1, <1>2, <1>3 DEF FixInv, BackportFacts, RebaseFacts, RebuildFacts

(* The beginning of a backport, its resumption, and its end. *)
LEMMA ResumeKeeps ==
    ASSUME FixInv, BackportStep,
           ChangeJiraStatus \/ ResumeInheritedPublication \/ OpenInheritedMR \/ SubmitConsolidationJob \/ CommentInJira
    PROVE  FixInv'
<1>1. /\ s \in StateType /\ clone \in CloneType /\ task \in TaskType
      /\ gitlab \in [branch : CommitType, mr : BOOLEAN] /\ UNCHANGED outside
      /\ setup.agent = "backport" /\ step # "idle" /\ setup' = setup
      /\ OwnBackport /\ Inheriting /\ RebaseFacts' /\ RebuildFacts'
  BY BackportStarts
<1>2. CASE ChangeJiraStatus
  <2>1. /\ step' = IF s.checkpoint # NoCommit THEN "resume_inherited_publication" ELSE "fork_and_prepare_dist_git"
        /\ UNCHANGED <<s, clone, gitlab, task>>
    BY <1>2 DEF ChangeJiraStatus, Goto, NoEdit, Private
  <2>2. BackportFacts'
    BY <2>1 DEF BackportFacts, OwnBackport, Inheriting, Ordinary, Changed, Commits
  <2> QED
    BY <1>1, <2>1, <2>2, WorksOn DEF Resuming
<1>3. CASE ResumeInheritedPublication
  <2>1. PICK restored : restored = Restored
    OBVIOUS
  <2>2. restored \in StateType /\ restored.checkpoint = s.checkpoint
    BY <1>1, <2>1 DEF Restored, StateType
  <2>3. PICK pushed : pushed = [restored EXCEPT !.pushed = TRUE]
    OBVIOUS
  <2>4. pushed \in StateType /\ pushed.checkpoint = s.checkpoint
    BY <2>2, <2>3 DEF StateType
  <2>5. Failed(restored) \in StateType /\ Failed(restored).checkpoint = s.checkpoint
    BY <2>2, StateOperators DEF Alike
  <2>6. /\ step' \in Quiet /\ s' \in {pushed, Failed(restored)} /\ UNCHANGED <<gitlab, task>>
        /\ clone' = [clone EXCEPT !.commit = s.checkpoint]
    BY <1>3, <2>1, <2>3 DEF ResumeInheritedPublication, With, Private, Quiet
  <2>7. clone' \in CloneType
    BY <1>1, <2>6 DEF CloneType, StateType
  <2> QED
    BY <1>1, <2>4, <2>5, <2>6, <2>7, QuietKeeps
<1>4. CASE OpenInheritedMR
  <2>1. PICK done : done = [s EXCEPT !.url = TRUE, !.new = ~gitlab.mr]
    OBVIOUS
  <2>2. PICK failed : failed = [Failed(s) EXCEPT !.mode = "resume"]
    OBVIOUS
  <2>3. done \in StateType /\ done.checkpoint = s.checkpoint
    BY <1>1, <2>1 DEF StateType
  <2>4. failed \in StateType /\ failed.checkpoint = s.checkpoint
    BY <1>1, <2>2 DEF StateType, Failed
  <2>5. Opened \in [branch : CommitType, mr : BOOLEAN] /\ Opened.branch = gitlab.branch
    BY <1>1 DEF Opened
  <2>6. step' \in Quiet /\ s' \in {done, failed} /\ gitlab' \in {gitlab, Opened} /\ UNCHANGED <<clone, task>>
    BY <1>4, <2>1, <2>2 DEF OpenInheritedMR, With, NoEdit, Quiet
  <2> QED
    BY <1>1, <2>3, <2>4, <2>5, <2>6, QuietKeeps
<1>5. CASE SubmitConsolidationJob \/ CommentInJira
  <2>1. step' \in Quiet /\ UNCHANGED <<s, clone, gitlab, task>>
    <3>1. CASE SubmitConsolidationJob
      BY <3>1 DEF SubmitConsolidationJob, With, Raise, NoEdit, Quiet
    <3>2. CASE CommentInJira
      BY <3>2 DEF CommentInJira, Goto, NoEdit, Quiet
    <3> QED
      BY <1>5, <3>1, <3>2
  <2> QED
    BY <1>1, <2>1, QuietKeeps
<1> QED
  BY <1>2, <1>3, <1>4, <1>5

(* Inheriting a change, up to its push. *)
LEMMA InheritKeeps ==
    ASSUME FixInv, BackportStep,
           EvaluateInheritSource \/ CommitInheritedChange \/ ValidateInheritedBuild \/ PushInheritedChange
    PROVE  FixInv'
<1>1. /\ s \in StateType /\ clone \in CloneType /\ task \in TaskType
      /\ gitlab \in [branch : CommitType, mr : BOOLEAN] /\ UNCHANGED outside
      /\ setup.agent = "backport" /\ step # "idle" /\ setup' = setup
      /\ OwnBackport /\ Inheriting /\ RebaseFacts' /\ RebuildFacts'
  BY BackportStarts
<1>2. step \notin Resuming \cup {"idle"}
  BY DEF EvaluateInheritSource, CommitInheritedChange, ValidateInheritedBuild, PushInheritedChange, B, At, Resuming
<1>3. ASSUME TryNormally, ~s.bumped PROVE FixInv'
  BY <1>1, <1>2, <1>3, CleanUpKeeps DEF TryNormally
<1>4. ASSUME Abandon, ~s.bumped PROVE FixInv'
  <2>1. Disabled(s) \in StateType /\ ~Disabled(s).bumped
    BY <1>1, <1>4 DEF StateType, Disabled, CommitType
  <2>2. DisabledTask \in TaskType
    BY <1>1 DEF DisabledTask, TaskType, CommitType
  <2> QED
    BY <1>1, <1>2, <1>4, <2>1, <2>2, CleanUpKeeps DEF Abandon
<1>5. ASSUME s' \in StateType, clone' \in CloneType, UNCHANGED <<gitlab, task>>, step' # "idle", BackportFacts'
      PROVE  FixInv'
  BY <1>1, <1>2, <1>5, WorksOn
<1>6. CASE EvaluateInheritSource
  <2>1. step = "evaluate_inherit_source" /\ ~s.bumped
    BY <1>1, <1>6 DEF EvaluateInheritSource, B, At, Inheriting
  <2>2. CASE /\ With("stage_changes", [s EXCEPT !.inherit = TRUE, !.log = TRUE, !.result = "ok",
                                                !.builds = MaxBuildAttempts])
             /\ Edit(Inherited) /\ Private
    <3>1. PICK new : new = [s EXCEPT !.inherit = TRUE, !.log = TRUE, !.result = "ok", !.builds = MaxBuildAttempts]
      OBVIOUS
    <3>2. new \in StateType /\ new.inherit /\ ~new.bumped
      <4>1. PICK some : some = [s EXCEPT !.inherit = TRUE, !.log = TRUE]
        OBVIOUS
      <4>2. some \in StateType /\ some.inherit /\ ~some.bumped
        BY <1>1, <2>1, <4>1 DEF StateType
      <4>3. new = [some EXCEPT !.result = "ok", !.builds = MaxBuildAttempts]
        BY <3>1, <4>1
      <4>4. MaxBuildAttempts \in Int
        BY FixTaskAssumption
      <4> QED
        BY <4>2, <4>3, <4>4 DEF StateType
    <3>3. Inherited \in TreeType /\ Bequest(Inherited)
      BY DEF Inherited, TreeType, Bequest, Whole
    <3>4. clone' \in CloneType /\ clone'.tree = Inherited
      BY <1>1, <2>2, <3>3, Edits
    <3>5. step' = "stage_changes" /\ s' = new /\ UNCHANGED <<gitlab, task>>
      BY <2>2, <3>1 DEF With, Private
    <3>6. BackportFacts'
      BY <3>2, <3>3, <3>4, <3>5 DEF BackportFacts, OwnBackport, Inheriting, Ordinary, Changed, Commits, Bequest, Whole
    <3> QED
      BY <1>5, <3>2, <3>4, <3>5, <3>6
  <2>3. CASE With("comment_in_jira", [Failed(s) EXCEPT !.mode = "none"]) /\ NoEdit /\ Private
    <3>1. [Failed(s) EXCEPT !.mode = "none"] \in StateType
      BY <1>1 DEF Failed, StateType
    <3> QED
      BY <1>1, <1>2, <2>3, <3>1, QuietKeeps DEF With, NoEdit, Private, Quiet
  <2> QED
    BY <1>3, <1>4, <1>6, <2>1, <2>2, <2>3 DEF EvaluateInheritSource
<1>7. CASE CommitInheritedChange
  <2>1. step = "commit_inherited_change" /\ ~s.bumped /\ Bequest(clone.index)
    BY <1>1, <1>7 DEF CommitInheritedChange, B, At, Inheriting
  <2>2. CASE With("validate_inherited_build", s) /\ clone' = [clone EXCEPT !.commit = clone.index] /\ Private
    <3>1. clone' \in CloneType /\ clone'.commit = clone.index
      BY <1>1, <2>2 DEF CloneType, CommitType
    <3>2. BackportFacts'
      BY <2>1, <2>2, <3>1 DEF BackportFacts, OwnBackport, Inheriting, Ordinary, Changed, Commits, Bequest, Whole, With
    <3> QED
      BY <1>1, <1>5, <2>2, <3>1, <3>2 DEF With, Private
  <2> QED
    BY <1>3, <1>7, <2>1, <2>2 DEF CommitInheritedChange
<1>8. CASE ValidateInheritedBuild
  <2>1. step = "validate_inherited_build" /\ ~s.bumped /\ Bequest(clone.commit)
    BY <1>1, <1>8 DEF ValidateInheritedBuild, B, At, Inheriting
  <2>2. clone.commit \in TreeType
    BY <1>1, <2>1 DEF CloneType, CommitType, Bequest, NoCommit
  <2>3. PICK green : green = [clone.commit EXCEPT !.verdict = "green"]
    OBVIOUS
  <2>4. green \in TreeType /\ green.verdict = "green" /\ Bequest(green)
    BY <2>1, <2>2, <2>3 DEF TreeType, Bequest, Whole
  <2>5. CASE With("push_inherited_change", [s EXCEPT !.checkpoint = green]) /\ clone' = [clone EXCEPT !.commit = green]
             /\ Private
    <3>1. clone' \in CloneType /\ clone'.commit = green
      BY <1>1, <2>4, <2>5 DEF CloneType, CommitType
    <3>2. s' \in StateType /\ s'.checkpoint = green
      <4>1. s' = [s EXCEPT !.checkpoint = green]
        BY <2>5 DEF With
      <4> QED
        BY <1>1, <2>4, <4>1 DEF StateType, CommitType
    <3>3. BackportFacts'
      BY <2>4, <2>5, <3>1, <3>2 DEF BackportFacts, OwnBackport, Inheriting, Ordinary, Changed, Commits, Bequest, Whole, With
    <3> QED
      BY <1>5, <2>5, <3>1, <3>2, <3>3 DEF With, Private
  <2>6. CASE With("validate_inherited_build", [s EXCEPT !.builds = s.builds - 1]) /\ NoEdit /\ Private
    <3>1. s' \in StateType /\ ~s'.bumped
      <4>1. s' = [s EXCEPT !.builds = s.builds - 1]
        BY <2>6 DEF With
      <4> QED
        BY <1>1, <2>1, <4>1 DEF StateType
    <3>2. BackportFacts'
      BY <2>1, <2>6, <3>1 DEF BackportFacts, OwnBackport, Inheriting, Ordinary, Changed, Commits, Bequest, Whole, With, NoEdit
    <3> QED
      BY <1>1, <1>5, <2>6, <3>1, <3>2 DEF With, Private, NoEdit
  <2>7. CASE Raise /\ NoEdit /\ Private
    BY <1>1, <1>2, <2>7, QuietKeeps DEF Raise, With, NoEdit, Private, Quiet
  <2> QED
    BY <1>3, <1>8, <2>1, <2>3, <2>5, <2>6, <2>7 DEF ValidateInheritedBuild
<1>9. CASE PushInheritedChange
  <2>1. /\ step = "push_inherited_change" /\ Bequest(clone.commit) /\ clone.commit.verdict = "green"
        /\ s.checkpoint = clone.commit
    BY <1>1, <1>9 DEF PushInheritedChange, B, At, Inheriting
  <2>2. clone.commit \in TreeType
    BY <1>1, <2>1 DEF CloneType, CommitType, Bequest, NoCommit
  <2>3. PICK resuming : resuming = [s EXCEPT !.mode = "resume"]
    OBVIOUS
  <2>4. resuming \in StateType /\ resuming.checkpoint = s.checkpoint
    BY <1>1, <2>3 DEF StateType
  <2>5. PICK done : done = [resuming EXCEPT !.pushed = TRUE]
    OBVIOUS
  <2>6. done \in StateType /\ done.checkpoint = s.checkpoint
    BY <2>4, <2>5 DEF StateType
  <2>7. Failed(resuming) \in StateType /\ Failed(resuming).checkpoint = s.checkpoint
    BY <2>4, StateOperators DEF Alike
  <2>8. PICK pushed : pushed = [gitlab EXCEPT !.branch = clone.commit]
    OBVIOUS
  <2>9. pushed \in [branch : CommitType, mr : BOOLEAN] /\ pushed.branch = clone.commit
    BY <1>1, <2>2, <2>8 DEF CommitType
  <2>10. task' \in TaskType /\ task'.checkpoint = s.checkpoint
    <3>1. task' = [task EXCEPT !.checkpoint = s.checkpoint]
      BY <1>9 DEF PushInheritedChange
    <3> QED
      BY <1>1, <3>1 DEF TaskType, StateType
  <2>11. /\ step' \in {"open_inherited_mr", "comment_in_jira"} /\ s' \in {done, Failed(resuming)}
         /\ gitlab' \in {gitlab, pushed} /\ UNCHANGED clone
    BY <1>9, <2>3, <2>5, <2>8 DEF PushInheritedChange, Pushed, With, NoEdit
  <2>12. BackportFacts'
    BY <2>11 DEF BackportFacts, OwnBackport, Inheriting, Ordinary, Changed, Commits
  <2>13. CASE gitlab' = gitlab
    BY <1>1, <1>2, <2>6, <2>7, <2>10, <2>11, <2>12, <2>13, WorksOn
  <2>14. CASE gitlab' = pushed
    <3>1. FixTypes'
      BY <1>1, <2>6, <2>7, <2>9, <2>10, <2>11, <2>14 DEF FixInv, FixTypes, outside
    <3>2. Published'
      BY <2>1, <2>9, <2>14 DEF Published, Whole, Valid, Bequest
    <3>3. Kept'
      <4>1. s.checkpoint # NoCommit
        BY <2>1, <2>2, TreeOperators
      <4>2. queue' = NoPayload
        BY <1>1 DEF FixInv, FixTypes, outside
      <4> QED
        BY <1>1, <2>6, <2>7, <2>10, <2>11, <4>1, <4>2 DEF Kept, Resuming
    <3> QED
      BY <1>1, <2>12, <3>1, <3>2, <3>3 DEF FixInv
  <2> QED
    BY <2>11, <2>13, <2>14
<1> QED
  BY <1>6, <1>7, <1>8, <1>9

(* The clone of a backport, and what the agent or a repair leaves in it. *)
LEMMA PrepareKeeps ==
    ASSUME FixInv, BackportStep,
           ForkAndPrepare \/ PrepareNormalBackport \/ RunBackportAgent \/ FixBuildError
    PROVE  FixInv'
<1>1. /\ s \in StateType /\ clone \in CloneType /\ task \in TaskType
      /\ gitlab \in [branch : CommitType, mr : BOOLEAN] /\ UNCHANGED outside
      /\ setup.agent = "backport" /\ step # "idle" /\ setup' = setup
      /\ OwnBackport /\ Inheriting /\ RebaseFacts' /\ RebuildFacts'
  BY BackportStarts
<1>2. step \notin Resuming /\ UNCHANGED <<gitlab, task>>
  <2>1. CASE ForkAndPrepare
    BY <2>1 DEF ForkAndPrepare, B, At, Resuming, Private
  <2>2. CASE PrepareNormalBackport
    BY <2>2 DEF PrepareNormalBackport, B, At, Resuming, Private
  <2>3. CASE RunBackportAgent
    BY <2>3 DEF RunBackportAgent, B, At, Resuming, Private
  <2>4. CASE FixBuildError
    BY <2>4 DEF FixBuildError, B, At, Resuming, Private
  <2> QED
    BY <2>1, <2>2, <2>3, <2>4
<1>3. ASSUME s' \in StateType, clone' \in CloneType, BackportFacts'
      PROVE  FixInv'
  BY <1>1, <1>2, <1>3, WorksOn
<1>4. ASSUME s' \in StateType, UNCHANGED clone, step' \in Quiet
      PROVE  FixInv'
  BY <1>1, <1>2, <1>4, QuietKeeps
<1>5. PICK tree : tree = clone.tree
  OBVIOUS
<1>6. PICK patched : patched = [tree EXCEPT !.change = "fix", !.verdict = "untested"]
  OBVIOUS
<1>7. /\ patched \in TreeType /\ patched.change = "fix" /\ patched.bumps = tree.bumps /\ patched.log = tree.log
      /\ Patched = patched
  BY <1>1, <1>5, <1>6 DEF TreeType, CloneType, Patched
<1>8. CASE ForkAndPrepare
  <2>1. CASE Raise /\ NoEdit
    BY <1>1, <1>4, <2>1 DEF Raise, With, NoEdit, Quiet
  <2>2. CASE /\ With(IF CanInherit THEN "evaluate_inherit_source" ELSE "prepare_normal_backport",
                     [s EXCEPT !.cherry = FALSE, !.incremental = 0, !.bumped = FALSE, !.inherit = FALSE, !.builds = 0,
                               !.pushed = FALSE, !.result = "none", !.log = FALSE])
             /\ clone' = NewClone
    <3>1. PICK one : one = [s EXCEPT !.cherry = FALSE, !.bumped = FALSE, !.inherit = FALSE]
      OBVIOUS
    <3>2. one \in StateType /\ one.bumped = FALSE /\ one.inherit = FALSE
      BY <1>1, <3>1 DEF StateType
    <3>3. PICK two : two = [one EXCEPT !.incremental = 0]
      OBVIOUS
    <3>4. two \in StateType /\ two.bumped = FALSE /\ two.inherit = FALSE
      BY <3>2, <3>3 DEF StateType
    <3>5. PICK three : three = [two EXCEPT !.builds = 0]
      OBVIOUS
    <3>6. three \in StateType /\ three.bumped = FALSE /\ three.inherit = FALSE
      BY <3>4, <3>5 DEF StateType
    <3>7. PICK four : four = [three EXCEPT !.pushed = FALSE, !.result = "none", !.log = FALSE]
      OBVIOUS
    <3>8. four \in StateType /\ four.bumped = FALSE /\ four.inherit = FALSE /\ four.log = FALSE
      BY <3>6, <3>7 DEF StateType
    <3>9. s' = four
      BY <2>2, <3>1, <3>3, <3>5, <3>7 DEF With
    <3>10. step' \in {"evaluate_inherit_source", "prepare_normal_backport"}
      BY <2>2 DEF With
    <3>11. clone' \in CloneType /\ clone'.tree.bumps = 0 /\ clone'.tree.log = FALSE
      BY <2>2, TreeOperators DEF TreeType
    <3>12. BackportFacts'
      BY <3>8, <3>9, <3>10, <3>11 DEF BackportFacts, OwnBackport, Inheriting, Ordinary, Changed, Commits
    <3> QED
      BY <1>3, <3>8, <3>9, <3>11, <3>12
  <2> QED
    BY <1>8, <2>1, <2>2 DEF ForkAndPrepare
<1>9. CASE PrepareNormalBackport
  <2>1. CASE step' = "run_backport_agent" /\ UNCHANGED <<s, clone>>
    <3>1. step = "prepare_normal_backport"
      BY <1>9 DEF PrepareNormalBackport, B, At
    <3>2. BackportFacts'
      BY <1>1, <2>1, <3>1 DEF BackportFacts, OwnBackport, Inheriting, Ordinary, Changed, Commits
    <3> QED
      BY <1>1, <1>3, <2>1, <3>2
  <2>2. CASE Raise /\ NoEdit
    BY <1>1, <1>4, <2>2 DEF Raise, With, NoEdit, Quiet
  <2> QED
    BY <1>9, <2>1, <2>2 DEF PrepareNormalBackport, With, NoEdit
<1>10. CASE RunBackportAgent
  <2>1. step = "run_backport_agent"
    BY <1>10 DEF RunBackportAgent, B, At
  <2>2. ASSUME NEW result \in {"ok", "no_srpm"}, NEW cherry \in BOOLEAN, Edit(Patched),
               With("update_release", [s EXCEPT !.result = result, !.cherry = cherry])
        PROVE  FixInv'
    <3>1. PICK new : new = [s EXCEPT !.result = result, !.cherry = cherry]
      OBVIOUS
    <3>2. new \in StateType /\ new.bumped = s.bumped /\ new.inherit = s.inherit /\ new.log = s.log
      BY <1>1, <3>1 DEF StateType
    <3>3. step' = "update_release" /\ s' = new
      BY <2>2, <3>1 DEF With
    <3>4. clone' \in CloneType /\ clone'.tree = patched
      BY <1>1, <1>7, <2>2, Edits
    <3>5. BackportFacts'
      BY <1>1, <1>5, <1>7, <2>1, <3>2, <3>3, <3>4 DEF BackportFacts, OwnBackport, Inheriting, Ordinary, Changed, Commits
    <3> QED
      BY <1>3, <3>2, <3>3, <3>4, <3>5
  <2>3. CASE (Report \/ Raise) /\ NoEdit
    BY <1>1, <1>4, <2>3, StateOperators DEF Report, Raise, With, NoEdit, Quiet
  <2> QED
    BY <1>10, <2>2, <2>3 DEF RunBackportAgent
<1>11. CASE FixBuildError
  <2>1. step = "fix_build_error"
    BY <1>11 DEF FixBuildError, B, At
  <2>2. PICK fixing : fixing = [s EXCEPT !.incremental = s.incremental + 1]
    OBVIOUS
  <2>3. fixing \in StateType /\ fixing.bumped = s.bumped /\ fixing.inherit = s.inherit /\ fixing.log = s.log
    BY <1>1, <2>2, StateOperators DEF Alike
  <2>4. PICK failed : failed = Failed(fixing)
    OBVIOUS
  <2>5. failed \in StateType /\ failed.bumped = s.bumped /\ failed.inherit = s.inherit /\ failed.log = s.log
    BY <2>3, <2>4, StateOperators DEF Alike
  <2>6. \/ Report /\ NoEdit
        \/ With("fork_and_prepare_dist_git", s) /\ NoEdit
        \/ \E result \in {"ok", "no_srpm"} : With("update_release", [fixing EXCEPT !.result = result]) /\ Edit(Patched)
        \/ (With("fix_build_error", failed) \/ With("comment_in_jira", failed)) /\ NoEdit
    BY <1>11, <2>2, <2>4 DEF FixBuildError, StopFixing, With
  <2>7. CASE Report /\ NoEdit
    BY <1>1, <1>4, <2>7, StateOperators DEF Report, With, NoEdit, Quiet
  <2>8. CASE With("fork_and_prepare_dist_git", s) /\ NoEdit
    <3>1. BackportFacts'
      BY <2>8 DEF BackportFacts, OwnBackport, Inheriting, Ordinary, Changed, Commits, With
    <3> QED
      BY <1>1, <1>3, <2>8, <3>1 DEF With, NoEdit
  <2>9. ASSUME NEW result \in {"ok", "no_srpm"}, With("update_release", [fixing EXCEPT !.result = result]), Edit(Patched)
        PROVE  FixInv'
    <3>1. PICK new : new = [fixing EXCEPT !.result = result]
      OBVIOUS
    <3>2. new \in StateType /\ new.bumped = s.bumped /\ new.inherit = s.inherit /\ new.log = s.log
      BY <2>3, <3>1 DEF StateType
    <3>3. step' = "update_release" /\ s' = new
      BY <2>9, <3>1 DEF With
    <3>4. clone' \in CloneType /\ clone'.tree = patched
      BY <1>1, <1>7, <2>9, Edits
    <3>5. BackportFacts'
      BY <1>1, <1>5, <1>7, <2>1, <3>2, <3>3, <3>4 DEF BackportFacts, OwnBackport, Inheriting, Ordinary, Changed, Commits
    <3> QED
      BY <1>3, <3>2, <3>3, <3>4, <3>5
  <2>10. CASE With("fix_build_error", failed) /\ NoEdit
    <3>1. BackportFacts'
      BY <1>1, <2>1, <2>5, <2>10 DEF BackportFacts, OwnBackport, Inheriting, Ordinary, Changed, Commits, With, NoEdit
    <3> QED
      BY <1>1, <1>3, <2>5, <2>10, <3>1 DEF With, NoEdit
  <2>11. CASE With("comment_in_jira", failed) /\ NoEdit
    BY <1>4, <2>5, <2>11 DEF With, NoEdit, Quiet
  <2> QED
    BY <2>6, <2>7, <2>8, <2>9, <2>10, <2>11
<1> QED
  BY <1>8, <1>9, <1>10, <1>11

(* The bump of the release, the staging and the changelog entry. *)
LEMMA StageKeeps ==
    ASSUME FixInv, BackportStep, UpdateRelease \/ StageChanges \/ RunLogAgent
    PROVE  FixInv'
<1>1. /\ s \in StateType /\ clone \in CloneType /\ task \in TaskType
      /\ gitlab \in [branch : CommitType, mr : BOOLEAN] /\ UNCHANGED outside
      /\ setup.agent = "backport" /\ step # "idle" /\ setup' = setup
      /\ OwnBackport /\ Inheriting /\ RebaseFacts' /\ RebuildFacts'
  BY BackportStarts
<1>2. step \notin Resuming \cup {"idle"}
  BY DEF UpdateRelease, StageChanges, RunLogAgent, B, At, Resuming
<1>3. ASSUME s' \in StateType, clone' \in CloneType, UNCHANGED <<gitlab, task>>, BackportFacts'
      PROVE  FixInv'
  BY <1>1, <1>2, <1>3, WorksOn
<1>4. ASSUME (Report \/ Raise) /\ NoEdit, UNCHANGED <<gitlab, task>>
      PROVE  FixInv'
  <2>1. step' \in Quiet /\ s' \in StateType /\ UNCHANGED clone
    BY <1>1, <1>4, StateOperators DEF Report, Raise, With, NoEdit, Quiet
  <2> QED
    BY <1>1, <1>2, <1>4, <2>1, QuietKeeps
<1>5. CASE UpdateRelease
  <2>1. step = "update_release" /\ UNCHANGED <<gitlab, task>>
    BY <1>5 DEF UpdateRelease, B, At, Private
  <2>2. CASE s.bumped /\ With("stage_changes", s) /\ NoEdit
    <3>1. BackportFacts'
      BY <1>1, <2>1, <2>2 DEF BackportFacts, OwnBackport, Inheriting, Ordinary, Changed, Commits, With, NoEdit
    <3> QED
      BY <1>1, <1>3, <2>1, <2>2, <3>1 DEF With, NoEdit
  <2>3. CASE ~s.bumped /\ With("stage_changes", [s EXCEPT !.bumped = TRUE]) /\ Edit(Bumped)
    <3>1. PICK new : new = [s EXCEPT !.bumped = TRUE]
      OBVIOUS
    <3>2. new \in StateType /\ new.bumped = TRUE /\ new.inherit = s.inherit /\ new.log = s.log
      BY <1>1, <3>1 DEF StateType
    <3>3. /\ clone' \in CloneType /\ clone'.tree.bumps = clone.tree.bumps + 1 /\ clone'.tree.log = clone.tree.log
          /\ clone'.tree.change = clone.tree.change
      BY <1>1, <2>3, Edits, TreeEdits
    <3>4. step' = "stage_changes" /\ s' = new
      BY <2>3, <3>1 DEF With
    <3>5. BackportFacts'
      BY <1>1, <2>1, <2>3, <3>2, <3>3, <3>4 DEF BackportFacts, OwnBackport, Inheriting, Ordinary, Changed, Commits
    <3> QED
      BY <1>3, <2>1, <3>2, <3>3, <3>4, <3>5
  <2>4. CASE Report /\ NoEdit
    BY <1>4, <2>1, <2>4
  <2> QED
    BY <1>5, <2>2, <2>3, <2>4 DEF UpdateRelease
<1>6. CASE StageChanges
  <2>1. step = "stage_changes"
    BY <1>6 DEF StageChanges, B, At
  <2>2. CASE s.inherit /\ Abandon
    <3>1. ~s.bumped
      BY <1>1, <2>1, <2>2 DEF Inheriting
    <3>2. Disabled(s) \in StateType /\ ~Disabled(s).bumped
      BY <1>1, <3>1 DEF StateType, Disabled, CommitType
    <3>3. DisabledTask \in TaskType
      BY <1>1 DEF DisabledTask, TaskType, CommitType
    <3> QED
      BY <1>1, <1>2, <2>2, <3>2, <3>3, CleanUpKeeps DEF Abandon
  <2>3. CASE Report /\ NoEdit /\ Private
    BY <1>4, <2>3 DEF Private
  <2>4. CASE /\ With(IF s.inherit THEN "commit_inherited_change"
                     ELSE IF ~s.log THEN "run_log_agent"
                     ELSE IF setup.modular THEN "commit_push_and_open_mr"
                     ELSE "commit_push_and_build", s)
             /\ clone' = [clone EXCEPT !.index = clone.tree] /\ Private
    <3>1. clone' \in CloneType /\ clone'.index = clone.tree /\ clone'.tree = clone.tree
      BY <1>1, <2>4, TreeEdits
    <3>2. /\ s' = s
          /\ step' = IF s.inherit THEN "commit_inherited_change"
                     ELSE IF ~s.log THEN "run_log_agent"
                     ELSE IF setup.modular THEN "commit_push_and_open_mr"
                     ELSE "commit_push_and_build"
      BY <2>4 DEF With
    <3>3. CASE s.inherit
      <4>1. BackportFacts'
        BY <1>1, <2>1, <3>1, <3>2, <3>3 DEF BackportFacts, OwnBackport, Inheriting, Ordinary, Changed, Commits
      <4> QED
        BY <1>1, <1>3, <2>4, <3>1, <3>2, <4>1 DEF Private
    <3>4. CASE ~s.inherit
      <4>1. BackportFacts'
        BY <1>1, <2>1, <3>1, <3>2, <3>4 DEF BackportFacts, OwnBackport, Inheriting, Ordinary, Changed, Commits
      <4> QED
        BY <1>1, <1>3, <2>4, <3>1, <3>2, <4>1 DEF Private
    <3> QED
      BY <3>3, <3>4
  <2> QED
    BY <1>6, <2>2, <2>3, <2>4 DEF StageChanges
<1>7. CASE RunLogAgent
  <2>1. step = "run_log_agent" /\ UNCHANGED <<gitlab, task>>
    BY <1>7 DEF RunLogAgent, B, At, Private
  <2>2. CASE With("stage_changes", [s EXCEPT !.log = TRUE]) /\ Edit([clone.tree EXCEPT !.log = TRUE])
    <3>1. /\ clone' \in CloneType /\ clone'.tree.bumps = clone.tree.bumps /\ clone'.tree.log
          /\ clone'.tree.change = clone.tree.change
      BY <1>1, <2>2, Edits, TreeEdits
    <3>2. s' \in StateType /\ s'.log /\ step' = "stage_changes" /\ s'.bumped = s.bumped /\ s'.inherit = s.inherit
      BY <1>1, <2>2, StateOperators DEF With
    <3>3. clone'.tree.log = s'.log
      BY <3>1, <3>2 DEF CloneType, StateType, TreeType
    <3>4. BackportFacts'
      BY <1>1, <2>1, <3>1, <3>2, <3>3 DEF BackportFacts, OwnBackport, Inheriting, Ordinary, Changed, Commits
    <3> QED
      BY <1>3, <2>1, <3>1, <3>2, <3>4
  <2>3. CASE Raise /\ NoEdit
    BY <1>4, <2>1, <2>3
  <2> QED
    BY <1>7, <2>2, <2>3 DEF RunLogAgent
<1> QED
  BY <1>5, <1>6, <1>7

(* The commit of a backport: published as it is for a modular package, built  *)
(* first for any other.                                                        *)
LEMMA BuildKeeps ==
    ASSUME FixInv, BackportStep, CommitPushAndOpenMR \/ CommitPushAndBuild
    PROVE  FixInv'
<1>1. /\ s \in StateType /\ clone \in CloneType /\ task \in TaskType
      /\ gitlab \in [branch : CommitType, mr : BOOLEAN] /\ UNCHANGED outside
      /\ setup.agent = "backport" /\ step # "idle" /\ setup' = setup
      /\ OwnBackport /\ Inheriting /\ RebaseFacts' /\ RebuildFacts'
  BY BackportStarts
<1>2. step \in Commits /\ UNCHANGED task
  BY DEF CommitPushAndOpenMR, CommitPushAndBuild, B, At, Commits
<1>3. PICK index : index = clone.index
  OBVIOUS
<1>4. /\ ~s.inherit /\ s.bumped /\ s.log /\ clone.tree = index
      /\ index.bumps = 1 /\ index.log /\ index.change = "fix" /\ index \in TreeType
  BY <1>1, <1>2, <1>3 DEF OwnBackport, Ordinary, Changed, Commits, CloneType
<1>5. CASE CommitPushAndOpenMR
  <2>1. step = "commit_push_and_open_mr" /\ Publish(Failed(s), "comment_in_jira")
    BY <1>5 DEF CommitPushAndOpenMR, B, At
  <2>2. setup.modular
    BY <1>1, <2>1 DEF OwnBackport, Ordinary, Changed, Commits
  <2>3. Whole(clone.index) /\ Valid(clone.index) /\ clone.index.change # "inherited"
    BY <1>3, <1>4, <2>2 DEF Whole, Valid
  <2> QED
    BY <1>1, <1>2, <2>1, <2>3, PublishKeeps
<1>6. CASE CommitPushAndBuild
  <2>1. step = "commit_push_and_build"
    BY <1>6 DEF CommitPushAndBuild, B, At
  <2>2. ASSUME NEW verdict \in {"green", "timeout"}, PublishBuilt(verdict)
        PROVE  FixInv'
    <3>1. PICK built : built = Built(verdict)
      OBVIOUS
    <3>2. /\ built \in TreeType /\ built.verdict = verdict /\ built.bumps = 1 /\ built.log /\ built.change = "fix"
      <4>1. built = [index EXCEPT !.verdict = verdict]
        BY <1>3, <3>1 DEF Built
      <4> QED
        BY <1>4, <4>1 DEF TreeType
    <3>3. PICK fresh : fresh = [s EXCEPT !.incremental = 0]
      OBVIOUS
    <3>4. fresh \in StateType
      BY <1>1, <3>3 DEF StateType
    <3>5. PICK done : done = [fresh EXCEPT !.url = TRUE, !.new = ~gitlab.mr]
      OBVIOUS
    <3>6. PICK failed : failed = [Failed(fresh) EXCEPT !.url = FALSE]
      OBVIOUS
    <3>7. done \in StateType /\ failed \in StateType
      BY <3>4, <3>5, <3>6 DEF StateType, Failed
    <3>8. PICK pushed : pushed = [gitlab EXCEPT !.branch = built]
      OBVIOUS
    <3>9. PICK opened : opened = [pushed EXCEPT !.mr = TRUE]
      OBVIOUS
    <3>10. pushed \in [branch : CommitType, mr : BOOLEAN] /\ pushed.branch = built
      BY <1>1, <3>2, <3>8 DEF CommitType
    <3>11. opened \in [branch : CommitType, mr : BOOLEAN] /\ opened.branch = built
      BY <3>9, <3>10
    <3>12. /\ step' = "submit_consolidation_job" /\ s' \in {done, failed}
           /\ gitlab' \in {gitlab, pushed, opened} /\ clone' = [clone EXCEPT !.commit = built]
      BY <2>2, <3>1, <3>3, <3>5, <3>6, <3>8, <3>9 DEF PublishBuilt, With
    <3>13. clone' \in CloneType
      BY <1>1, <3>2, <3>12 DEF CloneType, CommitType
    <3>14. CASE gitlab' = gitlab
      BY <1>1, <1>2, <3>7, <3>12, <3>13, <3>14, QuietKeeps DEF Quiet, Commits, Resuming
    <3>15. CASE gitlab' \in {pushed, opened}
      <4>1. gitlab' \in [branch : CommitType, mr : BOOLEAN] /\ gitlab'.branch = built
        BY <3>10, <3>11, <3>15
      <4>2. Whole(built) /\ Valid(built)
        BY <3>2 DEF Whole, Valid
      <4> QED
        BY <1>1, <1>2, <3>2, <3>7, <3>12, <3>13, <4>1, <4>2, BranchMoves
    <3> QED
      BY <3>12, <3>14, <3>15
  <2>3. ASSUME step' \in Quiet, s' \in StateType, UNCHANGED gitlab, clone' \in CloneType
        PROVE  FixInv'
    BY <1>1, <1>2, <2>3, QuietKeeps DEF Commits, Resuming
  <2>4. CASE AfterFailedBuild /\ UNCHANGED gitlab /\ clone' = [clone EXCEPT !.commit = clone.index]
    <3>1. PICK less : less = [s EXCEPT !.attempts = s.attempts - 1]
      OBVIOUS
    <3>2. less \in StateType /\ less.bumped = s.bumped /\ less.inherit = s.inherit /\ less.log = s.log
      BY <1>1, <3>1, StateOperators DEF Alike
    <3>3. clone' \in CloneType /\ clone'.tree = index
      BY <1>1, <1>3, <1>4, <2>4 DEF CloneType, CommitType
    <3>4. \/ With("comment_in_jira", Failed(less))
          \/ With("fork_and_prepare_dist_git", less)
          \/ With("fix_build_error", less)
      BY <2>4, <3>1 DEF AfterFailedBuild
    <3>5. CASE With("comment_in_jira", Failed(less))
      BY <2>3, <2>4, <3>2, <3>3, <3>5, StateOperators DEF With, Quiet
    <3>6. CASE With("fork_and_prepare_dist_git", less) \/ With("fix_build_error", less)
      <4>1. BackportFacts'
        BY <1>4, <3>2, <3>3, <3>6 DEF BackportFacts, OwnBackport, Inheriting, Ordinary, Changed, Commits, With, StateType,
                                      TreeType
      <4>2. step \notin Resuming
        BY <1>2 DEF Commits, Resuming
      <4> QED
        BY <1>1, <1>2, <2>4, <3>2, <3>3, <3>6, <4>1, <4>2, WorksOn DEF With
    <3> QED
      BY <3>4, <3>5, <3>6
  <2>5. CASE With("comment_in_jira", s) /\ NoEdit /\ UNCHANGED gitlab
    BY <1>1, <2>3, <2>5 DEF With, NoEdit, Quiet
  <2>6. CASE Report /\ NoEdit /\ UNCHANGED gitlab
    BY <1>1, <2>3, <2>6, StateOperators DEF Report, With, NoEdit, Quiet
  <2> QED
    BY <1>6, <2>2, <2>4, <2>5, <2>6 DEF CommitPushAndBuild
<1> QED
  BY <1>5, <1>6

(* An attempt begins with the payload's checkpoint, and a failed one hands it *)
(* on; a shutdown pushes the payload as it was.                                *)
LEMMA AttemptKeeps ==
    ASSUME FixInv, Attempt \/ Shutdown
    PROVE  FixInv'
<1>1. /\ s \in StateType /\ clone \in CloneType /\ task \in TaskType /\ shutdowns \in Nat
      /\ gitlab \in [branch : CommitType, mr : BOOLEAN] /\ queue \in TaskType \cup {NoPayload}
      /\ popped \in TaskType \cup {NoPayload} /\ setup.agent \in {"backport", "rebase", "rebuild"}
      /\ (step # "idle" => queue = NoPayload) /\ Published /\ Kept
  BY DEF FixInv, FixTypes
<1>2. UNCHANGED <<setup, gitlab>>
  BY DEF Attempt, Start, AttemptRaised, AttemptSucceeded, AttemptFailed, Finish, Shutdown
<1>3. Published'
  BY <1>1, <1>2 DEF Published, Whole, Valid
<1>4. CASE Start
  <2>1. /\ step = "idle" /\ queue \in TaskType /\ task' = queue /\ popped' = queue /\ queue' = NoPayload
        /\ step' = FirstStep /\ s' = StateOf(queue) /\ clone' = NewClone /\ UNCHANGED shutdowns
    BY <1>1, <1>4 DEF Start, With
  <2>2. /\ s' \in StateType /\ ~s'.log /\ s'.checkpoint = queue.checkpoint
    BY <2>1, StartState
  <2>3. FixTypes'
    BY <1>1, <1>2, <2>1, <2>2, TreeOperators DEF FixTypes
  <2>4. step' = IF setup.agent = "rebase" THEN "check_if_sibling" ELSE "change_jira_status"
    BY <2>1 DEF FirstStep
  <2>5. BackportFacts' /\ RebaseFacts' /\ RebuildFacts'
    BY <1>2, <2>2, <2>4 DEF BackportFacts, OwnBackport, Inheriting, Ordinary, Changed, Commits, RebaseFacts, RebuildFacts
  <2>6. Kept'
    BY <1>1, <1>2, <2>1, <2>2, <2>4, TreeOperators DEF Kept, Resuming
  <2> QED
    BY <1>3, <2>3, <2>5, <2>6 DEF FixInv
<1>5. ASSUME step # "idle", step' = "idle", task' \in TaskType, queue' \in TaskType \cup {NoPayload},
             popped' = NoPayload, UNCHANGED <<s, clone>>, shutdowns' \in Nat, Kept'
      PROVE  FixInv'
  <2>1. FixTypes'
    BY <1>1, <1>2, <1>5 DEF FixTypes
  <2>2. BackportFacts' /\ RebaseFacts' /\ RebuildFacts'
    BY <1>5 DEF BackportFacts, OwnBackport, Inheriting, Ordinary, Changed, Commits, RebaseFacts, RebuildFacts
  <2> QED
    BY <1>3, <1>5, <2>1, <2>2 DEF FixInv
<1>6. ASSUME NEW base \in TaskType, NEW j, NEW comment, Retry(base, j, comment), Finish, step # "idle",
             gitlab.branch.change = "inherited" /\ shutdowns = 0 => base.checkpoint # NoCommit
      PROVE  FixInv'
  <2>1. PICK again : again = [base EXCEPT !.attempts = base.attempts + 1]
    OBVIOUS
  <2>2. again \in TaskType /\ again.checkpoint = base.checkpoint
    BY <2>1 DEF TaskType
  <2>3. /\ task' = again /\ queue' \in {queue, again}
        /\ step' = "idle" /\ popped' = NoPayload /\ UNCHANGED <<setup, s, clone, gitlab, shutdowns>>
    BY <1>6, <2>1 DEF Retry, Finalize, Finish
  <2>4. Kept'
    BY <1>1, <1>6, <2>2, <2>3 DEF Kept
  <2> QED
    BY <1>1, <1>5, <1>6, <2>2, <2>3, <2>4
<1>7. CASE AttemptRaised
  BY <1>1, <1>6, <1>7 DEF AttemptRaised, Kept
<1>8. ASSUME step # "idle", UNCHANGED <<queue, task>>, Finish
      PROVE  FixInv'
  <2>1. step' = "idle" /\ popped' = NoPayload /\ UNCHANGED <<setup, s, clone, gitlab, shutdowns>>
    BY <1>8 DEF Finish
  <2>2. Kept'
    BY <1>1, <1>8, <2>1 DEF Kept
  <2> QED
    BY <1>1, <1>5, <1>8, <2>1, <2>2
<1>9. CASE AttemptSucceeded
  BY <1>8, <1>9 DEF AttemptSucceeded
<1>10. CASE AttemptFailed
  <2>1. step = "ended" /\ Finish
    BY <1>10 DEF AttemptFailed
  <2>2. CASE Finalize(jira, FALSE) /\ UNCHANGED task
    BY <1>8, <2>1, <2>2 DEF Finalize
  <2>3. ASSUME NEW j, Retry(RetryState, j, FALSE)
        PROVE  FixInv'
    <3>1. PICK base : base = RetryState
      OBVIOUS
    <3>2. \/ base = task
          \/ base = [task EXCEPT !.checkpoint = s.checkpoint]
      BY <3>1 DEF RetryState
    <3>3. base \in TaskType /\ base.checkpoint \in {task.checkpoint, s.checkpoint}
      BY <1>1, <3>2 DEF TaskType, StateType
    <3>4. gitlab.branch.change = "inherited" /\ shutdowns = 0 => base.checkpoint # NoCommit
      BY <1>1, <2>1, <3>3 DEF Kept
    <3> QED
      BY <1>6, <2>1, <2>3, <3>1, <3>3, <3>4
  <2> QED
    BY <1>10, <2>2, <2>3 DEF AttemptFailed
<1>11. CASE Shutdown
  <2>1. /\ step # "idle" /\ step' = "idle" /\ queue' = popped /\ popped' = NoPayload /\ UNCHANGED <<task, s, clone>>
        /\ shutdowns' = shutdowns + 1
    BY <1>11 DEF Shutdown
  <2>2. shutdowns' \in Nat /\ Kept'
    BY <1>1, <2>1 DEF Kept
  <2> QED
    BY <1>1, <1>5, <2>1, <2>2
<1> QED
  BY <1>4, <1>7, <1>9, <1>10, <1>11 DEF Attempt

(* The invariant of a fix task is inductive. *)
LEMMA FixKeeps ==
    ASSUME FixInv, [Next]_vars
    PROVE  FixInv'
<1>1. CASE UNCHANGED fixVars
  <2>1. FixTypes' /\ Published' /\ Kept'
    BY <1>1 DEF FixInv, FixTypes, Published, Whole, Valid, Kept, fixVars
  <2>2. BackportFacts' /\ RebaseFacts' /\ RebuildFacts'
    BY <1>1 DEF FixInv, BackportFacts, OwnBackport, Inheriting, Bequest, Whole, RebaseFacts, RebuildFacts, fixVars
  <2> QED
    BY <2>1, <2>2 DEF FixInv
<1>2. CASE BackportStep
  BY <1>2, ResumeKeeps, InheritKeeps, PrepareKeeps, StageKeeps, BuildKeeps DEF BackportStep, Inheritance
<1>3. CASE RebaseStep
  BY <1>3, RebaseKeeps
<1>4. CASE RebuildStep
  BY <1>4, RebuildKeeps
<1>5. CASE Attempt \/ Shutdown
  BY <1>5, AttemptKeeps
<1> QED
  BY <1>1, <1>2, <1>3, <1>4, <1>5 DEF Next, FixNext, TriageNext, ReproNext, Stop, Work, vars

(* The first state of a fix task. *)
LEMMA TaskInit ==
    ASSUME Init
    PROVE  FixInv
<1>1. /\ setup \in Setups /\ queue \in {NewPayload, NoPayload} /\ popped = NoPayload /\ task = NewPayload
      /\ step = "idle" /\ s = StateOf(NewPayload) /\ clone = NewClone
      /\ gitlab = [branch |-> NoCommit, mr |-> FALSE] /\ shutdowns = 0
  BY DEF Init, FixInit
<1>2. setup.agent \in {"backport", "rebase", "rebuild"}
  BY <1>1, FixTaskAssumption
<1>3. NewPayload \in TaskType /\ StateOf(NewPayload) \in StateType
  BY TreeOperators, StartState
<1>4. gitlab.branch = NoCommit /\ NoCommit.change = "none" /\ gitlab \in [branch : CommitType, mr : BOOLEAN]
  BY <1>1 DEF NoCommit, CommitType
<1>5. FixTypes
  BY <1>1, <1>2, <1>3, <1>4, TreeOperators DEF FixTypes
<1>6. Published /\ Kept
  BY <1>4 DEF Published, Kept
<1>7. BackportFacts /\ RebaseFacts /\ RebuildFacts
  BY <1>1 DEF BackportFacts, OwnBackport, Inheriting, Ordinary, Changed, Commits, RebaseFacts, RebuildFacts
<1> QED
  BY <1>5, <1>6, <1>7 DEF FixInv

(* While an inherited commit is on the branch, a step of the workflow that    *)
(* pushes is not the next one.                                                 *)
LEMMA KeptStep ==
    ASSUME FixInv, Next, gitlab.branch.change = "inherited", shutdowns = 0
    PROVE  gitlab'.branch = gitlab.branch
<1>1. setup.agent = "backport" /\ (step # "idle" => step \in Resuming)
      /\ gitlab \in [branch : CommitType, mr : BOOLEAN]
  BY DEF FixInv, FixTypes, Kept
<1>2. CASE UNCHANGED gitlab
  BY <1>2
<1>3. CASE BackportStep
  <2>1. CASE OpenInheritedMR
    BY <1>1, <2>1 DEF OpenInheritedMR, Opened
  <2>2. CASE ChangeJiraStatus \/ ResumeInheritedPublication \/ SubmitConsolidationJob \/ CommentInJira
    BY <2>2 DEF ChangeJiraStatus, ResumeInheritedPublication, SubmitConsolidationJob, CommentInJira, Private
  <2> QED
    BY <1>1, <1>3, <2>1, <2>2
       DEF BackportStep, Inheritance, EvaluateInheritSource, CommitInheritedChange, ValidateInheritedBuild,
           PushInheritedChange, ForkAndPrepare, PrepareNormalBackport, RunBackportAgent, FixBuildError, UpdateRelease,
           StageChanges, RunLogAgent, CommitPushAndOpenMR, CommitPushAndBuild, B, At, Resuming
<1>4. CASE RebaseStep
  BY <1>1, <1>4 DEF RebaseStep, CheckIfSibling, RebaseChangeJiraStatus, FindConsolidatedSiblings, RebaseForkAndPrepare,
                    RunRebaseAgent, RunBuildAgent, RebaseUpdateRelease, RebaseStageChanges, RebaseRunLogAgent,
                    RebaseCommitPushAndOpenMR, RebaseCommentInJira, R, At
<1>5. CASE RebuildStep
  BY <1>1, <1>5 DEF RebuildStep, RebuildChangeJiraStatus, RebuildForkAndPrepare, RebuildUpdateRelease,
                    RebuildStageChanges, RebuildRunLogAgent, RebuildCommitPushAndOpenMR, RebuildSubmitConsolidationJob,
                    RebuildCommentInJira, U, At
<1>6. CASE Attempt \/ Shutdown
  BY <1>6 DEF Attempt, Start, AttemptRaised, AttemptSucceeded, AttemptFailed, Finish, Shutdown
<1> QED
  BY <1>2, <1>3, <1>4, <1>5, <1>6 DEF Next, FixNext, TriageNext, ReproNext, Stop, Work, fixVars

(* What a fix agent knows of its clone and of the branch holds in every state. *)
THEOREM FixInvariant == Spec => []FixInv
BY TaskInit, FixKeeps, PTL DEF Spec

(* What the agents publish is one whole update, built since it was last edited *)
(* by a build that its kind requires, and an inherited one stays:              *)
(* PublishedSound of FixWorkflows, about backport_agent.py, rebase_agent.py,   *)
(* rebuild_agent.py and tasks.py, for any deployment and any number of         *)
(* builds, repairs, attempts and shutdowns.                                    *)
THEOREM PublicationIsSound == Spec => PublishedSound
<1>1. FixInv => PublishedWhole /\ PublishedValidated
  BY DEF FixInv, Published, Whole, Valid, PublishedWhole, PublishedValidated
<1>2. FixInv /\ [Next]_vars =>
        [gitlab.branch.change = "inherited" /\ shutdowns = 0 => gitlab'.branch = gitlab.branch]_fixVars
  BY KeptStep DEF vars
<1> QED
  BY <1>1, <1>2, FixInvariant, PTL DEF Spec, PublishedSound, InheritedKept
=============================================================================
