------------------------- MODULE ReproducerWorkflow -------------------------
(***************************************************************************)
(* The reproduction of the issue that triage asked for: the workflow and   *)
(* process_task of ymir/agents/reproducer_agent.py, which write a test,    *)
(* open or extend a merge request of the tests repository, and give back   *)
(* the Testing Farm machines (tf_cleanup_middleware.py).  The lock that    *)
(* keeps two streams of a CVE apart, blocked and delayed tasks are         *)
(* ReproducerQueue's: another stream works only while this one does not,   *)
(* and what it does to the tests of a shared branch is left out.           *)
(***************************************************************************)
EXTENDS TriageWorkflow

CONSTANT MaxLintFixes       \* MAX_TMT_LINT_FIX_ATTEMPTS
ASSUME ReproducerAssumption == MaxLintFixes \in Nat

(* Merge requests by source branch: the one of another stream, and            *)
(* reproducer/<issue>.                                                         *)
TestsBranch == {"shared", "own"}

(* What the model reports, as the set of the flags that hold: success,        *)
(* adapted_existing, test_already_exists, not_reproducible_reason and         *)
(* retryable_error.  lock_deferred is no longer used.                         *)
Answer == {{"success"}, {"success", "adapted"}, {"success", "adapted", "exists"},
           {"success", "exists"}, {"adapted", "exists"}, {"reason"}, {"retry"}, {}}

VARIABLES
    rstep,      \* the next step of process_task or of the workflow, "idle"
    r,          \* [attempts, base: the branch checked out, result, lints, raised]
    tests,      \* tests[b]: is the merge request of b open, is our test on b
    reserved,   \* the middleware knows of a machine that is reserved
    reproLists  \* "errors", "completed"

reproVars == <<rstep, r, tests, reserved, reproLists>>

Fresh(attempts) == [attempts |-> attempts, base |-> "none", result |-> {}, lints |-> 0, raised |-> FALSE]

ReproInit ==
    /\ rstep = "idle" /\ r = Fresh(0)
    /\ tests = [b \in TestsBranch |-> [open |-> FALSE, ours |-> FALSE]]
    /\ reserved = FALSE /\ reproLists = {}

-----------------------------------------------------------------------------
Reproducing(step) == rstep = step
Then(step, new) == rstep' = step /\ r' = new
Fails      == Then("cleanup", [r EXCEPT !.raised = TRUE])
NoTriage   == UNCHANGED <<issue, triageQueue, triaging, tstep, t, sibling, sent, stops>>
InClone    == UNCHANGED <<reproQueue, labels, tests, reproLists>> /\ NoTriage
Open       == {b \in TestsBranch : tests[b].open}

(* _needs_merge_request, _determine_result_label *)
NeedsMR(res) == /\ "success" \in res /\ "retry" \notin res
                /\ "exists" \in res => "adapted" \in res
ResultLabel(res) ==
    CASE {"adapted", "success"} \subseteq res -> "created"
      [] ~({"adapted", "success"} \subseteq res) /\ "exists" \in res -> "exists"
      [] "exists" \notin res /\ "adapted" \notin res /\ "success" \in res -> "created"
      [] {"exists", "success"} \cap res = {} /\ "reason" \in res -> "unreproducible"
      [] OTHER -> "failed"
ReproTerminal == {"created", "exists", "unreproducible", "failed", "reproducer_errored"}

ReproOver == Then("idle", Fresh(0)) /\ UNCHANGED <<tests, reserved>> /\ NoTriage

(* retry: no comment is posted; one that is delayed waits a while longer. *)
RetryReproduction(now) ==
    LET n == r.attempts + 1
    IN  /\ IF n < MaxRetries
             THEN reproQueue' = reproQueue \cup {n} /\ labels' = now /\ UNCHANGED reproLists
             ELSE /\ labels' \in {now, (now \ {"reproducing"}) \cup {"reproducer_errored"}}
                  /\ reproLists' = reproLists \cup {"errors"}
                  /\ UNCHANGED reproQueue
        /\ ReproOver

PopReproduction ==
    /\ rstep = "idle"
    /\ \E n \in reproQueue : reproQueue' = reproQueue \ {n} /\ Then("guard", Fresh(n))
    /\ UNCHANGED <<labels, tests, reserved, reproLists>> /\ NoTriage

(* A duplicate is dropped, and so is a task whose package has reproduction     *)
(* disabled or cannot be asked.  Labels that cannot be read are no labels.     *)
GuardReproduction ==
    /\ Reproducing("guard")
    /\ \/ ReproOver /\ UNCHANGED <<reproQueue, labels, reproLists>>
       \/ Then("stage", r) /\ UNCHANGED reserved /\ InClone

StageInProgress ==
    /\ Reproducing("stage")
    /\ LET staged == (labels \ ReproTerminal) \cup {"reproducing"}
       IN  \/ /\ Then("bootstrap", r) /\ labels' = staged
              /\ UNCHANGED <<reproQueue, tests, reserved, reproLists>> /\ NoTriage
           \/ \E now \in {labels} \cup (IF issue.user THEN {staged} ELSE {}) : RetryReproduction(now)

(* The clone is left on the default branch when no merge request is found or   *)
(* the list of them cannot be read.  No machine is reserved yet.               *)
BootstrapTestsClone ==
    /\ Reproducing("bootstrap")
    /\ \/ Then("run_reproducer_analysis", r)
       \/ \E b \in Open : Then("run_reproducer_analysis", [r EXCEPT !.base = b])
       \/ Fails
    /\ UNCHANGED reserved /\ InClone

(* Every agent of the workflow may reserve a machine, before it fails as well; *)
(* the workflow cancels it, not the agent.                                     *)
Reserves == reserved' \in {reserved, TRUE}

RunReproducerAnalysis ==
    /\ Reproducing("run_reproducer_analysis")
    /\ \/ \E res \in Answer :
             Then(IF NeedsMR(res) THEN "validate_tmt_lint" ELSE "handle_results", [r EXCEPT !.result = res])
       \/ Fails
    /\ Reserves /\ InClone

(* A test that is not where the agent says it is fails at once.                *)
ValidateTmtLint ==
    /\ Reproducing("validate_tmt_lint")
    /\ LET unsuccessful == [r EXCEPT !.result = @ \ {"success"}]
       IN  \/ Then("create_merge_request", r)
           \/ Then("handle_results", unsuccessful)
           \/ r.lints < MaxLintFixes /\ Then("fix_tmt_lint", [r EXCEPT !.lints = @ + 1])
    /\ UNCHANGED reserved /\ InClone

FixTmtLint ==
    /\ Reproducing("fix_tmt_lint")
    /\ \/ \E res \in Answer :
             Then(IF NeedsMR(res) THEN "validate_tmt_lint" ELSE "handle_results", [r EXCEPT !.result = res])
       \/ Fails
    /\ Reserves /\ InClone

(* The merge request that bootstrap found, or else one that is found now, or   *)
(* else that of the issue's own branch.                                        *)
Target(b, matched) == [branch |-> b, matched |-> matched]
Targets ==
    IF r.base # "none" THEN {Target(r.base, TRUE)}
    ELSE {Target("own", FALSE)} \cup {Target(b, TRUE) : b \in Open}

(* Mutant: the failure is logged only. *)
CreateOrLog ==
    /\ Reproducing("create_merge_request")
    /\ \E target \in Targets :
          /\ Then("handle_results", [r EXCEPT !.result = @ \cup IF target.matched THEN {"adapted"} ELSE {}])
          /\ tests' \in {tests, [tests EXCEPT ![target.branch] = [open |-> TRUE, ours |-> TRUE]]}
    /\ UNCHANGED <<reproQueue, labels, reserved, reproLists>> /\ NoTriage

(* The push is forced.  The commit fails when the branch has the test already. *)
(* Any failure ends the result's success, although the push, or the merge      *)
(* request, may have gone through.                                             *)
CreateMergeRequest ==
    /\ Reproducing("create_merge_request")
    /\ \E target \in Targets :
          LET found  == [r EXCEPT !.result = @ \cup IF target.matched THEN {"adapted"} ELSE {}]
              pushed == [tests EXCEPT ![target.branch].ours = TRUE]
              opened == [pushed EXCEPT ![target.branch].open = TRUE]
          IN  \/ Then("handle_results", found) /\ tests' = opened
              \/ /\ Then("handle_results", [found EXCEPT !.result = @ \ {"success"}])
                 /\ tests' \in {tests, pushed, opened}
    /\ UNCHANGED <<reproQueue, labels, reserved, reproLists>> /\ NoTriage

(* The label, at best, and the comment, which may raise; neither for a result  *)
(* that is to be retried.  ymir_reproducer_failed is written for users only.   *)
HandleResults ==
    /\ Reproducing("handle_results")
    /\ IF "retry" \in r.result THEN Then("cleanup", r) /\ UNCHANGED labels
       ELSE LET label == ResultLabel(r.result)
                add   == IF label = "failed" /\ ~issue.user THEN {} ELSE {label}
            IN  /\ Then("cleanup", r) \/ Fails
                /\ labels' \in {labels, (labels \ {"reproducing"}) \cup add}
    /\ UNCHANGED <<reproQueue, tests, reserved, reproLists>> /\ NoTriage

(* finally: the middleware cancels every machine it knows of, at best. *)
Released == reserved' = FALSE
Cleanup ==
    /\ Reproducing("cleanup")
    /\ Then("over", r)
    /\ Released /\ InClone

EndReproduction ==
    /\ Reproducing("over")
    /\ IF r.raised \/ "retry" \in r.result THEN RetryReproduction(labels)
       ELSE /\ reproLists' = (reproLists \ (IF ("adapted" \in r.result => "success" \in r.result)
                                               /\ ResultLabel(r.result) # "failed" THEN {"errors"} ELSE {}))
                             \cup {"completed"}
            /\ UNCHANGED <<reproQueue, labels>> /\ ReproOver

(* The pod shuts down: the workflow is cancelled, its finally clause runs, and *)
(* the task is pushed again.                                                   *)
ReproducerShutdown ==
    /\ rstep # "idle" /\ stops < MaxShutdowns
    /\ stops' = stops + 1 /\ reproQueue' = reproQueue \cup {r.attempts}
    /\ Then("idle", Fresh(0)) /\ Released
    /\ UNCHANGED <<labels, tests, reproLists, issue, triageQueue, triaging, tstep, t, sibling, sent>>

(* The reproduction of another stream opens a merge request; when ours has not *)
(* been asked for yet, it makes no difference when.                            *)
OtherStream ==
    /\ rstep = "idle" /\ reproQueue # {} /\ Open = {}
    /\ tests' = [tests EXCEPT !["shared"].open = TRUE]
    /\ UNCHANGED <<rstep, r, reproQueue, labels, reserved, reproLists>> /\ NoTriage

ReproducerStep ==
    \/ PopReproduction \/ GuardReproduction \/ StageInProgress \/ BootstrapTestsClone
    \/ RunReproducerAnalysis \/ ValidateTmtLint \/ FixTmtLint \/ CreateMergeRequest
    \/ HandleResults \/ Cleanup \/ EndReproduction

ReproductionSettled == rstep = "idle" /\ reproQueue = {}
=============================================================================
