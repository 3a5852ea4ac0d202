--------------------------- MODULE TriageWorkflow ---------------------------
(***************************************************************************)
(* The triage of one issue, from the task in triage_queue to the tasks it  *)
(* leaves in the queues of other agents: run_workflow and process_task of  *)
(* ymir/agents/triage_agent.py.  The model's answer, and the outcome of    *)
(* every call, is a choice; what is true of the issue is fixed.  Locks,    *)
(* queues, closed issues and the fetcher are AgentQueue's and              *)
(* IssueRouting's, the search for siblings of a rebase is SiblingGroups';  *)
(* dry runs, AUTO_CHAIN off and the wording of comments are left out.      *)
(***************************************************************************)
EXTENDS AgentLimits

CONSTANT Issues     \* issues to consider

(* "missing": its Z-stream branch does not exist, "manual": only a maintainer *)
(* may create it; "ready": the dependency's fixed build is in the buildroot;  *)
(* "trusted": its author is an employee, or it is no longer New; "flaky": the *)
(* call that reads its labels may fail.                                       *)
IssueFacts == [user : BOOLEAN, flaky : BOOLEAN, cve : BOOLEAN, affected : BOOLEAN, missing : BOOLEAN,
               manual : BOOLEAN, ready : BOOLEAN, trusted : BOOLEAN]

ASSUME TriageAssumption == Issues \subseteq IssueFacts

Fixes == {"rebase", "backport", "rebuild"}

(* TriageState; "exists" and "policy" are target_branch_exists and           *)
(* automatic_branch_creation_disabled, "checked" the applicability check,    *)
(* "root" the buildroot check, "seen" the labels read before the workflow.   *)
TriageState ==
    [result   : Fixes \cup {"none", "not_affected", "clarification", "analysis", "postponed", "error"},
     target   : {"none", "stream", "zstream"},
     exists   : {"yes", "no", "unknown"},
     policy   : {"manual", "automatic", "unknown"},
     checked  : {"no", "affected", "skipped"},
     root     : {"unasked", "asked", "unknown"},
     role     : {"alone", "sibling", "waiting"},
     siblings : BOOLEAN,
     seen     : SUBSET STRING]
FreshTriage ==
    [result |-> "none", target |-> "none", exists |-> "unknown", policy |-> "unknown",
     checked |-> "no", root |-> "unasked", role |-> "alone", siblings |-> FALSE, seen |-> {}]

VARIABLES
    issue,      \* the issue, fixed
    triageQueue,\* attempts of the task that waits, or -1
    triaging,   \* attempts of the task in work
    tstep,      \* the next step of the workflow or of process_task, "idle"
    t,          \* the workflow's state
    labels,     \* the issue's labels
    sibling,    \* label of its sibling: "none", "held", "triaged"
    sent,       \* fix tasks sent; lists the issue is on
    reproQueue, \* attempts of the reproductions that wait
    stops       \* shutdowns so far

triageVars == <<issue, triageQueue, triaging, tstep, t, labels, sibling, sent, reproQueue, stops>>

(* ymir_triaged_backport, _rebase and _rebuild are "triaged"; "resolved" is   *)
(* ymir_needs_attention, _triaged and _triaged_not_affected.                  *)
TriageLabel == {"in_progress", "triaged", "manual", "postponed", "resolved", "errored", "waiting"}
ReproducerLabel == {"reproducing", "created", "exists", "unreproducible", "failed", "reproducer_errored"}

TriageInit ==
    /\ triaging = 0
    /\ tstep = "idle" /\ t = FreshTriage
    /\ labels = {} /\ sibling = "none"
    /\ sent = [fix |-> 0, lists |-> {}]
    /\ reproQueue = {} /\ stops = 0

-----------------------------------------------------------------------------
Triaging(step) == tstep = step
Go(step, new)  == tstep' = step /\ t' = new
Resolve(r)     == [t EXCEPT !.result = r]
TriageRaises   == Go("raised", t)
InMemory       == UNCHANGED <<issue, triageQueue, triaging, labels, sibling, sent, reproQueue, stops>>
Relabel(remove, add) == labels' = (labels \ remove) \cup add

(* hold_for_manual_branch_creation *)
Hold == /\ t.policy = "manual" /\ t.exists = "no" /\ t.result \in Fixes
        /\ ~(t.result = "rebase" /\ t.role # "alone")

PopTriage ==
    /\ tstep = "idle" /\ triageQueue >= 0
    /\ triaging' = triageQueue /\ triageQueue' = -1
    /\ Go("read", FreshTriage)
    /\ UNCHANGED <<issue, labels, sibling, sent, reproQueue, stops>>

(* The task is over; nothing but the queues and Jira remembers it. *)
TriageOver ==
    /\ Go("idle", FreshTriage) /\ triaging' = 0
    /\ UNCHANGED <<issue, stops>>

(* _terminal_ymir_labels counts the reproducer's labels as results of triage. *)
TerminalLabels == labels \ {"in_progress", "waiting"}

(* A duplicate is dropped.  A read that fails shows no labels. *)
ReadLabels ==
    /\ Triaging("read")
    /\ \/ /\ TerminalLabels # {} /\ "in_progress" \notin labels /\ ~issue.user
          /\ TriageOver /\ UNCHANGED <<triageQueue, labels, sibling, sent, reproQueue>>
       \/ /\ TerminalLabels = {} \/ "in_progress" \in labels \/ issue.user
          /\ Go("stamp", [t EXCEPT !.seen = labels]) /\ InMemory
       \/ issue.flaky /\ Go("stamp", t) /\ InMemory

(* retry and its end: ymir_triage_errored at best, and the error list. *)
RetryTriage(now) ==
    LET n == triaging + 1
    IN  /\ IF n < MaxRetries
             THEN triageQueue' = n /\ labels' = now /\ UNCHANGED sent
             ELSE /\ labels' \in {now, (now \ {"in_progress", "manual"}) \cup {"errored"}}
                  /\ sent' = [sent EXCEPT !.lists = @ \cup {"errors"}]
                  /\ UNCHANGED triageQueue
        /\ TriageOver /\ UNCHANGED <<sibling, reproQueue>>

(* The in-progress label is the dedup anchor: without it nothing is done.  The *)
(* acknowledgement that follows may fail as well.                              *)
StampIssue ==
    /\ Triaging("stamp")
    /\ LET stamped == (labels \ (t.seen \ {"in_progress", "waiting"})) \cup {"in_progress"}
       IN  \/ /\ Go("check_cve_eligibility", t) /\ labels' = stamped
              /\ UNCHANGED <<issue, triageQueue, triaging, sibling, sent, reproQueue, stops>>
           \/ \E now \in {labels} \cup (IF issue.user THEN {stamped} ELSE {}) : RetryTriage(now)

(* Only the Y-stream of a CVE waits for others; force_cve_triage and an issue  *)
(* that is eligible at once go on; duplicates and skipped ones are reported.   *)
CheckCVEEligibility ==
    /\ Triaging("check_cve_eligibility")
    /\ \/ Go("run_triage_analysis", t)
       \/ \E r \in {"clarification", "error", "analysis"} : Go("comment_in_jira", Resolve(r))
       \/ issue.cve /\ Go("comment_in_jira", Resolve("postponed"))
       \/ TriageRaises
    /\ InMemory

(* The answer of the model, which also fails to validate at times. *)
RunTriageAnalysis ==
    /\ Triaging("run_triage_analysis")
    /\ \E role \in {"alone"} \cup (IF "waiting" \in labels THEN {"waiting"} ELSE {}) :
          \/ Go("verify_rebase_author", [Resolve("rebase") EXCEPT !.role = role])
          \/ \E r \in {"backport", "rebuild"} : Go("determine_target_branch", [Resolve(r) EXCEPT !.role = role])
          \/ \E r \in {"clarification", "analysis", "not_affected"} :
                Go("comment_in_jira", [Resolve(r) EXCEPT !.role = role])
          \/ Go(IF issue.cve THEN "determine_target_branch" ELSE "comment_in_jira",
                [Resolve("postponed") EXCEPT !.role = role])
          \/ Go("label", [Resolve("error") EXCEPT !.role = role])
    /\ InMemory
AnalysisRaises == Triaging("run_triage_analysis") /\ TriageRaises /\ InMemory

VerifyRebaseAuthor ==
    /\ Triaging("verify_rebase_author")
    /\ \/ IF issue.trusted THEN Go("determine_target_branch", t)
                           ELSE Go("comment_in_jira", Resolve("clarification"))
       \/ TriageRaises
    /\ InMemory

(* _record_target_branch_existence: for a Z-stream branch; a failure leaves it *)
(* unknown.  _record_branch_creation_policy: for one that is missing.          *)
Existence(state) ==
    {state} \cup
    IF state.target # "zstream" THEN {}
    ELSE {[state EXCEPT !.exists = IF issue.missing THEN "no" ELSE "yes"]}
Policy(state) ==
    IF state.exists # "no" \/ state.policy # "unknown" THEN state
    ELSE [state EXCEPT !.policy = IF issue.manual THEN "manual" ELSE "automatic"]
PolicyRead(state) == state.exists = "no" /\ state.policy = "unknown"

AfterApplicability(state) ==
    CASE state.result = "rebuild" -> "consolidate_rebuild_siblings"
      [] state.result = "rebase"  -> "consolidate_rebase_siblings"
      [] OTHER                    -> "comment_in_jira"

DetermineTargetBranch ==
    /\ Triaging("determine_target_branch")
    /\ \/ \E target \in {"none", "stream", "zstream"} :
          \E found \in Existence([t EXCEPT !.target = target]) :
              \/ Go(IF issue.cve THEN "check_cve_applicability" ELSE AfterApplicability(found), Policy(found))
              \/ PolicyRead(found) /\ Go("raised", found)
       \/ TriageRaises
    /\ InMemory

(* Without a target branch nothing is checked.  The source that is analysed is *)
(* that of the branch, or of what an older Z-stream was last built from, or of *)
(* CentOS Stream.  Without it the check is skipped; the base of an older       *)
(* Z-stream that cannot be found skips the buildroot check as well.            *)
CheckCVEApplicability ==
    /\ Triaging("check_cve_applicability")
    /\ \/ t.target = "none" /\ Go("comment_in_jira", t)
       \/ /\ t.target # "none"
          /\ \E found \in IF t.exists = "unknown" THEN Existence(t) ELSE {t} :
                LET known   == Policy(found)
                    skipped == [known EXCEPT !.checked = "skipped"]
                    next    == IF t.result = "rebuild" THEN "verify_rebuild_buildroot" ELSE AfterApplicability(t)
                IN  \/ PolicyRead(found) /\ Go("raised", found)
                    \/ known.exists = "no" /\ Go(AfterApplicability(t), skipped)
                    \/ Go(next, skipped)
                    \/ IF issue.affected THEN Go(next, [known EXCEPT !.checked = "affected"])
                       ELSE Go("comment_in_jira", [known EXCEPT !.result = "not_affected"])
    /\ InMemory

(* The answer is trusted only if everything needed to ask is there. *)
VerifyRebuildBuildroot ==
    /\ Triaging("verify_rebuild_buildroot")
    /\ \/ Go("consolidate_rebuild_siblings", [t EXCEPT !.root = "unknown"])
       \/ IF issue.ready THEN Go("consolidate_rebuild_siblings", [t EXCEPT !.root = "asked"])
          ELSE Go("comment_in_jira", [Resolve("postponed") EXCEPT !.root = "asked"])
       \/ TriageRaises
    /\ InMemory

(* find_rebuild_siblings: a search that fails finds none. *)
ConsolidateRebuildSiblings ==
    /\ Triaging("consolidate_rebuild_siblings")
    /\ \E some \in BOOLEAN : Go("comment_in_jira", [t EXCEPT !.siblings = some])
    /\ InMemory

(* An issue that is a sibling itself has none; one with siblings waits for     *)
(* them, with or without the label.                                            *)
ConsolidateRebaseSiblings ==
    /\ Triaging("consolidate_rebase_siblings")
    /\ \/ /\ Go("comment_in_jira", [t EXCEPT !.role = "sibling"]) /\ UNCHANGED labels
       \/ /\ Go("comment_in_jira", t) /\ UNCHANGED labels
       \/ /\ Go("comment_in_jira", [t EXCEPT !.role = "waiting"])
          /\ labels' \in {labels, labels \cup {"waiting"}}
       \/ TriageRaises /\ UNCHANGED labels
    /\ UNCHANGED <<issue, triageQueue, triaging, sibling, sent, reproQueue, stops>>

CommentResult ==
    /\ Triaging("comment_in_jira")
    /\ \/ ~Hold /\ Go("label", t)
       \/ ~Hold /\ TriageRaises    \* the comment, or the search for an earlier one
       \/ Hold /\ Go(IF t.result = "rebuild" /\ t.siblings THEN "hold_sibling" ELSE "hold_primary", t)
    /\ InMemory

(* handle_manual_branch_creation_required: the primary keeps its in-progress   *)
(* label until every sibling is held; a write that fails raises.               *)
HoldSibling ==
    /\ Triaging("hold_sibling")
    /\ \/ Go("hold_primary", t) /\ sibling' = "held"
       \/ TriageRaises /\ UNCHANGED sibling
    /\ UNCHANGED <<issue, triageQueue, triaging, labels, sent, reproQueue, stops>>

HoldPrimary ==
    /\ Triaging("hold_primary")
    /\ \/ Go("label", t) /\ Relabel({"in_progress"}, {"triaged", "manual"})
       \/ TriageRaises /\ UNCHANGED labels
    /\ UNCHANGED <<issue, triageQueue, triaging, sibling, sent, reproQueue, stops>>

TriageRaised == Triaging("raised") /\ RetryTriage(labels)

-----------------------------------------------------------------------------
(* process_task after the workflow.  An exception here is caught by nobody but *)
(* the task loop: the task is gone.                                            *)
TriageEscapes ==
    /\ TriageOver
    /\ UNCHANGED <<triageQueue, sibling, sent, reproQueue>>

WaitsForSiblings == t.result = "rebase" /\ (t.role = "waiting" \/ "waiting" \in t.seen)

LabelResult ==
    /\ Triaging("label")
    /\ \/ /\ Go("label_siblings", t)
          /\ CASE t.result = "postponed" ->
                     Relabel({"in_progress", "manual", "waiting"}, {"postponed"})
               [] t.result # "postponed" /\ (t.result = "error" \/ Hold) -> UNCHANGED labels
               [] t.result # "postponed" /\ t.result # "error" /\ ~Hold ->
                     IF WaitsForSiblings THEN Relabel({"in_progress"}, {})
                     ELSE Relabel({"in_progress", "waiting"}, {IF t.result \in Fixes THEN "triaged" ELSE "resolved"})
          /\ UNCHANGED <<issue, triageQueue, triaging, sibling, sent, reproQueue, stops>>
       \/ /\ t.result # "error" /\ ~Hold
          /\ TriageEscapes /\ UNCHANGED labels

(* The siblings of a rebuild share its result, at best. *)
LabelSiblings ==
    /\ Triaging("label_siblings") /\ Go("dispatch", t)
    /\ sibling' \in {sibling} \cup IF t.result = "rebuild" /\ t.siblings /\ ~Hold THEN {"triaged"} ELSE {}
    /\ UNCHANGED <<issue, triageQueue, triaging, labels, sent, reproQueue, stops>>

(* Mutant: a fix that is held is sent. *)
MayFixHeld == t.target # "none" /\ (t.result = "rebase" => t.role = "alone" /\ ~WaitsForSiblings)

MayFix == t.target # "none" /\ ~Hold /\ (t.result = "rebase" => t.role = "alone" /\ ~WaitsForSiblings)
Listed(r) == r \in {"postponed", "clarification", "analysis"}

(* A result that needs no fix, a hold and a rebase that waits push nothing. *)
DispatchResult ==
    /\ Triaging("dispatch")
    /\ \/ t.result = "error" /\ RetryTriage(labels)
       \/ /\ t.result # "error" /\ Go("reproduce", t)
          /\ sent' = IF Listed(t.result) THEN [sent EXCEPT !.lists = @ \cup {"reported"}]
                     ELSE IF t.result \in Fixes /\ MayFix THEN [sent EXCEPT !.fix = @ + 1]
                     ELSE sent
          /\ UNCHANGED <<issue, triageQueue, triaging, labels, sibling, reproQueue, stops>>
       \/ /\ Listed(t.result) \/ (t.result \in Fixes /\ MayFix)
          /\ TriageEscapes /\ UNCHANGED labels

(* A fix, even one that is held or waits, and a package that is not affected   *)
(* ask for a reproduction, unless the package is modular, unknown or has       *)
(* reproduction disabled.  Then earlier errors are cleared, unless asking     *)
(* failed.                                                                     *)
EnqueueReproducer ==
    /\ Triaging("reproduce")
    /\ \/ /\ t.result \in Fixes \cup {"not_affected"}
          /\ reproQueue' = reproQueue \cup {0}
       \/ UNCHANGED reproQueue
    /\ sent' \in {sent, [sent EXCEPT !.lists = @ \ {"errors"}]}
    /\ TriageOver /\ UNCHANGED <<triageQueue, labels, sibling>>

(* The pod shuts down: the payload is pushed again as it was popped. *)
TriageShutdown ==
    /\ tstep # "idle" /\ stops < MaxShutdowns
    /\ stops' = stops + 1 /\ triageQueue' = triaging
    /\ Go("idle", FreshTriage) /\ triaging' = 0
    /\ UNCHANGED <<issue, labels, sibling, sent, reproQueue>>

TriageStep ==
    \/ PopTriage \/ ReadLabels \/ StampIssue \/ CheckCVEEligibility \/ RunTriageAnalysis \/ AnalysisRaises
    \/ VerifyRebaseAuthor \/ DetermineTargetBranch \/ CheckCVEApplicability \/ VerifyRebuildBuildroot
    \/ ConsolidateRebuildSiblings \/ ConsolidateRebaseSiblings \/ CommentResult
    \/ HoldSibling \/ HoldPrimary \/ TriageRaised
    \/ LabelResult \/ LabelSiblings \/ DispatchResult \/ EnqueueReproducer

TriageSettled == tstep = "idle" /\ triageQueue = -1
=============================================================================
