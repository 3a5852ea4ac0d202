----------------------------- MODULE IssueHandler -----------------------------
(* IssueHandler.run (ymir/supervisor/issue_handler.py): one call reads an      *)
(* issue and moves it one step towards Release Pending.  What a call read is   *)
(* `seen`; every later call to Jira or Testing Farm is a step of its own.      *)
(* Reproduction requests (baseline_tests.py) are identified by the round of    *)
(* test runs they repeat.                                                      *)

EXTENDS WorkItems

CONSTANT Issue

VARIABLES
    issue,      \* Jira's record of an issue
    mr,         \* its merge request: "open", "merged" or merged for a day ("old")
    tests,      \* test runs of the current build: "running" or "done"
    round,      \* number of the current build's test runs
    created,    \* reproduction requests created, per round
    seen,       \* the issue as the handler read it
    goal        \* status the handler is about to set

issueVars == <<issue, mr, tests, round, created>>
handlerVars == <<seen, goal>>

Rounds == 1..(MaxUpsets + 1)    \* each respin begins one
NoBaseline == [round |-> 0, settled |-> TRUE]
Baseline == [round: {0} \cup Rounds, settled: BOOLEAN]
JiraIssue == [status: {"In Progress", "Integration", "Release Pending"},
              fields: {"complete", "components", "missing"},
              link: BOOLEAN, merged: BOOLEAN, attention: BOOLEAN,
              reproducing: BOOLEAN, baseline: Baseline]

IssueTypeOK ==
    /\ issue \in [Issue -> JiraIssue]
    /\ mr \in [Issue -> {"open", "merged", "old"}]
    /\ tests \in [Issue -> {"running", "done"}]
    /\ round \in Rounds
    /\ created \in [Issue -> [Rounds -> Nat]]

NewIssue(f) == [status |-> "In Progress", fields |-> f, link |-> FALSE, merged |-> FALSE,
                attention |-> FALSE, reproducing |-> FALSE, baseline |-> NoBaseline]
Unread == NewIssue("complete")

(* An issue with ymir_backported or ymir_rebased and a merge request.         *)
(* "components": more than one; "missing": no fixed-in build, preliminary     *)
(* testing or test coverage.                                                  *)
IssueInit ==
    /\ \E f \in [Issue -> {"complete", "components", "missing"}] :
            issue = [i \in Issue |-> NewIssue(f[i])]
    /\ mr = [i \in Issue |-> "open"]
    /\ tests = [i \in Issue |-> "running"]
    /\ round = 1
    /\ created = [i \in Issue |-> [r \in Rounds |-> 0]]
    /\ seen = Unread
    /\ goal = "none"

Write(field, value) ==
    /\ issue' = [issue EXCEPT ![item][field] = value]
    /\ UNCHANGED <<mr, tests, round, created>>

IsIssue == item \in Issue

(* run: early returns, then the branch for issues without or with an erratum. *)
IssueRun ==
    /\ pc = "run"
    /\ IsIssue
    /\ seen' = issue[item]
    /\ LET s == issue[item]
           unfit == s.fields = "components" \/ (s.link /\ s.fields = "missing")
       IN  IF s.attention THEN Return("remove")
           ELSE Goto(IF unfit THEN "flag" ELSE "label")
    /\ UNCHANGED <<issueVars, goal>>

label_merge_if_needed ==
    /\ pc = "label"
    /\ IF ~seen.merged /\ mr[item] # "open"
       THEN Write("merged", TRUE) /\ seen' = [seen EXCEPT !.merged = TRUE]
       ELSE UNCHANGED <<issueVars, seen>>
    /\ Goto(IF seen.link THEN "after" ELSE "before")
    /\ UNCHANGED goal

run_before_errata_created ==
    /\ pc = "before"
    /\ IF seen.merged /\ mr[item] = "old" THEN Goto("flag") ELSE Return("later")
    /\ UNCHANGED <<issueVars, handlerVars>>

(* Preliminary testing has passed. *)
MoveToIntegration == Goto("status") /\ goal' = "Integration"

(* run_after_errata_created.  The argument is the status of the erratum.      *)
run_after_errata_created(erratumStatus) ==
    /\ pc = "after"
    /\ CASE seen.status = "In Progress" -> MoveToIntegration
         [] seen.status = "Release Pending" -> Return("remove") /\ UNCHANGED goal
         [] seen.status = "Integration" ->
              /\ UNCHANGED goal
              /\ IF seen.reproducing THEN Goto("check")
                 ELSE IF erratumStatus = "NEW_FILES" THEN Return("later")
                 ELSE Goto("analyze")
    /\ UNCHANGED <<issueVars, seen>>

(* The latest comment with reproductions is about the runs that failed. *)
AlreadyReproducedIgnored == FALSE                                \* mutant
AlreadyReproduced == seen.baseline.round = round

(* The test analyst's verdicts: a wait only while tests run; the runs that    *)
(* failed are those of the current round, or it names none.                   *)
analyze_issue ==
    /\ pc = "analyze"
    /\ \/ tests[item] = "running" /\ Return("later") /\ UNCHANGED handlerVars
       \/ Goto("flag") /\ UNCHANGED handlerVars     \* not running, error, no ids
       \/ /\ tests[item] = "done"                                     \* failed
          /\ IF AlreadyReproduced
             THEN Goto("flag") /\ UNCHANGED seen
             ELSE /\ Goto("reproduce")
                  /\ seen' = [seen EXCEPT !.baseline = [round |-> round, settled |-> FALSE]]
          /\ UNCHANGED goal
       \/ /\ tests[item] = "done"                           \* passed or waived
          /\ Goto("status")
          /\ goal' = "Release Pending"
          /\ UNCHANGED seen
    /\ UNCHANGED issueVars

resolve_set_status ==
    /\ pc = "status"
    /\ IsIssue
    /\ Write("status", goal)
    /\ Return(IF goal = "Release Pending" THEN "remove" ELSE "now")
    /\ UNCHANGED handlerVars

resolve_flag_attention ==
    /\ pc = "flag"
    /\ IsIssue
    /\ Write("attention", TRUE)
    /\ Return("remove")
    /\ UNCHANGED handlerVars

(* BaselineTests.create, or one of the errors before and in it. *)
resolve_start_reproduction ==
    /\ pc = "reproduce"
    /\ \/ Goto("flag") /\ UNCHANGED issueVars
       \/ /\ created' = [created EXCEPT ![item][seen.baseline.round] = @ + 1]
          /\ Goto("record")
          /\ UNCHANGED <<issue, mr, tests, round>>
    /\ UNCHANGED handlerVars

(* The comment that names the requests and the label go into one PUT. *)
RecordReproduction ==
    /\ pc = "record"
    /\ issue' = [issue EXCEPT ![item] = [issue[item] EXCEPT !.reproducing = TRUE,
                                                           !.baseline = seen.baseline]]
    /\ Return("later")
    /\ UNCHANGED <<mr, tests, round, created, handlerVars>>

BaselineDone == issue[item].baseline.settled

CheckKeepsLabel ==                                               \* mutant
    /\ pc = "check"
    /\ Return(IF BaselineDone THEN "now" ELSE "later")
    /\ UNCHANGED <<issueVars, handlerVars>>
resolve_check_reproduction ==
    /\ pc = "check"
    /\ IF BaselineDone
       THEN Write("reproducing", FALSE) /\ Return("now")
       ELSE Return("later") /\ UNCHANGED issueVars
    /\ UNCHANGED handlerVars
=============================================================================
