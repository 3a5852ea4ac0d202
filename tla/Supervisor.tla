------------------------------ MODULE Supervisor ------------------------------
(* Collector (ymir/supervisor/collect.py), processor and the world around them.*)
(* The collector is a cron job (concurrencyPolicy Forbid): it searches Jira,   *)
(* reads the errata, reads the queue and adds what is missing, in calls        *)
(* between which the processor goes on.                                        *)

EXTENDS ErratumHandler

VARIABLES
    cpc,        \* position of the collector
    found       \* work items it wants

collectorVars == <<cpc, found>>
vars == <<queueVars, issueVars, handlerVars, erratumVars, collectorVars>>
Processor == <<queue, pc, item, result, handlerVars, collectorVars>>
World == <<Processor, upsets>>

ASSUME SupervisorAssumption ==
    /\ Item = Issue \cup {Erratum}
    /\ Erratum \notin Issue
    /\ NoItem \notin Item
    /\ MaxUpsets \in Nat

(* Types. *)
TypeOK ==
    /\ QueueTypeOK
    /\ IssueTypeOK
    /\ ErratumTypeOK
    /\ cpc \in {"idle", "errata", "queue", "schedule"}
    /\ found \subseteq Item

Init ==
    /\ QueueInit
    /\ IssueInit
    /\ ErratumInit
    /\ cpc = "idle"
    /\ found = {}

-----------------------------------------------------------------------------
(* Collector *)

current_issues == {i \in Issue : ~issue[i].attention}

CollectIssues ==
    /\ cpc = "idle"
    /\ cpc' = "errata"
    /\ found' = {i \in current_issues : issue[i].status # "Release Pending"}
                \cup {w \in {Erratum} : \E i \in current_issues : issue[i].link}
    /\ UNCHANGED <<queueVars, issueVars, handlerVars, erratumVars>>

CollectErrata ==
    /\ cpc = "errata"
    /\ cpc' = "queue"
    /\ found' = IF /\ tracker # "labelled"
                   /\ \/ erratum.status = "NEW_FILES"
                      \/ erratum.status = "QE" /\ all_issues_are_release_pending
                THEN found ELSE found \ {Erratum}
    /\ UNCHANGED <<queueVars, issueVars, handlerVars, erratumVars>>

CollectQueue ==
    /\ cpc = "queue"
    /\ cpc' = "schedule"
    /\ found' = found \ queue
    /\ UNCHANGED <<queueVars, issueVars, handlerVars, erratumVars>>

CollectSchedule ==
    /\ cpc = "schedule"
    /\ cpc' = "idle"
    /\ queue' = queue \cup found
    /\ found' = {}
    /\ UNCHANGED <<pc, item, result, upsets, issueVars, handlerVars, erratumVars>>

-----------------------------------------------------------------------------
(* The world: GitLab, Errata Tool, Testing Farm and people *)

MrMerged(i) ==
    /\ mr[i] = "open"
    /\ mr' = [mr EXCEPT ![i] = "merged"]
    /\ UNCHANGED <<World, issue, tests, round, created, erratumVars>>

(* Age matters only until there is an erratum. *)
DayPasses(i) ==
    /\ mr[i] = "merged" /\ ~issue[i].link
    /\ mr' = [mr EXCEPT ![i] = "old"]
    /\ UNCHANGED <<World, issue, tests, round, created, erratumVars>>

ErratumCreated ==
    /\ erratum.status = "none"
    /\ \A i \in Issue : mr[i] # "open"
    /\ erratum' = [erratum EXCEPT !.status = "NEW_FILES"]
    /\ issue' = [i \in Issue |-> [issue[i] EXCEPT !.link = TRUE]]
    /\ UNCHANGED <<World, mr, tests, round, created, listing, checked, mismatch, tracker, warned>>

TestsFinish(i) ==
    /\ erratum.status \in {"QE", "REL_PREP"}
    /\ tests[i] = "running"
    /\ tests' = [tests EXCEPT ![i] = "done"]
    /\ UNCHANGED <<World, issue, mr, round, created, erratumVars>>

RequestsSettle(i) ==
    /\ ~issue[i].baseline.settled
    /\ issue' = [issue EXCEPT ![i].baseline.settled = TRUE]
    /\ UNCHANGED <<World, mr, tests, round, created, erratumVars>>

PushEnds ==
    /\ erratum.push \in {"running", "outdated"}
    /\ \/ erratum' = [erratum EXCEPT !.push = "complete", !.pushed = (@ \/ erratum.push = "running")]
       \/ erratum' = [erratum EXCEPT !.push = "failed"]
    /\ UNCHANGED <<World, issueVars, listing, checked, mismatch, tracker, warned>>

CatEnds ==
    /\ erratum.push = "complete"
    /\ erratum.cat = "pending"
    /\ \E c \in {"ok", "late"} : erratum' = [erratum EXCEPT !.cat = c]
    /\ UNCHANGED <<World, issueVars, listing, checked, mismatch, tracker, warned>>

Upset == upsets < MaxUpsets /\ upsets' = upsets + 1

(* A new build: the erratum starts again, and so do its tests. *)
Respin ==
    /\ Upset
    /\ erratum.status \in {"NEW_FILES", "QE"}
    /\ round' = round + 1
    /\ erratum' = [erratum EXCEPT !.status = "NEW_FILES", !.pushed = FALSE,
                                  !.cat = "pending", !.alerts = FALSE,
                                  !.push = IF @ = "running" THEN "outdated" ELSE @]
    /\ tests' = [i \in Issue |-> "running"]
    /\ listing' \in [Package -> {"same", "differs"}]
    /\ checked' = {}
    /\ warned' = FALSE
    /\ UNCHANGED <<Processor, issue, mr, created, mismatch, tracker>>

AttentionCleared(i) ==
    /\ Upset
    /\ issue[i].attention
    /\ issue' = [issue EXCEPT ![i].attention = FALSE]
    /\ UNCHANGED <<Processor, mr, tests, round, created, erratumVars>>

(* The label is taken off the tracker, or the tracker is closed. *)
TrackerCleared ==
    /\ Upset
    /\ tracker = "labelled"
    /\ tracker' \in {"open", "none"}
    /\ UNCHANGED <<Processor, issueVars, erratum, listing, checked, mismatch, warned>>

-----------------------------------------------------------------------------
(* Next-state relation *)

(* What a handler holds in memory ends with it. *)
Queue ==
    /\ \/ \E w \in Item : pop_first_ready_work_item(w)
       \/ process_once
       \/ HandlerFails
    /\ IF pc' = "idle"
       THEN seen' = Unread /\ goal' = "none" /\ mismatch' = {}
       ELSE UNCHANGED <<handlerVars, mismatch>>
    /\ UNCHANGED <<issueVars, erratum, listing, checked, tracker, warned, collectorVars>>

HandleIssue ==
    /\ \/ IssueRun
       \/ label_merge_if_needed
       \/ run_before_errata_created
       \/ run_after_errata_created(erratum.status)
       \/ analyze_issue
       \/ resolve_set_status
       \/ resolve_flag_attention
       \/ resolve_start_reproduction
       \/ RecordReproduction
       \/ resolve_check_reproduction
    /\ UNCHANGED <<erratumVars, collectorVars>>

HandleErratum ==
    /\ \/ ErratumRun
       \/ erratum_change_ownership
       \/ try_to_advance_erratum
       \/ erratum_push_to_stage
       \/ erratum_refresh_security_alerts
       \/ \E p \in Package : compare_file_lists(p)
       \/ ListingsDone
       \/ erratum_change_state
       \/ FlagErratum
    /\ UNCHANGED <<collectorVars>>

Collect == CollectIssues \/ CollectErrata \/ CollectQueue \/ CollectSchedule

Progress ==
    \/ \E i \in Issue : DayPasses(i) \/ TestsFinish(i) \/ RequestsSettle(i)
    \/ ErratumCreated \/ PushEnds \/ CatEnds

People == (\E i \in Issue : MrMerged(i) \/ AttentionCleared(i)) \/ Respin \/ TrackerCleared

Next == Queue \/ HandleIssue \/ HandleErratum \/ Collect \/ Progress \/ People

Spec == Init /\ [][Next]_vars

-----------------------------------------------------------------------------
(* Properties *)

(* Each round of failed tests is reproduced once, and once more for each      *)
(* handler that failed: an analysis repeated after the reproduction           *)
(* recognises the runs it has already reproduced.                             *)
ReproducedOnce ==
    \A i \in Issue, r \in Rounds : created[i][r] <= 1 + upsets

(* No build reaches REL_PREP on file lists that were found different without  *)
(* a human being told (compare_file_lists: "Flagging for human attention").   *)
MismatchFlagged ==
    erratum.status = "REL_PREP" /\ (\E p \in Package : listing[p] = "differs") => warned

-----------------------------------------------------------------------------
(* Liveness *)

Fairness ==
    /\ WF_vars(Collect)
    /\ \A w \in Item : SF_vars(Queue /\ pop_first_ready_work_item(w))
    /\ WF_vars(Queue /\ process_once)
    /\ WF_vars(HandleIssue)
    /\ WF_vars(HandleErratum)
    /\ WF_vars(ErratumCreated)
    /\ WF_vars(PushEnds)
    /\ WF_vars(CatEnds)
    /\ \A i \in Issue : /\ WF_vars(DayPasses(i))
                        /\ WF_vars(TestsFinish(i))
                        /\ WF_vars(RequestsSettle(i))

FairSpec == Spec /\ Fairness

Settled(i) == issue[i].attention \/ issue[i].status = "Release Pending"

(* An issue whose merge request was merged reaches Release Pending or a      *)
(* human, unless its erratum waits for one: no failed handler, no item        *)
(* removed on stale facts and no collector sweep that misses an item strands  *)
(* it.                                                                        *)
IssueSettles ==
    \A i \in Issue : mr[i] # "open" ~> Settled(i) \/ tracker = "labelled"

(* An erratum whose issues have all been tested is prepared for release or    *)
(* handed to a human.                                                         *)
ErratumSettles ==
    erratum.status = "QE" /\ all_issues_are_release_pending
        ~> \/ erratum.status # "QE" \/ tracker = "labelled"
           \/ \A i \in Issue : issue[i].attention

(* Neither issues nor errata are stranded.                                    *)
WorkSettles == IssueSettles /\ ErratumSettles
=============================================================================
