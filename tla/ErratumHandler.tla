---------------------------- MODULE ErratumHandler ----------------------------
(* ErratumHandler.run (ymir/supervisor/erratum_handler.py): one call moves the *)
(* erratum of the issues one step, from NEW_FILES over QE to REL_PREP.  The    *)
(* human attention an erratum needs is tracked by a RHELMISC issue.            *)

EXTENDS IssueHandler

CONSTANTS
    Erratum,    \* the erratum all issues are linked to
    Package     \* packages with a build in it

VARIABLES
    erratum,    \* Errata Tool's record
    listing,    \* a build's file list against the previous erratum's, if any
    checked,    \* packages with a product-listings-checked comment
    mismatch,   \* packages the running handler found different
    tracker,    \* the open RHELMISC issue: "none", "open" or "labelled"
    warned      \* history: a human was told of the current build's mismatch

erratumVars == <<erratum, listing, checked, mismatch, tracker, warned>>

ErratumTypeOK ==
    /\ erratum \in [status: {"none", "NEW_FILES", "QE", "REL_PREP"},
                    owned: BOOLEAN, team: BOOLEAN,
                    push: {"none", "running", "outdated", "complete", "failed"}, pushed: BOOLEAN,
                    cat: {"pending", "ok", "late"}, alerts: BOOLEAN]
    /\ listing \in [Package -> {"same", "differs"}]
    /\ checked \subseteq Package
    /\ mismatch \subseteq Package
    /\ tracker \in {"none", "open", "labelled"}
    /\ warned \in BOOLEAN

(* `team`: the Ymir team owns all issues; `push`: the latest stage push,       *)
(* "outdated" when a new build came while it ran; `pushed`: the current build  *)
(* is on stage; `cat`: CAT tests, "late" after their time-out; `alerts`:    *)
(* the security alerts are fresh.                                             *)
ErratumInit ==
    /\ erratum \in [status: {"none"}, owned: {FALSE}, team: BOOLEAN,
                    push: {"none"}, pushed: {FALSE}, cat: {"pending"}, alerts: {FALSE}]
    /\ listing \in [Package -> {"same", "differs"}]
    /\ checked = {}
    /\ mismatch = {}
    /\ tracker = "none"
    /\ warned = FALSE

IsErratum == item = Erratum

all_issues_are_release_pending ==
    \A i \in Issue : issue[i].link => issue[i].status = "Release Pending"

(* run: early returns, ownership, then the branch on the status. *)
ErratumRun ==
    /\ pc = "run"
    /\ IsErratum
    /\ IF tracker = "labelled" THEN Return("remove") /\ UNCHANGED goal
       ELSE IF ~erratum.owned
       THEN Goto(IF erratum.team THEN "own" ELSE "flag") /\ UNCHANGED goal
       ELSE CASE erratum.status = "NEW_FILES" -> Goto("advance") /\ goal' = "QE"
              [] erratum.status = "QE" /\ all_issues_are_release_pending ->
                  Goto("advance") /\ goal' = "REL_PREP"
              [] OTHER -> Return("remove") /\ UNCHANGED goal
    /\ mismatch' = {}
    /\ UNCHANGED <<issueVars, seen, erratum, listing, checked, tracker, warned>>

erratum_change_ownership ==
    /\ pc = "own"
    /\ erratum' = [erratum EXCEPT !.owned = TRUE]
    /\ Return("now")
    /\ UNCHANGED <<issueVars, handlerVars, listing, checked, mismatch, tracker, warned>>

NextStatus == [NEW_FILES |-> "QE", QE |-> "REL_PREP", REL_PREP |-> "SHIPPED_LIVE"]

Rules == {"Stagepush", "Cat", "Securityalert"}

(* The rules that block a transition. *)
Blocked(rule) ==
    CASE rule = "Stagepush" -> ~erratum.pushed
      [] rule = "Cat" -> erratum.cat # "ok"
      [] rule = "Securityalert" -> ~erratum.alerts

(* Without a push, or with a complete one that a new build made invalid. *)
MayPush == erratum.push \in {"none", "complete"}

(* try_to_advance_erratum, up to its first write. *)
try_to_advance_erratum ==
    /\ pc = "advance"
    /\ \/ NextStatus[erratum.status] # goal /\ Goto("flag")
       \/ /\ \A rule \in Rules : ~Blocked(rule)      \* an unknown rule may
          /\ Goto("flag")
       \/ /\ NextStatus[erratum.status] = goal
          /\ IF Blocked("Stagepush")
             THEN IF MayPush THEN Goto("push")
                  ELSE IF erratum.push = "failed" THEN Goto("flag") ELSE Return("later")
             ELSE IF Blocked("Cat")                   \* resolve_wait_for_cat_tests
             THEN IF erratum.push = "complete" /\ erratum.cat = "late"
                  THEN Goto("flag") ELSE Return("later")
             ELSE IF Blocked("Securityalert") THEN Goto("refresh")
             ELSE Goto(IF goal = "REL_PREP" THEN "listings" ELSE "state")
    /\ UNCHANGED <<issueVars, handlerVars, erratumVars>>

erratum_push_to_stage ==
    /\ pc = "push"
    /\ erratum' = [erratum EXCEPT !.push = "running", !.cat = "pending"]
    /\ Return("later")
    /\ UNCHANGED <<issueVars, handlerVars, listing, checked, mismatch, tracker, warned>>

erratum_refresh_security_alerts ==
    /\ pc = "refresh"
    /\ erratum' = [erratum EXCEPT !.alerts = TRUE]
    /\ Return("later")
    /\ UNCHANGED <<issueVars, handlerVars, listing, checked, mismatch, tracker, warned>>

(* A package without its magic string is compared and gets the comment. *)
compare_file_lists(p) ==
    /\ pc = "listings"
    /\ p \notin checked
    /\ checked' = checked \cup {p}
    /\ mismatch' = IF listing[p] = "differs" THEN mismatch \cup {p} ELSE mismatch
    /\ UNCHANGED <<queueVars, issueVars, handlerVars, erratum, listing, tracker, warned>>

ListingsDone ==
    /\ pc = "listings"
    /\ checked = Package
    /\ Goto(IF mismatch = {} THEN "state" ELSE "flag")
    /\ UNCHANGED <<issueVars, handlerVars, erratumVars>>

erratum_change_state ==
    /\ pc = "state"
    /\ erratum' = [erratum EXCEPT !.status = goal]
    /\ Return(IF goal = "QE" THEN "now" ELSE "remove")
    /\ UNCHANGED <<issueVars, handlerVars, listing, checked, mismatch, tracker, warned>>

(* resolve_flag_attention: label the open tracker, or file one that has it. *)
FlagErratum ==
    /\ pc = "flag"
    /\ IsErratum
    /\ tracker' = "labelled"
    /\ warned' = (warned \/ mismatch # {})
    /\ Return("remove")
    /\ UNCHANGED <<issueVars, handlerVars, erratum, listing, checked, mismatch>>
=============================================================================
