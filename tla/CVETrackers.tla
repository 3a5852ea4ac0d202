----------------------------- MODULE CVETrackers -----------------------------
(***************************************************************************)
(* The trackers of one CVE in one component (ymir/tools/privileged/        *)
(* jira.py, CheckCveTriageEligibilityTool): one issue per stream, which    *)
(* people close and builds fix while triage, and later the Y-stream sweep, *)
(* ask whether a tracker has to be worked on.  The answer takes several    *)
(* searches, between which the other trackers change.                      *)
(***************************************************************************)
EXTENDS Integers

CONSTANTS
    Tracker,        \* issue numbers of one project
    Families        \* families of trackers to consider

(* Against the configured streams: the Y-stream, the current, upcoming and an *)
(* older Z-stream of its major, the current Z-stream of another major and the *)
(* one of a major without Y-stream; "unset" if there is no fix version.       *)
Stream == {"y", "current", "upcoming", "older", "other", "maintained", "unset"}
TrackerFacts == [stream : Stream, module : {"plain", "modular"}, embargoed : BOOLEAN]
Family == [severe : BOOLEAN, planned : BOOLEAN, about : [Tracker -> TrackerFacts], maxFaults : Nat]

ASSUME TrackersAssumption == Tracker \subseteq Nat /\ Families \subseteq Family

VARIABLES
    family,     \* severity, whether an upcoming Z-stream is planned, the trackers,
                \* and how many searches and fixes may fail
    state,      \* state[i]: of the issue; closed ones differ in the resolution
    nvr,        \* nvr[i]: Fixed in Build: none, with a build in CentOS Stream or without
    mark,       \* mark[i]: the label that tells how far Ymir is with it
    check,      \* check[i]: the eligibility check in progress
    verdict,    \* verdict[i]: of the last check
    checkFaults \* failures so far

trackerVars == <<family, state, nvr, mark, check, verdict, checkFaults>>

TrackerState == {"open", "shipped", "rejected", "obsolete"}
TrackerBuild == {"none", "rhel", "cs"}
(* "resolved" is ymir_triaged, _needs_attention, _triage_errored and another  *)
(* postponement; "fixing" and "failed" are the labels of a fix.               *)
Mark    == {"none", "progress", "y_stream", "not_affected", "fixing", "failed", "resolved"}
Verdict == {"unknown", "now", "wait", "inherit", "duplicate", "embargo", "unset", "error"}
(* "spared" only serves the property: a clone was known not to be affected    *)
(* when the check began.                                                      *)
NoCheck    == [step |-> "idle", by |-> "triage", then |-> "unknown", spared |-> FALSE]
TrackerCheck == [step : {"idle", "duplicates", "shipped", "approach", "not_affected", "untriaged", "analysis"},
            by : {"triage", "sweep"}, then : {"unknown", "wait", "inherit"}, spared : BOOLEAN]

TrackersInit ==
    /\ state = [i \in Tracker |-> "open"] /\ nvr = [i \in Tracker |-> "none"]
    /\ mark = [i \in Tracker |-> "none"]
    /\ check = [i \in Tracker |-> NoCheck] /\ verdict = [i \in Tracker |-> "unknown"]
    /\ checkFaults = 0

-----------------------------------------------------------------------------
About(i)  == family.about[i]
Clones(i) == Tracker \ {i}
Wanted(i, streams) == {u \in Clones(i) : About(u).stream \in streams}

(* _get_applicable_zstream_variants: an upcoming Z-stream precedes the current. *)
Applicable(i) ==
    {u \in Wanted(i, {IF family.planned THEN "upcoming" ELSE "current"}) : About(u).module = About(i).module}

(* _check_duplicate_tracker: trackers of the same target with a lower number. *)
Older(i) == {u \in Clones(i) : u < i /\ About(u).stream = About(i).stream /\ About(u).module = About(i).module}
Blocking(i) == {u \in Older(i) : state[u] # "rejected"}

(* _check_zstream_clones_shipped, without the builds it hands to the backport. *)
Relevant(i) == Wanted(i, {"current", "upcoming", "other"})
MayProceed(i) == (\E u \in Relevant(i) : state[u] = "shipped") \/ \A u \in Relevant(i) : state[u] # "open"

(* _check_zstream_fix_approach: one build of CentOS Stream decides; without   *)
(* any, a fix that went to RHEL first wins over clones without a build.       *)
SameMajor(i) == {u \in Wanted(i, {"current", "upcoming"}) : state[u] \in {"open", "shipped"}}
Approach(i) ==
    CASE \E u \in SameMajor(i) : nvr[u] = "cs" -> "inherit"
      [] /\ \A u \in SameMajor(i) : nvr[u] # "cs"
         /\ \E u \in SameMajor(i) : nvr[u] # "none" \/ state[u] = "shipped" -> "now"
      [] SameMajor(i) # {} /\ \A u \in SameMajor(i) : nvr[u] = "none" /\ state[u] = "open" -> "wait"
      [] SameMajor(i) = {} -> "now"

(* _check_zstream_not_affected and _check_zstream_pending_triage: the search  *)
(* asks for labels, whatever the state of the clone is.                       *)
NotAffected(i) == {u \in Applicable(i) : mark[u] = "not_affected"}
Untriaged(i)   == {u \in Applicable(i) : mark[u] \in {"none", "progress", "y_stream", "failed"}}

-----------------------------------------------------------------------------
OnlyCheck == UNCHANGED <<family, state, nvr, mark, verdict, checkFaults>>
CheckStep(i, step) == check' = [check EXCEPT ![i].step = step] /\ OnlyCheck

Begin(i, by) == [NoCheck EXCEPT !.step = "duplicates", !.by = by, !.spared = NotAffected(i) # {}]

(* process_task takes the issue; a closed one is dropped. *)
StartTriage(i) ==
    /\ check[i] = NoCheck /\ mark[i] = "none" /\ state[i] = "open"
    /\ mark' = [mark EXCEPT ![i] = "progress"]
    /\ check' = [check EXCEPT ![i] = Begin(i, "triage")]
    /\ UNCHANGED <<family, state, nvr, verdict, checkFaults>>

(* YStreamSweep.is_unblocked asks the same question again. *)
StartSweep(i) ==
    /\ check[i] = NoCheck /\ mark[i] = "y_stream" /\ state[i] = "open"
    /\ check' = [check EXCEPT ![i] = Begin(i, "sweep")]
    /\ OnlyCheck

(* The answer.  Triage acts on it; the sweep has the issue triaged again,     *)
(* unless it has to wait or the check failed.                                 *)
Answer(i, v) ==
    /\ verdict' = [verdict EXCEPT ![i] = v]
    /\ IF check[i].by = "sweep"
         THEN IF v \in {"wait", "error", "unset"}
                THEN check' = [check EXCEPT ![i] = NoCheck] /\ UNCHANGED mark
                ELSE /\ check' = [check EXCEPT ![i] = Begin(i, "triage")]
                     /\ mark' = [mark EXCEPT ![i] = "progress"]
         ELSE IF v = "now"
                THEN check' = [check EXCEPT ![i] = [NoCheck EXCEPT !.step = "analysis"]] /\ UNCHANGED mark
                ELSE check' = [check EXCEPT ![i] = NoCheck] /\ mark' = [mark EXCEPT ![i] = IF v = "wait" THEN "y_stream" ELSE "resolved"]
    /\ UNCHANGED <<family, state, nvr>>

Search(i, step) == check[i].step = step
SearchFault == checkFaults < family.maxFaults /\ checkFaults' = checkFaults + 1
SearchFails(i) == SearchFault /\ Answer(i, "error")
Answered(i, v) == Answer(i, v) /\ UNCHANGED checkFaults

(* The embargo matters to a Z-stream only. *)
AfterDuplicates(i) ==
    IF About(i).stream = "y"
      THEN /\ check' = [check EXCEPT ![i].step = IF family.severe THEN "shipped" ELSE "approach"]
           /\ UNCHANGED <<family, state, nvr, mark, verdict>>
      ELSE Answer(i, IF About(i).embargoed THEN "embargo" ELSE "now")

(* A check for duplicates that fails finds none. *)
CheckDuplicates(i) ==
    /\ Search(i, "duplicates")
    /\ \/ About(i).stream = "unset" /\ Answered(i, "unset")
       \/ About(i).stream # "unset" /\ Blocking(i) # {} /\ Answered(i, "duplicate")
       \/ About(i).stream # "unset" /\ Blocking(i) = {} /\ AfterDuplicates(i) /\ UNCHANGED checkFaults
       \/ Blocking(i) # {} /\ SearchFault /\ AfterDuplicates(i)

CheckShipped(i) ==
    /\ Search(i, "shipped")
    /\ \/ MayProceed(i) /\ Answered(i, "now")
       \/ /\ ~MayProceed(i)
          /\ check' = [check EXCEPT ![i] = [check[i] EXCEPT !.step = "not_affected", !.then = "wait"]] /\ OnlyCheck
       \/ SearchFails(i)

CheckApproach(i) ==
    /\ Search(i, "approach")
    /\ \/ Approach(i) = "now" /\ Answered(i, "now")
       \/ /\ Approach(i) # "now"
          /\ check' = [check EXCEPT ![i] = [check[i] EXCEPT !.step = "not_affected", !.then = Approach(i)]] /\ OnlyCheck
       \/ SearchFails(i)

(* Mutant: only a tracker that would wait is checked. *)
CheckNotAffectedWaiting(i) ==
    /\ Search(i, "not_affected")
    /\ IF NotAffected(i) # {} /\ check[i].then = "wait" THEN Answered(i, "now")
       ELSE IF family.severe THEN Answered(i, "wait") ELSE CheckStep(i, "untriaged")

CheckNotAffected(i) ==
    /\ Search(i, "not_affected")
    /\ \/ NotAffected(i) # {} /\ Answered(i, "now")
       \/ NotAffected(i) = {} /\ ~family.severe /\ CheckStep(i, "untriaged")
       \/ NotAffected(i) = {} /\ family.severe /\ Answered(i, "wait")
       \/ SearchFails(i)

CheckUntriaged(i) ==
    /\ Search(i, "untriaged")
    /\ \/ Answered(i, IF Untriaged(i) # {} THEN "wait" ELSE check[i].then)
       \/ SearchFails(i)

(* run_triage_analysis; a fix is someone else's. *)
Analyse(i) ==
    /\ Search(i, "analysis")
    /\ \E m \in {"not_affected", "fixing", "resolved"} : mark' = [mark EXCEPT ![i] = m]
    /\ check' = [check EXCEPT ![i] = NoCheck]
    /\ UNCHANGED <<family, state, nvr, verdict, checkFaults>>

Ask(i) == \/ StartTriage(i) \/ StartSweep(i) \/ CheckDuplicates(i) \/ CheckShipped(i)
          \/ CheckApproach(i) \/ CheckNotAffected(i) \/ CheckUntriaged(i) \/ Analyse(i)

(* A fix fails; what people do about it is IssueRouting's. *)
FixFails(i) ==
    /\ mark[i] = "fixing" /\ SearchFault
    /\ mark' = [mark EXCEPT ![i] = "failed"]
    /\ UNCHANGED <<family, state, nvr, check, verdict>>

(* People and the build systems: the tracker of a Z-stream gets its build,    *)
(* which matters for a low severity, and is closed.                           *)
IsBuilt(i) ==
    /\ state[i] = "open" /\ About(i).stream # "y" /\ ~family.severe
    /\ \/ nvr[i] = "none" /\ nvr' = [nvr EXCEPT ![i] = "rhel"]
       \/ nvr' = [nvr EXCEPT ![i] = "cs"]
    /\ UNCHANGED <<family, state, mark, check, verdict, checkFaults>>
IsClosed(i) ==
    /\ state[i] = "open" /\ About(i).stream # "y"
    /\ \E r \in TrackerState \ {"open"} : state' = [state EXCEPT ![i] = r]
    /\ UNCHANGED <<family, nvr, mark, check, verdict, checkFaults>>

TrackersNext == \E i \in Tracker : Ask(i) \/ FixFails(i) \/ IsBuilt(i) \/ IsClosed(i)


-----------------------------------------------------------------------------
TrackersTypeOK ==
    /\ family \in Families /\ state \in [Tracker -> TrackerState] /\ nvr \in [Tracker -> TrackerBuild]
    /\ mark \in [Tracker -> Mark] /\ check \in [Tracker -> TrackerCheck]
    /\ verdict \in [Tracker -> Verdict] /\ checkFaults \in 0..family.maxFaults

(* A Y-stream is left to inherit its fix only if the build of a Z-stream      *)
(* clone is in CentOS Stream, the applicable clone has been triaged, and was  *)
(* not known to be unaffected before the check: one that turns out to be      *)
(* between the searches of the check is overlooked.                           *)
InheritanceJustified ==
    [][\A i \in Tracker : verdict'[i] = "inherit" /\ verdict[i] # "inherit" =>
          /\ \E u \in Wanted(i, {"current", "upcoming"}) : nvr[u] = "cs"
          /\ \A u \in Applicable(i) : mark[u] \notin {"none", "progress", "failed"}
          /\ ~check[i].spared]_trackerVars

(* Of two trackers of the same target the younger is worked on only if the    *)
(* older was rejected or the search for it failed.                            *)
OneOfTwins ==
    \A i \in Tracker : \A u \in Older(i) :
        verdict[i] = "now" /\ checkFaults = 0 => state[u] = "rejected"

(* Once every clone is closed and was triaged, no tracker waits any more: the *)
(* sweep hears of it, whatever the order and the outcome.                     *)
ClonesDone == \A u \in Tracker : About(u).stream # "y" => state[u] # "open" /\ mark[u] \in {"not_affected", "fixing", "resolved"}
NoneWaits  == \A i \in Tracker : state[i] = "open" => mark[i] \notin {"none", "progress", "y_stream"}
TrackersDecided == <>[]ClonesDone => <>[]NoneWaits

(* The checks justify what is decided on them, whatever the other trackers do *)
(* between two searches.                                                      *)
TrackersSound == []OneOfTwins /\ InheritanceJustified
=============================================================================
