------------------------------ MODULE MRCleanup ------------------------------
(***************************************************************************)
(* The daily job on merge requests that are no longer wanted               *)
(* (ymir/mr_cleanup/mr_cleanup.py): its first phase closes the open ones   *)
(* whose issues are all closed, the second labels the issues of rejected   *)
(* ones.  Each phase works on listings that age while it runs, calls fail, *)
(* and the job may be killed at any step.  Dry runs, the switches of the   *)
(* phases, comments on partly closed ones and the look-back window are     *)
(* left out.                                                               *)
(***************************************************************************)
EXTENDS Integers

CONSTANTS
    Names,              \* Names[m]: the issues that the commits of m resolve
    MaxCleanupFaults,   \* failing calls and killed jobs
    MaxReopened         \* merge requests people reopen

MR    == DOMAIN Names
NamedIssue == UNION {Names[m] : m \in MR}

ASSUME CleanupAssumption == MaxCleanupFaults \in Nat /\ MaxReopened \in Nat

VARIABLES
    mr,             \* mr[m]: state and labels, whether the job has explained its closure
    done,           \* the issues that are closed
    tagged,         \* the issues with ymir_mr_closed
    shipped,        \* the issues with ymir_merged
    job,            \* the job that runs
    cleanup         \* failures and reopened merge requests so far, and the merge
                    \* requests that people touched while a job was running
cleanupVars == <<mr, done, tagged, shipped, job, cleanup>>

MRState == [state : {"absent", "opened", "closed", "merged"}, cleaned : BOOLEAN, handled : BOOLEAN,
            noted : BOOLEAN, again : BOOLEAN]   \* "again": people reopened what the job had closed

(* "listed" and "read": merge requests of the current listing and those whose *)
(* commits could be read; "cleaned": with that label when listed; "closed",   *)
(* "labels": what Jira said; "skip": active_keys, later skip_jira_keys;       *)
(* "unread": open or merged, but their issues are not known.                  *)
NoJob == [pc |-> "idle", listed |-> {}, read |-> {}, cleaned |-> {}, closed |-> {}, labels |-> {},
          skip |-> {}, unread |-> {}, cur |-> {}, keys |-> {}, ok |-> TRUE]

CleanupInit ==
    /\ mr = [m \in MR |-> [state |-> "absent", cleaned |-> FALSE, handled |-> FALSE, noted |-> FALSE, again |-> FALSE]]
    /\ done = {} /\ tagged = {} /\ shipped = {} /\ job = NoJob
    /\ cleanup = [faults |-> 0, reopened |-> 0, touched |-> {}]

-----------------------------------------------------------------------------
JobAt(pc)  == job.pc = pc
MRsIn(st)    == {m \in MR : mr[m].state = st}
JobOnly   == UNCHANGED <<mr, done, tagged, shipped, cleanup>>
JobGoes(pc)  == job' = [job EXCEPT !.pc = pc]
SetMR(m, f) == mr' = [mr EXCEPT ![m] = f]
CleanupFault == /\ cleanup.faults < MaxCleanupFaults
             /\ cleanup' = [cleanup EXCEPT !.faults = @ + 1]

(* All commits are read, or those of one merge request are not. *)
Readable(listed, read) ==
    \/ read = listed /\ UNCHANGED cleanup
    \/ CleanupFault /\ \E m \in listed : read = listed \ {m}

ListOpen ==
    /\ JobAt("idle") /\ MRsIn("opened") \cup MRsIn("closed") # {}
    /\ job' = [NoJob EXCEPT !.pc = "read_open", !.listed = MRsIn("opened"),
                            !.cleaned = {m \in MR : mr[m].cleaned}]
    /\ JobOnly

(* _extract_all_jira_keys and fetch_jira_statuses; no answer counts as open. *)
ReadOpen ==
    /\ JobAt("read_open")
    /\ \E read \in SUBSET job.listed :
          \/ /\ Readable(job.listed, read)
             /\ job' = [job EXCEPT !.pc = "stale", !.read = read, !.closed = done, !.unread = job.listed \ read]
          \/ /\ read = job.listed /\ CleanupFault
             /\ job' = [job EXCEPT !.pc = "stale", !.read = read]
    /\ UNCHANGED <<mr, done, tagged, shipped>>

(* Mutant: a call that fails leaves no trace of the issues. *)
LeaveQuiet(m) == [job EXCEPT !.pc = "stale", !.listed = @ \ {m}, !.cur = {}]

(* The issues of a merge request that was not closed are active. *)
Leave(m)   == [job EXCEPT !.pc = "stale", !.listed = @ \ {m}, !.cur = {},
                          !.skip = IF m \in job.read THEN @ \cup Names[m] ELSE @]
Unwanted(m) == /\ m \in job.read \ job.cleaned /\ Names[m] # {}
               /\ Names[m] \subseteq job.closed

(* process_mr *)
ProcessMR(m) ==
    /\ JobAt("stale") /\ m \in job.listed
    /\ job' = IF Unwanted(m) THEN [job EXCEPT !.pc = "note", !.cur = {m}] ELSE Leave(m)
    /\ JobOnly

PostNote(m) ==
    /\ JobAt("note") /\ m \in job.cur
    /\ \/ SetMR(m, [mr[m] EXCEPT !.noted = TRUE]) /\ JobGoes("close") /\ UNCHANGED cleanup
       \/ CleanupFault /\ job' = Leave(m) /\ UNCHANGED mr
    /\ UNCHANGED <<done, tagged, shipped>>

(* The last answer of the retried call may get lost.  Closing one that is no  *)
(* longer open changes nothing.                                               *)
CloseMR(m) ==
    /\ JobAt("close") /\ m \in job.cur
    /\ \/ SetMR(m, IF mr[m].state = "opened" THEN [mr[m] EXCEPT !.state = "closed"] ELSE mr[m])
       \/ UNCHANGED mr
    /\ \/ JobGoes("label") /\ mr'[m].state # "opened" /\ UNCHANGED cleanup
       \/ CleanupFault /\ job' = Leave(m)
    /\ UNCHANGED <<done, tagged, shipped>>

LabelCleaned(m) ==
    /\ JobAt("label") /\ m \in job.cur
    /\ \/ /\ SetMR(m, [mr[m] EXCEPT !.cleaned = TRUE]) /\ UNCHANGED cleanup
          /\ job' = [job EXCEPT !.pc = "stale", !.listed = @ \ {m}, !.cur = {}]
       \/ CleanupFault /\ job' = Leave(m) /\ UNCHANGED mr
    /\ UNCHANGED <<done, tagged, shipped>>

(* fetch_merged_mrs: what cannot be read does not count. *)
ListMerged ==
    /\ JobAt("stale") /\ job.listed = {}
    /\ \E read \in SUBSET MRsIn("merged") :
          /\ Readable(MRsIn("merged"), read)
          /\ job' = [job EXCEPT !.pc = "list_closed", !.read = {}, !.closed = {}, !.cleaned = {},
                                !.skip = @ \cup UNION {Names[m] : m \in read},
                                !.unread = @ \cup (MRsIn("merged") \ read)]
    /\ UNCHANGED <<mr, done, tagged, shipped>>

ListClosed ==
    /\ JobAt("list_closed")
    /\ job' = [job EXCEPT !.pc = "read_closed", !.listed = {m \in MRsIn("closed") : ~mr[m].handled}]
    /\ JobOnly

(* fetch_jira_labels: of all issues, or of none. *)
ReadClosed ==
    /\ JobAt("read_closed")
    /\ \E read \in SUBSET job.listed :
          \/ /\ Readable(job.listed, read)
             /\ job' = [job EXCEPT !.pc = "rejected", !.read = read, !.labels = NamedIssue, !.closed = tagged \cup shipped]
          \/ /\ read = job.listed /\ CleanupFault
             /\ job' = [job EXCEPT !.pc = "rejected", !.read = read, !.labels = {}, !.closed = {}]
    /\ UNCHANGED <<mr, done, tagged, shipped>>

(* process_rejected_mr: the issues left to label. *)
ProcessRejectedMR(m) ==
    /\ JobAt("rejected") /\ m \in job.listed
    /\ job' = IF m \in job.read
              THEN [job EXCEPT !.pc = "keys", !.cur = {m}, !.listed = @ \ {m},
                               !.keys = (Names[m] \ job.skip) \cap (job.labels \ job.closed),
                               !.ok = Names[m] \ job.skip \subseteq job.labels]
              ELSE [job EXCEPT !.listed = @ \ {m}]
    /\ JobOnly

MarkJira(i) ==
    /\ JobAt("keys") /\ i \in job.keys
    /\ \/ /\ tagged' = tagged \cup {i} /\ UNCHANGED cleanup
          /\ job' = [job EXCEPT !.keys = @ \ {i}, !.skip = @ \cup {i}]
       \/ CleanupFault /\ job' = [job EXCEPT !.keys = @ \ {i}, !.ok = FALSE] /\ UNCHANGED tagged
    /\ UNCHANGED <<mr, done, shipped>>

(* Mutant: handled, even if an issue could not be labelled. *)
MarkHandledAlways(m) ==
    /\ JobAt("keys") /\ job.keys = {} /\ m \in job.cur
    /\ SetMR(m, [mr[m] EXCEPT !.handled = TRUE])
    /\ job' = [job EXCEPT !.pc = "rejected", !.cur = {}]
    /\ UNCHANGED <<done, tagged, shipped, cleanup>>

MarkHandled(m) ==
    /\ JobAt("keys") /\ job.keys = {} /\ m \in job.cur
    /\ \/ job.ok /\ SetMR(m, [mr[m] EXCEPT !.handled = TRUE]) /\ UNCHANGED cleanup
       \/ ~job.ok /\ UNCHANGED <<mr, cleanup>>
       \/ job.ok /\ CleanupFault /\ UNCHANGED mr
    /\ job' = [job EXCEPT !.pc = "rejected", !.cur = {}]
    /\ UNCHANGED <<done, tagged, shipped>>

JobEnds == JobAt("rejected") /\ job.listed = {} /\ job' = NoJob /\ JobOnly
JobDies == ~JobAt("idle") /\ CleanupFault /\ job' = NoJob /\ UNCHANGED <<mr, done, tagged, shipped>>

CleanupStep ==
    \/ ListOpen \/ ReadOpen \/ ListMerged \/ ListClosed \/ ReadClosed \/ JobEnds
    \/ \E m \in MR : \/ ProcessMR(m) \/ PostNote(m) \/ CloseMR(m) \/ LabelCleaned(m)
                     \/ ProcessRejectedMR(m) \/ MarkHandled(m)
    \/ \E i \in NamedIssue : MarkJira(i)

-----------------------------------------------------------------------------
(* Agents open merge requests, people merge, close and reopen them and close  *)
(* issues.                                                                    *)
Touch(m, from, f) ==
    /\ mr[m].state = from /\ SetMR(m, f)
    /\ cleanup' = [cleanup EXCEPT !.touched = IF JobAt("idle") THEN @ ELSE @ \cup {m},
                                  !.reopened = IF from = "closed" THEN @ + 1 ELSE @]
    /\ UNCHANGED <<done, tagged, job>>
MROpened(m)   == Touch(m, "absent", [mr[m] EXCEPT !.state = "opened"]) /\ UNCHANGED shipped
MRRejected(m) == Touch(m, "opened", [mr[m] EXCEPT !.state = "closed"]) /\ UNCHANGED shipped
MRMerged(m)   == Touch(m, "opened", [mr[m] EXCEPT !.state = "merged"]) /\ shipped' \in {shipped, shipped \cup Names[m]}
MRReopened(m) == /\ cleanup.reopened < MaxReopened
               /\ Touch(m, "closed", [mr[m] EXCEPT !.state = "opened", !.again = @ \/ mr[m].noted]) /\ UNCHANGED shipped
IssueClosed(i) == /\ i \notin done /\ done' = done \cup {i}
                  /\ UNCHANGED <<mr, tagged, shipped, job, cleanup>>

CleanupPeople == \/ \E m \in MR : MROpened(m) \/ MRRejected(m) \/ MRMerged(m) \/ MRReopened(m)
          \/ \E i \in NamedIssue : IssueClosed(i)

CleanupNext == CleanupStep \/ JobDies \/ CleanupPeople


-----------------------------------------------------------------------------
(* The job closes what nobody waits for, says why, and leaves alone what was  *)
(* reopened, as its comment promises: only a failure between closing and      *)
(* labelling lets it close one twice.                                         *)
ClosureExplained ==
    [][\A m \in MR : job' # job /\ mr'[m].state = "closed" /\ mr[m].state = "opened" =>
          /\ mr[m].noted /\ Names[m] # {} /\ Names[m] \subseteq done
          /\ mr[m].again /\ m \notin cleanup.touched => cleanup.faults > 0]_cleanupVars

(* An issue is labelled as rejected only if no merge request that names it is *)
(* open or merged, but for those that changed under the job or could not be   *)
(* read.                                                                      *)
RejectionHonest ==
    [][\A i \in tagged' \ tagged : \A m \in MR :
          i \in Names[m] /\ mr[m].state \in {"opened", "merged"} =>
              m \in cleanup.touched \cup job.unread]_cleanupVars

(* In the end every issue whose merge requests were all rejected says so,     *)
(* whatever failed.  One that people closed while the job was running, or     *)
(* whose closing was interrupted by a failure, counts as open and as handled: *)
(* nobody looks at it again.                                                  *)
RejectionsLabelled ==
    <>[](\A i \in NamedIssue :
            LET naming == {m \in MR : i \in Names[m] /\ mr[m].state # "absent"}
            IN  /\ naming # {} /\ naming \subseteq MRsIn("closed") /\ i \notin shipped
                /\ naming \cap cleanup.touched = {} /\ cleanup.reopened = 0
                /\ \A m \in naming : mr[m].noted => mr[m].cleaned
                => i \in tagged)

(* Merge requests are closed, and issues labelled, for a reason.              *)
CleanupHonest == ClosureExplained /\ RejectionHonest
=============================================================================
