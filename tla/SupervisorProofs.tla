-------------------------- MODULE SupervisorProofs --------------------------
(* Proofs about the supervisor: its types, and that a round of failed tests    *)
(* is reproduced once, and once more per failed handler.  The argument: what a *)
(* handler read of an issue (`seen`) tells which rounds Jira has recorded,     *)
(* because only the handler itself records one (Rounded); so a reproduction is *)
(* created for a round that is not recorded yet, and only an upset between the *)
(* creation and the record lets the next handler create it again (Counted).    *)

EXTENDS Supervisor, TLAPS

(* Positions of the issue handler, of the erratum handler, and those at which  *)
(* what an issue's handler read is still what Jira holds.                      *)
OnIssue   == {"label", "before", "after", "analyze", "reproduce", "record", "check"}
OnErratum == {"advance", "push", "refresh", "listings", "state"}
Reading   == {"label", "before", "after", "analyze"}

(* The latest round Jira's record names, and the one the handler holds.        *)
Recorded(i) == issue[i].baseline.round
Read == seen.baseline.round

(* The types, and what the processor has in its hands at each position.        *)
Typed ==
    /\ TypeOK
    /\ seen \in JiraIssue
    /\ pc # "idle" => item \in Item
    /\ pc \in OnIssue => item \in Issue
    /\ pc = "status" => goal \in {"Integration", "Release Pending"}
    /\ pc \in OnErratum => goal \in {"QE", "REL_PREP"}

(* Rounds: each began with an upset; a record is never of a later one; the    *)
(* handler holds what Jira records until it is about to reproduce a later one. *)
Rounded ==
    /\ round <= 1 + upsets
    /\ \A i \in Issue : Recorded(i) <= round
    /\ pc \in Reading => Read = Recorded(item)
    /\ pc \in {"reproduce", "record"} => Recorded(item) < Read /\ Read <= round

(* The inductive invariant the counting rests on.                             *)
Base == Typed /\ Rounded

(* A step that neither creates nor records a reproduction, and cuts one short *)
(* only as an upset.                                                          *)
Steady ==
    /\ UNCHANGED created
    /\ upsets <= upsets'
    /\ \A i \in Issue : Recorded(i)' = Recorded(i)
    /\ pc # "record" \/ UNCHANGED <<pc, item, seen>> \/ upsets' = upsets + 1

(* The handler has created reproductions of round r and not recorded them.    *)
Making(i, r) == pc = "record" /\ item = i /\ Read = r

(* A round is reproduced at most once per upset before it is recorded, and once *)
(* by the handler that records it or is about to.                             *)
Counted ==
    \A i \in Issue, r \in Rounds :
        created[i][r] <= IF r <= Recorded(i) \/ Making(i, r) THEN upsets + 1 ELSE upsets

(* So does one by its successor.                                              *)
LEMMA Later ==
    ASSUME NEW a \in Nat, NEW b \in Nat, NEW c \in Nat, a <= 1 + b, b <= c
    PROVE  a <= 1 + c
OBVIOUS

(* The order on the counters is reflexive.                                    *)
LEMMA Reflexive == \A a \in Nat : a <= a
OBVIOUS

(* A bound by a counter survives its growth.                                  *)
LEMMA Grows ==
    ASSUME NEW a \in Nat, NEW b \in Nat, NEW c \in Nat, b <= c
    PROVE  /\ a <= b => a <= c /\ a <= c + 1
           /\ a <= b + 1 => a <= c + 1 /\ (c = b + 1 => a <= c)
OBVIOUS

(* The round an issue's record names.                                         *)
LEMMA BaselineType ==
    ASSUME NEW b \in JiraIssue
    PROVE  b.baseline \in Baseline /\ b.baseline.round \in Nat /\ b.baseline.round \in {0} \cup Rounds
<1>1. b.baseline \in Baseline
  BY DEF JiraIssue
<1>2. b.baseline.round \in {0} \cup Rounds
  BY <1>1 DEF Baseline
<1> QED
  BY <1>1, <1>2, SupervisorAssumption DEF Rounds

(* The counters are natural numbers.                                          *)
LEMMA Numbers ==
    ASSUME Base
    PROVE  /\ upsets \in Nat /\ upsets <= MaxUpsets /\ upsets \in 0..MaxUpsets /\ MaxUpsets \in Nat
           /\ round \in Nat /\ 1 <= round /\ round <= 1 + upsets
           /\ Read \in Nat /\ \A i \in Issue : Recorded(i) \in Nat
<1>1. upsets \in 0..MaxUpsets
  BY DEF Base, Typed, TypeOK, QueueTypeOK
<1>2. MaxUpsets \in Nat
  BY SupervisorAssumption
<1>3. round \in Rounds
  BY DEF Base, Typed, TypeOK, IssueTypeOK
<1>4. round \in Nat /\ 1 <= round /\ upsets \in Nat /\ upsets <= MaxUpsets
  BY <1>1, <1>2, <1>3 DEF Rounds
<1>5. round <= 1 + upsets
  BY DEF Base, Rounded
<1>6. seen \in JiraIssue /\ issue \in [Issue -> JiraIssue]
  BY DEF Base, Typed, TypeOK, IssueTypeOK
<1>7. Read \in Nat /\ \A i \in Issue : Recorded(i) \in Nat
  BY <1>6, BaselineType DEF Read, Recorded
<1> QED
  BY <1>1, <1>2, <1>4, <1>5, <1>7

(* A new issue is one.                                                        *)
LEMMA UnreadTyped == \A f \in {"complete", "components", "missing"} : NewIssue(f) \in JiraIssue
<1>1. NoBaseline \in Baseline
  BY DEF NoBaseline, Baseline
<1> QED
  BY <1>1 DEF NewIssue, JiraIssue

(* The initial states.                                                        *)
LEMMA InitBase == Init => Base
<1> SUFFICES ASSUME Init PROVE Base
  OBVIOUS
<1>1. /\ queue = {} /\ pc = "idle" /\ item = NoItem /\ result = "none" /\ upsets = 0 /\ cpc = "idle" /\ found = {}
      /\ mr = [i \in Issue |-> "open"] /\ tests = [i \in Issue |-> "running"] /\ round = 1
      /\ created = [i \in Issue |-> [r \in Rounds |-> 0]] /\ seen = Unread
  BY DEF Init, QueueInit, IssueInit
<1>2. PICK f \in [Issue -> {"complete", "components", "missing"}] : issue = [i \in Issue |-> NewIssue(f[i])]
  BY DEF Init, IssueInit
<1>3. issue \in [Issue -> JiraIssue] /\ seen \in JiraIssue
  BY <1>1, <1>2, UnreadTyped DEF Unread
<1>4. QueueTypeOK
  BY <1>1, SupervisorAssumption DEF QueueTypeOK
<1>5. 1 \in Rounds
  BY SupervisorAssumption DEF Rounds
<1>6. IssueTypeOK
  BY <1>1, <1>3, <1>5 DEF IssueTypeOK
<1>7. ErratumTypeOK
  <2>1. erratum \in [status: {"none"}, owned: {FALSE}, team: BOOLEAN,
                     push: {"none"}, pushed: {FALSE}, cat: {"pending"}, alerts: {FALSE}]
    BY DEF Init, ErratumInit
  <2>2. erratum \in [status: {"none", "NEW_FILES", "QE", "REL_PREP"},
                     owned: BOOLEAN, team: BOOLEAN,
                     push: {"none", "running", "outdated", "complete", "failed"}, pushed: BOOLEAN,
                     cat: {"pending", "ok", "late"}, alerts: BOOLEAN]
    BY <2>1
  <2> QED
    BY <2>2 DEF Init, ErratumInit, ErratumTypeOK
<1>8. \A i \in Issue : Recorded(i) = 0
  BY <1>2 DEF Recorded, NewIssue, NoBaseline
<1>9. Rounded
  BY <1>1, <1>8 DEF Rounded, Reading
<1> QED
  BY <1>1, <1>3, <1>4, <1>6, <1>7, <1>9 DEF Base, Typed, TypeOK, OnIssue, OnErratum

(* The type of what a step writes, and that it leaves the reproductions. *)
Written(f) == f \in [Issue -> JiraIssue] /\ \A i \in Issue : f[i].baseline = issue[i].baseline

(* The writes to a single field keep the type and the reproductions.          *)
LEMMA IssueWrites ==
    ASSUME Base, NEW i \in Issue
    PROVE  /\ issue[i] \in JiraIssue
           /\ Written(issue)
           /\ \A v \in BOOLEAN : Written([issue EXCEPT ![i].merged = v])
           /\ \A v \in BOOLEAN : Written([issue EXCEPT ![i].attention = v])
           /\ \A v \in BOOLEAN : Written([issue EXCEPT ![i].reproducing = v])
           /\ \A v \in {"Integration", "Release Pending"} : Written([issue EXCEPT ![i].status = v])
<1>1. issue \in [Issue -> JiraIssue]
  BY DEF Base, Typed, TypeOK, IssueTypeOK
<1> DEFINE b == issue[i]
<1>2. b \in JiraIssue
  BY <1>1
<1> HIDE DEF b
<1>3. ASSUME NEW c \in JiraIssue, c.baseline = b.baseline PROVE Written([issue EXCEPT ![i] = c])
  BY <1>1, <1>3 DEF Written, b
<1>4. /\ \A v \in BOOLEAN : [b EXCEPT !.merged = v] \in JiraIssue /\ [b EXCEPT !.merged = v].baseline = b.baseline
      /\ \A v \in BOOLEAN : [b EXCEPT !.attention = v] \in JiraIssue /\ [b EXCEPT !.attention = v].baseline = b.baseline
      /\ \A v \in BOOLEAN : [b EXCEPT !.reproducing = v] \in JiraIssue /\ [b EXCEPT !.reproducing = v].baseline = b.baseline
      /\ \A v \in {"Integration", "Release Pending"} :
             [b EXCEPT !.status = v] \in JiraIssue /\ [b EXCEPT !.status = v].baseline = b.baseline
  BY <1>2 DEF JiraIssue
<1>5. Written(issue)
  BY <1>1 DEF Written
<1>6. /\ \A v \in BOOLEAN : Written([issue EXCEPT ![i] = [b EXCEPT !.merged = v]])
      /\ \A v \in BOOLEAN : Written([issue EXCEPT ![i] = [b EXCEPT !.attention = v]])
      /\ \A v \in BOOLEAN : Written([issue EXCEPT ![i] = [b EXCEPT !.reproducing = v]])
      /\ \A v \in {"Integration", "Release Pending"} : Written([issue EXCEPT ![i] = [b EXCEPT !.status = v]])
  BY <1>3, <1>4
<1>7. \A v \in BOOLEAN : Written([issue EXCEPT ![i].merged = v])
  <2>1. \A v : [issue EXCEPT ![i].merged = v] = [issue EXCEPT ![i] = [b EXCEPT !.merged = v]]
    BY DEF b
  <2> QED
    BY ONLY <1>6, <2>1
<1>8. \A v \in BOOLEAN : Written([issue EXCEPT ![i].attention = v])
  <2>1. \A v : [issue EXCEPT ![i].attention = v] = [issue EXCEPT ![i] = [b EXCEPT !.attention = v]]
    BY DEF b
  <2> QED
    BY ONLY <1>6, <2>1
<1>9. \A v \in BOOLEAN : Written([issue EXCEPT ![i].reproducing = v])
  <2>1. \A v : [issue EXCEPT ![i].reproducing = v] = [issue EXCEPT ![i] = [b EXCEPT !.reproducing = v]]
    BY DEF b
  <2> QED
    BY ONLY <1>6, <2>1
<1>10. \A v \in {"Integration", "Release Pending"} : Written([issue EXCEPT ![i].status = v])
  <2>1. \A v : [issue EXCEPT ![i].status = v] = [issue EXCEPT ![i] = [b EXCEPT !.status = v]]
    BY DEF b
  <2> QED
    BY ONLY <1>6, <2>1
<1>11. issue[i] \in JiraIssue
  BY <1>2 DEF b
<1> QED
  BY ONLY <1>5, <1>7, <1>8, <1>9, <1>10, <1>11

(* What a step leaves alone keeps its type. *)
LEMMA OnlyListings ==
    ASSUME Base, UNCHANGED <<erratum, listing, tracker, warned>>,
           checked' \subseteq Package, mismatch' \subseteq Package
    PROVE  ErratumTypeOK'
<1>1. ErratumTypeOK
  BY DEF Base, Typed, TypeOK
<1>2. erratum' = erratum /\ listing' = listing /\ tracker' = tracker /\ warned' = warned
  OBVIOUS
<1>3. checked' \subseteq Package /\ mismatch' \subseteq Package
  OBVIOUS
<1> QED
  BY ONLY <1>1, <1>2, <1>3 DEF ErratumTypeOK

LEMMA ErratumStays ==
    ASSUME Base, UNCHANGED erratumVars PROVE ErratumTypeOK'
<1>1. checked \subseteq Package /\ mismatch \subseteq Package
  <2>1. ErratumTypeOK
    BY DEF Base, Typed, TypeOK
  <2> QED
    BY ONLY <2>1 DEF ErratumTypeOK
<1> QED
  BY <1>1, OnlyListings DEF erratumVars

LEMMA IssuesStay ==
    ASSUME Base, UNCHANGED issueVars PROVE IssueTypeOK'
<1>1. IssueTypeOK
  BY DEF Base, Typed, TypeOK
<1>2. issue' = issue /\ mr' = mr /\ tests' = tests /\ round' = round /\ created' = created
  BY DEF issueVars
<1> QED
  BY ONLY <1>1, <1>2 DEF IssueTypeOK

(* A step of the issue handler. *)
LEMMA HandlerStep ==
    ASSUME Base, UNCHANGED <<erratumVars, collectorVars, queue, item, upsets, mr, tests, round>>,
           result' \in {result, "now", "later", "remove"},
           issue' \in [Issue -> JiraIssue], seen' \in JiraIssue,
           created' \in [Issue -> [Rounds -> Nat]],
           pc # "idle", pc' \in OnIssue => item \in Issue,
           pc' = "status" => goal' \in {"Integration", "Release Pending"},
           pc' \notin OnErratum
    PROVE  Typed'
<1>1. QueueTypeOK'
  BY DEF Base, Typed, TypeOK, QueueTypeOK
<1>2. IssueTypeOK'
  BY DEF Base, Typed, TypeOK, IssueTypeOK
<1>3. ErratumTypeOK'
  BY ErratumStays
<1>4. cpc' \in {"idle", "errata", "queue", "schedule"} /\ found' \subseteq Item
  BY DEF Base, Typed, TypeOK, collectorVars
<1> QED
  BY <1>1, <1>2, <1>3, <1>4 DEF Base, Typed, TypeOK

(* One that leaves Jira as it is. *)
LEMMA QuietStep ==
    ASSUME Base, UNCHANGED <<erratumVars, collectorVars, queue, item, upsets, issueVars>>,
           result' \in {result, "now", "later", "remove"}, seen' \in JiraIssue, item \in Issue,
           pc \notin {"idle", "record"},
           pc' = "status" => goal' \in {"Integration", "Release Pending"},
           pc' \notin OnErratum,
           pc' \in Reading => Read' = Recorded(item),
           pc' \in {"reproduce", "record"} => Recorded(item) < Read' /\ Read' <= round
    PROVE  Base' /\ Steady
<1>1. UNCHANGED <<mr, tests, round, issue, created>>
  BY DEF issueVars
<1>2. issue' \in [Issue -> JiraIssue] /\ created' \in [Issue -> [Rounds -> Nat]]
  BY <1>1 DEF Base, Typed, TypeOK, IssueTypeOK
<1>3. Typed'
  BY <1>1, <1>2, HandlerStep
<1>4. Rounded'
  BY <1>1 DEF Base, Rounded, Recorded
<1>5. upsets' = upsets /\ upsets \in Nat /\ created' = created /\ issue' = issue
  BY <1>1, Numbers
<1>6. upsets <= upsets'
  <2>1. upsets <= upsets
    BY <1>5, Reflexive, Zenon
  <2> QED
    BY <1>5, <2>1, Zenon
<1>7. Steady
  BY <1>5, <1>6 DEF Steady, Recorded
<1> QED
  BY <1>3, <1>4, <1>7 DEF Base

(* IssueHandler.run reads the issue.                                          *)
LEMMA IssueRunKeeps ==
    ASSUME Base, IssueRun, UNCHANGED <<erratumVars, collectorVars>> PROVE Base' /\ Steady
<1>1. item \in Issue /\ pc = "run" /\ issue[item] \in JiraIssue
  BY IssueWrites DEF IssueRun, IsIssue
<1>2. /\ pc' \in {"finish", "flag", "label"} /\ seen' = issue[item] /\ UNCHANGED <<queue, item, upsets, issueVars, goal>>
      /\ result' \in {result, "remove"}
  BY DEF IssueRun, Return, Goto
<1>3. Read' = Recorded(item)
  BY <1>2 DEF Read, Recorded
<1>4. pc' # "status" /\ pc' \notin OnErratum /\ pc' \notin {"reproduce", "record"}
  BY <1>2 DEF OnErratum
<1> QED
  BY <1>1, <1>2, <1>3, <1>4, QuietStep

(* Its branches decide and write nothing.                                     *)
LEMMA BranchesKeep ==
    ASSUME Base, UNCHANGED <<erratumVars, collectorVars>>,
           run_before_errata_created \/ run_after_errata_created(erratum.status)
    PROVE  Base' /\ Steady
<1>1. pc \in {"before", "after"} /\ item \in Issue /\ Read = Recorded(item) /\ seen \in JiraIssue
  BY DEF run_before_errata_created, run_after_errata_created, Base, Typed, Rounded, OnIssue, Reading
<1>2. UNCHANGED <<issueVars, seen>>
  BY DEF run_before_errata_created, run_after_errata_created, handlerVars
<1>3. /\ pc' \in {"flag", "finish", "status", "check", "analyze"} /\ result' \in {result, "later", "remove"}
      /\ pc' = "status" => goal' = "Integration"
      /\ UNCHANGED <<queue, item, upsets>>
  <2>1. CASE run_before_errata_created
    BY <2>1 DEF run_before_errata_created, Goto, Return
  <2>2. CASE run_after_errata_created(erratum.status) /\ seen.status = "In Progress"
    BY <2>2 DEF run_after_errata_created, MoveToIntegration, Goto
  <2>3. CASE run_after_errata_created(erratum.status) /\ seen.status = "Release Pending"
    BY <2>3 DEF run_after_errata_created, Return
  <2>4. CASE run_after_errata_created(erratum.status) /\ seen.status = "Integration"
    BY <2>4 DEF run_after_errata_created, Return, Goto
  <2>5. seen.status \in {"In Progress", "Integration", "Release Pending"}
    BY <1>1 DEF JiraIssue
  <2> QED
    BY <2>1, <2>2, <2>3, <2>4, <2>5
<1>4. Read' = Recorded(item)
  BY <1>1, <1>2 DEF Read
<1>5. pc' \notin OnErratum /\ pc' \notin {"reproduce", "record"}
  BY <1>3 DEF OnErratum
<1> QED
  BY <1>1, <1>2, <1>3, <1>4, <1>5, QuietStep

(* The analysis goes on to reproduce only a round that is not recorded.       *)
LEMMA AnalyzeKeeps ==
    ASSUME Base, UNCHANGED <<erratumVars, collectorVars>>, analyze_issue PROVE Base' /\ Steady
<1>1. /\ pc = "analyze" /\ item \in Issue /\ Read = Recorded(item) /\ seen \in JiraIssue
      /\ Recorded(item) <= round /\ round \in Rounds /\ issue[item] \in JiraIssue
  BY DEF analyze_issue, Base, Typed, TypeOK, IssueTypeOK, Rounded, OnIssue, Reading
<1>2. Recorded(item) \in Nat /\ round \in Nat
  BY <1>1, BaselineType, SupervisorAssumption DEF Recorded, Rounds
<1>3. UNCHANGED <<queue, item, upsets, issueVars>>
  BY DEF analyze_issue, Goto, Return
<1>4. CASE UNCHANGED seen /\ pc' \in {"finish", "flag", "status"} /\ result' \in {result, "later"}
           /\ (pc' = "status" => goal' = "Release Pending")
  <2>1. pc' \notin OnErratum /\ pc' \notin {"reproduce", "record"} /\ pc' \notin Reading
    BY <1>4 DEF OnErratum, Reading
  <2> QED
    BY <1>1, <1>3, <1>4, <2>1, QuietStep
<1>5. CASE /\ ~AlreadyReproduced /\ pc' = "reproduce" /\ UNCHANGED result
           /\ seen' = [seen EXCEPT !.baseline = [round |-> round, settled |-> FALSE]]
  <2>1. seen' \in JiraIssue /\ Read' = round
    BY <1>1, <1>5 DEF JiraIssue, Baseline, Read
  <2>2. Recorded(item) < Read'
    BY <1>1, <1>2, <1>5, <2>1 DEF AlreadyReproduced, Read
  <2>3. pc' \notin OnErratum /\ pc' \notin Reading
    BY <1>5 DEF OnErratum, Reading
  <2> QED
    BY <1>1, <1>2, <1>3, <1>5, <2>1, <2>2, <2>3, QuietStep
<1>6. \/ UNCHANGED seen /\ pc' \in {"finish", "flag", "status"} /\ result' \in {result, "later"}
           /\ (pc' = "status" => goal' = "Release Pending")
      \/ /\ ~AlreadyReproduced /\ pc' = "reproduce" /\ UNCHANGED result
         /\ seen' = [seen EXCEPT !.baseline = [round |-> round, settled |-> FALSE]]
  <2>1. CASE tests[item] = "running" /\ Return("later") /\ UNCHANGED handlerVars
    BY <2>1 DEF Return, handlerVars
  <2>2. CASE Goto("flag") /\ UNCHANGED seen
    BY <2>2 DEF Goto
  <2>3. CASE Goto("reproduce") /\ ~AlreadyReproduced /\ seen' = [seen EXCEPT !.baseline = [round |-> round, settled |-> FALSE]]
    BY <2>3 DEF Goto
  <2>4. CASE Goto("status") /\ goal' = "Release Pending" /\ UNCHANGED seen
    BY <2>4 DEF Goto
  <2> QED
    BY <2>1, <2>2, <2>3, <2>4 DEF analyze_issue, handlerVars
<1> QED
  BY <1>4, <1>5, <1>6

(* The merged label goes to Jira and into what the handler holds.             *)
LEMMA LabelKeeps ==
    ASSUME Base, UNCHANGED <<erratumVars, collectorVars>>, label_merge_if_needed PROVE Base' /\ Steady
<1>1. /\ pc = "label" /\ item \in Issue /\ Read = Recorded(item) /\ seen \in JiraIssue
  BY DEF label_merge_if_needed, Base, Typed, Rounded, OnIssue, Reading
<1>2. pc' \in {"after", "before"} /\ UNCHANGED <<queue, item, upsets, result, goal>>
  BY DEF label_merge_if_needed, Goto
<1>3. pc' \in OnIssue /\ pc' # "status" /\ pc' \notin OnErratum /\ pc' \notin {"reproduce", "record"}
  BY <1>2 DEF OnIssue, OnErratum
<1>4. CASE UNCHANGED <<issueVars, seen>>
  BY <1>1, <1>2, <1>3, <1>4, QuietStep DEF Read
<1>5. CASE Write("merged", TRUE) /\ seen' = [seen EXCEPT !.merged = TRUE]
  <2>1. issue' = [issue EXCEPT ![item].merged = TRUE] /\ UNCHANGED <<mr, tests, round, created>>
    BY <1>5 DEF Write
  <2>2. Written(issue') /\ created' \in [Issue -> [Rounds -> Nat]]
    BY <1>1, <2>1, IssueWrites DEF Base, Typed, TypeOK, IssueTypeOK
  <2>3. seen' \in JiraIssue /\ Read' = Read
    BY <1>1, <1>5 DEF JiraIssue, Read
  <2>4. Typed'
    BY <1>1, <1>2, <1>3, <2>1, <2>2, <2>3, HandlerStep DEF Written
  <2>5. \A i \in Issue : Recorded(i)' = Recorded(i)
    BY <2>2 DEF Recorded, Written
  <2>6. Rounded'
    BY <1>1, <1>2, <1>3, <2>1, <2>3, <2>5 DEF Base, Rounded
  <2>7. Steady
    BY <1>1, <1>2, <2>1, <2>5, Numbers DEF Steady
  <2> QED
    BY <2>4, <2>6, <2>7 DEF Base
<1> QED
  BY <1>4, <1>5 DEF label_merge_if_needed

(* A write to the issue that leaves its reproductions, and the end of the call. *)
LEMMA WriteStep ==
    ASSUME Base, UNCHANGED <<erratumVars, collectorVars, queue, item, upsets, mr, tests, round, seen, created>>,
           result' \in {"now", "later", "remove"}, pc \notin {"idle", "record"}, pc' = "finish",
           issue' \in [Issue -> JiraIssue], \A i \in Issue : Recorded(i)' = Recorded(i)
    PROVE  Base' /\ Steady
<1>1. pc' \notin OnErratum /\ pc' \notin OnIssue /\ pc' \notin Reading
  BY DEF OnErratum, OnIssue, Reading
<1>2. seen' \in JiraIssue /\ created' \in [Issue -> [Rounds -> Nat]]
  BY DEF Base, Typed, TypeOK, IssueTypeOK
<1>3. Typed'
  BY <1>1, <1>2, HandlerStep
<1>4. Rounded'
  BY <1>1 DEF Base, Rounded
<1>5. Steady
  BY Numbers DEF Steady
<1> QED
  BY <1>3, <1>4, <1>5 DEF Base

(* The calls that set a status, flag the issue or take a label off.           *)
LEMMA ResolveKeeps ==
    ASSUME Base, UNCHANGED <<erratumVars, collectorVars>>,
           resolve_set_status \/ resolve_flag_attention \/ resolve_check_reproduction
    PROVE  Base' /\ Steady
<1>1. item \in Issue /\ pc \notin {"idle", "record"} /\ pc' = "finish" /\ UNCHANGED <<queue, item, upsets, mr, tests, round, seen, created>>
      /\ result' \in {"now", "later", "remove"}
  BY DEF resolve_set_status, resolve_flag_attention, resolve_check_reproduction, Return, Write, handlerVars,
         IsIssue, Base, Typed, OnIssue, issueVars
<1>2. \/ issue' = issue
      \/ issue' = [issue EXCEPT ![item].status = goal] /\ goal \in {"Integration", "Release Pending"}
      \/ issue' = [issue EXCEPT ![item].attention = TRUE]
      \/ issue' = [issue EXCEPT ![item].reproducing = FALSE]
  BY DEF resolve_set_status, resolve_flag_attention, resolve_check_reproduction, Write, issueVars, Base, Typed
<1>3. Written(issue')
  BY <1>1, <1>2, IssueWrites
<1> QED
  BY <1>1, <1>3, WriteStep DEF Written, Recorded

(* Creating the requests.                                                     *)
LEMMA StartKeeps ==
    ASSUME Base, UNCHANGED <<erratumVars, collectorVars>>, resolve_start_reproduction PROVE Base'
<1>1. /\ pc = "reproduce" /\ item \in Issue /\ seen \in JiraIssue /\ Recorded(item) < Read /\ Read <= round
  BY DEF resolve_start_reproduction, Base, Typed, Rounded, OnIssue
<1>2. /\ pc' \in {"flag", "record"} /\ UNCHANGED <<queue, item, upsets, result, goal, seen, issue, mr, tests, round>>
  BY DEF resolve_start_reproduction, Goto, handlerVars, issueVars
<1>3. Read \in Nat /\ Recorded(item) \in Nat
  <2>1. issue[item] \in JiraIssue
    BY <1>1, IssueWrites
  <2> QED
    BY <1>1, <2>1, BaselineType DEF Read, Recorded
<1>4. Read \in Rounds
  <2>1. Read \in {0} \cup Rounds /\ Read # 0
    BY <1>1, <1>3, BaselineType DEF Read
  <2> QED
    BY <2>1
<1>5. created' \in [Issue -> [Rounds -> Nat]]
  <2>1. created' = created \/ created' = [created EXCEPT ![item][Read] = @ + 1]
    BY DEF resolve_start_reproduction, issueVars, Read
  <2>2. created \in [Issue -> [Rounds -> Nat]]
    BY DEF Base, Typed, TypeOK, IssueTypeOK
  <2> HIDE DEF Read
  <2> QED
    BY <1>1, <1>4, <2>1, <2>2
<1>6. pc' \in OnIssue \cup {"flag"} /\ pc' # "status" /\ pc' \notin OnErratum /\ pc' \notin Reading
  BY <1>2 DEF OnIssue, OnErratum, Reading
<1>7. issue' \in [Issue -> JiraIssue] /\ seen' \in JiraIssue
  BY <1>1, <1>2 DEF Base, Typed, TypeOK, IssueTypeOK
<1>8. Typed'
  BY <1>1, <1>2, <1>5, <1>6, <1>7, HandlerStep
<1>9. Rounded'
  BY <1>1, <1>2, <1>6 DEF Base, Rounded, Recorded, Read
<1> QED
  BY <1>8, <1>9 DEF Base

(* Recording them.                                                            *)
LEMMA RecordKeeps ==
    ASSUME Base, UNCHANGED <<erratumVars, collectorVars>>, RecordReproduction PROVE Base'
<1>1. /\ pc = "record" /\ item \in Issue /\ seen \in JiraIssue /\ Recorded(item) < Read /\ Read <= round
      /\ issue \in [Issue -> JiraIssue]
  BY DEF RecordReproduction, Base, Typed, TypeOK, IssueTypeOK, Rounded, OnIssue
<1>2. /\ pc' = "finish" /\ result' = "later"
      /\ UNCHANGED <<queue, item, upsets, goal, seen, created, mr, tests, round>>
      /\ issue' = [issue EXCEPT ![item] = [issue[item] EXCEPT !.reproducing = TRUE, !.baseline = seen.baseline]]
  BY DEF RecordReproduction, Return, handlerVars
<1> DEFINE new == [[issue[item] EXCEPT !.reproducing = TRUE] EXCEPT !.baseline = seen.baseline]
<1>3. new \in JiraIssue /\ new.baseline.round = Read
  <2>1. issue[item] \in JiraIssue /\ seen.baseline \in Baseline
    BY <1>1, BaselineType
  <2> QED
    BY <2>1 DEF JiraIssue, Read
<1>4. issue' = [issue EXCEPT ![item] = new]
  BY <1>1, <1>2
<1> HIDE DEF new
<1>5. issue' \in [Issue -> JiraIssue] /\ issue'[item] = new /\ \A i \in Issue \ {item} : issue'[i] = issue[i]
  BY <1>1, <1>3, <1>4
<1>6. \A i \in Issue : Recorded(i)' <= round
  BY <1>1, <1>3, <1>5 DEF Recorded, Base, Rounded
<1>7. pc' \notin OnIssue /\ pc' \notin OnErratum /\ pc' \notin Reading
  BY <1>2 DEF OnIssue, OnErratum, Reading
<1>8. seen' \in JiraIssue /\ created' \in [Issue -> [Rounds -> Nat]]
  BY <1>1, <1>2 DEF Base, Typed, TypeOK, IssueTypeOK
<1>9. Typed'
  BY <1>1, <1>2, <1>5, <1>7, <1>8, HandlerStep
<1>10. Rounded'
  BY <1>2, <1>6, <1>7 DEF Base, Rounded
<1> QED
  BY <1>9, <1>10 DEF Base


(* The issue handler. *)
LEMMA HandleIssueKeeps == Base /\ HandleIssue => Base' /\ (Steady \/ resolve_start_reproduction \/ RecordReproduction)
BY IssueRunKeeps, LabelKeeps, BranchesKeep, AnalyzeKeeps, ResolveKeeps, StartKeeps, RecordKeeps DEF HandleIssue

(* A step of the erratum handler. *)
LEMMA ErratumStep ==
    ASSUME Base, UNCHANGED <<collectorVars, issueVars, seen, queue, item, upsets>>,
           result' \in {result, "now", "later", "remove"}, ErratumTypeOK', pc \notin {"idle", "record"},
           pc' \in {"finish", "flag", "own"} \cup OnErratum,
           pc' \in OnErratum => goal' \in {"QE", "REL_PREP"}
    PROVE  Base' /\ Steady
<1>1. QueueTypeOK'
  BY DEF Base, Typed, TypeOK, QueueTypeOK
<1>2. IssueTypeOK'
  BY DEF Base, Typed, TypeOK, IssueTypeOK, issueVars
<1>3. cpc' \in {"idle", "errata", "queue", "schedule"} /\ found' \subseteq Item
  BY DEF Base, Typed, TypeOK, collectorVars
<1>4. pc' \notin OnIssue \cup {"status"}
  BY DEF OnIssue, OnErratum
<1>5. Typed'
  BY <1>1, <1>2, <1>3, <1>4 DEF Base, Typed, TypeOK
<1>6. pc' \notin Reading /\ pc' \notin {"reproduce", "record"}
  BY <1>4 DEF OnIssue, Reading
<1>7. Rounded'
  BY <1>6 DEF Base, Rounded, issueVars, Recorded
<1>8. Steady
  BY Numbers DEF Steady, issueVars, Recorded
<1> QED
  BY <1>5, <1>7, <1>8 DEF Base

(* ErratumHandler.run.                                                        *)
LEMMA ErratumRunKeeps ==
    ASSUME Base, ErratumRun, UNCHANGED collectorVars PROVE Base' /\ Steady
<1>1. pc = "run" /\ UNCHANGED <<collectorVars, issueVars, seen, erratum, listing, checked, tracker, warned>> /\ mismatch' = {}
  BY DEF ErratumRun
<1>2. ErratumTypeOK'
  BY <1>1 DEF Base, Typed, TypeOK, ErratumTypeOK
<1>3. /\ UNCHANGED <<queue, item, upsets>>
      /\ \/ pc' = "finish" /\ result' = "remove"
         \/ pc' \in {"own", "flag"} /\ result' = result
         \/ pc' = "advance" /\ result' = result /\ goal' \in {"QE", "REL_PREP"}
  <2>1. CASE tracker = "labelled" \/ ~erratum.owned
    BY <2>1 DEF ErratumRun, Return, Goto
  <2>2. CASE tracker # "labelled" /\ erratum.owned /\ erratum.status = "NEW_FILES"
    BY <2>2 DEF ErratumRun, Return, Goto
  <2>3. CASE tracker # "labelled" /\ erratum.owned /\ erratum.status = "QE" /\ all_issues_are_release_pending
    BY <2>3 DEF ErratumRun, Return, Goto
  <2>4. CASE tracker # "labelled" /\ erratum.owned /\ erratum.status # "NEW_FILES"
                /\ ~(erratum.status = "QE" /\ all_issues_are_release_pending)
    BY <2>4 DEF ErratumRun, Return, Goto
  <2> QED
    BY <2>1, <2>2, <2>3, <2>4
<1>4. pc' \in {"finish", "flag", "own"} \cup OnErratum /\ (pc' \in OnErratum => goal' \in {"QE", "REL_PREP"})
  BY <1>3 DEF OnErratum
<1> QED
  BY <1>1, <1>2, <1>3, <1>4, ErratumStep

(* The steps that leave the erratum as it is. *)
LEMMA AdvanceKeeps ==
    ASSUME Base, UNCHANGED collectorVars, try_to_advance_erratum \/ ListingsDone PROVE Base' /\ Steady
<1>1. pc \in {"advance", "listings"} /\ UNCHANGED <<issueVars, seen, goal, erratumVars>> /\ goal \in {"QE", "REL_PREP"}
  BY DEF try_to_advance_erratum, ListingsDone, handlerVars, Base, Typed, OnErratum
<1>2. ErratumTypeOK'
  BY <1>1, ErratumStays
<1>3. /\ UNCHANGED <<queue, item, upsets>>
      /\ result' \in {result, "later"}
      /\ pc' \in {"finish", "flag", "push", "refresh", "listings", "state"}
  <2>1. CASE ListingsDone
    BY <2>1 DEF ListingsDone, Goto
  <2>2. CASE Goto("flag")
    BY <2>2 DEF Goto
  <2>3. CASE IF Blocked("Stagepush")
             THEN IF MayPush THEN Goto("push")
                  ELSE IF erratum.push = "failed" THEN Goto("flag") ELSE Return("later")
             ELSE IF Blocked("Cat")
             THEN IF erratum.push = "complete" /\ erratum.cat = "late"
                  THEN Goto("flag") ELSE Return("later")
             ELSE IF Blocked("Securityalert") THEN Goto("refresh")
             ELSE Goto(IF goal = "REL_PREP" THEN "listings" ELSE "state")
    BY <2>3 DEF Goto, Return
  <2> QED
    BY <2>1, <2>2, <2>3 DEF try_to_advance_erratum
<1>4. pc' \in {"finish", "flag", "own"} \cup OnErratum
  BY <1>3 DEF OnErratum
<1> QED
  BY <1>1, <1>2, <1>3, <1>4, ErratumStep

(* The steps that write to it. *)
LEMMA ErratumWrites ==
    ASSUME Base, UNCHANGED collectorVars,
           erratum_change_ownership \/ erratum_push_to_stage \/ erratum_refresh_security_alerts
           \/ erratum_change_state \/ FlagErratum
    PROVE  Base' /\ Steady
<1>1. /\ pc \notin {"idle", "record"} /\ pc' = "finish" /\ result' \in {"now", "later", "remove"}
      /\ UNCHANGED <<issueVars, seen, goal, queue, item, upsets, listing, checked, mismatch>>
  BY DEF erratum_change_ownership, erratum_push_to_stage, erratum_refresh_security_alerts,
         erratum_change_state, FlagErratum, handlerVars, Return
<1>2. pc = "state" => goal \in {"QE", "REL_PREP"}
  BY DEF Base, Typed, OnErratum
<1>3. ErratumTypeOK
  BY DEF Base, Typed, TypeOK
<1>4. ErratumTypeOK'
  <2>1. CASE FlagErratum
    <3>1. UNCHANGED erratum /\ tracker' = "labelled" /\ warned' \in BOOLEAN
      BY <2>1, <1>3 DEF FlagErratum, ErratumTypeOK
    <3> QED
      BY <1>1, <1>3, <3>1 DEF ErratumTypeOK
  <2>2. CASE /\ UNCHANGED <<tracker, warned>>
             /\ \/ erratum' = [erratum EXCEPT !.owned = TRUE]
                \/ erratum' = [erratum EXCEPT !.push = "running", !.cat = "pending"]
                \/ erratum' = [erratum EXCEPT !.alerts = TRUE]
                \/ erratum' = [erratum EXCEPT !.status = goal] /\ goal \in {"QE", "REL_PREP"}
    <3>1. erratum' \in [status: {"none", "NEW_FILES", "QE", "REL_PREP"},
                    owned: BOOLEAN, team: BOOLEAN,
                    push: {"none", "running", "outdated", "complete", "failed"}, pushed: BOOLEAN,
                    cat: {"pending", "ok", "late"}, alerts: BOOLEAN]
      BY <2>2, <1>3 DEF ErratumTypeOK
    <3> QED
      BY <1>1, <1>3, <2>2, <3>1 DEF ErratumTypeOK
  <2> QED
    BY <1>2, <2>1, <2>2 DEF erratum_change_ownership, erratum_push_to_stage, erratum_refresh_security_alerts,
         erratum_change_state
<1>5. pc' \notin OnErratum
  BY <1>1 DEF OnErratum
<1> QED
  BY <1>1, <1>4, <1>5, ErratumStep

(* The comparison of a package's file lists.                                  *)
LEMMA CompareKeeps ==
    ASSUME Base, UNCHANGED collectorVars, NEW p \in Package, compare_file_lists(p) PROVE Base' /\ Steady
<1>1. /\ pc = "listings" /\ UNCHANGED <<queue, pc, item, result, upsets, issueVars, seen, goal, erratum, listing, tracker, warned>>
      /\ checked' = checked \cup {p} /\ (mismatch' = mismatch \/ mismatch' = mismatch \cup {p})
  BY DEF compare_file_lists, queueVars, handlerVars
<1>2. ErratumTypeOK'
  BY <1>1 DEF Base, Typed, TypeOK, ErratumTypeOK
<1>3. pc \in OnErratum /\ goal \in {"QE", "REL_PREP"}
  BY <1>1 DEF Base, Typed, OnErratum
<1> QED
  BY <1>1, <1>2, <1>3, ErratumStep

(* The erratum handler. *)
LEMMA HandleErratumKeeps == Base /\ HandleErratum => Base' /\ Steady
BY ErratumRunKeeps, AdvanceKeeps, ErratumWrites, CompareKeeps DEF HandleErratum

(* The queue. *)
LEMMA QueueKeeps ==
    ASSUME Base, Queue PROVE Base' /\ Steady
<1>1. UNCHANGED <<issueVars, erratum, listing, checked, tracker, warned, collectorVars>>
  BY DEF Queue
<1>2. IssueTypeOK'
  BY <1>1 DEF Base, Typed, TypeOK, IssueTypeOK, issueVars
<1>3. cpc' \in {"idle", "errata", "queue", "schedule"} /\ found' \subseteq Item
  BY <1>1 DEF Base, Typed, TypeOK, collectorVars
<1>4. seen' \in JiraIssue /\ mismatch' \subseteq Package
  BY UnreadTyped DEF Queue, handlerVars, Unread, Base, Typed, TypeOK, ErratumTypeOK
<1>5. ErratumTypeOK'
  <2>1. checked' \subseteq Package
    <3>1. ErratumTypeOK /\ checked' = checked
      BY <1>1 DEF Base, Typed, TypeOK
    <3> QED
      BY ONLY <3>1 DEF ErratumTypeOK
  <2> QED
    BY <1>1, <1>4, <2>1, OnlyListings
<1>6. UNCHANGED <<round, issue>>
  BY <1>1 DEF issueVars
<1>7. CASE \E w \in Item : pop_first_ready_work_item(w)
  <2>1. PICK w \in Item : pop_first_ready_work_item(w)
    BY <1>7
  <2>2. QueueTypeOK'
    BY <2>1 DEF pop_first_ready_work_item, Base, Typed, TypeOK, QueueTypeOK
  <2>3. pc' = "run" /\ item' \in Item /\ upsets' = upsets
    BY <2>1 DEF pop_first_ready_work_item
  <2>4. Typed'
    BY <1>2, <1>3, <1>4, <1>5, <2>2, <2>3 DEF Typed, TypeOK, OnIssue, OnErratum
  <2>5. Rounded'
    BY <1>6, <2>3 DEF Base, Rounded, Reading, Recorded
  <2>6. Steady
    BY <1>1, <2>1, <2>3, Numbers DEF Steady, issueVars, Recorded, pop_first_ready_work_item
  <2> QED
    BY <2>4, <2>5, <2>6 DEF Base
<1>8. CASE process_once \/ HandlerFails
  <2>1. pc' = "idle" /\ item' = NoItem /\ result' = "none" /\ pc # "idle"
    BY <1>8 DEF process_once, HandlerFails, Idle
  <2>2. item \in Item
    BY <2>1 DEF Base, Typed
  <2>3. queue' \subseteq Item /\ upsets' \in 0..MaxUpsets /\ upsets <= upsets'
    <3>1. CASE process_once
      BY <3>1, <2>2, Numbers DEF process_once, Base, Typed, TypeOK, QueueTypeOK
    <3>2. CASE HandlerFails
      <4>1. upsets' = upsets + 1 /\ upsets < MaxUpsets /\ queue' = queue
        BY <3>2 DEF HandlerFails
      <4>2. queue \subseteq Item
        BY DEF Base, Typed, TypeOK, QueueTypeOK
      <4> QED
        BY <4>1, <4>2, Numbers
    <3> QED
      BY <1>8, <3>1, <3>2
  <2>4. QueueTypeOK'
    BY <2>1, <2>3 DEF QueueTypeOK
  <2>5. Typed'
    BY <1>2, <1>3, <1>4, <1>5, <2>1, <2>4 DEF Typed, TypeOK, OnIssue, OnErratum
  <2>6. /\ upsets' \in Nat /\ round \in Nat /\ upsets \in Nat /\ round <= 1 + upsets
        /\ \A i \in Issue : Recorded(i)' <= round
    BY <1>6, <2>3, Numbers DEF Base, Rounded, Recorded
  <2>7. (round <= 1 + upsets)'
    <3>1. round \in Nat /\ upsets \in Nat /\ upsets' \in Nat /\ round <= 1 + upsets
      BY <2>6
    <3>2. round' = round /\ upsets <= upsets'
      BY <1>6, <2>3
    <3>3. round <= 1 + upsets'
      BY <3>1, <3>2, Later
    <3> QED
      BY <3>2, <3>3
  <2>8. (\A i \in Issue : Recorded(i) <= round)'
    BY <1>6, <2>6
  <2>9. pc' \notin Reading /\ pc' \notin {"reproduce", "record"}
    BY <2>1 DEF Reading
  <2>10. Rounded'
    BY <2>7, <2>8, <2>9 DEF Rounded
  <2>11. pc # "record" \/ upsets' = upsets + 1
    BY <1>8 DEF process_once, HandlerFails
  <2>12. Steady
    BY <1>1, <2>3, <2>11 DEF Steady, issueVars, Recorded
  <2> QED
    BY <2>5, <2>10, <2>12 DEF Base
<1> QED
  BY <1>7, <1>8 DEF Queue

(* A step outside the handlers: it may begin a round, with an upset. *)
LEMMA OutsideStep ==
    ASSUME Base, TypeOK', UNCHANGED <<pc, item, seen, goal, created>>,
           \/ round' = round /\ upsets <= upsets'
           \/ round' = round + 1 /\ upsets' = upsets + 1,
           \A i \in Issue : Recorded(i)' = Recorded(i)
    PROVE  Base' /\ Steady
<1>1. Typed'
  BY DEF Base, Typed
<1>2. /\ round \in Nat /\ upsets \in Nat
      /\ \A i \in Issue : Recorded(i) \in Nat
      /\ Read \in Nat
  BY Numbers
<1>3. pc \in OnIssue => item \in Issue
  BY DEF Base, Typed
<1>4. Reading \cup {"reproduce", "record"} \subseteq OnIssue
  BY DEF Reading, OnIssue
<1>5. Read' = Read
  BY DEF Read
<1>6. upsets' \in Nat
  <2>1. upsets' \in 0..MaxUpsets
    BY DEF TypeOK, QueueTypeOK
  <2> QED
    BY <2>1
<1>7. Rounded'
  BY <1>2, <1>3, <1>4, <1>5, <1>6 DEF Base, Rounded
<1>8. Steady
  BY <1>2 DEF Steady
<1> QED
  BY <1>1, <1>7, <1>8 DEF Base

(* The collector.                                                             *)
LEMMA CollectKeeps ==
    ASSUME Base, Collect PROVE Base' /\ Steady
<1>1. UNCHANGED <<pc, item, result, upsets, issueVars, handlerVars, erratumVars>>
  BY DEF Collect, CollectIssues, CollectErrata, CollectQueue, CollectSchedule, queueVars
<1>2. IssueTypeOK' /\ ErratumTypeOK'
  BY <1>1, IssuesStay, ErratumStays
<1>3. Issue \cup {Erratum} \subseteq Item
  BY SupervisorAssumption
<1>4. queue' \subseteq Item /\ found' \subseteq Item /\ cpc' \in {"idle", "errata", "queue", "schedule"}
  <2>1. queue \subseteq Item /\ found \subseteq Item
    BY DEF Base, Typed, TypeOK, QueueTypeOK
  <2>2. CASE CollectIssues
    BY <1>3, <2>1, <2>2 DEF CollectIssues, queueVars, current_issues
  <2>3. CASE CollectErrata \/ CollectQueue
    BY <2>1, <2>3 DEF CollectErrata, CollectQueue, queueVars
  <2>4. CASE CollectSchedule
    BY <2>1, <2>4 DEF CollectSchedule
  <2> QED
    BY <2>2, <2>3, <2>4 DEF Collect
<1>5. QueueTypeOK'
  BY <1>1, <1>4 DEF Base, Typed, TypeOK, QueueTypeOK
<1>6. TypeOK'
  BY <1>2, <1>4, <1>5 DEF TypeOK
<1>7. upsets \in Nat
  BY Numbers
<1>8. UNCHANGED <<seen, goal, round, created>> /\ \A i \in Issue : Recorded(i)' = Recorded(i)
  BY <1>1 DEF issueVars, handlerVars, Recorded
<1> QED
  BY <1>1, <1>6, <1>7, <1>8, OutsideStep

(* Where one's writes to the issues are typed, and the rest is as it was. *)
LEMMA IssueEnvironment ==
    ASSUME Base, UNCHANGED <<queue, pc, item, result, handlerVars, collectorVars, round, created>>,
           upsets' \in {upsets, upsets + 1}, upsets' <= MaxUpsets, ErratumTypeOK',
           issue' \in [Issue -> JiraIssue], mr' \in [Issue -> {"open", "merged", "old"}],
           tests' \in [Issue -> {"running", "done"}],
           \A i \in Issue : Recorded(i)' = Recorded(i)
    PROVE  Base' /\ Steady
<1>1. upsets \in Nat /\ upsets' \in 0..MaxUpsets
  BY Numbers
<1>2. QueueTypeOK'
  BY <1>1 DEF Base, Typed, TypeOK, QueueTypeOK
<1>3. IssueTypeOK'
  BY DEF Base, Typed, TypeOK, IssueTypeOK
<1>4. TypeOK'
  BY <1>2, <1>3 DEF Base, Typed, TypeOK, collectorVars
<1> QED
  BY <1>1, <1>4, OutsideStep DEF handlerVars

(* What people and GitLab do to an issue. *)
LEMMA IssueSteps ==
    ASSUME Base, NEW i \in Issue,
           DayPasses(i) \/ TestsFinish(i) \/ MrMerged(i) \/ AttentionCleared(i)
    PROVE  Base' /\ Steady
<1>1. /\ UNCHANGED <<queue, pc, item, result, handlerVars, collectorVars, round, created, erratumVars>>
      /\ upsets' \in {upsets, upsets + 1}
      /\ upsets' = upsets \/ upsets < MaxUpsets
  BY DEF DayPasses, TestsFinish, MrMerged, AttentionCleared, World, Processor, Upset
<1>2. upsets' <= MaxUpsets
  BY <1>1, Numbers
<1>3. ErratumTypeOK'
  BY <1>1, ErratumStays
<1>4. issue' = issue \/ issue' = [issue EXCEPT ![i].attention = FALSE]
  BY DEF DayPasses, TestsFinish, MrMerged, AttentionCleared
<1>5. Written(issue')
  BY <1>4, IssueWrites
<1>6. mr' \in [Issue -> {"open", "merged", "old"}] /\ tests' \in [Issue -> {"running", "done"}]
  BY DEF DayPasses, TestsFinish, MrMerged, AttentionCleared, Base, Typed, TypeOK, IssueTypeOK
<1> QED
  BY <1>1, <1>2, <1>3, <1>5, <1>6, IssueEnvironment DEF Written, Recorded

(* The requests of a reproduction finish.                                     *)
LEMMA SettleStep ==
    ASSUME Base, NEW i \in Issue, RequestsSettle(i) PROVE Base' /\ Steady
<1>1. /\ issue' = [issue EXCEPT ![i].baseline.settled = TRUE]
      /\ UNCHANGED <<queue, pc, item, result, handlerVars, collectorVars, upsets, mr, tests, round, created, erratumVars>>
  BY DEF RequestsSettle, World, Processor
<1>2. issue \in [Issue -> JiraIssue] /\ upsets <= MaxUpsets
  BY Numbers DEF Base, Typed, TypeOK, IssueTypeOK
<1> DEFINE b == issue[i]
           c == b.baseline
           d == [c EXCEPT !.settled = TRUE]
<1>3. b \in JiraIssue /\ c \in Baseline
  BY <1>2, BaselineType
<1>4. issue' = [issue EXCEPT ![i] = [b EXCEPT !.baseline = d]]
  BY <1>1
<1> HIDE DEF b
<1>5. d \in Baseline /\ d.round = c.round
  BY <1>3 DEF Baseline
<1> HIDE DEF d
<1> DEFINE n == [b EXCEPT !.baseline = d]
<1>6. n \in JiraIssue /\ n.baseline = d
  BY <1>3, <1>5 DEF JiraIssue
<1> HIDE DEF n
<1>7. issue' = [issue EXCEPT ![i] = n]
  BY <1>4 DEF n
<1>8. issue' \in [Issue -> JiraIssue] /\ issue'[i] = n /\ \A j \in Issue \ {i} : issue'[j] = issue[j]
  BY <1>2, <1>6, <1>7
<1>9. \A j \in Issue : Recorded(j)' = Recorded(j)
  BY <1>5, <1>6, <1>8 DEF Recorded, b
<1>10. ErratumTypeOK' /\ mr' \in [Issue -> {"open", "merged", "old"}] /\ tests' \in [Issue -> {"running", "done"}]
  <2>1. ErratumTypeOK'
    BY <1>1, ErratumStays
  <2>2. IssueTypeOK /\ mr' = mr /\ tests' = tests
    BY <1>1 DEF Base, Typed, TypeOK
  <2> QED
    BY ONLY <2>1, <2>2 DEF IssueTypeOK
<1> QED
  BY <1>1, <1>2, <1>8, <1>9, <1>10, IssueEnvironment

(* The erratum's own steps. *)
LEMMA ErratumEnvironment ==
    ASSUME Base, ErratumCreated \/ PushEnds \/ CatEnds \/ TrackerCleared PROVE Base' /\ Steady
<1>1. /\ UNCHANGED <<queue, pc, item, result, handlerVars, collectorVars, round, created, mr, tests, listing, checked, mismatch, warned>>
      /\ upsets' \in {upsets, upsets + 1}
      /\ upsets' = upsets \/ upsets < MaxUpsets
  BY DEF ErratumCreated, PushEnds, CatEnds, TrackerCleared, World, Processor, Upset, issueVars
<1>2. upsets' <= MaxUpsets
  BY <1>1, Numbers
<1>3. ErratumTypeOK
  BY DEF Base, Typed, TypeOK
<1>4. erratum' \in [status: {"none", "NEW_FILES", "QE", "REL_PREP"},
                    owned: BOOLEAN, team: BOOLEAN,
                    push: {"none", "running", "outdated", "complete", "failed"}, pushed: BOOLEAN,
                    cat: {"pending", "ok", "late"}, alerts: BOOLEAN]
  <2>1. CASE ErratumCreated
    BY <2>1, <1>3 DEF ErratumCreated, ErratumTypeOK
  <2>2. CASE PushEnds /\ erratum' = [erratum EXCEPT !.push = "failed"]
    BY <2>2, <1>3 DEF ErratumTypeOK
  <2>3. CASE PushEnds /\ erratum' = [erratum EXCEPT !.push = "complete", !.pushed = (@ \/ erratum.push = "running")]
    <3>1. (erratum.pushed \/ erratum.push = "running") \in BOOLEAN
      BY <1>3 DEF ErratumTypeOK
    <3> DEFINE v == erratum.pushed \/ erratum.push = "running"
    <3>2. erratum' = [erratum EXCEPT !.push = "complete", !.pushed = v]
      BY <2>3, <1>3 DEF ErratumTypeOK
    <3> HIDE DEF v
    <3>3. v \in BOOLEAN
      BY <3>1 DEF v
    <3> QED
      BY <3>2, <3>3, <1>3 DEF ErratumTypeOK
  <2>4. CASE CatEnds
    BY <2>4, <1>3 DEF CatEnds, ErratumTypeOK
  <2>5. CASE TrackerCleared
    BY <2>5, <1>3 DEF TrackerCleared, ErratumTypeOK
  <2> QED
    BY <2>1, <2>2, <2>3, <2>4, <2>5 DEF PushEnds
<1>5. tracker' \in {"none", "open", "labelled"}
  BY <1>3 DEF ErratumCreated, PushEnds, CatEnds, TrackerCleared, ErratumTypeOK
<1>6. ErratumTypeOK'
  BY <1>1, <1>3, <1>4, <1>5 DEF ErratumTypeOK
<1>7. issue \in [Issue -> JiraIssue]
  BY DEF Base, Typed, TypeOK, IssueTypeOK
<1>8. issue' \in [Issue -> JiraIssue] /\ \A i \in Issue : issue'[i].baseline = issue[i].baseline
  <2>1. CASE issue' = issue
    BY <1>7, <2>1
  <2>2. CASE issue' = [i \in Issue |-> [issue[i] EXCEPT !.link = TRUE]]
    <3>1. ASSUME NEW i \in Issue
          PROVE  [issue[i] EXCEPT !.link = TRUE] \in JiraIssue /\ [issue[i] EXCEPT !.link = TRUE].baseline = issue[i].baseline
      <4>1. issue[i] \in JiraIssue
        BY <1>7
      <4> QED
        BY <4>1 DEF JiraIssue
    <3> QED
      BY <2>2, <3>1
  <2> QED
    BY <2>1, <2>2 DEF ErratumCreated, PushEnds, CatEnds, TrackerCleared, issueVars
<1>9. \A i \in Issue : Recorded(i)' = Recorded(i)
  BY <1>8 DEF Recorded
<1>10. mr' \in [Issue -> {"open", "merged", "old"}] /\ tests' \in [Issue -> {"running", "done"}]
  BY <1>1 DEF Base, Typed, TypeOK, IssueTypeOK
<1> QED
  BY <1>1, <1>2, <1>6, <1>8, <1>9, <1>10, IssueEnvironment

(* A new build begins a round and is an upset.                                *)
LEMMA RespinKeeps ==
    ASSUME Base, Respin PROVE Base' /\ Steady
<1>1. /\ UNCHANGED <<queue, pc, item, result, handlerVars, collectorVars, issue, mr, created, mismatch, tracker>>
      /\ upsets' = upsets + 1 /\ upsets < MaxUpsets /\ round' = round + 1
      /\ tests' = [i \in Issue |-> "running"] /\ listing' \in [Package -> {"same", "differs"}]
      /\ checked' = {} /\ warned' = FALSE
      /\ erratum' = [erratum EXCEPT !.status = "NEW_FILES", !.pushed = FALSE,
                                     !.cat = "pending", !.alerts = FALSE,
                                     !.push = IF @ = "running" THEN "outdated" ELSE @]
  BY DEF Respin, Upset, Processor
<1>2. ErratumTypeOK
  BY DEF Base, Typed, TypeOK
<1>3. erratum' \in [status: {"none", "NEW_FILES", "QE", "REL_PREP"},
                    owned: BOOLEAN, team: BOOLEAN,
                    push: {"none", "running", "outdated", "complete", "failed"}, pushed: BOOLEAN,
                    cat: {"pending", "ok", "late"}, alerts: BOOLEAN]
  BY <1>1, <1>2 DEF ErratumTypeOK
<1>4. ErratumTypeOK'
  BY <1>1, <1>2, <1>3 DEF ErratumTypeOK
<1>5. upsets \in Nat /\ round \in Nat /\ round <= 1 + upsets /\ 1 <= round
  BY Numbers
<1>6. QueueTypeOK'
  <2>1. upsets' \in 0..MaxUpsets
    BY <1>1, <1>5, Numbers
  <2> QED
    BY <1>1, <2>1 DEF Base, Typed, TypeOK, QueueTypeOK
<1>7. round' \in Rounds
  BY <1>1, <1>5, SupervisorAssumption DEF Rounds
<1>8. IssueTypeOK'
  BY <1>1, <1>7 DEF Base, Typed, TypeOK, IssueTypeOK
<1>9. TypeOK'
  BY <1>1, <1>4, <1>6, <1>8 DEF Base, Typed, TypeOK, collectorVars
<1>10. \A i \in Issue : Recorded(i)' = Recorded(i)
  BY <1>1 DEF Recorded
<1> QED
  BY <1>1, <1>9, <1>10, OutsideStep DEF handlerVars

(* Every step keeps the invariant, and all but two are steady.                *)
LEMMA StepBase == Base /\ [Next]_vars => Base' /\ (Steady \/ resolve_start_reproduction \/ RecordReproduction)
<1> SUFFICES ASSUME Base, [Next]_vars PROVE Base' /\ (Steady \/ resolve_start_reproduction \/ RecordReproduction)
  OBVIOUS
<1>1. CASE UNCHANGED vars
  <2>1. UNCHANGED <<queueVars, issueVars, handlerVars, erratumVars, collectorVars>>
    BY <1>1 DEF vars
  <2>2. QueueTypeOK' /\ IssueTypeOK'
    <3>1. QueueTypeOK'
      BY <2>1 DEF Base, Typed, TypeOK, QueueTypeOK, queueVars
    <3> QED
      BY <2>1, <3>1, IssuesStay
  <2>3. ErratumTypeOK'
    BY <2>1, ErratumStays
  <2>4. upsets \in Nat /\ cpc' \in {"idle", "errata", "queue", "schedule"} /\ found' \subseteq Item
    BY <2>1, Numbers DEF Base, Typed, TypeOK, collectorVars
  <2>5. UNCHANGED <<pc, item, upsets, round, seen, goal, created>> /\ \A i \in Issue : Recorded(i)' = Recorded(i)
    BY <2>1 DEF queueVars, issueVars, handlerVars, Recorded
  <2>6. TypeOK'
    BY <2>2, <2>3, <2>4 DEF TypeOK
  <2> QED
    BY <2>4, <2>5, <2>6, OutsideStep
<1>2. CASE Queue \/ HandleIssue \/ HandleErratum \/ Collect
  BY <1>2, QueueKeeps, HandleIssueKeeps, HandleErratumKeeps, CollectKeeps
<1>3. CASE Progress
  BY <1>3, IssueSteps, SettleStep, ErratumEnvironment DEF Progress
<1>4. CASE People
  BY <1>4, IssueSteps, RespinKeeps, ErratumEnvironment DEF People
<1> QED
  BY <1>1, <1>2, <1>3, <1>4 DEF Next

(* The steady ones keep the count: no record, no creation, and a reproduction *)
(* that is cut short is counted as an upset.                                  *)
LEMMA SteadyCounts ==
    ASSUME Base, Base', Counted, Steady PROVE Counted'
<1> SUFFICES ASSUME NEW i \in Issue, NEW r \in Rounds
             PROVE  created'[i][r] <= IF r <= Recorded(i)' \/ Making(i, r)' THEN upsets' + 1 ELSE upsets'
  BY DEF Counted
<1>1. upsets \in Nat /\ upsets' \in Nat /\ upsets <= upsets'
  <2>1. upsets' \in 0..MaxUpsets
    BY DEF Base, Typed, TypeOK, QueueTypeOK
  <2> QED
    BY <2>1, Numbers DEF Steady
<1>2. created'[i][r] = created[i][r] /\ created[i][r] \in Nat
  BY DEF Steady, Base, Typed, TypeOK, IssueTypeOK
<1> DEFINE c == created[i][r]
<1>3. c \in Nat /\ c <= IF r <= Recorded(i) \/ Making(i, r) THEN upsets + 1 ELSE upsets
  BY <1>2 DEF Counted
<1>4. Recorded(i)' = Recorded(i)
  BY DEF Steady
<1>5. Making(i, r) => Making(i, r)' \/ upsets' = upsets + 1
  BY DEF Making, Steady, Read
<1> HIDE DEF c
<1>6. c <= IF r <= Recorded(i) \/ Making(i, r)' THEN upsets' + 1 ELSE upsets'
  <2>1. CASE r <= Recorded(i)
    BY <1>1, <1>3, <2>1, Grows
  <2>2. CASE ~(r <= Recorded(i)) /\ Making(i, r)
    <3>1. c <= upsets + 1
      BY <1>3, <2>2
    <3>2. CASE Making(i, r)'
      BY <1>1, <1>3, <3>1, <3>2, Grows
    <3>3. CASE upsets' = upsets + 1
      BY <1>1, <1>3, <3>1, <3>3, Grows
    <3> QED
      BY <1>5, <2>2, <3>2, <3>3
  <2>3. CASE ~(r <= Recorded(i)) /\ ~Making(i, r)
    <3>1. c <= upsets
      BY <1>3, <2>3
    <3> QED
      BY <1>1, <1>3, <3>1, Grows
  <2> QED
    BY <2>1, <2>2, <2>3
<1> QED
  BY <1>2, <1>4, <1>6 DEF c

(* A creation is of a round that is neither recorded nor being made, so there *)
(* were no more than upsets of it.                                            *)
LEMMA StartCounts ==
    ASSUME Base, Base', Counted, resolve_start_reproduction PROVE Counted'
<1>1. /\ pc = "reproduce" /\ item \in Issue /\ Recorded(item) < Read
      /\ UNCHANGED <<upsets, item, seen, issue>>
  BY DEF resolve_start_reproduction, Goto, handlerVars, issueVars, Base, Typed, Rounded, OnIssue
<1>2. \/ created' = created
      \/ created' = [created EXCEPT ![item][Read] = @ + 1] /\ pc' = "record"
  BY DEF resolve_start_reproduction, Goto, issueVars, Read
<1>3. created \in [Issue -> [Rounds -> Nat]] /\ upsets \in Nat /\ Read \in Nat
      /\ \A j \in Issue : Recorded(j) \in Nat
  BY Numbers DEF Base, Typed, TypeOK, IssueTypeOK
<1> SUFFICES ASSUME NEW i \in Issue, NEW r \in Rounds
             PROVE  created'[i][r] <= IF r <= Recorded(i)' \/ Making(i, r)' THEN upsets' + 1 ELSE upsets'
  BY DEF Counted
<1>4. Recorded(i)' = Recorded(i) /\ Read' = Read /\ ~Making(i, r)
  BY <1>1 DEF Recorded, Read, Making
<1>5. created[i][r] \in Nat /\ created[i][r] <= IF r <= Recorded(i) THEN upsets + 1 ELSE upsets
  BY <1>3, <1>4 DEF Counted
<1>6. CASE created'[i][r] = created[i][r]
  BY <1>1, <1>3, <1>4, <1>5, <1>6
<1>7. CASE i = item /\ r = Read /\ pc' = "record" /\ created'[i][r] = created[i][r] + 1
  <2>1. ~(r <= Recorded(i))
    BY <1>1, <1>3, <1>7
  <2>2. created[i][r] <= upsets
    BY <1>5, <2>1
  <2>3. Making(i, r)'
    BY <1>1, <1>4, <1>7 DEF Making
  <2> QED
    BY <1>1, <1>3, <1>5, <1>7, <2>2, <2>3
<1>8. \/ created'[i][r] = created[i][r]
      \/ i = item /\ r = Read /\ pc' = "record" /\ created'[i][r] = created[i][r] + 1
  <2> HIDE DEF Read
  <2> QED
    BY <1>1, <1>2, <1>3
<1> QED
  BY <1>6, <1>7, <1>8

(* Recording turns the rounds being made into recorded ones.                  *)
LEMMA RecordCounts ==
    ASSUME Base, Base', Counted, RecordReproduction PROVE Counted'
<1>1. /\ pc = "record" /\ item \in Issue /\ UNCHANGED <<upsets, created, item, seen>>
      /\ issue' = [issue EXCEPT ![item] = [issue[item] EXCEPT !.reproducing = TRUE, !.baseline = seen.baseline]]
  BY DEF RecordReproduction, Return, handlerVars, Base, Typed, OnIssue
<1>2. issue \in [Issue -> JiraIssue] /\ created \in [Issue -> [Rounds -> Nat]]
  BY DEF Base, Typed, TypeOK, IssueTypeOK
<1>3. issue' = [issue EXCEPT ![item] = [[issue[item] EXCEPT !.reproducing = TRUE] EXCEPT !.baseline = seen.baseline]]
  BY <1>1, <1>2
<1>4. [[issue[item] EXCEPT !.reproducing = TRUE] EXCEPT !.baseline = seen.baseline].baseline = seen.baseline
  <2>1. issue[item] \in JiraIssue
    BY <1>1, <1>2
  <2> QED
    BY <2>1 DEF JiraIssue
<1>5. Recorded(item)' = Read /\ \A j \in Issue \ {item} : Recorded(j)' = Recorded(j)
  BY <1>1, <1>2, <1>3, <1>4 DEF Recorded, Read
<1>6. upsets \in Nat /\ Read \in Nat /\ Rounds \subseteq Nat
  BY Numbers DEF Rounds
<1> SUFFICES ASSUME NEW i \in Issue, NEW r \in Rounds
             PROVE  created'[i][r] <= IF r <= Recorded(i)' \/ Making(i, r)' THEN upsets' + 1 ELSE upsets'
  BY DEF Counted
<1>7. created[i][r] \in Nat /\ created[i][r] <= IF r <= Recorded(i) \/ Making(i, r) THEN upsets + 1 ELSE upsets
  BY <1>2 DEF Counted
<1>8. created'[i][r] = created[i][r] /\ upsets' = upsets
  BY <1>1
<1>9. CASE i # item
  BY <1>1, <1>5, <1>6, <1>7, <1>8, <1>9 DEF Making
<1>10. CASE i = item
  <2>1. Recorded(i)' = Read /\ Recorded(i) < Read /\ Recorded(i) \in Nat
    BY <1>1, <1>5, <1>10, Numbers DEF Base, Rounded
  <2>2. (r <= Recorded(i) \/ Making(i, r)) => r <= Read
    BY <1>6, <2>1 DEF Making
  <2> QED
    BY <1>6, <1>7, <1>8, <2>1, <2>2
<1> QED
  BY <1>9, <1>10

(* The invariant holds in every reachable state.                              *)
THEOREM BaseInvariant == Spec => []Base
<1>1. Base /\ [Next]_vars => Base'
  BY StepBase
<1> QED
  BY InitBase, <1>1, PTL DEF Spec

(* Type correctness of the supervisor's queue, its two handlers, the collector *)
(* and the records in Jira and the Errata Tool.                               *)
THEOREM TypeCorrect == Spec => []TypeOK
<1>1. Base => TypeOK
  BY DEF Base, Typed
<1> QED
  BY <1>1, BaseInvariant, PTL

(* No round of failed tests is reproduced more than once, plus once for each  *)
(* failed handler or new build, whatever the number of issues, packages and   *)
(* upsets (resolve_start_reproduction against the label and comment it leaves). *)
THEOREM ReproductionSafety == Spec => []ReproducedOnce
<1>1. Init => Counted
  <2> SUFFICES ASSUME Init PROVE Counted
    OBVIOUS
  <2>1. created = [i \in Issue |-> [r \in Rounds |-> 0]] /\ upsets = 0
    BY DEF Init, QueueInit, IssueInit
  <2> QED
    BY <2>1 DEF Counted
<1>2. Base /\ Base' /\ Counted /\ [Next]_vars => Counted'
  BY StepBase, SteadyCounts, StartCounts, RecordCounts
<1>3. Base /\ Counted => ReproducedOnce
  <2> SUFFICES ASSUME Base, Counted, NEW i \in Issue, NEW r \in Rounds PROVE created[i][r] <= 1 + upsets
    BY DEF ReproducedOnce
  <2>1. created[i][r] \in Nat /\ upsets \in Nat
    BY Numbers DEF Base, Typed, TypeOK, IssueTypeOK
  <2>2. created[i][r] <= upsets + 1 \/ created[i][r] <= upsets
    BY DEF Counted
  <2> QED
    BY <2>1, <2>2
<1> QED
  BY <1>1, <1>2, <1>3, BaseInvariant, PTL DEF Spec

=============================================================================
