--------------------------- MODULE CanonicalTitle ---------------------------
(***************************************************************************)
(* The title that the merge requests of one family of issues share         *)
(* (ymir/agents/tasks.py, resolve_current_canonical_mr_title): a record in *)
(* Redis that agents of several streams read and publish at the same time, *)
(* without a lock.  It comes from the summary of the issue of whoever was  *)
(* first; only a newer summary of that issue replaces it.                  *)
(***************************************************************************)
EXTENDS Integers

CONSTANTS
    Author,             \* agents that open a merge request
    IssueOfAuthor,      \* the issue each of them works on
    MaxEdits,           \* edits of summaries
    MaxExpiries,        \* records that expire or are dropped as invalid
    MaxReplacements     \* _MAX_CANONICAL_TITLE_REPLACEMENT_ATTEMPTS

ASSUME TitleAssumption == MaxEdits \in Nat /\ MaxExpiries \in Nat /\ MaxReplacements \in Nat

Titled == {IssueOfAuthor[a] : a \in Author}

VARIABLES
    generated,  \* no CVE: the title is written by a model, not by Jira
    summary,    \* summary[i]: how often it was edited
    record,     \* the record at the family's key
    author,     \* author[a]: an agent that looks for its title
    expiries

titleVars == <<generated, summary, record, author, expiries>>

(* "by" tells apart what two models write for one summary. *)
Title     == [source : Titled, edit : 0..MaxEdits, by : Author \cup {"jira"}]
NoTitle   == [source |-> "none", edit |-> -1, by |-> "none"]
NewAuthor == [step |-> "idle", read |-> 0, cached |-> NoTitle, attempts |-> 0, title |-> NoTitle]

TitleInit ==
    /\ summary = [i \in Titled |-> 0] /\ record = NoTitle
    /\ author = [a \in Author |-> NewAuthor] /\ expiries = 0

-----------------------------------------------------------------------------
Own(a)         == IssueOfAuthor[a]
AuthorAt(a, step) == author[a].step = step
Becomes(a, new) == author' = [author EXCEPT ![a] = new] /\ UNCHANGED <<generated, summary, expiries>>
NewTitle(a)    == [source |-> Own(a), edit |-> author[a].read, by |-> IF generated THEN a ELSE "jira"]

(* Mutant: any other summary of the source replaces the record. *)
ReusableSame(a, r) == r # NoTitle /\ (r.source # Own(a) \/ r.edit = author[a].read)

(* A record is good for the sibling of another stream as it is; for its own   *)
(* issue unless the summary read is newer.                                    *)
Reusable(a, r) == r # NoTitle /\ (r.source # Own(a) \/ r.edit >= author[a].read)

Ends(a, title) == Becomes(a, [author[a] EXCEPT !.step = "done", !.title = title])

(* get_jira_details *)
FetchSummary(a) ==
    /\ AuthorAt(a, "idle")
    /\ Becomes(a, [author[a] EXCEPT !.step = "look", !.read = summary[Own(a)]])
    /\ UNCHANGED record

(* The first look spares the model's work. *)
LookFirst(a) ==
    /\ AuthorAt(a, "look")
    /\ IF Reusable(a, record) THEN Ends(a, record)
       ELSE Becomes(a, [author[a] EXCEPT !.step = "get"])
    /\ UNCHANGED record

GetRecord(a) ==
    /\ AuthorAt(a, "get")
    /\ IF Reusable(a, record) THEN Ends(a, record)
       ELSE Becomes(a, [author[a] EXCEPT !.step = "publish", !.cached = record])
    /\ UNCHANGED record

(* SET NX, or the script that compares with what was read and swaps.          *)
Publish(a) ==
    /\ AuthorAt(a, "publish")
    /\ \/ record = author[a].cached /\ record' = NewTitle(a) /\ Ends(a, NewTitle(a))
       \/ /\ record # author[a].cached
          /\ Becomes(a, [author[a] EXCEPT !.step = "get_again"]) /\ UNCHANGED record

(* The winner's record is reused, or swapped in turn; a record that is gone   *)
(* again starts another attempt.                                              *)
TryAgainOrFail(a) ==
    IF author[a].attempts < MaxReplacements
      THEN Becomes(a, [author[a] EXCEPT !.step = "get", !.cached = NoTitle, !.attempts = @ + 1])
      ELSE Ends(a, NoTitle)
GetAgain(a) ==
    /\ AuthorAt(a, "get_again")
    /\ IF record = NoTitle THEN TryAgainOrFail(a)
       ELSE IF Reusable(a, record) THEN Ends(a, record)
       ELSE Becomes(a, [author[a] EXCEPT !.step = "swap", !.cached = record])
    /\ UNCHANGED record

Swap(a) ==
    /\ AuthorAt(a, "swap")
    /\ IF record = author[a].cached
         THEN record' = NewTitle(a) /\ Ends(a, NewTitle(a))
         ELSE TryAgainOrFail(a) /\ UNCHANGED record

Resolves(a) == FetchSummary(a) \/ LookFirst(a) \/ GetRecord(a) \/ Publish(a) \/ GetAgain(a) \/ Swap(a)

EditSummary(i) ==
    /\ summary[i] < MaxEdits /\ summary' = [summary EXCEPT ![i] = @ + 1]
    /\ UNCHANGED <<generated, record, author, expiries>>
Expires ==
    /\ record # NoTitle /\ expiries < MaxExpiries
    /\ record' = NoTitle /\ expiries' = expiries + 1
    /\ UNCHANGED <<generated, summary, author>>

TitleNext == (\E a \in Author : Resolves(a)) \/ (\E i \in Titled : EditSummary(i)) \/ Expires

-----------------------------------------------------------------------------
(* Unless the record expired, the merge requests of a family bear one title,  *)
(* or the titles of two summaries of one issue.                               *)
FamilyAgrees ==
    \A a, b \in Author :
        LET s == author[a].title
            t == author[b].title
        IN  expiries = 0 /\ NoTitle \notin {s, t} => s.source = t.source /\ (s.edit = t.edit => s = t)

(* The record never goes back to an older summary. *)
TitleNotOlder ==
    [][NoTitle \notin {record, record'} /\ record' # record =>
          record'.source = record.source /\ record'.edit > record.edit]_titleVars

(* Nobody looks for its title any more. *)
AuthorsDone == \A a \in Author : AuthorAt(a, "done")

(* A family of merge requests bears one title, which only gets newer.         *)
TitleAgreed == []FamilyAgrees /\ TitleNotOlder
=============================================================================
