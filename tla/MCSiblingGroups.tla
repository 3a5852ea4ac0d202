-------------------------- MODULE MCSiblingGroups ---------------------------
(* TLC instances of SiblingGroups: a group of three, p is triaged first. *)
EXTENDS SiblingGroups, TLC

CONSTANTS p, c1, c2, s1, s2

Group    == {p, c1, c2}
TwoSlots == {s1, s2}

Started(slots, fetched, own, others, kinds, n) ==
    [slots |-> slots, fetched |-> fetched, faults |-> kinds, max |-> n, reproduces |-> FALSE,
     resolutions |-> [i \in Group |-> IF i = p THEN own ELSE others]]

(* Two agents, failing Jira writes, triage errors and a crash. *)
Faulty ==
    {Started({s1, s2}, {p}, {"rebase", "decided"}, {"rebase", "decided"}, kinds, 1) :
        kinds \in {{"error", "marker", "terminal"}, {"label", "crash"}}}
    \cup {Started({s1}, {p}, {"rebase"}, {"rebase", "decided"}, {"error"}, 2)}

(* One agent, any issue may turn out to be the primary. *)
OneSlot == {Started({s1}, Group, {"rebase", "decided"}, {"rebase", "decided"}, {}, 0)}

(* The primary is postponed and swept back, with and without faults. *)
Postponed ==
    {Started({s1}, {p}, {"rebase", "postponed", "no_patch"}, {"rebase", "decided"}, {}, 0),
     Started({s1}, {p}, {"decided", "postponed", "no_patch"}, {"decided"}, {"sweep", "remove"}, 2)}

(* One agent; the package has reproduction enabled. *)
Reproducing == {[x EXCEPT !.reproduces = TRUE, !.fetched = {p}] : x \in OneSlot}

AllSetups == Faulty \cup OneSlot \cup Postponed \cup Reproducing
=============================================================================
