---------------------------- MODULE MCAgentQueue ----------------------------
(* TLC instances of AgentQueue. *)
EXTENDS AgentQueue, TLC

CONSTANTS i1, i2, p1, p2

OneIssue  == {i1}
TwoIssues == {i1, i2}
Todo      == {i1}
OnePod    == {p1}
TwoPods   == {p1, p2}
NoFaults  == {}
Outages   == {"outage", "crash", "release"}
AllFaults == {"crash", "poll", "outage", "release", "write", "cancel"}
Cancels   == {"cancel"}
PollFails == {"poll"}
Symmetry  == Permutations(Pod)
=============================================================================
