----------------------------- MODULE MCServices -----------------------------
(* Services with small parts for TLC. *)
EXTENDS Services

(* Streams, modules and embargoes of three trackers. *)
Facts(st, m, e) == [stream |-> st, module |-> m, embargoed |-> e]
Plain(st)       == Facts(st, "plain", FALSE)
MCFamilies ==
    {[severe |-> FALSE, planned |-> TRUE, maxFaults |-> 0,
      about |-> <<Plain("current"), Facts("y", "plain", TRUE), Plain("upcoming")>>],
     [severe |-> FALSE, planned |-> FALSE, maxFaults |-> 1,
      about |-> <<Plain("current"), Plain("y"), Plain("unset")>>],
     [severe |-> TRUE, planned |-> FALSE, maxFaults |-> 1,
      about |-> <<Facts("current", "modular", FALSE), Facts("current", "modular", FALSE), Facts("y", "modular", FALSE)>>],
     [severe |-> TRUE, planned |-> FALSE, maxFaults |-> 1,
      about |-> <<Facts("older", "plain", TRUE), Plain("unset"), Plain("y")>>]}
MCNames   == <<{"a"}, {"a", "b"}>>
MCIssues  == [a \in Author |-> IF a = "a3" THEN "i2" ELSE "i1"]
MCBatches == {<<"work">>, <<"think">>, <<"rules">>, <<"manage_context">>, <<"final_answer">>,
              <<"work", "manage_context">>, <<"manage_context", "manage_context">>}
MCHolder  == [r \in Machine |-> IF r = "r1" THEN "i1" ELSE "i2"]
MCHistories == [Commits -> [place : {"z", "side", "shared"}, keys : {{}, {"z"}, {"z", "other"}}]]
MCVersions  == <<"v1", "v1", "v2">>
=============================================================================
