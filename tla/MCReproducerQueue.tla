------------------------- MODULE MCReproducerQueue -------------------------
(* TLC instances of ReproducerQueue. *)
EXTENDS ReproducerQueue, TLC

CONSTANTS i1, i2, l1, s1, s2

TwoIssues == {i1, i2}
Todo      == {i1}
OneLock   == {l1}
SameLock  == [i \in {i1, i2} |-> l1]      \* two streams of one CVE
TwoSlots  == {s1, s2}

Deployed(ss, kinds, n) == [slots |-> ss, faults |-> kinds, max |-> n]
OneOrTwoSlots == {Deployed({s1}, {"crash", "release"}, 1),
                  Deployed({s1}, {"disabled"}, 1),
                  Deployed({s1, s2}, {"metadata", "label", "overrun", "release"}, 2)}
NoFaults      == {Deployed({s1, s2}, {}, 0)}
Overruns      == {Deployed({s1, s2}, {"overrun", "release", "crash", "disabled"}, 1)}
=============================================================================
