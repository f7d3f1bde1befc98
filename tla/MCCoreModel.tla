---------------------------- MODULE MCCoreModel ----------------------------
(* A small instance of CoreModel for TLC.                                  *)
EXTENDS CreateImageLoop, PodResults

CONSTANTS s1, s2, p1, p2, r1, r2

MCShas == {s1, s2}
MCPodNames == {p1, p2}
MCReports == {r1, r2}
MCPriorities == {-1, 0, 1}

\* A success beside an earlier failure is a success, too.
MCSummarySets == {{"Success"}, {"InProgress"}, {"Failure"}, {"Success", "Failure"}}

img(s, p) == [sha |-> s, priority |-> p]
pod(n, S) == [name |-> n, images |-> S]

\* Two shas at once, and two priorities for one sha.
MCImageLists == {{img(s1, 0), img(s2, 1)}, {img(s1, -1), img(s1, 1)}}

\* A pod of two containers beside an empty one, two pods that share an image,
\* and one list that names a pod twice.
MCPodLists ==
    { {pod(p1, {img(s1, 1), img(s2, 1)}), pod(p2, {})},
      {pod(p1, {img(s1, 0)}), pod(p2, {img(s1, 1)})},
      {pod(p2, {img(s1, 1)}), pod(p2, {img(s2, 0)})} }

\* Every list of one or two images, and two with one sha at three priorities.
MCOrders ==
    { <<i>> : i \in Image } \cup { <<i, j>> : i, j \in Image }
      \cup { <<img(s1, 0), img(s1, -1), img(s1, 1)>>, <<img(s1, -1), img(s1, 0), img(s1, 1)>> }

\* One report without violations and counts, one with a status that overrides
\* violations, counted under every key that matters and one that does not.
MCPolicyStatus ==
    [r \in MCReports |->
        IF r = r1 THEN [overall |-> "NOT_IN_VIOLATION", counts |-> [st \in {} |-> 0]]
                  ELSE [overall |-> "IN_VIOLATION_OVERRIDDEN",
                        counts |-> [st \in {"IN_VIOLATION"} |-> 2]]]

MCRiskProfile ==
    [r \in MCReports |->
        IF r = r1 THEN [c \in {"LICENSE"} |-> [st \in {"HIGH"} |-> 7]]
                  ELSE [c \in {"VULNERABILITY"} |->
                           [st \in {"CRITICAL", "HIGH", "LOW"} |-> IF st = "LOW" THEN 5 ELSE 1]]]
=============================================================================
