------------------------------- MODULE MCHub -------------------------------
(* One hub, which knows of a scan when perceptor starts.                    *)
EXTENDS Hub

CONSTANTS h1, s1, r1

MCHubs == {h1}
MCOneSha == {s1}
MCReports == {r1}
MCSummarySets == (SUBSET {"Success", "InProgress", "Failure"}) \ {{}}

\* The hub has a scan that failed; others follow, are in progress and succeed.
MCRemoteInits == {[h \in Hubs |-> [n \in {s1} |-> {"Failure"}]]}
=============================================================================
