---------------------------- MODULE MCPerceptor ----------------------------
(* Instances: one hub with one image or two, two hubs with one image.      *)
EXTENDS Perceptor

CONSTANTS h1, h2, s1, s2, r1

MCOneHub == {h1}
MCTwoHubs == {h1, h2}
MCOneSha == {s1}
MCTwoShas == {s1, s2}
MCReports == {r1}
MCSummarySets == (SUBSET {"Success", "InProgress", "Failure"}) \ {{}}
MCPriorities == {-1, 0}
MCPosted == {[sha |-> s, priority |-> 0] : s \in Shas}
MCOnePerHub == [h \in Hubs |-> 1]

Nothing == [n \in {} |-> {}]
Located(S) == [n \in {s1} |-> S]

\* No Black Duck knows of a scan; the first may know of one that has not failed,
\* or of any.
MCEmpty == {[h \in Hubs |-> Nothing]}
FirstKnows(inits) == {f \in [Hubs -> inits] : \A h \in Hubs \ {h1} : f[h] = Nothing}
MCScanned == FirstKnows({Nothing, Located({"InProgress"}), Located({"Success"})})
MCSome == FirstKnows({Nothing} \cup {Located({st}) : st \in {"InProgress", "Success", "Failure"}})
=============================================================================
