---------------------------- MODULE MCHubManager ----------------------------
(* One Black Duck that is configured under its domain, beside one that may  *)
(* be configured under another name and is set up again and again.          *)
EXTENDS HubManager

CONSTANTS h1, h2, k2, i1, i2, c1

MCHosts == {h1, h2, k2}
MCSecrets == {[k \in {h1, h2} |-> k], [k \in {h1, k2} |-> IF k = h1 THEN h1 ELSE h2]}
MCInstances == {i1, i2}
MCWatched == {i1}
MCCreators == {c1}
=============================================================================
