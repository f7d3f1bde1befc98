----------------------------- MODULE MCFetchScan -----------------------------
(* A goroutine that fetches scans beside one that makes single requests and *)
(* resets the breaker.                                                      *)
EXTENDS FetchScan

CONSTANTS f1, q1

MCRequesters == {f1, q1}
MCFetchers == {f1}
=============================================================================
