----------------------------- MODULE ScanQueue -----------------------------
(***************************************************************************)
(* What the core model relies on of util.PriorityQueue: a finite map from  *)
(* keys to priorities.  Add refuses a key that is present, Set and Remove  *)
(* refuse one that is absent, and Peek answers a key of highest priority.  *)
(* Which one, among equals, depends on the layout of the heap and is left  *)
(* open here.                                                              *)
(***************************************************************************)
EXTENDS Integers

EmptyQueue == [k \in {} |-> 0]

HasKey(q, k) == k \in DOMAIN q

Add(q, k, p) ==
    IF HasKey(q, k) THEN q
    ELSE [x \in DOMAIN q \cup {k} |-> IF x = k THEN p ELSE q[x]]

Remove(q, k) == [x \in DOMAIN q \ {k} |-> q[x]]

\* The keys Peek may return; none when the queue is empty.
Peek(q) == {k \in DOMAIN q : \A x \in DOMAIN q : q[x] <= q[k]}
=============================================================================
