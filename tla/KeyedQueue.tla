----------------------------- MODULE KeyedQueue -----------------------------
(***************************************************************************)
(* What util.PriorityQueue promises its clients: a map from keys to        *)
(* priorities that each operation changes in one step.  Pop takes one of   *)
(* the keys of highest priority.                                           *)
(***************************************************************************)
EXTENDS ScanQueue

CONSTANTS Keys, Priorities, NoKey

VARIABLES contents,   \* key -> priority
          popped      \* the key that the last Pop returned

queueVars == <<contents, popped>>

QueueInit == contents = EmptyQueue /\ popped = NoKey

QueueAdd(k, p) ==
    ~HasKey(contents, k) /\ contents' = Add(contents, k, p) /\ UNCHANGED popped

QueueSet(k, p) ==
    HasKey(contents, k) /\ contents' = [contents EXCEPT ![k] = p] /\ UNCHANGED popped

QueueRemove(k) ==
    HasKey(contents, k) /\ contents' = Remove(contents, k) /\ UNCHANGED popped

QueuePop ==
    \E k \in Peek(contents) : contents' = Remove(contents, k) /\ popped' = k

QueueNext ==
    \/ \E k \in Keys, p \in Priorities : QueueAdd(k, p) \/ QueueSet(k, p)
    \/ \E k \in Keys : QueueRemove(k)
    \/ QueuePop

QueueSpec == QueueInit /\ [][QueueNext]_queueVars
=============================================================================
