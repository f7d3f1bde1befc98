--------------------------- MODULE PriorityQueue ---------------------------
(***************************************************************************)
(* pkg/util/priorityqueue.go: a max heap of nodes with an index of their   *)
(* keys, which gives Set and Remove the place of a key.                    *)
(*                                                                         *)
(* An operation changes the heap, then sifts one node up, or up and then   *)
(* down, before it returns.  Each turn of a sifting loop is a step here,   *)
(* and no operation begins before the loops of the one before have ended.  *)
(***************************************************************************)
EXTENDS ScanQueue

CONSTANTS Keys, Priorities,
          NoKey,            \* no key was popped yet
          InitialCapacity   \* of the slice that holds the nodes

ASSUME PrioritiesAssumption == Priorities \subseteq Int
ASSUME CapacityAssumption == InitialCapacity \in Nat \ {0}

VARIABLES items,        \* the nodes, at 0 .. size - 1
          size,
          keyToIndex,   \* key -> its place among the items
          capacity,     \* the length of the slice that holds the nodes
          sift,         \* the sifting loop that runs, or AtRest
          popped        \* what the last Pop returned

vars == <<items, size, keyToIndex, capacity, sift, popped>>

Node == [key : Keys, priority : Priorities]

AtRest == [at |-> "Rest", index |-> 0, from |-> 0, then |-> "Rest"]
GoingUp(i, then) == [at |-> "Up", index |-> i, from |-> i, then |-> then]
GoingDown(i) == [at |-> "Down", index |-> i, from |-> i, then |-> "Rest"]

Resting == sift.at = "Rest"

Init ==
    /\ items = [i \in {} |-> 0] /\ size = 0
    /\ keyToIndex = [k \in {} |-> 0]
    /\ capacity = InitialCapacity
    /\ sift = AtRest /\ popped = NoKey

\* Go's division truncates: the parent of the root is the root.
parent(i) == IF i = 0 THEN 0 ELSE (i - 1) \div 2
leftChild(i) == 2 * i + 1
rightChild(i) == 2 * i + 2

-----------------------------------------------------------------------------
(* The operations.  Those that return an error change nothing.             *)

\* Mutant of resizeIfNecessary: a slice that is one short passes for enough.
resizeTooLate == IF size <= capacity THEN capacity ELSE 2 * capacity

resizeIfNecessary == IF size < capacity THEN capacity ELSE 2 * capacity

\* The size is raised after the loop in the code; siftUp does not read it.
AddNode(k, p) ==
    /\ Resting /\ k \notin DOMAIN keyToIndex
    /\ capacity' = resizeIfNecessary
    /\ items' = [i \in 0 .. size |->
                    IF i = size THEN [key |-> k, priority |-> p] ELSE items[i]]
    /\ keyToIndex' = [x \in DOMAIN keyToIndex \cup {k} |->
                         IF x = k THEN size ELSE keyToIndex[x]]
    /\ size' = size + 1
    /\ sift' = GoingUp(size, "Rest")
    /\ UNCHANGED popped

\* Mutant of DropNode: the index keeps the old place of the node that moves.
DropNodeOnly(i) ==
    /\ size' = size - 1
    /\ items' = [j \in 0 .. size - 2 |-> IF j = i THEN items[size - 1] ELSE items[j]]
    /\ keyToIndex' = [k \in DOMAIN keyToIndex \ {items[i].key} |-> keyToIndex[k]]
    /\ UNCHANGED capacity

\* The last node takes the place of the one that goes.
DropNode(i) ==
    /\ size' = size - 1
    /\ items' = [j \in 0 .. size - 2 |-> IF j = i THEN items[size - 1] ELSE items[j]]
    /\ keyToIndex' = [k \in DOMAIN keyToIndex \ {items[i].key} |->
                         IF k = items[size - 1].key THEN i ELSE keyToIndex[k]]
    /\ UNCHANGED capacity

\* Mutant of Pop: it takes the node that is stored last.
PopLast ==
    /\ Resting /\ size > 0
    /\ DropNode(size - 1)
    /\ popped' = items[size - 1].key
    /\ UNCHANGED sift

Pop ==
    /\ Resting /\ size > 0
    /\ DropNode(0)
    /\ popped' = items[0].key
    /\ sift' = IF size > 1 THEN GoingDown(0) ELSE AtRest

Set(k, p) ==
    /\ Resting /\ k \in DOMAIN keyToIndex
    /\ items' = [items EXCEPT ![keyToIndex[k]].priority = p]
    /\ sift' = GoingUp(keyToIndex[k], "Down")
    /\ UNCHANGED <<size, keyToIndex, capacity, popped>>

\* Mutant of RemoveKey: the node that takes the place only goes down.
RemoveKeyAndSiftDown(k) ==
    /\ Resting /\ k \in DOMAIN keyToIndex
    /\ DropNode(keyToIndex[k])
    /\ sift' = IF keyToIndex[k] < size - 1 THEN GoingDown(keyToIndex[k]) ELSE AtRest
    /\ UNCHANGED popped

RemoveKey(k) ==
    /\ Resting /\ k \in DOMAIN keyToIndex
    /\ DropNode(keyToIndex[k])
    /\ sift' = IF keyToIndex[k] < size - 1 THEN GoingUp(keyToIndex[k], "Down") ELSE AtRest
    /\ UNCHANGED popped

-----------------------------------------------------------------------------
(* The sifting loops.                                                      *)

swap(i, j) ==
    /\ items' = [items EXCEPT ![i] = items[j], ![j] = items[i]]
    /\ keyToIndex' = [keyToIndex EXCEPT ![items[j].key] = i, ![items[i].key] = j]

Below(i, j) == items[i].priority < items[j].priority

\* The loop goes all the way to the root, whether or not it swaps.
SiftUpStep ==
    /\ sift.at = "Up"
    /\ IF Below(parent(sift.index), sift.index)
       THEN swap(sift.index, parent(sift.index))
       ELSE UNCHANGED <<items, keyToIndex>>
    /\ sift' = IF sift.index > 0 THEN [sift EXCEPT !.index = parent(@)]
               ELSE IF sift.then = "Down" THEN GoingDown(sift.from)
               ELSE AtRest
    /\ UNCHANGED <<size, capacity, popped>>

\* Mutant of Larger: the right child is compared with the parent only.
LargerThanParent(i) ==
    LET l == leftChild(i)
        r == rightChild(i)
        m == IF l < size /\ Below(i, l) THEN l ELSE i
    IN  IF r < size /\ Below(i, r) THEN r ELSE m

\* The place of the highest among a node and its children.
Larger(i) ==
    LET l == leftChild(i)
        r == rightChild(i)
        m == IF l < size /\ Below(i, l) THEN l ELSE i
    IN  IF r < size /\ Below(m, r) THEN r ELSE m

SiftDownStep ==
    /\ sift.at = "Down"
    /\ IF Larger(sift.index) = sift.index
       THEN sift' = AtRest /\ UNCHANGED <<items, keyToIndex>>
       ELSE /\ swap(sift.index, Larger(sift.index))
            /\ sift' = GoingDown(Larger(sift.index))
    /\ UNCHANGED <<size, capacity, popped>>

Next ==
    \/ \E k \in Keys, p \in Priorities : AddNode(k, p) \/ Set(k, p)
    \/ \E k \in Keys : RemoveKey(k)
    \/ Pop \/ SiftUpStep \/ SiftDownStep

Spec == Init /\ [][Next]_vars

-----------------------------------------------------------------------------
(* Properties.                                                             *)

\* Every variable has its type, and the nodes fit into their slice.
HeapTypeOK ==
    /\ size \in Nat /\ items \in [0 .. size - 1 -> Node]
    /\ DOMAIN keyToIndex \subseteq Keys
    /\ keyToIndex \in [DOMAIN keyToIndex -> 0 .. size - 1]
    /\ capacity \in Nat \ {0} /\ size <= capacity
    /\ sift \in [at : {"Rest", "Up", "Down"}, index : Nat, from : Nat,
                 then : {"Rest", "Down"}]
    /\ popped \in Keys \cup {NoKey}

\* The index says of every node where it is, in the middle of a loop, too: so
\* Set and Remove find the node of their key, and no key is there twice.
IndexMatchesItems ==
    /\ \A i \in 0 .. size - 1 :
          items[i].key \in DOMAIN keyToIndex /\ keyToIndex[items[i].key] = i
    /\ \A k \in DOMAIN keyToIndex : items[keyToIndex[k]].key = k

\* Between operations no node is above its parent.
HeapOrdered ==
    Resting => \A i \in 1 .. size - 1 : ~Below(parent(i), i)

\* The priority of each key.
Contents == [k \in DOMAIN keyToIndex |-> items[keyToIndex[k]].priority]

\* Between operations the root, which Peek returns, has the highest priority:
\* the image that is scanned next is one of those that matter most.
RootIsHighest == Resting /\ size > 0 => items[0].key \in Peek(Contents)

Queue == INSTANCE KeyedQueue WITH contents <- Contents

\* The heap implements the queue of keys that the core model relies on: the
\* sifting loops change no priority and lose no key, and Pop returns and takes
\* one of the highest.
ImplementsKeyedQueue == Queue!QueueSpec
=============================================================================
