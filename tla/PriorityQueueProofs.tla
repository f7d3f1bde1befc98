------------------------ MODULE PriorityQueueProofs ------------------------
(***************************************************************************)
(* The heap is ordered between operations, its index matches it at all     *)
(* times, its root has the highest priority, and it implements KeyedQueue: *)
(* for any keys, priorities and initial capacity.                          *)
(***************************************************************************)
EXTENDS PriorityQueue, WellFoundedInduction, TLAPS

Places == 0 .. size - 1
Children(i) == {c \in Places : c > 0 /\ parent(c) = i}
Ordered(c) == ~Below(parent(c), c)

\* While a node goes up from a place: it may be above its parent, the nodes
\* below the place where it started may be above that, and nothing else is out
\* of order.  Its parent is not below any of its children.  Once it has left its
\* place, either it was swapped, and the place it started from is in order with
\* what is below it, or it was not, and will not be.
UpAt(i, f, then) ==
    /\ i <= f /\ f < size
    /\ then = "Rest" => f = size - 1
    /\ \A c \in Places : c > 0 /\ c # i /\ parent(c) # f => Ordered(c)
    /\ i > 0 => \A c \in Children(i) : ~Below(parent(i), c)
    /\ i # f => \/ \A c \in Children(f) : Ordered(c)
                \/ /\ i > 0 => Ordered(i)
                   /\ \A c \in Children(f) : ~Below(parent(f), c)

\* While a node goes down: it may be below its children, and nothing else is
\* out of order.  Its parent is not below any of its children.
DownAt(i) ==
    /\ i < size
    /\ \A c \in Places : c > 0 /\ parent(c) # i => Ordered(c)
    /\ i > 0 => \A c \in Children(i) : ~Below(parent(i), c)

HeapInv ==
    /\ HeapTypeOK
    /\ IndexMatchesItems
    /\ HeapOrdered
    /\ sift.at = "Up" => UpAt(sift.index, sift.from, sift.then)
    /\ sift.at = "Down" => DownAt(sift.index)

-----------------------------------------------------------------------------
(* The tree.                                                               *)

\* A node is one of the two children of its parent, which comes before it.
LEMMA ParentOf ==
    ASSUME NEW c \in Nat, c > 0
    PROVE  /\ parent(c) \in Nat /\ parent(c) < c
           /\ c = leftChild(parent(c)) \/ c = rightChild(parent(c))
  BY DEF parent, leftChild, rightChild

\* The children of a node are its left and its right child.
LEMMA ChildrenOf ==
    ASSUME NEW i \in Nat, NEW c \in Nat, c > 0
    PROVE  /\ parent(c) = i <=> c = leftChild(i) \/ c = rightChild(i)
           /\ leftChild(i) \in Nat /\ rightChild(i) \in Nat
           /\ i < leftChild(i) /\ leftChild(i) < rightChild(i)
  BY DEF parent, leftChild, rightChild

\* Every set of naturals that is not empty has a least element.
LEMMA LeastNumber ==
    ASSUME NEW T \in SUBSET Nat, T # {}
    PROVE  \E x \in T : \A y \in T : x <= y
<1>1. PICK x \in T : \A y \in T : ~ (<<y, x>> \in OpToRel(<, Nat))
  BY NatLessThanWellFounded, WFMin, Zenon
<1>2. ASSUME NEW y \in T PROVE x <= y
  <2>1. <<y, x>> \in Nat \X Nat
    OBVIOUS
  <2>2. ~(y < x)
    BY <1>1, <2>1 DEF OpToRel
  <2> QED
    BY <2>2
<1> QED
  BY <1>2

\* The priority of a node is a number.
LEMMA PrioritiesOfItems ==
    ASSUME HeapTypeOK
    PROVE  \A i \in Places : items[i] \in Node /\ items[i].priority \in Int
  BY PrioritiesAssumption DEF HeapTypeOK, Places, Node

\* In a heap that is in order the root is highest: of the nodes above it the
\* one that comes first would be above its parent.
LEMMA OrderedRoot ==
    ASSUME HeapTypeOK, \A c \in Places : c > 0 => Ordered(c)
    PROVE  \A i \in Places : ~Below(0, i)
<1> DEFINE above == {i \in Places : Below(0, i)}
<1>1. SUFFICES ASSUME above # {} PROVE FALSE
  OBVIOUS
<1>2. above \in SUBSET Nat
  BY DEF Places, HeapTypeOK
<1>3. PICK c \in above : \A y \in above : c <= y
  BY <1>1, <1>2, LeastNumber
<1>4. c \in Places /\ Below(0, c) /\ 0 \in Places
  BY <1>3 DEF Places, HeapTypeOK
<1>5. c > 0
  BY <1>4, PrioritiesOfItems DEF Below, Places
<1>6. parent(c) \in Places /\ parent(c) < c /\ c \in Nat
  BY <1>4, <1>5, ParentOf DEF Places, HeapTypeOK
<1>7. ~Below(0, parent(c))
  BY <1>3, <1>6, <1>2
<1>8. ~Below(parent(c), c)
  BY <1>4, <1>5 DEF Ordered
<1>9. /\ items[0].priority \in Int
      /\ items[c].priority \in Int
      /\ items[parent(c)].priority \in Int
  BY <1>4, <1>6, PrioritiesOfItems
<1> HIDE DEF above
<1> QED
  BY <1>4, <1>7, <1>8, <1>9 DEF Below

-----------------------------------------------------------------------------
(* The sifting loops.                                                      *)

Loops == [at : {"Rest", "Up", "Down"}, index : Nat, from : Nat, then : {"Rest", "Down"}]

\* A swap moves two nodes, and the index follows; no key changes its priority.
LEMMA SwapKeeps ==
    ASSUME HeapTypeOK, IndexMatchesItems, NEW i \in Places, NEW j \in Places,
           i # j, swap(i, j), size' = size
    PROVE  /\ items' \in [0 .. size - 1 -> Node]
           /\ DOMAIN keyToIndex' = DOMAIN keyToIndex
           /\ keyToIndex' \in [DOMAIN keyToIndex -> 0 .. size - 1]
           /\ items'[i] = items[j] /\ items'[j] = items[i]
           /\ \A x \in Places \ {i, j} : items'[x] = items[x]
           /\ IndexMatchesItems'
           /\ Contents' = Contents
<1>1. /\ items \in [0 .. size - 1 -> Node] /\ i \in 0 .. size - 1 /\ j \in 0 .. size - 1
      /\ items' = [items EXCEPT ![i] = items[j], ![j] = items[i]]
  BY DEF HeapTypeOK, Places, swap
<1>2. /\ items' \in [0 .. size - 1 -> Node]
      /\ items'[i] = items[j] /\ items'[j] = items[i]
      /\ \A x \in 0 .. size - 1 : x # i /\ x # j => items'[x] = items[x]
  BY <1>1
<1>3. /\ items[i].key \in DOMAIN keyToIndex /\ keyToIndex[items[i].key] = i
      /\ items[j].key \in DOMAIN keyToIndex /\ keyToIndex[items[j].key] = j
      /\ items[i].key # items[j].key
  BY <1>1 DEF IndexMatchesItems
<1>4. keyToIndex' = [keyToIndex EXCEPT ![items[j].key] = i, ![items[i].key] = j]
  BY DEF swap
<1>5. keyToIndex \in [DOMAIN keyToIndex -> 0 .. size - 1]
  BY DEF HeapTypeOK
<1>6. /\ DOMAIN keyToIndex' = DOMAIN keyToIndex
      /\ keyToIndex' \in [DOMAIN keyToIndex -> 0 .. size - 1]
      /\ keyToIndex'[items[j].key] = i /\ keyToIndex'[items[i].key] = j
      /\ \A k \in DOMAIN keyToIndex :
            k # items[i].key /\ k # items[j].key => keyToIndex'[k] = keyToIndex[k]
  BY <1>1, <1>3, <1>4, <1>5
<1>7. IndexMatchesItems'
  <2>1. ASSUME NEW x \in 0 .. size - 1
        PROVE  items'[x].key \in DOMAIN keyToIndex' /\ keyToIndex'[items'[x].key] = x
    <3>1. x # i /\ x # j => items[x].key # items[i].key /\ items[x].key # items[j].key
      BY <1>1 DEF IndexMatchesItems
    <3> QED
      BY <1>2, <1>3, <1>6, <3>1 DEF IndexMatchesItems
  <2>2. ASSUME NEW k \in DOMAIN keyToIndex'
        PROVE  items'[keyToIndex'[k]].key = k
    <3>1. CASE k = items[i].key \/ k = items[j].key
      BY <1>2, <1>6, <3>1
    <3>2. CASE k # items[i].key /\ k # items[j].key
      <4>1. keyToIndex'[k] = keyToIndex[k] /\ keyToIndex[k] \in 0 .. size - 1
        BY <1>5, <1>6, <3>2
      <4>2. keyToIndex[k] # i /\ keyToIndex[k] # j /\ items[keyToIndex[k]].key = k
        BY <1>6, <3>2 DEF IndexMatchesItems
      <4> QED
        BY <1>2, <4>1, <4>2
    <3> QED
      BY <3>1, <3>2
  <2> QED
    BY <2>1, <2>2 DEF IndexMatchesItems
<1>8. Contents' = Contents
  <2>1. ASSUME NEW k \in DOMAIN keyToIndex
        PROVE  items'[keyToIndex'[k]] = items[keyToIndex[k]]
    <3>1. CASE k = items[i].key \/ k = items[j].key
      BY <1>2, <1>3, <1>6, <3>1
    <3>2. CASE k # items[i].key /\ k # items[j].key
      <4>1. keyToIndex'[k] = keyToIndex[k] /\ keyToIndex[k] \in 0 .. size - 1
        BY <1>5, <1>6, <3>2
      <4>2. keyToIndex[k] # i /\ keyToIndex[k] # j
        BY <3>2 DEF IndexMatchesItems
      <4> QED
        BY <1>2, <4>1, <4>2
    <3> QED
      BY <3>1, <3>2
  <2> QED
    BY <1>6, <2>1 DEF Contents
<1> QED
  BY <1>2, <1>6, <1>7, <1>8 DEF Places

\* Below compares priorities, which are numbers.
LEMMA BelowIsAnOrder ==
    ASSUME HeapTypeOK, NEW x \in Places, NEW y \in Places, NEW z \in Places
    PROVE  /\ ~Below(x, y) /\ ~Below(y, z) => ~Below(x, z)
           /\ Below(x, y) => ~Below(y, x)
           /\ ~Below(x, x)
<1>1. items[x].priority \in Int /\ items[y].priority \in Int /\ items[z].priority \in Int
  BY PrioritiesOfItems
<1> QED
  BY <1>1 DEF Below

\* The parent of a place is a place.
LEMMA ParentPlace ==
    ASSUME HeapTypeOK, NEW c \in Places, c > 0
    PROVE  parent(c) \in Places /\ parent(c) < c
<1>1. c \in Nat
  BY DEF HeapTypeOK, Places
<1> QED
  BY <1>1, ParentOf DEF HeapTypeOK, Places

\* A turn of siftUp that swaps: what it does to the order.
LEMMA UpSwap ==
    ASSUME HeapTypeOK, IndexMatchesItems, NEW i \in Nat, NEW f \in Nat, NEW then,
           UpAt(i, f, then), i > 0, Below(parent(i), i),
           swap(i, parent(i)), size' = size
    PROVE  UpAt(parent(i), f, then)'
<1> DEFINE p == parent(i)
<1>1. i \in Places /\ f \in Places /\ i <= f /\ i > 0 /\ f > 0
  BY DEF HeapTypeOK, UpAt, Places
<1>2. p \in Places /\ p < i /\ p # i /\ p # f
  BY <1>1, ParentPlace DEF Places, HeapTypeOK
<1>4. /\ items'[i] = items[p] /\ items'[p] = items[i]
      /\ \A x \in Places \ {i, p} : items'[x] = items[x]
  BY <1>1, <1>2, SwapKeeps
<1>5. \A c \in Places : c > 0 /\ c # i /\ parent(c) # f => ~Below(parent(c), c)
  BY DEF UpAt, Ordered
<1>6. \A c \in Places : c > 0 /\ parent(c) = i => ~Below(p, c)
  BY <1>1 DEF UpAt, Children
<1>7. Below(p, i)
  OBVIOUS
<1>8. Places' = Places
  BY DEF Places
<1>9. p > 0 => parent(p) \in Places /\ parent(p) < p /\ ~Below(parent(p), p)
  <2>1. p > 0 => parent(p) \in Places /\ parent(p) < p
    BY <1>2, ParentPlace
  <2>2. p > 0 => parent(p) # f /\ p # i
    BY <1>1, <1>2, <2>1 DEF Places, HeapTypeOK
  <2> QED
    BY <1>2, <1>5, <2>1, <2>2
<1> HIDE DEF p
<1>10. ASSUME NEW c \in Places, c > 0, c # p, parent(c) # f
       PROVE  ~Below(parent(c), c)'
  <2>1. parent(c) \in Places /\ parent(c) < c
    BY <1>10, ParentPlace
  <2>2. CASE c = i
    <3>1. parent(c) = p
      BY <2>2 DEF p
    <3> QED
      BY <1>1, <1>2, <1>4, <1>7, <2>2, <3>1, BelowIsAnOrder DEF Below
  <2>3. CASE c # i /\ parent(c) = i
    <3>1. ~Below(p, c) /\ items'[c] = items[c] /\ items'[i] = items[p]
      BY <1>4, <1>6, <1>10, <2>3
    <3> QED
      BY <2>3, <3>1 DEF Below
  <2>4. CASE c # i /\ parent(c) = p
    <3>1. ~Below(p, c)
      BY <1>5, <1>10, <2>4
    <3>2. ~Below(i, p)
      BY <1>1, <1>2, <1>7, BelowIsAnOrder
    <3>3. ~Below(i, c)
      BY <1>1, <1>2, <3>1, <3>2, BelowIsAnOrder
    <3>4. items'[c] = items[c] /\ items'[p] = items[i]
      BY <1>4, <1>10, <2>4
    <3> QED
      BY <2>4, <3>3, <3>4 DEF Below
  <2>5. CASE c # i /\ parent(c) # i /\ parent(c) # p
    <3>1. ~Below(parent(c), c)
      BY <1>5, <1>10, <2>5
    <3>2. items'[c] = items[c] /\ items'[parent(c)] = items[parent(c)]
      BY <1>4, <1>10, <2>1, <2>5
    <3> QED
      BY <3>1, <3>2 DEF Below
  <2> QED
    BY <2>2, <2>3, <2>4, <2>5
<1>11. ASSUME p > 0, NEW c \in Places, c > 0, parent(c) = p
       PROVE  ~Below(parent(p), c)'
  <2>1. parent(p) # i /\ parent(p) # p /\ parent(p) \in Places
    BY <1>2, <1>9, <1>11, <1>1 DEF Places, HeapTypeOK
  <2>2. items'[parent(p)] = items[parent(p)]
    BY <1>4, <2>1
  <2>3. CASE c = i
    BY <1>4, <1>9, <1>11, <2>2, <2>3 DEF Below
  <2>4. CASE c # i
    <3>1. c # p
      BY <1>11, ParentPlace DEF Places, HeapTypeOK
    <3>2. ~Below(p, c)
      BY <1>2, <1>5, <1>11, <2>4
    <3>3. ~Below(parent(p), c)
      BY <1>2, <1>9, <1>11, <3>2, BelowIsAnOrder
    <3> QED
      BY <1>4, <1>11, <2>2, <2>4, <3>1, <3>3 DEF Below
  <2> QED
    BY <2>3, <2>4
<1>12. ASSUME NEW c \in Places, c > 0, parent(c) = f
       PROVE  ~Below(f, c)'
  <2>1. c # i /\ c # p
    BY <1>1, <1>2, <1>12, ParentPlace DEF Places, HeapTypeOK
  <2>2. items'[c] = items[c]
    BY <1>4, <1>12, <2>1
  <2>3. CASE i = f
    BY <1>4, <1>6, <1>12, <2>2, <2>3 DEF Below
  <2>4. CASE i # f
    <3>1. items'[f] = items[f]
      BY <1>1, <1>2, <1>4, <2>4
    <3>2. (\A x \in Children(f) : Ordered(x)) \/ ~Below(p, i)
      BY <1>1, <2>4 DEF UpAt, p, Ordered
    <3>3. ~Below(f, c)
      BY <1>7, <1>12, <3>2 DEF Children, Ordered
    <3> QED
      BY <2>2, <3>1, <3>3 DEF Below
  <2> QED
    BY <2>3, <2>4
<1>13. \A c \in Places : c > 0 /\ c # p /\ parent(c) # f => Ordered(c)'
  BY <1>10 DEF Ordered
<1>14. p > 0 => \A c \in Children(p)' : ~Below(parent(p), c)'
  BY <1>8, <1>11 DEF Children
<1>15. \A c \in Children(f)' : Ordered(c)'
  BY <1>8, <1>12 DEF Children, Ordered
<1>16. p <= f /\ f < size' /\ (then = "Rest" => f = size' - 1)
  BY <1>1, <1>2 DEF Places, HeapTypeOK, UpAt
<1> QED
  BY <1>8, <1>13, <1>14, <1>15, <1>16 DEF UpAt, p

\* A turn of siftUp that does not swap, and is not the last one.
LEMMA UpStay ==
    ASSUME HeapTypeOK, NEW i \in Nat, NEW f \in Nat, NEW then,
           UpAt(i, f, then), i > 0, ~Below(parent(i), i)
    PROVE  UpAt(parent(i), f, then)
<1> DEFINE p == parent(i)
<1>1. i \in Places /\ f \in Places /\ i <= f /\ i > 0 /\ f > 0
  BY DEF HeapTypeOK, UpAt, Places
<1>2. p \in Places /\ p < i /\ p # i /\ p # f
  BY <1>1, ParentPlace DEF Places, HeapTypeOK
<1>3. \A c \in Places : c > 0 /\ parent(c) # f => ~Below(parent(c), c)
  BY DEF UpAt, Ordered
<1>4. p > 0 => parent(p) \in Places /\ parent(p) < p /\ parent(p) # f
  BY <1>1, <1>2, ParentPlace DEF Places, HeapTypeOK
<1>5. (\A c \in Children(f) : ~Below(f, c)) \/ (\A c \in Children(f) : ~Below(parent(f), c))
  <2>1. CASE i = f
    BY <1>1, <2>1 DEF UpAt
  <2>2. CASE i # f
    BY <2>2 DEF UpAt, Children, Ordered
  <2> QED
    BY <2>1, <2>2
<1> HIDE DEF p
<1>7. ASSUME p > 0, NEW c \in Children(p)
      PROVE  ~Below(parent(p), c)
  <2>1. c \in Places /\ c > 0 /\ parent(c) = p
    BY DEF Children
  <2>2. ~Below(p, c)
    BY <1>2, <1>3, <2>1
  <2>3. ~Below(parent(p), p)
    BY <1>2, <1>3, <1>4, <1>7
  <2> QED
    BY <1>2, <1>4, <1>7, <2>1, <2>2, <2>3, BelowIsAnOrder
<1>8. p > 0 => Ordered(p)
  BY <1>2, <1>3, <1>4 DEF Ordered
<1>9. (\A c \in Children(f) : Ordered(c)) \/ (\A c \in Children(f) : ~Below(parent(f), c))
  BY <1>5 DEF Children, Ordered
<1>10. p <= f /\ f < size /\ (then = "Rest" => f = size - 1)
  BY <1>1, <1>2 DEF Places, HeapTypeOK, UpAt
<1>11. \A c \in Places : c > 0 /\ c # p /\ parent(c) # f => Ordered(c)
  BY <1>3 DEF Ordered
<1> QED
  BY <1>7, <1>8, <1>9, <1>10, <1>11 DEF UpAt, p

\* When siftUp arrives at the root, only the children of the place where it
\* began may be out of order.
LEMMA UpEnds ==
    ASSUME HeapTypeOK, NEW f \in Nat, NEW then, UpAt(0, f, then)
    PROVE  DownAt(f) /\ (then = "Rest" => \A c \in Places : c > 0 => Ordered(c))
<1>1. \A c \in Places : c > 0 /\ parent(c) # f => Ordered(c)
  BY DEF UpAt, Places, HeapTypeOK
<1>2. ASSUME f > 0, NEW c \in Children(f) PROVE ~Below(parent(f), c)
  <2>1. f \in Places
    BY DEF UpAt, Places, HeapTypeOK
  <2>2. parent(f) \in Places /\ parent(f) < f /\ ~Below(parent(f), f)
    BY <1>1, <1>2, <2>1, ParentPlace DEF Ordered, Places, HeapTypeOK
  <2>3. (\A x \in Children(f) : Ordered(x)) \/ (\A x \in Children(f) : ~Below(parent(f), x))
    BY <1>2 DEF UpAt
  <2>4. c \in Places /\ c > 0 /\ parent(c) = f
    BY <1>2 DEF Children
  <2>5. ~Below(f, c) => ~Below(parent(f), c)
    BY <2>1, <2>2, <2>4, BelowIsAnOrder
  <2> QED
    BY <1>2, <2>3, <2>4, <2>5 DEF Ordered
<1>3. ASSUME then = "Rest", NEW c \in Places, c > 0 PROVE parent(c) # f
  <2>1. parent(c) < c
    BY <1>3, ParentPlace
  <2>2. parent(c) \in Places /\ f = size - 1
    BY <1>3, ParentPlace DEF UpAt
  <2> QED
    BY <2>1, <2>2 DEF Places, HeapTypeOK
<1>4. f < size
  BY DEF UpAt
<1> QED
  BY <1>1, <1>2, <1>3, <1>4 DEF DownAt

\* Larger finds a child that no other is above, if one is above its parent.
LEMMA LargerOf ==
    ASSUME HeapTypeOK, NEW i \in Places
    PROVE  /\ Larger(i) = i => \A c \in Children(i) : ~Below(i, c)
           /\ Larger(i) # i => /\ Larger(i) \in Children(i)
                               /\ Below(i, Larger(i))
                               /\ \A c \in Children(i) : ~Below(Larger(i), c)
<1> DEFINE l == leftChild(i)
           r == rightChild(i)
<1>1. i \in Nat /\ size \in Nat
  BY DEF HeapTypeOK, Places
<1>2. l \in Nat /\ r \in Nat /\ i < l /\ l < r /\ parent(l) = i /\ parent(r) = i
  BY <1>1, ChildrenOf
<1>3. /\ l < size => l \in Children(i)
      /\ r < size => r \in Children(i) /\ l \in Children(i)
  BY <1>1, <1>2 DEF Children, Places
<1>4. \A c \in Children(i) : (c = l /\ l < size) \/ (c = r /\ r < size)
  BY <1>1, ChildrenOf DEF Children, Places
<1>5. l # i /\ r # i
  BY <1>1, <1>2
<1> HIDE DEF l, r
<1> DEFINE m == IF l < size /\ Below(i, l) THEN l ELSE i
<1>6. Larger(i) = IF r < size /\ Below(m, r) THEN r ELSE m
  BY DEF Larger, l, r
<1>7. /\ l < size => l \in Places
      /\ r < size => r \in Places
  BY <1>3 DEF Children
<1>8. CASE l < size /\ Below(i, l)
  <2>1. m = l /\ l \in Places
    BY <1>7, <1>8
  <2> HIDE DEF m
  <2>2. CASE r < size /\ Below(l, r)
    <3>1. Larger(i) = r /\ r \in Places
      BY <1>6, <1>7, <2>1, <2>2
    <3>2. Below(i, r) /\ ~Below(r, l) /\ ~Below(r, r)
      <4>1. ~Below(l, i) /\ (~Below(i, r) /\ ~Below(l, i) => ~Below(l, r))
        BY <1>8, <2>1, <3>1, BelowIsAnOrder
      <4> QED
        BY <2>1, <2>2, <3>1, <4>1, BelowIsAnOrder
    <3> QED
      BY <1>3, <1>4, <1>5, <2>2, <3>1, <3>2
  <2>3. CASE ~(r < size /\ Below(l, r))
    <3>1. Larger(i) = l
      BY <1>6, <2>1, <2>3
    <3>2. ~Below(l, l)
      BY <2>1, BelowIsAnOrder
    <3> QED
      BY <1>3, <1>4, <1>5, <1>8, <2>3, <3>1, <3>2
  <2> QED
    BY <2>2, <2>3
<1>9. CASE ~(l < size /\ Below(i, l))
  <2>1. m = i
    BY <1>9
  <2> HIDE DEF m
  <2>2. CASE r < size /\ Below(i, r)
    <3>1. Larger(i) = r /\ r \in Places
      BY <1>6, <1>7, <2>1, <2>2
    <3>2. l < size /\ l \in Places /\ ~Below(i, l)
      BY <1>3, <1>4, <1>9, <2>2 DEF Children, Places, HeapTypeOK
    <3>3. ~Below(r, l) /\ ~Below(r, r)
      BY <2>2, <3>1, <3>2, BelowIsAnOrder
    <3> QED
      BY <1>3, <1>4, <1>5, <2>2, <3>1, <3>3
  <2>3. CASE ~(r < size /\ Below(i, r))
    BY <1>4, <1>6, <1>9, <2>1, <2>3
  <2> QED
    BY <2>2, <2>3
<1> QED
  BY <1>8, <1>9

\* A turn of siftDown that swaps.
LEMMA DownSwap ==
    ASSUME HeapTypeOK, IndexMatchesItems, NEW i \in Nat, NEW m \in Nat,
           DownAt(i), m = Larger(i), m # i, swap(i, m), size' = size
    PROVE  DownAt(m)' /\ m \in Places
<1>1. i \in Places
  BY DEF DownAt, Places, HeapTypeOK
<1>2. m \in Children(i) /\ Below(i, m) /\ \A c \in Children(i) : ~Below(m, c)
  BY <1>1, LargerOf
<1>3. m \in Places /\ m > 0 /\ parent(m) = i
  BY <1>2 DEF Children
<1>4. i < m
  BY <1>3, ParentPlace
<1>5. /\ items'[i] = items[m] /\ items'[m] = items[i]
      /\ \A x \in Places \ {i, m} : items'[x] = items[x]
  BY <1>1, <1>3, SwapKeeps
<1>6. \A c \in Places : c > 0 /\ parent(c) # i => ~Below(parent(c), c)
  BY DEF DownAt, Ordered
<1>7. Places' = Places
  BY DEF Places
<1>8. ASSUME NEW c \in Places, c > 0, parent(c) # m
      PROVE  ~Below(parent(c), c)'
  <2>1. parent(c) \in Places /\ parent(c) < c
    BY <1>8, ParentPlace
  <2>2. CASE c = m
    <3>1. ~Below(m, i)
      BY <1>1, <1>2, <1>3, BelowIsAnOrder
    <3> QED
      BY <1>3, <1>5, <2>2, <3>1 DEF Below
  <2>3. CASE c # m /\ parent(c) = i
    <3>1. ~Below(m, c)
      BY <1>2, <1>8, <2>3 DEF Children
    <3>2. c # i
      BY <2>1, <2>3 DEF Places, HeapTypeOK
    <3>3. items'[c] = items[c]
      BY <1>5, <1>8, <2>3, <3>2
    <3> QED
      BY <1>5, <2>3, <3>1, <3>3 DEF Below
  <2>4. CASE c = i
    <3>1. i > 0 /\ ~Below(parent(i), m)
      BY <1>2, <1>8, <2>4 DEF DownAt
    <3>2. parent(i) # i /\ parent(i) # m /\ parent(i) \in Places
      BY <1>4, <1>8, <2>1, <2>4 DEF Places, HeapTypeOK
    <3>3. items'[parent(i)] = items[parent(i)]
      BY <1>5, <3>2
    <3> QED
      BY <1>5, <2>4, <3>1, <3>3 DEF Below
  <2>5. CASE c # m /\ c # i /\ parent(c) # i
    <3>1. items'[c] = items[c] /\ items'[parent(c)] = items[parent(c)]
      BY <1>5, <1>8, <2>1, <2>5
    <3> QED
      BY <1>6, <1>8, <2>5, <3>1 DEF Below
  <2> QED
    BY <2>2, <2>3, <2>4, <2>5
<1>9. ASSUME NEW c \in Places, c > 0, parent(c) = m
      PROVE  ~Below(parent(m), c)'
  <2>1. c # m /\ c # i
    BY <1>1, <1>3, <1>4, <1>9, ParentPlace DEF Places, HeapTypeOK
  <2>2. ~Below(m, c)
    BY <1>3, <1>4, <1>6, <1>9
  <2>3. items'[c] = items[c]
    BY <1>5, <1>9, <2>1
  <2> QED
    BY <1>3, <1>5, <2>2, <2>3 DEF Below
<1>10. \A c \in Places : c > 0 /\ parent(c) # m => Ordered(c)'
  BY <1>8 DEF Ordered
<1>11. \A c \in Children(m)' : ~Below(parent(m), c)'
  BY <1>7, <1>9 DEF Children
<1>12. m < size'
  BY <1>3 DEF Places, HeapTypeOK
<1> QED
  BY <1>3, <1>7, <1>10, <1>11, <1>12 DEF DownAt

\* A turn of siftDown that does not swap ends with a heap in order.
LEMMA DownEnds ==
    ASSUME HeapTypeOK, NEW i \in Nat, DownAt(i), Larger(i) = i
    PROVE  \A c \in Places : c > 0 => Ordered(c)
<1>1. i \in Places
  BY DEF DownAt, Places, HeapTypeOK
<1>2. \A c \in Children(i) : ~Below(i, c)
  BY <1>1, LargerOf
<1> QED
  BY <1>2 DEF DownAt, Children, Ordered

-----------------------------------------------------------------------------
(* The operations.                                                         *)

\* A node that is added is known to the index, and no other node moves.
LEMMA AddKeeps ==
    ASSUME HeapTypeOK, IndexMatchesItems, NEW k \in Keys, NEW p \in Priorities,
           AddNode(k, p)
    PROVE  /\ size' = size + 1 /\ items' \in [0 .. size' - 1 -> Node]
           /\ DOMAIN keyToIndex' \subseteq Keys
           /\ keyToIndex' \in [DOMAIN keyToIndex' -> 0 .. size' - 1]
           /\ \A x \in Places : items'[x] = items[x]
           /\ IndexMatchesItems'
           /\ Contents' = Add(Contents, k, p)
           /\ capacity' \in Nat \ {0} /\ size' <= capacity'
<1>1. /\ k \notin DOMAIN keyToIndex /\ size' = size + 1
      /\ items' = [i \in 0 .. size |->
                      IF i = size THEN [key |-> k, priority |-> p] ELSE items[i]]
      /\ keyToIndex' = [x \in DOMAIN keyToIndex \cup {k} |->
                           IF x = k THEN size ELSE keyToIndex[x]]
  BY DEF AddNode
<1>2. /\ size \in Nat /\ items \in [0 .. size - 1 -> Node]
      /\ keyToIndex \in [DOMAIN keyToIndex -> 0 .. size - 1]
      /\ DOMAIN keyToIndex \subseteq Keys
  BY DEF HeapTypeOK
<1>3. [key |-> k, priority |-> p] \in Node
  BY DEF Node
<1>4. /\ items' \in [0 .. size' - 1 -> Node]
      /\ items'[size] = [key |-> k, priority |-> p]
      /\ \A x \in 0 .. size - 1 : items'[x] = items[x]
  BY <1>1, <1>2, <1>3
<1>5. /\ DOMAIN keyToIndex' = DOMAIN keyToIndex \cup {k}
      /\ keyToIndex' \in [DOMAIN keyToIndex' -> 0 .. size' - 1]
      /\ keyToIndex'[k] = size
      /\ \A x \in DOMAIN keyToIndex : keyToIndex'[x] = keyToIndex[x]
  BY <1>1, <1>2
<1>6. IndexMatchesItems'
  <2>1. ASSUME NEW i \in 0 .. size' - 1
        PROVE  items'[i].key \in DOMAIN keyToIndex' /\ keyToIndex'[items'[i].key] = i
    <3>1. CASE i = size
      BY <1>4, <1>5, <3>1
    <3>2. CASE i \in 0 .. size - 1
      BY <1>4, <1>5, <3>2 DEF IndexMatchesItems
    <3> QED
      BY <1>1, <1>2, <3>1, <3>2
  <2>2. ASSUME NEW x \in DOMAIN keyToIndex'
        PROVE  items'[keyToIndex'[x]].key = x
    <3>1. CASE x = k
      BY <1>4, <1>5, <3>1
    <3>2. CASE x \in DOMAIN keyToIndex
      BY <1>2, <1>4, <1>5, <3>2 DEF IndexMatchesItems
    <3> QED
      BY <1>5, <3>1, <3>2
  <2> QED
    BY <2>1, <2>2 DEF IndexMatchesItems
<1>7. Contents' = Add(Contents, k, p)
  <2>1. Contents' = [x \in DOMAIN keyToIndex \cup {k} |-> items'[keyToIndex'[x]].priority]
    BY <1>5 DEF Contents
  <2>2. ASSUME NEW x \in DOMAIN keyToIndex \cup {k}
        PROVE  items'[keyToIndex'[x]].priority =
                  IF x = k THEN p ELSE items[keyToIndex[x]].priority
    BY <1>1, <1>2, <1>4, <1>5
  <2>3. DOMAIN Contents = DOMAIN keyToIndex
    BY DEF Contents
  <2>4. \A x \in DOMAIN keyToIndex : Contents[x] = items[keyToIndex[x]].priority
    BY DEF Contents
  <2>5. Add(Contents, k, p) = [x \in DOMAIN keyToIndex \cup {k} |->
                                  IF x = k THEN p ELSE Contents[x]]
    BY <1>1, <2>3 DEF Add, HasKey
  <2> QED
    BY <2>1, <2>2, <2>4, <2>5
<1>8. capacity' \in Nat \ {0} /\ size' <= capacity'
  BY <1>1 DEF AddNode, resizeIfNecessary, HeapTypeOK
<1>9. DOMAIN keyToIndex' \subseteq Keys
  BY <1>2, <1>5
<1>10. \A x \in Places : items'[x] = items[x]
  BY <1>4 DEF Places
<1> QED
  BY <1>1, <1>4, <1>5, <1>6, <1>7, <1>8, <1>9, <1>10

\* A node that is dropped is not known any more; the last one takes its place.
LEMMA DropKeeps ==
    ASSUME HeapTypeOK, IndexMatchesItems, NEW i \in Places, DropNode(i)
    PROVE  /\ size' = size - 1 /\ size' \in Nat
           /\ items' \in [0 .. size' - 1 -> Node]
           /\ DOMAIN keyToIndex' \subseteq Keys
           /\ keyToIndex' \in [DOMAIN keyToIndex' -> 0 .. size' - 1]
           /\ \A x \in Places' : x # i => items'[x] = items[x]
           /\ IndexMatchesItems'
           /\ Contents' = Remove(Contents, items[i].key)
           /\ items[i].key \in DOMAIN Contents /\ items[i].key \in Keys
<1> DEFINE gone == items[i].key
           last == items[size - 1].key
<1>1. /\ size' = size - 1
      /\ items' = [j \in 0 .. size - 2 |-> IF j = i THEN items[size - 1] ELSE items[j]]
      /\ keyToIndex' = [k \in DOMAIN keyToIndex \ {gone} |->
                           IF k = last THEN i ELSE keyToIndex[k]]
  BY DEF DropNode
<1>2. /\ size \in Nat /\ items \in [0 .. size - 1 -> Node]
      /\ keyToIndex \in [DOMAIN keyToIndex -> 0 .. size - 1]
      /\ DOMAIN keyToIndex \subseteq Keys
      /\ i \in 0 .. size - 1 /\ size - 1 \in 0 .. size - 1
  BY DEF HeapTypeOK, Places
<1>3. /\ gone \in DOMAIN keyToIndex /\ keyToIndex[gone] = i
      /\ last \in DOMAIN keyToIndex /\ keyToIndex[last] = size - 1
  BY <1>2 DEF IndexMatchesItems
<1> HIDE DEF gone, last
<1>4. /\ size' \in Nat /\ items' \in [0 .. size' - 1 -> Node]
      /\ \A x \in 0 .. size' - 1 : x # i => items'[x] = items[x]
      /\ i < size - 1 => items'[i] = items[size - 1]
  BY <1>1, <1>2
<1>5. /\ DOMAIN keyToIndex' = DOMAIN keyToIndex \ {gone}
      /\ last # gone => keyToIndex'[last] = i
      /\ \A k \in DOMAIN keyToIndex : k # gone /\ k # last => keyToIndex'[k] = keyToIndex[k]
  BY <1>1, <1>3
<1>6. ASSUME NEW k \in DOMAIN keyToIndex, k # gone
      PROVE  /\ keyToIndex'[k] \in 0 .. size' - 1
             /\ items'[keyToIndex'[k]] = items[keyToIndex[k]]
             /\ items[keyToIndex[k]].key = k
  <2>1. items[keyToIndex[k]].key = k /\ keyToIndex[k] \in 0 .. size - 1
    BY <1>2 DEF IndexMatchesItems
  <2>2. CASE k = last
    <3>1. i # size - 1
      BY <1>6, <2>2 DEF gone, last
    <3> QED
      BY <1>1, <1>2, <1>3, <1>4, <1>5, <1>6, <2>1, <2>2, <3>1
  <2>3. CASE k # last
    <3>1. keyToIndex'[k] = keyToIndex[k]
      BY <1>5, <1>6, <2>3
    <3>2. keyToIndex[k] # size - 1 /\ keyToIndex[k] # i
      BY <1>6, <2>1, <2>3 DEF gone, last
    <3> QED
      BY <1>1, <1>2, <1>4, <2>1, <3>1, <3>2
  <2> QED
    BY <2>2, <2>3
<1>7. keyToIndex' \in [DOMAIN keyToIndex' -> 0 .. size' - 1]
  <2>1. keyToIndex' = [k \in DOMAIN keyToIndex' |-> keyToIndex'[k]]
    BY <1>1
  <2> QED
    BY <1>5, <1>6, <2>1
<1>8. IndexMatchesItems'
  <2>1. ASSUME NEW x \in 0 .. size' - 1
        PROVE  items'[x].key \in DOMAIN keyToIndex' /\ keyToIndex'[items'[x].key] = x
    <3>1. CASE x = i
      <4>1. items'[x].key = last
        BY <1>1, <1>2, <1>4, <2>1, <3>1 DEF last
      <4>2. last # gone
        BY <1>1, <1>2, <1>3, <2>1, <3>1
      <4> QED
        BY <1>3, <1>5, <3>1, <4>1, <4>2
    <3>2. CASE x # i
      <4>1. x \in 0 .. size - 1 /\ x # size - 1 /\ items'[x] = items[x]
        BY <1>1, <1>2, <1>4, <2>1, <3>2
      <4>2. items[x].key \in DOMAIN keyToIndex /\ keyToIndex[items[x].key] = x
        BY <4>1 DEF IndexMatchesItems
      <4>3. items[x].key # gone /\ items[x].key # last
        BY <1>3, <3>2, <4>1, <4>2
      <4> QED
        BY <1>5, <4>1, <4>2, <4>3
    <3> QED
      BY <3>1, <3>2
  <2>2. ASSUME NEW k \in DOMAIN keyToIndex'
        PROVE  items'[keyToIndex'[k]].key = k
    BY <1>5, <1>6
  <2> QED
    BY <2>1, <2>2 DEF IndexMatchesItems
<1>9. Contents' = Remove(Contents, gone)
  <2>1. Contents' = [k \in DOMAIN keyToIndex \ {gone} |-> items'[keyToIndex'[k]].priority]
    BY <1>5 DEF Contents
  <2>2. /\ DOMAIN Contents = DOMAIN keyToIndex
        /\ \A k \in DOMAIN keyToIndex : Contents[k] = items[keyToIndex[k]].priority
    BY DEF Contents
  <2>3. Remove(Contents, gone) = [k \in DOMAIN keyToIndex \ {gone} |-> Contents[k]]
    BY <2>2 DEF Remove
  <2> QED
    BY <1>6, <2>1, <2>2, <2>3
<1>10. gone \in DOMAIN Contents /\ gone \in Keys
  BY <1>2, <1>3 DEF Contents
<1> QED
  BY <1>1, <1>2, <1>4, <1>5, <1>7, <1>8, <1>9, <1>10 DEF Places, gone

\* When the node at one place of an ordered heap changes, and the last one may
\* go, it can go up and then down from there.
LEMMA OneChanged ==
    ASSUME HeapTypeOK, \A c \in Places : c > 0 => Ordered(c), NEW i \in Places,
           NEW n \in Nat, size' = n, n <= size, i < n,
           \A x \in Places' : x # i => items'[x] = items[x]
    PROVE  UpAt(i, i, "Down")' /\ (i = 0 => DownAt(i)')
<1>1. size \in Nat /\ i \in Nat /\ Places' = 0 .. n - 1 /\ Places = 0 .. size - 1
  BY DEF HeapTypeOK, Places
<1>2. ASSUME NEW c \in Places', c > 0
      PROVE  c \in Places /\ parent(c) \in Places /\ parent(c) \in Places' /\ parent(c) < c
  <2>1. c \in Places
    BY <1>1, <1>2
  <2>2. parent(c) \in Places /\ parent(c) < c
    BY <1>2, <2>1, ParentPlace
  <2>3. c \in Int /\ parent(c) \in Int /\ 0 <= parent(c) /\ c < n
    BY <1>1, <1>2, <2>2
  <2>4. parent(c) \in Places'
    BY <1>1, <2>2, <2>3
  <2> QED
    BY <2>1, <2>2, <2>4
<1>3. ASSUME NEW c \in Places', c > 0, c # i, parent(c) # i PROVE Ordered(c)'
  <2>1. items'[c] = items[c] /\ items'[parent(c)] = items[parent(c)] /\ Ordered(c)
    BY <1>2, <1>3
  <2> QED
    BY <2>1 DEF Ordered, Below
<1>4. ASSUME i > 0, NEW c \in Places', c > 0, parent(c) = i PROVE ~Below(parent(i), c)'
  <2>1. i \in Places' /\ i > 0
    BY <1>1, <1>4
  <2>2. parent(i) \in Places /\ parent(i) \in Places' /\ parent(i) < i /\ i < c
    BY <1>2, <1>4, <2>1
  <2>3. ~Below(parent(i), i) /\ ~Below(i, c) /\ c \in Places
    BY <1>2, <1>4 DEF Ordered
  <2>4. ~Below(parent(i), c)
    BY <2>2, <2>3, BelowIsAnOrder
  <2>5. c # i /\ parent(i) # i
    BY <1>1, <2>2 DEF Places
  <2>6. items'[c] = items[c] /\ items'[parent(i)] = items[parent(i)]
    BY <1>4, <2>2, <2>5
  <2> QED
    BY <2>4, <2>6 DEF Below
<1>5. \A c \in Children(i)' : i > 0 => ~Below(parent(i), c)'
  BY <1>4 DEF Children
<1>6. i = 0 => \A c \in Places' : c > 0 /\ parent(c) # i => Ordered(c)'
  BY <1>3
<1>7. i <= i
  BY <1>1
<1> QED
  BY <1>1, <1>3, <1>5, <1>6, <1>7 DEF UpAt, DownAt

\* A node that is added at the end can go up from there.
LEMMA OneAdded ==
    ASSUME HeapTypeOK, \A c \in Places : c > 0 => Ordered(c), NEW n, n = size,
           size' = size + 1, \A x \in Places : items'[x] = items[x]
    PROVE  UpAt(n, n, "Rest")'
<1>1. n \in Nat /\ Places' = 0 .. n /\ Places = 0 .. n - 1
  BY DEF HeapTypeOK, Places
<1>2. ASSUME NEW c \in Places', c > 0
      PROVE  parent(c) \in Nat /\ parent(c) < c /\ c \in Nat
  BY <1>1, <1>2, ParentOf
<1>3. ASSUME NEW c \in Places', c > 0, c # n PROVE Ordered(c)'
  <2>1. c \in Places
    BY <1>1, <1>3
  <2>2. parent(c) \in Places
    BY <1>1, <1>2, <1>3, <2>1
  <2>3. Ordered(c) /\ items'[c] = items[c] /\ items'[parent(c)] = items[parent(c)]
    BY <1>3, <2>1, <2>2
  <2> QED
    BY <2>3 DEF Ordered, Below
<1>4. Children(n)' = {}
  BY <1>1, <1>2 DEF Children
<1>5. n <= n /\ n < size' /\ n = size' - 1
  BY <1>1
<1> QED
  BY <1>3, <1>4, <1>5 DEF UpAt

-----------------------------------------------------------------------------
(* The inductive invariant.                                                *)

\* A step that leaves siftUp at a place keeps the invariant when UpAt holds.
LEMMA AtUp ==
    ASSUME NEW i \in Nat, NEW f \in Nat, NEW then \in {"Rest", "Down"},
           sift' = [at |-> "Up", index |-> i, from |-> f, then |-> then],
           UpAt(i, f, then)', HeapTypeOK', IndexMatchesItems'
    PROVE  HeapInv'
<1>1. sift'.at = "Up" /\ sift'.index = i /\ sift'.from = f /\ sift'.then = then
  OBVIOUS
<1>2. UpAt(sift.index, sift.from, sift.then)'
  BY <1>1 DEF UpAt
<1> QED
  BY <1>1, <1>2 DEF HeapInv, HeapOrdered, Resting

\* A step that leaves siftDown at a place keeps the invariant when DownAt holds.
LEMMA AtDown ==
    ASSUME NEW i \in Nat, sift' = GoingDown(i), DownAt(i)',
           HeapTypeOK', IndexMatchesItems'
    PROVE  HeapInv'
<1>1. sift'.at = "Down" /\ sift'.index = i
  BY DEF GoingDown
<1>2. DownAt(sift.index)'
  BY <1>1 DEF DownAt
<1> QED
  BY <1>1, <1>2 DEF HeapInv, HeapOrdered, Resting

\* A step that ends an operation keeps it when every node is in order.
LEMMA AtEnd ==
    ASSUME sift' = AtRest, \A c \in Places' : c > 0 => Ordered(c)',
           HeapTypeOK', IndexMatchesItems'
    PROVE  HeapInv'
<1>1. sift'.at = "Rest"
  BY DEF AtRest
<1>2. HeapOrdered'
  BY DEF HeapOrdered, Ordered, Places, HeapTypeOK
<1> QED
  BY <1>1, <1>2 DEF HeapInv

\* Between operations every node is in order.
LEMMA RestingOrdered ==
    ASSUME HeapInv, Resting
    PROVE  HeapTypeOK /\ IndexMatchesItems /\ \A c \in Places : c > 0 => Ordered(c)
  BY DEF HeapInv, HeapOrdered, HeapTypeOK, Places, Ordered

\* Add keeps the invariant: a new last node can only be above its parent.
LEMMA AddStep ==
    ASSUME HeapInv, NEW k \in Keys, NEW p \in Priorities, AddNode(k, p)
    PROVE  HeapInv'
<1>1. HeapTypeOK /\ IndexMatchesItems /\ \A c \in Places : c > 0 => Ordered(c)
  BY RestingOrdered DEF AddNode
<1>2. PICK n \in Nat : n = size
  BY <1>1 DEF HeapTypeOK
<1>3. sift' = [at |-> "Up", index |-> n, from |-> n, then |-> "Rest"]
  BY <1>2 DEF AddNode, GoingUp
<1>4. HeapTypeOK'
  <2>1. popped' \in Keys \cup {NoKey}
    BY <1>1 DEF HeapTypeOK, AddNode
  <2>2. sift' \in Loops
    BY <1>3 DEF Loops
  <2>3. size' \in Nat
    BY <1>1, AddKeeps DEF HeapTypeOK
  <2> QED
    BY <1>1, <2>1, <2>2, <2>3, AddKeeps DEF HeapTypeOK, Loops
<1>5. IndexMatchesItems' /\ size' = size + 1 /\ \A x \in Places : items'[x] = items[x]
  BY <1>1, AddKeeps
<1>6. UpAt(n, n, "Rest")'
  BY <1>1, <1>2, <1>5, OneAdded
<1> QED
  BY <1>3, <1>4, <1>5, <1>6, AtUp

\* Set changes one node's priority, and nothing else.
LEMMA SetKeeps ==
    ASSUME HeapTypeOK, IndexMatchesItems, NEW k \in Keys, NEW p \in Priorities,
           Set(k, p)
    PROVE  /\ keyToIndex[k] \in Places /\ items' \in [0 .. size - 1 -> Node]
           /\ \A x \in Places : x # keyToIndex[k] => items'[x] = items[x]
           /\ IndexMatchesItems'
           /\ Contents' = [Contents EXCEPT ![k] = p]
<1>1. /\ k \in DOMAIN keyToIndex /\ size' = size /\ keyToIndex' = keyToIndex
      /\ items' = [items EXCEPT ![keyToIndex[k]].priority = p]
  BY DEF Set
<1>2. /\ items \in [0 .. size - 1 -> Node] /\ keyToIndex[k] \in 0 .. size - 1
      /\ keyToIndex \in [DOMAIN keyToIndex -> 0 .. size - 1]
  BY <1>1 DEF HeapTypeOK
<1>3. PICK i \in 0 .. size - 1 : i = keyToIndex[k]
  BY <1>2
<1>4. /\ items'[i] = [items[i] EXCEPT !.priority = p]
      /\ \A x \in 0 .. size - 1 : x # i => items'[x] = items[x]
      /\ items' = [x \in 0 .. size - 1 |-> items'[x]]
  BY <1>1, <1>2, <1>3
<1>5. items'[i] \in Node /\ items'[i].key = items[i].key /\ items'[i].priority = p
  <2>1. items[i] \in Node
    BY <1>2
  <2> QED
    BY <1>4, <2>1 DEF Node
<1>6. items' \in [0 .. size - 1 -> Node]
  BY <1>2, <1>4, <1>5
<1>7. \A x \in 0 .. size - 1 : items'[x].key = items[x].key
  BY <1>4, <1>5
<1>8. IndexMatchesItems'
  BY <1>1, <1>2, <1>7 DEF IndexMatchesItems
<1>9. Contents' = [Contents EXCEPT ![k] = p]
  <2>1. ASSUME NEW x \in DOMAIN keyToIndex
        PROVE  items'[keyToIndex[x]].priority =
                  IF x = k THEN p ELSE items[keyToIndex[x]].priority
    <3>1. keyToIndex[x] \in 0 .. size - 1 /\ items[keyToIndex[x]].key = x
      BY <1>2 DEF IndexMatchesItems
    <3>2. items[i].key = k
      BY <1>1, <1>3 DEF IndexMatchesItems
    <3> QED
      BY <1>3, <1>4, <1>5, <3>1, <3>2
  <2>2. Contents' = [x \in DOMAIN keyToIndex |-> items'[keyToIndex[x]].priority]
    BY <1>1 DEF Contents
  <2>3. Contents = [x \in DOMAIN keyToIndex |-> items[keyToIndex[x]].priority]
    BY DEF Contents
  <2> QED
    BY <2>1, <2>2, <2>3
<1>10. \A x \in Places : x # i => items'[x] = items[x]
  BY <1>4 DEF Places
<1> QED
  BY <1>2, <1>3, <1>6, <1>8, <1>9, <1>10 DEF Places

\* Set keeps it: only the node of the key can be out of order.
LEMMA SetStep ==
    ASSUME HeapInv, NEW k \in Keys, NEW p \in Priorities, Set(k, p)
    PROVE  HeapInv'
<1>1. HeapTypeOK /\ IndexMatchesItems /\ \A c \in Places : c > 0 => Ordered(c)
  BY RestingOrdered DEF Set
<1>2. PICK i \in Places : i = keyToIndex[k]
  BY <1>1, SetKeeps
<1>3. i \in Nat /\ size \in Nat /\ size' = size /\ i < size /\ Places' = Places
  BY <1>1 DEF HeapTypeOK, Places, Set
<1>4. sift' = [at |-> "Up", index |-> i, from |-> i, then |-> "Down"]
  BY <1>2 DEF Set, GoingUp
<1>5. HeapTypeOK'
  <2>1. sift' \in Loops
    BY <1>3, <1>4 DEF Loops
  <2>2. items' \in [0 .. size - 1 -> Node]
    BY <1>1, SetKeeps
  <2>3. UNCHANGED <<size, keyToIndex, capacity, popped>>
    BY DEF Set
  <2> QED
    BY <1>1, <2>1, <2>2, <2>3 DEF HeapTypeOK, Loops
<1>6. IndexMatchesItems' /\ \A x \in Places' : x # i => items'[x] = items[x]
  BY <1>1, <1>2, <1>3, SetKeeps
<1>7. UpAt(i, i, "Down")'
  BY <1>1, <1>3, <1>6, OneChanged
<1> QED
  BY <1>3, <1>4, <1>5, <1>6, <1>7, AtUp

\* What DropNode leaves, with a sifting loop that has its type.
LEMMA DropTypeOK ==
    ASSUME HeapTypeOK, IndexMatchesItems, NEW i \in Places, DropNode(i),
           sift' \in Loops, popped' \in Keys \cup {NoKey}
    PROVE  HeapTypeOK'
<1>1. capacity' = capacity /\ size' = size - 1
  BY DEF DropNode
<1>2. capacity' \in Nat \ {0} /\ size' <= capacity'
  BY <1>1 DEF HeapTypeOK
<1> QED
  BY <1>2, DropKeeps DEF HeapTypeOK, Loops

\* The nodes that stay are still in order when the last node went.
LEMMA DropLast ==
    ASSUME HeapTypeOK, IndexMatchesItems, NEW i \in Places, DropNode(i),
           i >= size - 1, \A c \in Places : c > 0 => Ordered(c)
    PROVE  \A c \in Places' : c > 0 => Ordered(c)'
<1>1. size' = size - 1 /\ \A x \in Places' : x # i => items'[x] = items[x]
  BY DropKeeps
<1>2. PICK n \in Nat : n = size - 1
  BY DEF HeapTypeOK, Places
<1>3. Places = 0 .. n /\ Places' = 0 .. n - 1 /\ i = n
  BY <1>1, <1>2 DEF Places, HeapTypeOK
<1>4. ASSUME NEW c \in Places', c > 0 PROVE Ordered(c)'
  <2>1. c \in Places /\ c # i /\ c \in Nat /\ c < n
    BY <1>2, <1>3, <1>4
  <2>2. parent(c) \in Nat /\ parent(c) < c
    BY <1>4, <2>1, ParentOf
  <2>3. parent(c) \in Places' /\ parent(c) # i
    BY <1>2, <1>3, <2>1, <2>2
  <2>4. Ordered(c) /\ items'[c] = items[c] /\ items'[parent(c)] = items[parent(c)]
    BY <1>1, <1>4, <2>1, <2>3
  <2> QED
    BY <2>4 DEF Ordered, Below
<1> QED
  BY <1>4

\* Remove keeps it: only the node that took the place can be out of order.
LEMMA RemoveStep ==
    ASSUME HeapInv, NEW k \in Keys, RemoveKey(k)
    PROVE  HeapInv'
<1>1. HeapTypeOK /\ IndexMatchesItems /\ \A c \in Places : c > 0 => Ordered(c)
  BY RestingOrdered DEF RemoveKey
<1>2. PICK i \in Places : i = keyToIndex[k]
  BY <1>1 DEF HeapTypeOK, Places, RemoveKey
<1>3. i \in Nat /\ size \in Nat /\ i < size
  BY <1>1 DEF HeapTypeOK, Places
<1>4. /\ DropNode(i) /\ popped' = popped
      /\ i < size - 1 => sift' = [at |-> "Up", index |-> i, from |-> i, then |-> "Down"]
      /\ i >= size - 1 => sift' = AtRest
  BY <1>2, <1>3 DEF RemoveKey, GoingUp
<1>5. HeapTypeOK' /\ IndexMatchesItems'
  <2>1. sift' \in Loops
    BY <1>3, <1>4 DEF Loops, AtRest
  <2>2. popped' \in Keys \cup {NoKey}
    BY <1>1, <1>4 DEF HeapTypeOK
  <2> QED
    BY <1>1, <1>4, <2>1, <2>2, DropTypeOK, DropKeeps
<1>6. CASE i < size - 1
  <2>1. PICK n \in Nat : n = size - 1
    BY <1>3
  <2>2. size' = n /\ \A x \in Places' : x # i => items'[x] = items[x]
    BY <1>1, <1>4, <2>1, DropKeeps
  <2>3. n <= size /\ i < n
    BY <1>3, <1>6, <2>1
  <2>4. UpAt(i, i, "Down")'
    BY <1>1, <2>2, <2>3, OneChanged
  <2> QED
    BY <1>3, <1>4, <1>5, <1>6, <2>4, AtUp
<1>7. CASE i >= size - 1
  BY <1>1, <1>4, <1>5, <1>7, DropLast, AtEnd
<1> QED
  BY <1>3, <1>6, <1>7

\* Pop keeps it: the node that took the root can only be below its children.
LEMMA PopStep ==
    ASSUME HeapInv, Pop
    PROVE  HeapInv'
<1>1. HeapTypeOK /\ IndexMatchesItems /\ \A c \in Places : c > 0 => Ordered(c)
  BY RestingOrdered DEF Pop
<1>2. PICK i \in Places : i = 0
  BY <1>1 DEF HeapTypeOK, Places, Pop
<1>3. size \in Nat /\ size > 0
  BY <1>1 DEF HeapTypeOK, Pop
<1>4. /\ DropNode(i) /\ popped' = items[i].key
      /\ i < size - 1 => sift' = GoingDown(i)
      /\ i >= size - 1 => sift' = AtRest
  BY <1>2, <1>3 DEF Pop
<1>5. HeapTypeOK' /\ IndexMatchesItems'
  <2>1. sift' \in Loops
    BY <1>2, <1>3, <1>4 DEF Loops, AtRest, GoingDown
  <2>2. popped' \in Keys \cup {NoKey}
    BY <1>1, <1>4, DropKeeps
  <2> QED
    BY <1>1, <1>4, <2>1, <2>2, DropTypeOK, DropKeeps
<1>6. CASE i < size - 1
  <2>1. PICK n \in Nat : n = size - 1
    BY <1>3
  <2>2. size' = n /\ \A x \in Places' : x # i => items'[x] = items[x]
    BY <1>1, <1>4, <2>1, DropKeeps
  <2>3. n <= size /\ i < n
    BY <1>3, <1>6, <2>1
  <2>4. DownAt(i)'
    BY <1>1, <1>2, <2>2, <2>3, OneChanged
  <2> QED
    BY <1>2, <1>4, <1>5, <1>6, <2>4, AtDown
<1>7. CASE i >= size - 1
  BY <1>1, <1>4, <1>5, <1>7, DropLast, AtEnd
<1> QED
  BY <1>2, <1>3, <1>6, <1>7

\* What a turn of a sifting loop leaves, whether or not it swaps.
LEMMA TurnKeeps ==
    ASSUME HeapTypeOK, IndexMatchesItems, UNCHANGED <<size, capacity, popped>>,
           \/ UNCHANGED <<items, keyToIndex>>
           \/ \E i, j \in Places : i # j /\ swap(i, j)
    PROVE  /\ sift' \in Loops => HeapTypeOK'
           /\ IndexMatchesItems' /\ Contents' = Contents
<1>1. CASE UNCHANGED <<items, keyToIndex>>
  BY <1>1 DEF HeapTypeOK, IndexMatchesItems, Contents, Loops
<1>2. CASE \E i, j \in Places : i # j /\ swap(i, j)
  <2>1. PICK i \in Places, j \in Places : i # j /\ swap(i, j)
    BY <1>2
  <2>2. /\ items' \in [0 .. size - 1 -> Node]
        /\ DOMAIN keyToIndex' = DOMAIN keyToIndex
        /\ keyToIndex' \in [DOMAIN keyToIndex -> 0 .. size - 1]
        /\ IndexMatchesItems' /\ Contents' = Contents
    BY <2>1, SwapKeeps
  <2> QED
    BY <2>2 DEF HeapTypeOK, Loops
<1> QED
  BY <1>1, <1>2

\* A turn of siftUp swaps a node with its parent, or swaps none.
LEMMA UpTurn ==
    ASSUME HeapInv, SiftUpStep
    PROVE  /\ HeapTypeOK /\ IndexMatchesItems
           /\ UNCHANGED <<size, capacity, popped>>
           /\ \/ UNCHANGED <<items, keyToIndex>>
              \/ \E i, j \in Places : i # j /\ swap(i, j)
<1>1. HeapTypeOK /\ IndexMatchesItems /\ UpAt(sift.index, sift.from, sift.then)
  BY DEF HeapInv, SiftUpStep
<1>2. PICK i \in Nat : i = sift.index
  BY <1>1 DEF HeapTypeOK
<1>3. i \in Places
  BY <1>1, <1>2 DEF UpAt, Places, HeapTypeOK
<1>4. CASE i > 0
  <2>1. parent(i) \in Places /\ parent(i) < i
    BY <1>1, <1>3, <1>4, ParentPlace
  <2>2. parent(i) # i
    BY <1>2, <2>1 DEF Places, HeapTypeOK
  <2> QED
    BY <1>1, <1>2, <1>3, <2>1, <2>2 DEF SiftUpStep
<1>5. CASE i = 0
  <2>1. parent(i) = i
    BY <1>5 DEF parent
  <2>2. ~Below(parent(i), i)
    BY <1>1, <1>3, <2>1, BelowIsAnOrder
  <2> QED
    BY <1>1, <1>2, <2>2 DEF SiftUpStep
<1> QED
  BY <1>2, <1>4, <1>5

\* A turn of siftUp keeps it.
LEMMA UpStep ==
    ASSUME HeapInv, SiftUpStep
    PROVE  HeapInv'
<1>1. HeapTypeOK /\ IndexMatchesItems /\ sift \in Loops
  BY DEF HeapInv, HeapTypeOK, Loops
<1>2. PICK i \in Nat, f \in Nat, then \in {"Rest", "Down"} :
         i = sift.index /\ f = sift.from /\ then = sift.then
  BY <1>1 DEF Loops
<1>3. UpAt(i, f, then)
  BY <1>2 DEF HeapInv, SiftUpStep
<1>4. sift' \in Loops => HeapTypeOK' /\ IndexMatchesItems'
  BY UpTurn, TurnKeeps
<1>5. IndexMatchesItems' /\ size' = size
  BY UpTurn, TurnKeeps
<1>6. CASE i > 0
  <2>1. PICK j \in Nat : j = parent(i)
    BY <1>6, ParentOf
  <2>2. sift' = [at |-> "Up", index |-> j, from |-> f, then |-> then]
    BY <1>1, <1>2, <1>6, <2>1 DEF SiftUpStep, Loops
  <2>3. sift' \in Loops
    BY <2>2 DEF Loops
  <2>4. UpAt(j, f, then)'
    <3>1. CASE Below(parent(i), i)
      <4>1. swap(i, parent(i))
        BY <1>2, <3>1 DEF SiftUpStep
      <4>2. UpAt(parent(i), f, then)'
        BY <1>1, <1>3, <1>5, <1>6, <3>1, <4>1, UpSwap
      <4> QED
        BY <2>1, <4>2
    <3>2. CASE ~Below(parent(i), i)
      <4>1. UpAt(j, f, then)
        BY <1>1, <1>3, <1>6, <2>1, <3>2, UpStay
      <4>2. UNCHANGED <<items, size>>
        BY <1>2, <3>2 DEF SiftUpStep
      <4> QED
        BY <4>1, <4>2 DEF UpAt, Places, Children, Ordered, Below
    <3> QED
      BY <3>1, <3>2
  <2> QED
    BY <1>4, <2>2, <2>3, <2>4, AtUp
<1>7. CASE i = 0
  <2>1. DownAt(f) /\ (then = "Rest" => \A c \in Places : c > 0 => Ordered(c))
    BY <1>1, <1>3, <1>7, UpEnds
  <2>2. parent(i) = i /\ i \in Places
    BY <1>1, <1>3, <1>7 DEF parent, UpAt, Places, HeapTypeOK
  <2>3. ~Below(parent(i), i)
    BY <1>1, <2>2, BelowIsAnOrder
  <2>4. UNCHANGED <<items, size>>
    BY <1>2, <2>3 DEF SiftUpStep
  <2>5. DownAt(f)' /\ (then = "Rest" => \A c \in Places' : c > 0 => Ordered(c)')
    BY <2>1, <2>4 DEF DownAt, Places, Children, Ordered, Below
  <2>6. sift' = IF then = "Down" THEN GoingDown(f) ELSE AtRest
    BY <1>2, <1>7 DEF SiftUpStep
  <2>7. sift' \in Loops
    BY <2>6 DEF GoingDown, AtRest, Loops
  <2>8. CASE then = "Down"
    BY <1>4, <2>5, <2>6, <2>7, <2>8, AtDown
  <2>9. CASE then = "Rest"
    BY <1>4, <2>5, <2>6, <2>7, <2>9, AtEnd
  <2> QED
    BY <2>8, <2>9
<1> QED
  BY <1>6, <1>7

\* A turn of siftDown swaps a node with one of its children, or swaps none.
LEMMA DownTurn ==
    ASSUME HeapInv, SiftDownStep
    PROVE  /\ HeapTypeOK /\ IndexMatchesItems
           /\ UNCHANGED <<size, capacity, popped>>
           /\ \/ UNCHANGED <<items, keyToIndex>>
              \/ \E i, j \in Places : i # j /\ swap(i, j)
<1>1. HeapTypeOK /\ IndexMatchesItems /\ DownAt(sift.index) /\ sift.index \in Nat
  BY DEF HeapInv, SiftDownStep, HeapTypeOK
<1>2. sift.index \in Places
  BY <1>1 DEF DownAt, Places, HeapTypeOK
<1>3. Larger(sift.index) # sift.index => Larger(sift.index) \in Places
  BY <1>1, <1>2, LargerOf DEF Children
<1> QED
  BY <1>1, <1>2, <1>3 DEF SiftDownStep

\* A turn of siftDown keeps it.
LEMMA DownStep ==
    ASSUME HeapInv, SiftDownStep
    PROVE  HeapInv'
<1>1. HeapTypeOK /\ IndexMatchesItems
  BY DEF HeapInv
<1>2. PICK i \in Nat : i = sift.index
  BY <1>1 DEF HeapTypeOK
<1>3. DownAt(i)
  BY <1>2 DEF HeapInv, SiftDownStep
<1>4. sift' \in Loops => HeapTypeOK' /\ IndexMatchesItems'
  BY DownTurn, TurnKeeps
<1>5. size' = size
  BY DEF SiftDownStep
<1>6. CASE Larger(i) = i
  <2>1. \A c \in Places : c > 0 => Ordered(c)
    BY <1>1, <1>3, <1>6, DownEnds
  <2>2. sift' = AtRest /\ UNCHANGED <<items, size>>
    BY <1>2, <1>6 DEF SiftDownStep
  <2>3. \A c \in Places' : c > 0 => Ordered(c)'
    BY <2>1, <2>2 DEF Places, Ordered, Below
  <2>4. sift' \in Loops
    BY <2>2 DEF AtRest, Loops
  <2> QED
    BY <1>4, <2>2, <2>3, <2>4, AtEnd
<1>7. CASE Larger(i) # i
  <2>1. i \in Places
    BY <1>1, <1>3 DEF DownAt, Places, HeapTypeOK
  <2>2. Larger(i) \in Nat
    BY <1>1, <1>7, <2>1, LargerOf DEF Children, Places, HeapTypeOK
  <2>3. PICK m \in Nat : m = Larger(i)
    BY <2>2
  <2>4. swap(i, m) /\ sift' = GoingDown(m)
    BY <1>2, <1>7, <2>3 DEF SiftDownStep
  <2>5. DownAt(m)'
    BY <1>1, <1>3, <1>5, <1>7, <2>3, <2>4, DownSwap
  <2>6. sift' \in Loops
    BY <2>4 DEF GoingDown, Loops
  <2> QED
    BY <1>4, <2>4, <2>5, <2>6, AtDown
<1> QED
  BY <1>6, <1>7

\* HeapInv holds in every state that the heap reaches.
THEOREM HeapInvariance == Spec => []HeapInv
<1>1. Init => HeapInv
  BY CapacityAssumption DEF Init, HeapInv, HeapTypeOK, IndexMatchesItems, HeapOrdered, AtRest
<1>2. HeapInv /\ [Next]_vars => HeapInv'
  <2> SUFFICES ASSUME HeapInv, [Next]_vars PROVE HeapInv'
    OBVIOUS
  <2>1. ASSUME NEW k \in Keys, NEW p \in Priorities, AddNode(k, p) PROVE HeapInv'
    BY <2>1, AddStep
  <2>2. ASSUME NEW k \in Keys, NEW p \in Priorities, Set(k, p) PROVE HeapInv'
    BY <2>2, SetStep
  <2>3. ASSUME NEW k \in Keys, RemoveKey(k) PROVE HeapInv'
    BY <2>3, RemoveStep
  <2>4. CASE Pop
    BY <2>4, PopStep
  <2>5. CASE SiftUpStep
    BY <2>5, UpStep
  <2>6. CASE SiftDownStep
    BY <2>6, DownStep
  <2>7. CASE UNCHANGED vars
    BY <2>7 DEF vars, HeapInv, HeapTypeOK, IndexMatchesItems, HeapOrdered, Resting,
                UpAt, DownAt, Places, Children, Ordered, Below
  <2> QED
    BY <2>1, <2>2, <2>3, <2>4, <2>5, <2>6, <2>7 DEF Next
<1> QED
  BY <1>1, <1>2, PTL DEF Spec

\* Every variable has its type: the slice never overflows.
THEOREM HeapTypeCorrect == Spec => []HeapTypeOK
<1>1. HeapInv => HeapTypeOK
  BY DEF HeapInv
<1> QED
  BY <1>1, HeapInvariance, PTL

\* Set and Remove always find the node of their key.
THEOREM IndexCorrect == Spec => []IndexMatchesItems
<1>1. HeapInv => IndexMatchesItems
  BY DEF HeapInv
<1> QED
  BY <1>1, HeapInvariance, PTL

\* Every operation leaves the heap in order.
THEOREM OrderCorrect == Spec => []HeapOrdered
<1>1. HeapInv => HeapOrdered
  BY DEF HeapInv
<1> QED
  BY <1>1, HeapInvariance, PTL

\* When the heap is in order, its root has one of the highest priorities.
LEMMA RootOfOrdered ==
    ASSUME HeapInv, Resting, size > 0
    PROVE  items[0].key \in Peek(Contents)
<1>1. HeapTypeOK /\ IndexMatchesItems /\ \A i \in Places : ~Below(0, i)
  BY RestingOrdered, OrderedRoot
<1>2. 0 \in Places
  BY <1>1 DEF HeapTypeOK, Places
<1>3. items[0].key \in DOMAIN Contents /\ Contents[items[0].key] = items[0].priority
  BY <1>1, <1>2 DEF IndexMatchesItems, Contents, Places
<1>4. ASSUME NEW k \in DOMAIN Contents PROVE Contents[k] <= items[0].priority
  <2>1. k \in DOMAIN keyToIndex /\ Contents[k] = items[keyToIndex[k]].priority
    BY <1>4 DEF Contents
  <2>2. keyToIndex[k] \in Places
    BY <1>1, <2>1 DEF HeapTypeOK, Places
  <2>3. items[keyToIndex[k]].priority \in Int /\ items[0].priority \in Int
    BY <1>1, <1>2, <2>2, PrioritiesOfItems
  <2> QED
    BY <1>1, <2>1, <2>2, <2>3 DEF Below
<1> QED
  BY <1>3, <1>4 DEF Peek

\* What Peek and Pop return has the highest priority.
THEOREM RootCorrect == Spec => []RootIsHighest
<1>1. HeapInv => RootIsHighest
  BY RootOfOrdered DEF RootIsHighest
<1> QED
  BY <1>1, HeapInvariance, PTL

-----------------------------------------------------------------------------
(* The refinement.                                                         *)

\* A step of the heap is an operation of the queue of keys, or changes nothing
\* that its clients see.
LEMMA HeapStepRefines ==
    ASSUME HeapInv, [Next]_vars
    PROVE  [Queue!QueueNext]_Queue!queueVars
<1>1. HeapTypeOK /\ IndexMatchesItems /\ DOMAIN Contents = DOMAIN keyToIndex
  BY DEF HeapInv, Contents
<1>2. ASSUME NEW k \in Keys, NEW p \in Priorities, AddNode(k, p)
      PROVE  Queue!QueueAdd(k, p)
  <2>1. Contents' = Add(Contents, k, p)
    BY <1>1, <1>2, AddKeeps
  <2>2. k \notin DOMAIN Contents /\ popped' = popped
    BY <1>1, <1>2 DEF AddNode
  <2> QED
    BY <2>1, <2>2 DEF Queue!QueueAdd, HasKey, Queue!HasKey, Add, Queue!Add
<1>3. ASSUME NEW k \in Keys, NEW p \in Priorities, Set(k, p)
      PROVE  Queue!QueueSet(k, p)
  <2>1. Contents' = [Contents EXCEPT ![k] = p]
    BY <1>1, <1>3, SetKeeps
  <2>2. k \in DOMAIN Contents /\ popped' = popped
    BY <1>1, <1>3 DEF Set
  <2> QED
    BY <2>1, <2>2 DEF Queue!QueueSet, Queue!HasKey
<1>4. ASSUME NEW k \in Keys, RemoveKey(k)
      PROVE  Queue!QueueRemove(k)
  <2>1. PICK i \in Places : i = keyToIndex[k]
    BY <1>1, <1>4 DEF RemoveKey, HeapTypeOK, Places
  <2>2. DropNode(i) /\ items[i].key = k /\ popped' = popped
    BY <1>1, <1>4, <2>1 DEF RemoveKey, IndexMatchesItems
  <2>3. Contents' = Remove(Contents, k) /\ k \in DOMAIN Contents
    BY <1>1, <2>2, DropKeeps
  <2> QED
    BY <2>2, <2>3 DEF Queue!QueueRemove, Queue!HasKey, Remove, Queue!Remove
<1>5. CASE Pop
  <2>1. PICK i \in Places : i = 0
    BY <1>1, <1>5 DEF Pop, HeapTypeOK, Places
  <2>2. DropNode(i) /\ popped' = items[i].key /\ Resting /\ size > 0
    BY <1>5, <2>1 DEF Pop
  <2>3. Contents' = Remove(Contents, items[i].key)
    BY <1>1, <2>2, DropKeeps
  <2>4. items[i].key \in Peek(Contents)
    BY <2>1, <2>2, RootOfOrdered
  <2> QED
    BY <2>2, <2>3, <2>4
    DEF Queue!QueueNext, Queue!QueuePop, Remove, Queue!Remove, Peek, Queue!Peek
<1>6. CASE SiftUpStep \/ SiftDownStep
  <2>1. Contents' = Contents /\ popped' = popped
    BY <1>6, UpTurn, DownTurn, TurnKeeps
  <2> QED
    BY <2>1 DEF Queue!queueVars
<1>7. CASE UNCHANGED vars
  BY <1>7 DEF vars, Queue!queueVars, Contents
<1> QED
  BY <1>2, <1>3, <1>4, <1>5, <1>6, <1>7 DEF Next, Queue!QueueNext

\* To its clients the heap is a queue of keys that each operation changes in
\* one step, and Pop takes one of the highest.
THEOREM QueueRefinement == Spec => ImplementsKeyedQueue
<1>1. Init => Queue!QueueInit
  BY DEF Init, Queue!QueueInit, Contents, Queue!EmptyQueue
<1>2. HeapInv /\ [Next]_vars => [Queue!QueueNext]_Queue!queueVars
  BY HeapStepRefines
<1> QED
  BY <1>1, <1>2, HeapInvariance, PTL DEF Spec, ImplementsKeyedQueue, Queue!QueueSpec

=============================================================================
