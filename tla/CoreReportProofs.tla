-------------------------- MODULE CoreReportProofs --------------------------
(***************************************************************************)
(* What perceptor publishes of its core model, for all sets of shas, pods, *)
(* priorities and reports: the results of pods and the metrics agree with  *)
(* the model, and the loop over createImage ends where CoreModel's one     *)
(* step does.                                                              *)
(*                                                                         *)
(* The loops of the code are folds.  A fold is a recursive function on the *)
(* subsets of the positions of a list; that one exists, and what its       *)
(* values are, is shown here by induction on the size of those subsets.    *)
(***************************************************************************)
EXTENDS CreateImageLoop, PodResults, CoreModelProofs, FiniteSetTheorems,
        WellFoundedInduction

-----------------------------------------------------------------------------
(* Induction, with a set in the place of a predicate.                      *)

\* Every set of naturals that is not empty has a least element.
LEMMA LeastNumber ==
    ASSUME NEW T \in SUBSET Nat, T # {}
    PROVE  \E x \in T : \A y \in T : x <= y
<1>1. PICK x \in T : \A y \in T : ~ (<<y, x>> \in OpToRel(<, Nat))
  BY NatLessThanWellFounded, WFMin, Zenon
<1>2. ASSUME NEW y \in T PROVE x <= y
  <2>1. <<y, x>> \in Nat \X Nat
    OBVIOUS
  <2>2. ~(y < x)
    BY <1>1, <2>1 DEF OpToRel
  <2> QED
    BY <2>2
<1> QED
  BY <1>2

\* A set with 0, and with i + 1 for every i < n it has, has all numbers up to n.
LEMMA UpTo ==
    ASSUME NEW n \in Nat, NEW G, 0 \in G,
           \A i \in 0 .. n - 1 : i \in G => i + 1 \in G
    PROVE  \A i \in 0 .. n : i \in G
<1> DEFINE rest == {i \in 0 .. n : i \notin G}
<1>1. SUFFICES ASSUME rest # {} PROVE FALSE
  OBVIOUS
<1>2. rest \in SUBSET Nat
  OBVIOUS
<1> HIDE DEF rest
<1>3. PICK x \in rest : \A y \in rest : x <= y
  BY <1>1, <1>2, LeastNumber
<1> USE DEF rest
<1>4. x # 0 /\ x - 1 \in 0 .. n - 1 /\ x \in 0 .. n
  BY <1>3
<1>5. x - 1 \in G
  BY <1>3, <1>4
<1> QED
  BY <1>4, <1>5

-----------------------------------------------------------------------------
(* Folds.                                                                  *)

\* The equation of a fold over S that takes the elements in the order of `next'.
FoldEquation(f, dom, base, step, next) ==
    f = [T \in dom |-> IF T = {} THEN base ELSE step[next[T]][f[T \ {next[T]}]]]

UpToSize(S, k) == {T \in SUBSET S : Cardinality(T) <= k}

\* The subsets of a set with one element more.
LEMMA SmallerSubset ==
    ASSUME NEW S, IsFiniteSet(S), NEW T \in SUBSET S, NEW x \in T
    PROVE  /\ Cardinality(T) \in Nat /\ Cardinality(T) > 0
           /\ T \ {x} \in SUBSET S
           /\ Cardinality(T \ {x}) = Cardinality(T) - 1
<1>1. IsFiniteSet(T)
  BY FS_Subset
<1>2. Cardinality(T) \in Nat
  BY <1>1, FS_CardinalityType
<1>3. Cardinality(T \ {x}) = Cardinality(T) - 1 /\ IsFiniteSet(T \ {x})
  BY <1>1, FS_RemoveElement
<1>4. Cardinality(T \ {x}) \in Nat
  BY <1>3, FS_CardinalityType
<1> QED
  BY <1>2, <1>3, <1>4

\* A fold over a finite set exists.
LEMMA FoldExists ==
    ASSUME NEW S, IsFiniteSet(S), NEW X, NEW base \in X, NEW step \in [S -> [X -> X]],
           NEW next, \A T \in (SUBSET S) \ {{}} : next[T] \in T
    PROVE  \E f \in [SUBSET S -> X] : FoldEquation(f, SUBSET S, base, step, next)
<1> DEFINE has(k) == \E f \in [UpToSize(S, k) -> X] :
                        FoldEquation(f, UpToSize(S, k), base, step, next)
           G == {k \in Nat : has(k)}
           n == Cardinality(S)
<1>1. n \in Nat
  BY FS_CardinalityType
<1>2. \A T \in SUBSET S : Cardinality(T) \in Nat /\ (Cardinality(T) = 0 <=> T = {})
  BY FS_Subset, FS_CardinalityType, FS_EmptySet
<1>3. has(0)
  <2> DEFINE f == [T \in UpToSize(S, 0) |-> base]
  <2>1. \A T \in UpToSize(S, 0) : T = {}
    BY <1>2 DEF UpToSize
  <2>2. f \in [UpToSize(S, 0) -> X]
    OBVIOUS
  <2>3. FoldEquation(f, UpToSize(S, 0), base, step, next)
    BY <2>1 DEF FoldEquation
  <2> QED
    BY <2>2, <2>3
<1>4. ASSUME NEW k \in Nat, has(k) PROVE has(k + 1)
  <2>1. PICK f \in [UpToSize(S, k) -> X] : FoldEquation(f, UpToSize(S, k), base, step, next)
    BY <1>4
  <2> DEFINE before(T) == T \ {next[T]}
             g == [T \in UpToSize(S, k + 1) |->
                     IF T \in UpToSize(S, k) THEN f[T] ELSE step[next[T]][f[before(T)]]]
  <2>2. ASSUME NEW T \in UpToSize(S, k + 1), T # {}
        PROVE  /\ next[T] \in S /\ before(T) \in UpToSize(S, k)
               /\ T \in UpToSize(S, k) => f[T] = step[next[T]][f[before(T)]]
    <3>1. T \in SUBSET S /\ next[T] \in T
      BY <2>2 DEF UpToSize
    <3>2. before(T) \in UpToSize(S, k)
      BY <3>1, <1>2, SmallerSubset DEF UpToSize
    <3> QED
      BY <2>1, <2>2, <3>1, <3>2 DEF FoldEquation
  <2>3. {} \in UpToSize(S, k) /\ UpToSize(S, k) \subseteq UpToSize(S, k + 1) /\ f[{}] = base
    <3>1. {} \in UpToSize(S, k) /\ UpToSize(S, k) \subseteq UpToSize(S, k + 1)
      BY <1>2, FS_EmptySet DEF UpToSize
    <3> QED
      BY <3>1, <2>1 DEF FoldEquation
  <2>4. ASSUME NEW T \in UpToSize(S, k + 1)
        PROVE  /\ g[T] \in X
               /\ g[T] = IF T = {} THEN base ELSE step[next[T]][g[before(T)]]
    <3>1. CASE T = {}
      BY <3>1, <2>3
    <3>2. CASE T # {}
      <4>1. next[T] \in S /\ before(T) \in UpToSize(S, k) /\ f[before(T)] \in X
        BY <3>2, <2>2
      <4>2. step[next[T]] \in [X -> X]
        BY <4>1
      <4>3. g[before(T)] = f[before(T)]
        BY <4>1, <2>3
      <4>4. g[T] = step[next[T]][f[before(T)]]
        BY <3>2, <2>2
      <4> QED
        BY <3>2, <4>1, <4>2, <4>3, <4>4
    <3> QED
      BY <3>1, <3>2
  <2> HIDE DEF g
  <2>5. g = [T \in UpToSize(S, k + 1) |-> g[T]]
    BY DEF g
  <2>6. g \in [UpToSize(S, k + 1) -> X] /\ FoldEquation(g, UpToSize(S, k + 1), base, step, next)
    BY <2>4, <2>5 DEF FoldEquation
  <2> QED
    BY <2>6
<1> HIDE DEF has
<1>5. \A i \in 0 .. n : i \in G
  <2>1. 0 \in G /\ \A i \in 0 .. n - 1 : i \in G => i + 1 \in G
    BY <1>3, <1>4
  <2> HIDE DEF G, n
  <2> QED
    BY <1>1, <2>1, UpTo
<1>6. has(n)
  BY <1>1, <1>5
<1>7. UpToSize(S, n) = SUBSET S
  BY FS_Subset DEF UpToSize
<1> QED
  BY <1>6, <1>7 DEF has

\* Induction over the subsets of a finite set.
LEMMA SubsetInduction ==
    ASSUME NEW S, IsFiniteSet(S), NEW G, {} \in G,
           \A T \in (SUBSET S) \ {{}} : (\A x \in T : T \ {x} \in G) => T \in G
    PROVE  \A T \in SUBSET S : T \in G
<1> DEFINE n == Cardinality(S)
           H == {k \in Nat : \A T \in UpToSize(S, k) : T \in G}
<1>1. n \in Nat
  BY FS_CardinalityType
<1>2. \A T \in SUBSET S : Cardinality(T) \in Nat /\ (Cardinality(T) = 0 <=> T = {})
  BY FS_Subset, FS_CardinalityType, FS_EmptySet
<1>3. 0 \in H
  <2>1. \A T \in UpToSize(S, 0) : T = {}
    BY <1>2 DEF UpToSize
  <2> QED
    BY <2>1
<1>4. ASSUME NEW k \in 0 .. n - 1, k \in H PROVE k + 1 \in H
  <2>1. ASSUME NEW T \in UpToSize(S, k + 1), T # {} PROVE T \in G
    <3>1. T \in SUBSET S
      BY DEF UpToSize
    <3>2. ASSUME NEW x \in T PROVE T \ {x} \in UpToSize(S, k)
      BY <3>1, <1>2, SmallerSubset DEF UpToSize
    <3>3. \A U \in UpToSize(S, k) : U \in G
      BY <1>4
    <3> QED
      BY <2>1, <3>1, <3>2, <3>3
  <2>2. \A T \in UpToSize(S, k + 1) : T \in G
    BY <2>1
  <2> QED
    BY <2>2
<1>5. n \in H
  <2> HIDE DEF H, n
  <2> QED
    BY <1>1, <1>3, <1>4, UpTo
<1> QED
  BY <1>5, FS_Subset DEF UpToSize

\* The sum of numbers, in whatever order they are added up: nothing for no
\* element, and for every other subset any one of its elements and the rest.
LEMMA TotalUnfolds ==
    ASSUME NEW S, IsFiniteSet(S), NEW v \in [S -> Nat]
    PROVE  \E sum \in [SUBSET S -> Nat] :
              /\ sum[{}] = 0
              /\ \A T \in SUBSET S : \A x \in T : sum[T] = v[x] + sum[T \ {x}]
              /\ Total(v) = sum[S]
<1> DEFINE next == [T \in SUBSET S |-> CHOOSE x \in T : TRUE]
           step == [x \in S |-> [y \in Nat |-> v[x] + y]]
           Adds(f) == f = [T \in SUBSET S |->
                             IF T = {} THEN 0
                             ELSE LET x == CHOOSE x \in T : TRUE IN v[x] + f[T \ {x}]]
           sum == CHOOSE f : Adds(f)
<1>1. \A T \in (SUBSET S) \ {{}} : next[T] \in T /\ next[T] = CHOOSE x \in T : TRUE
  OBVIOUS
<1>2. step \in [S -> [Nat -> Nat]] /\ \A x \in S, y \in Nat : step[x][y] = v[x] + y
  OBVIOUS
<1>3. PICK f \in [SUBSET S -> Nat] : FoldEquation(f, SUBSET S, 0, step, next)
  <2> HIDE DEF step, next
  <2> QED
    BY <1>1, <1>2, FoldExists
<1>4. Adds(f)
  <2> HIDE DEF step, next
  <2>1. ASSUME NEW T \in SUBSET S, T # {}
        PROVE  f[T] = LET x == CHOOSE x \in T : TRUE IN v[x] + f[T \ {x}]
    <3>1. f[T] = step[next[T]][f[T \ {next[T]}]] /\ next[T] \in S /\ T \ {next[T]} \in SUBSET S
      BY <2>1, <1>1, <1>3 DEF FoldEquation
    <3> QED
      BY <2>1, <3>1, <1>1, <1>2
  <2>2. f[{}] = 0
    BY <1>3 DEF FoldEquation
  <2> QED
    BY <2>1, <2>2
<1>5. Adds(sum)
  BY <1>4
<1>6. Total(v) = sum[S]
  BY DEF Total, MapThenSumSet, MapThenFoldSet
<1> HIDE DEF sum
<1>7. /\ sum = [T \in SUBSET S |-> sum[T]]
      /\ sum[{}] = 0
      /\ \A T \in (SUBSET S) \ {{}} : \E x \in T : sum[T] = v[x] + sum[T \ {x}]
  BY <1>5
<1>8. \A T \in SUBSET S : sum[T] \in Nat
  <2> DEFINE G == {T \in SUBSET S : sum[T] \in Nat}
  <2>1. ASSUME NEW T \in SUBSET S, T # {}, \A x \in T : T \ {x} \in G PROVE T \in G
    <3>1. PICK x \in T : sum[T] = v[x] + sum[T \ {x}]
      BY <2>1, <1>7
    <3>2. v[x] \in Nat /\ sum[T \ {x}] \in Nat
      BY <2>1
    <3> QED
      BY <3>1, <3>2
  <2>3. {} \in G
    BY <1>7
  <2> HIDE DEF G
  <2>2. \A T \in SUBSET S : T \in G
    BY <2>1, <2>3, SubsetInduction
  <2> QED
    BY <2>2 DEF G
<1>9. \A T \in SUBSET S : \A x \in T : sum[T] = v[x] + sum[T \ {x}]
  <2> DEFINE any(T) == \A x \in T : sum[T] = v[x] + sum[T \ {x}]
             G == {T \in SUBSET S : any(T)}
  <2>1. ASSUME NEW T \in SUBSET S, T # {}, \A x \in T : any(T \ {x}), NEW x \in T
        PROVE  sum[T] = v[x] + sum[T \ {x}]
    <3>1. PICK y \in T : sum[T] = v[y] + sum[T \ {y}]
      BY <2>1, <1>7
    <3>2. CASE y # x
      <4> DEFINE rest == sum[T \ {x, y}]
      <4>1. /\ (T \ {y}) \ {x} = T \ {x, y} /\ x \in T \ {y}
            /\ (T \ {x}) \ {y} = T \ {x, y} /\ y \in T \ {x}
            /\ T \ {x, y} \in SUBSET S
        BY <3>2
      <4>2. sum[T \ {y}] = v[x] + rest /\ sum[T \ {x}] = v[y] + rest
        BY <2>1, <4>1
      <4>3. v[x] \in Nat /\ v[y] \in Nat /\ rest \in Nat
        BY <4>1, <1>8
      <4> HIDE DEF rest
      <4> QED
        BY <3>1, <4>2, <4>3
    <3> QED
      BY <3>1, <3>2
  <2>2. {} \in G
    OBVIOUS
  <2>3. \A T \in (SUBSET S) \ {{}} : (\A x \in T : T \ {x} \in G) => T \in G
    BY <2>1
  <2> HIDE DEF G
  <2>4. \A T \in SUBSET S : T \in G
    BY <2>2, <2>3, SubsetInduction
  <2> QED
    BY <2>4 DEF G
<1> QED
  BY <1>6, <1>7, <1>8, <1>9

\* Counts by class add up to the number of what is counted: nothing is counted
\* twice and nothing is left out.
LEMMA CountsAddUp ==
    ASSUME NEW K, IsFiniteSet(K), NEW D, IsFiniteSet(D), NEW class \in [D -> K]
    PROVE  Total([k \in K |-> Cardinality({x \in D : class[x] = k})]) = Cardinality(D)
<1> DEFINE v == [k \in K |-> Cardinality({x \in D : class[x] = k})]
           of(T) == {x \in D : class[x] \in T}
<1>1. \A T \in SUBSET K : IsFiniteSet(of(T)) /\ Cardinality(of(T)) \in Nat
  BY FS_Subset, FS_CardinalityType
<1>2. \A k \in K : /\ IsFiniteSet({x \in D : class[x] = k})
                   /\ Cardinality({x \in D : class[x] = k}) \in Nat
  BY FS_Subset, FS_CardinalityType
<1>3. v \in [K -> Nat]
  BY <1>2
<1>4. PICK sum \in [SUBSET K -> Nat] :
         /\ sum[{}] = 0
         /\ \A T \in SUBSET K : \A k \in T : sum[T] = v[k] + sum[T \ {k}]
         /\ Total(v) = sum[K]
  <2> HIDE DEF v
  <2> QED
    BY <1>3, TotalUnfolds
<1> DEFINE G == {T \in SUBSET K : sum[T] = Cardinality(of(T))}
<1>5. {} \in G
  BY <1>4, FS_EmptySet
<1>6. ASSUME NEW T \in SUBSET K, T # {}, \A k \in T : T \ {k} \in G PROVE T \in G
  <2>1. PICK k \in T : TRUE
    BY <1>6
  <2> DEFINE one == {x \in D : class[x] = k}
  <2>2. of(T) = one \cup of(T \ {k}) /\ one \cap of(T \ {k}) = {}
    OBVIOUS
  <2>3. /\ IsFiniteSet(one) /\ IsFiniteSet(of(T \ {k}))
        /\ Cardinality(one) \in Nat /\ Cardinality(of(T \ {k})) \in Nat
    BY <1>1, <1>2
  <2>4. sum[T] = Cardinality(one) + Cardinality(of(T \ {k}))
    BY <1>4, <1>6
  <2> DEFINE others == of(T \ {k})
  <2>5. Cardinality(one \cup others) = Cardinality(one) + Cardinality(others)
    <3> HIDE DEF of, one, others
    <3>1. IsFiniteSet(one) /\ IsFiniteSet(others) /\ one \cap others = {}
      BY <2>2, <2>3 DEF others
    <3>2. Cardinality(one \cup others)
            = Cardinality(one) + Cardinality(others) - Cardinality(one \cap others)
      BY <3>1, FS_Union
    <3>3. Cardinality(one \cap others) = 0
      BY <3>1, FS_EmptySet
    <3>4. Cardinality(one) \in Nat /\ Cardinality(others) \in Nat
      BY <3>1, FS_CardinalityType
    <3> QED
      BY <3>2, <3>3, <3>4
  <2>6. of(T) = one \cup others
    BY <2>2
  <2> HIDE DEF of, one
  <2> QED
    BY <2>4, <2>5, <2>6
<1>7. K \in G
  <2> HIDE DEF G
  <2> QED
    BY <1>5, <1>6, SubsetInduction
<1>8. of(K) = D
  OBVIOUS
<1> QED
  BY <1>4, <1>7, <1>8

-----------------------------------------------------------------------------
(* The results of an image and of a pod.                                   *)

Scans == {PodScan(st, violations, vulnerabilities) :
            st \in PolicyStatuses, violations \in Nat, vulnerabilities \in Nat}

\* What a scan holds.
LEMMA ScanFields ==
    /\ \A scan \in Scans : /\ scan.at = "Scan"
                           /\ scan.overallStatus \in PolicyStatuses
                           /\ scan.policyViolations \in Nat
                           /\ scan.vulnerabilities \in Nat
    /\ NotYet.at = "Nil"
    /\ Missing.at = "Error"
  BY DEF Scans, PodScan, NotYet, Missing

\* Counts are numbers.
LEMMA GetType ==
    ASSUME NEW map, NEW K, IsCounts(map, K), NEW k
    PROVE  Get(map, k) \in Nat
  BY DEF IsCounts, Get

\* An image that is known has a scan when it is Complete, and none yet before.
LEMMA ImageScans ==
    ASSUME IInv, NEW s \in Known
    PROVE  /\ s \in InStatus("Complete") => scanResultsForImage(s) \in Scans
           /\ s \notin InStatus("Complete") => scanResultsForImage(s) = NotYet
<1>1. CASE s \notin InStatus("Complete")
  BY <1>1 DEF scanResultsForImage, InStatus
<1>2. CASE s \in InStatus("Complete")
  <2> DEFINE r == images[s].results
             st == PolicyStatus[r.report].overall
  <2>1. images[s].status = "Complete" /\ r # NoResults /\ r \in ScanResults
    BY <1>2 DEF IInv, ImagesInv, ImagesTypeOK, ResultsSound, InStatus, ImageInfo
  <2>2. r.report \in Reports
    BY <2>1 DEF ScanResults
  <2>3. st \in PolicyStatuses /\ IsCounts(PolicyStatus[r.report].counts, PolicyStatuses)
    BY <2>2, PolicyStatusAssumption
  <2>4. ViolationCount(r) \in Nat
    BY <2>3, GetType DEF ViolationCount
  <2>5. VulnerabilityCount(r) \in Nat
    <3> DEFINE categories == RiskProfile[r.report]
    <3>1. CASE "VULNERABILITY" \in DOMAIN categories
      <4>1. IsCounts(categories["VULNERABILITY"], {"CRITICAL", "HIGH", "LOW"})
        BY <2>2, <3>1, RiskProfileAssumption
      <4>2. /\ Get(categories["VULNERABILITY"], "CRITICAL") \in Nat
            /\ Get(categories["VULNERABILITY"], "HIGH") \in Nat
        BY <4>1, GetType
      <4> QED
        BY <3>1, <4>2 DEF VulnerabilityCount
    <3>2. CASE "VULNERABILITY" \notin DOMAIN categories
      BY <3>2 DEF VulnerabilityCount
    <3> QED
      BY <3>1, <3>2
  <2>6. scanResultsForImage(s) = PodScan(st, ViolationCount(r), VulnerabilityCount(r))
    BY <1>2, <2>1 DEF scanResultsForImage
  <2> HIDE DEF r, st
  <2>7. scanResultsForImage(s) \in Scans
    BY <2>3, <2>4, <2>5, <2>6 DEF Scans
  <2> QED
    BY <1>2, <2>7
<1> QED
  BY <1>1, <1>2

\* The position Max chooses.
LEMMA HighestPosition ==
    ASSUME NEW m \in Nat, NEW T \in SUBSET (1 .. m), T # {}
    PROVE  Lists!Max(T) \in T /\ \A i \in T : i <= Lists!Max(T)
<1> DEFINE below == {m - i : i \in T}
<1>1. \A i \in T : i \in 1 .. m /\ m - i \in Nat
  OBVIOUS
<1>2. below \in SUBSET Nat /\ below # {}
  BY <1>1
<1> HIDE DEF below
<1>3. PICK x \in below : \A y \in below : x <= y
  BY <1>2, LeastNumber
<1>4. PICK i \in T : x = m - i
  BY <1>3 DEF below
<1>5. ASSUME NEW j \in T PROVE i >= j
  <2>1. m - j \in below
    BY DEF below
  <2>2. i \in Nat /\ j \in Nat
    OBVIOUS
  <2> QED
    BY <1>3, <1>4, <2>1, <2>2
<1>6. Lists!Max(T) \in T /\ \A j \in T : Lists!Max(T) >= j
  BY <1>5 DEF Lists!Max
<1>7. \A j \in T : j \in Nat
  OBVIOUS
<1> QED
  BY <1>6, <1>7

\* The loop over the containers of a pod: what it has found after each of them.
LEMMA PodLoop ==
    ASSUME IInv, NEW m \in Nat, NEW containers \in [1 .. m -> Known]
    PROVE  \E scan \in [0 .. m -> Scans \cup {NotYet, Missing}] :
              /\ scan[0] = PodScan("NOT_IN_VIOLATION", 0, 0)
              /\ \A i \in 1 .. m : scan[i] = AddContainer(scan[i - 1], containers[i])
              /\ scanResultsForPod(containers) = scan[m]
<1> DEFINE S == 1 .. m
           X == Scans \cup {NotYet, Missing}
           base == PodScan("NOT_IN_VIOLATION", 0, 0)
           next == [T \in SUBSET S |-> Lists!Max(T)]
           step == [i \in S |-> [x \in X |-> AddContainer(x, containers[i])]]
           Runs(f) == f = [T \in SUBSET DOMAIN containers |->
                             IF T = {} THEN base
                             ELSE LET x == Lists!Max(T)
                                  IN  AddContainer(f[T \ {x}], containers[x])]
           fold == CHOOSE f : Runs(f)
<1>1. IsFiniteSet(S) /\ DOMAIN containers = S
  BY FS_Interval
<1>2. \A T \in (SUBSET S) \ {{}} : next[T] \in T /\ next[T] = Lists!Max(T)
  BY HighestPosition
<1>3. base \in X
  BY DEF Scans, PolicyStatuses
<1>4. ASSUME NEW x \in X, NEW i \in S PROVE AddContainer(x, containers[i]) \in X
  <2> DEFINE s == containers[i]
             scan == scanResultsForImage(s)
  <2>1. s \in Known /\ scan \in Scans \cup {NotYet}
    BY ImageScans
  <2>2. CASE x.at # "Scan" \/ scan.at # "Scan"
    BY <2>1, <2>2 DEF AddContainer
  <2>3. CASE x.at = "Scan" /\ scan.at = "Scan"
    <3>1. x \in Scans /\ scan \in Scans
      BY <2>1, <2>3, ScanFields
    <3> HIDE DEF scan
    <3>2. /\ x.policyViolations + scan.policyViolations \in Nat
          /\ x.vulnerabilities + scan.vulnerabilities \in Nat
          /\ x.overallStatus \in PolicyStatuses /\ scan.overallStatus \in PolicyStatuses
      BY <3>1, ScanFields
    <3> QED
      BY <2>3, <3>2 DEF AddContainer, Scans, scan
  <2> QED
    BY <2>2, <2>3
<1>5. step \in [S -> [X -> X]]
  BY <1>4
<1>6. \A i \in S, x \in X : step[i][x] = AddContainer(x, containers[i])
  OBVIOUS
<1>7. PICK f \in [SUBSET S -> X] : FoldEquation(f, SUBSET S, base, step, next)
  <2> HIDE DEF S, X, base, step, next
  <2> QED
    BY <1>1, <1>2, <1>3, <1>5, FoldExists
<1>8. Runs(f)
  <2> HIDE DEF S, X, base, step, next
  <2>1. ASSUME NEW T \in SUBSET S, T # {}
        PROVE  f[T] = AddContainer(f[T \ {Lists!Max(T)}], containers[Lists!Max(T)])
    <3>1. /\ f[T] = step[next[T]][f[T \ {next[T]}]]
          /\ next[T] \in S /\ T \ {next[T]} \in SUBSET S
      BY <2>1, <1>2, <1>7 DEF FoldEquation
    <3>2. f[T \ {next[T]}] \in X
      BY <3>1
    <3> QED
      BY <2>1, <3>1, <3>2, <1>2, <1>6
  <2>2. f[{}] = base
    BY <1>7 DEF FoldEquation
  <2> QED
    BY <2>1, <2>2, <1>1
<1>9. Runs(fold)
  BY <1>8
<1>10. scanResultsForPod(containers) = fold[DOMAIN containers]
  BY DEF scanResultsForPod, Lists!FoldLeft, Lists!MapThenFoldSet
<1> HIDE DEF fold, X, base, step, next
<1>11. /\ fold[1 .. 0] = base
       /\ \A i \in 1 .. m : fold[1 .. i] = AddContainer(fold[1 .. i - 1], containers[i])
  <2>1. 1 .. 0 = {}
    OBVIOUS
  <2>2. ASSUME NEW i \in 1 .. m
        PROVE  fold[1 .. i] = AddContainer(fold[1 .. i - 1], containers[i])
    <3>1. 1 .. i \in SUBSET S /\ 1 .. i # {} /\ i \in 1 .. i
      OBVIOUS
    <3>2. Lists!Max(1 .. i) \in 1 .. i /\ i <= Lists!Max(1 .. i)
      BY <3>1, HighestPosition
    <3>3. Lists!Max(1 .. i) = i
      BY <3>2
    <3>4. (1 .. i) \ {i} = 1 .. i - 1
      OBVIOUS
    <3> QED
      BY <1>1, <1>9, <3>1, <3>3, <3>4
  <2> QED
    BY <1>1, <1>9, <2>1, <2>2
<1> DEFINE scan == [i \in 0 .. m |-> fold[1 .. i]]
           G == {i \in 0 .. m : scan[i] \in X}
<1>12. /\ scan[0] = base
       /\ \A i \in 1 .. m : scan[i] = AddContainer(scan[i - 1], containers[i])
       /\ scan[m] = fold[1 .. m]
  BY <1>11
<1> HIDE DEF scan
<1>13. ASSUME NEW i \in 0 .. m - 1, scan[i] \in X PROVE scan[i + 1] \in X
  <2>1. i + 1 \in 1 .. m /\ (i + 1) - 1 = i
    OBVIOUS
  <2>2. scan[i + 1] = AddContainer(scan[i], containers[i + 1])
    BY <1>12, <2>1
  <2> QED
    BY <1>4, <1>13, <2>1, <2>2
<1>14. \A i \in 0 .. m : i \in G
  <2>1. 0 \in G
    BY <1>3, <1>12
  <2>2. \A i \in 0 .. m - 1 : i \in G => i + 1 \in G
    BY <1>13
  <2> HIDE DEF G
  <2> QED
    BY <2>1, <2>2, UpTo
<1>15. scan \in [0 .. m -> X]
  BY <1>14 DEF scan
<1> QED
  BY <1>1, <1>10, <1>12, <1>15 DEF X, base

\* Every list of containers of a pod is a list of images that are known, and has
\* the pod's images.
LEMMA ContainersOfPod ==
    ASSUME IInv, NEW n \in DOMAIN pods, NEW containers \in Containers(pods[n])
    PROVE  \E m \in Nat : /\ containers \in [1 .. m -> Known]
                          /\ \A i \in 1 .. m : containers[i] \in pods[n]
                          /\ \A s \in pods[n] : \E i \in 1 .. m : containers[i] = s
<1>1. PICK m \in 0 .. MaxContainers : containers \in [1 .. m -> pods[n]]
  BY DEF Containers, Lists!SeqOf
<1>2. {containers[i] : i \in DOMAIN containers} = pods[n]
  BY DEF Containers, Lists!ToSet
<1>3. pods[n] \subseteq Known
  BY DEF IInv, PodsInv, PodImagesKnown
<1>4. m \in Nat /\ DOMAIN containers = 1 .. m
  BY <1>1, MaxContainersAssumption
<1>5. \A s \in pods[n] : \E i \in 1 .. m : containers[i] = s
  BY <1>2, <1>4
<1> QED
  BY <1>1, <1>3, <1>4, <1>5

\* The loop goes on exactly as long as the containers are Complete, and never
\* meets an error.
LEMMA LoopGoesOn ==
    ASSUME IInv, NEW m \in Nat, NEW containers \in [1 .. m -> Known],
           NEW scan, scan[0] = PodScan("NOT_IN_VIOLATION", 0, 0),
           \A i \in 1 .. m : scan[i] = AddContainer(scan[i - 1], containers[i])
    PROVE  \A i \in 0 .. m :
              /\ scan[i].at # "Error"
              /\ scan[i].at = "Scan" <=> \A j \in 1 .. i : containers[j] \in InStatus("Complete")
<1> DEFINE ready(j) == containers[j] \in InStatus("Complete")
           good(i) == /\ scan[i].at # "Error"
                      /\ scan[i].at = "Scan" <=> \A j \in 1 .. i : ready(j)
           G == {i \in 0 .. m : good(i)}
<1>1. 0 \in G
  BY DEF PodScan
<1>2. ASSUME NEW i \in 0 .. m - 1, good(i) PROVE good(i + 1)
  <2> DEFINE s == containers[i + 1]
  <2>1. i + 1 \in 1 .. m /\ s \in Known /\ scan[i + 1] = AddContainer(scan[i], s)
    <3>1. i + 1 \in 1 .. m /\ (i + 1) - 1 = i
      OBVIOUS
    <3> QED
      BY <3>1
  <2>2. (\A j \in 1 .. i + 1 : ready(j)) <=> (\A j \in 1 .. i : ready(j)) /\ ready(i + 1)
    <3>1. \A j \in 1 .. i + 1 : j \in 1 .. i \/ j = i + 1
      OBVIOUS
    <3>2. 1 .. i \subseteq 1 .. i + 1 /\ i + 1 \in 1 .. i + 1
      OBVIOUS
    <3> QED
      BY <3>1, <3>2
  <2>3. CASE scan[i].at # "Scan"
    BY <1>2, <2>1, <2>2, <2>3 DEF AddContainer
  <2>4. CASE scan[i].at = "Scan" /\ ready(i + 1)
    <3>1. scanResultsForImage(s).at = "Scan"
      BY <2>1, <2>4, ImageScans, ScanFields
    <3>2. scan[i + 1].at = "Scan"
      BY <2>1, <2>4, <3>1 DEF AddContainer, PodScan
    <3> QED
      BY <1>2, <2>2, <2>4, <3>2
  <2>5. CASE scan[i].at = "Scan" /\ ~ready(i + 1)
    <3>1. scanResultsForImage(s).at = "Nil"
      BY <2>1, <2>5, ImageScans, ScanFields
    <3>2. scan[i + 1].at = "Nil"
      BY <2>1, <2>5, <3>1 DEF AddContainer
    <3> QED
      BY <2>2, <2>5, <3>2
  <2> QED
    BY <2>3, <2>4, <2>5
<1>3. \A i \in 0 .. m : i \in G
  <2>1. \A i \in 0 .. m - 1 : i \in G => i + 1 \in G
    BY <1>2
  <2> HIDE DEF G
  <2> QED
    BY <1>1, <2>1, UpTo
<1> QED
  BY <1>3

\* What PodTotalsSound says of a pod that has a scan.
TotalsOf(scan, containers) ==
    LET of(i) == scanResultsForImage(containers[i])
        all == DOMAIN containers
    IN  /\ scan.policyViolations = Total([i \in all |-> of(i).policyViolations])
        /\ scan.vulnerabilities = Total([i \in all |-> of(i).vulnerabilities])
        /\ IF \A i \in all : of(i).overallStatus = "NOT_IN_VIOLATION"
           THEN scan.overallStatus = "NOT_IN_VIOLATION"
           ELSE \E i \in all : /\ scan.overallStatus = of(i).overallStatus
                               /\ of(i).overallStatus # "NOT_IN_VIOLATION"

\* What the loop has added up is the sum over the containers it has seen.
LEMMA LoopAddsUp ==
    ASSUME IInv, NEW m \in Nat, NEW containers \in [1 .. m -> InStatus("Complete")],
           NEW scan, scan[0] = PodScan("NOT_IN_VIOLATION", 0, 0),
           \A i \in 1 .. m : scan[i] = AddContainer(scan[i - 1], containers[i])
    PROVE  TotalsOf(scan[m], containers)
<1> DEFINE of(i) == scanResultsForImage(containers[i])
           clean(i) == of(i).overallStatus = "NOT_IN_VIOLATION"
           violations == [i \in 1 .. m |-> of(i).policyViolations]
           vulnerabilities == [i \in 1 .. m |-> of(i).vulnerabilities]
<1>1. /\ containers \in [1 .. m -> Known]
      /\ \A i \in 1 .. m : of(i) \in Scans
  <2>1. \A i \in 1 .. m : containers[i] \in Known
    BY DEF InStatus
  <2> QED
    BY <2>1, ImageScans
<1>2. /\ violations \in [1 .. m -> Nat] /\ vulnerabilities \in [1 .. m -> Nat]
      /\ \A i \in 1 .. m : of(i).at = "Scan"
  BY <1>1, ScanFields
<1>3. \A i \in 0 .. m : scan[i].at = "Scan"
  <2>1. \A i \in 0 .. m : \A j \in 1 .. i : containers[j] \in InStatus("Complete")
    OBVIOUS
  <2> QED
    BY <1>1, <2>1, LoopGoesOn
<1>4. IsFiniteSet(1 .. m)
  BY FS_Interval
<1>5. PICK sum1 \in [SUBSET (1 .. m) -> Nat] :
         /\ sum1[{}] = 0
         /\ \A T \in SUBSET (1 .. m) : \A i \in T : sum1[T] = violations[i] + sum1[T \ {i}]
         /\ Total(violations) = sum1[1 .. m]
  <2> HIDE DEF violations
  <2> QED
    BY <1>2, <1>4, TotalUnfolds
<1>6. PICK sum2 \in [SUBSET (1 .. m) -> Nat] :
         /\ sum2[{}] = 0
         /\ \A T \in SUBSET (1 .. m) : \A i \in T : sum2[T] = vulnerabilities[i] + sum2[T \ {i}]
         /\ Total(vulnerabilities) = sum2[1 .. m]
  <2> HIDE DEF vulnerabilities
  <2> QED
    BY <1>2, <1>4, TotalUnfolds
<1> DEFINE status(i) ==
              IF \A j \in 1 .. i : clean(j)
              THEN scan[i].overallStatus = "NOT_IN_VIOLATION"
              ELSE \E j \in 1 .. i : scan[i].overallStatus = of(j).overallStatus /\ ~clean(j)
           good(i) == /\ scan[i].policyViolations = sum1[1 .. i]
                      /\ scan[i].vulnerabilities = sum2[1 .. i]
                      /\ status(i)
           G == {i \in 0 .. m : good(i)}
<1>7. 0 \in G
  <2>1. 1 .. 0 = {}
    OBVIOUS
  <2>2. good(0)
    BY <1>5, <1>6, <2>1 DEF PodScan
  <2> QED
    BY <2>2
<1>8. ASSUME NEW i \in 0 .. m - 1, good(i) PROVE good(i + 1)
  <2>1. /\ i + 1 \in 1 .. m /\ (i + 1) - 1 = i
        /\ 1 .. i + 1 \in SUBSET (1 .. m) /\ i + 1 \in 1 .. i + 1
        /\ (1 .. i + 1) \ {i + 1} = 1 .. i
        /\ 1 .. i \in SUBSET (1 .. m)
    OBVIOUS
  <2>2. scan[i + 1] = AddContainer(scan[i], containers[i + 1])
    BY <2>1
  <2>3. /\ scan[i + 1].policyViolations = scan[i].policyViolations + violations[i + 1]
        /\ scan[i + 1].vulnerabilities = scan[i].vulnerabilities + vulnerabilities[i + 1]
        /\ scan[i + 1].overallStatus = IF clean(i + 1) THEN scan[i].overallStatus
                                                       ELSE of(i + 1).overallStatus
    BY <1>2, <1>3, <2>1, <2>2 DEF AddContainer, PodScan
  <2>4. scan[i + 1].policyViolations = sum1[1 .. i + 1]
    <3>1. violations[i + 1] \in Nat /\ sum1[1 .. i] \in Nat
      BY <1>2, <2>1
    <3> HIDE DEF violations
    <3>2. sum1[1 .. i + 1] = violations[i + 1] + sum1[(1 .. i + 1) \ {i + 1}]
      BY <1>5, <2>1
    <3>3. sum1[1 .. i + 1] = violations[i + 1] + sum1[1 .. i]
      BY <3>2, <2>1
    <3> QED
      BY <1>8, <2>3, <3>1, <3>3
  <2>5. scan[i + 1].vulnerabilities = sum2[1 .. i + 1]
    <3>1. vulnerabilities[i + 1] \in Nat /\ sum2[1 .. i] \in Nat
      BY <1>2, <2>1
    <3> HIDE DEF vulnerabilities
    <3>2. sum2[1 .. i + 1] = vulnerabilities[i + 1] + sum2[(1 .. i + 1) \ {i + 1}]
      BY <1>6, <2>1
    <3>3. sum2[1 .. i + 1] = vulnerabilities[i + 1] + sum2[1 .. i]
      BY <3>2, <2>1
    <3> QED
      BY <1>8, <2>3, <3>1, <3>3
  <2>6. status(i + 1)
    <3>1. \A j \in 1 .. i + 1 : j \in 1 .. i \/ j = i + 1
      OBVIOUS
    <3>2. 1 .. i \subseteq 1 .. i + 1 /\ i + 1 \in 1 .. i + 1
      OBVIOUS
    <3> HIDE DEF of
    <3>3. CASE clean(i + 1)
      BY <1>8, <2>3, <3>1, <3>2, <3>3
    <3>4. CASE ~clean(i + 1)
      BY <2>3, <3>2, <3>4
    <3> QED
      BY <3>3, <3>4
  <2> QED
    BY <2>4, <2>5, <2>6
<1>9. m \in G
  <2>1. \A i \in 0 .. m - 1 : i \in G => i + 1 \in G
    <3> HIDE DEF good
    <3> QED
      BY <1>8
  <2> HIDE DEF G
  <2>2. \A i \in 0 .. m : i \in G
    BY <1>7, <2>1, UpTo
  <2> QED
    BY <2>2
<1>10. DOMAIN containers = 1 .. m
  OBVIOUS
<1> QED
  BY <1>5, <1>6, <1>9, <1>10 DEF TotalsOf

\* A pod is published exactly when all its images are Complete.
THEOREM PodReportsComplete == CoreSpec => []PodReportComplete
<1>1. ASSUME IInv PROVE PodReportComplete
  <2> SUFFICES ASSUME NEW n \in DOMAIN pods, NEW containers \in Containers(pods[n])
               PROVE  /\ scanResultsForPod(containers).at # "Error"
                      /\ scanResultsForPod(containers).at = "Scan"
                           <=> pods[n] \subseteq InStatus("Complete")
    BY DEF PodReportComplete
  <2>1. PICK m \in Nat : /\ containers \in [1 .. m -> Known]
                         /\ \A i \in 1 .. m : containers[i] \in pods[n]
                         /\ \A s \in pods[n] : \E i \in 1 .. m : containers[i] = s
    BY <1>1, ContainersOfPod
  <2>2. PICK scan \in [0 .. m -> Scans \cup {NotYet, Missing}] :
           /\ scan[0] = PodScan("NOT_IN_VIOLATION", 0, 0)
           /\ \A i \in 1 .. m : scan[i] = AddContainer(scan[i - 1], containers[i])
           /\ scanResultsForPod(containers) = scan[m]
    BY <1>1, <2>1, PodLoop
  <2>3. /\ scan[m].at # "Error"
        /\ scan[m].at = "Scan" <=> \A i \in 1 .. m : containers[i] \in InStatus("Complete")
    <3>1. \A i \in 0 .. m :
             /\ scan[i].at # "Error"
             /\ scan[i].at = "Scan" <=> \A j \in 1 .. i : containers[j] \in InStatus("Complete")
      BY <1>1, <2>1, <2>2, LoopGoesOn
    <3> QED
      BY <3>1
  <2> QED
    BY <2>1, <2>2, <2>3
<1> QED
  BY <1>1, Invariance, PTL

\* The loop adds up what the containers of a pod have, and takes the status of
\* one of them.
THEOREM PodTotalsCorrect == CoreSpec => []PodTotalsSound
<1>1. ASSUME IInv PROVE PodTotalsSound
  <2> SUFFICES ASSUME NEW n \in DOMAIN pods, NEW containers \in Containers(pods[n]),
                      scanResultsForPod(containers).at = "Scan"
               PROVE  TotalsOf(scanResultsForPod(containers), containers)
    BY DEF PodTotalsSound, TotalsOf
  <2>1. PICK m \in Nat : containers \in [1 .. m -> Known]
    BY <1>1, ContainersOfPod
  <2>2. PICK scan \in [0 .. m -> Scans \cup {NotYet, Missing}] :
           /\ scan[0] = PodScan("NOT_IN_VIOLATION", 0, 0)
           /\ \A i \in 1 .. m : scan[i] = AddContainer(scan[i - 1], containers[i])
           /\ scanResultsForPod(containers) = scan[m]
    BY <1>1, <2>1, PodLoop
  <2>3. containers \in [1 .. m -> InStatus("Complete")]
    <3>1. \A i \in 0 .. m :
             /\ scan[i].at # "Error"
             /\ scan[i].at = "Scan" <=> \A j \in 1 .. i : containers[j] \in InStatus("Complete")
      BY <1>1, <2>1, <2>2, LoopGoesOn
    <3> QED
      BY <2>1, <2>2, <3>1
  <2> QED
    BY <1>1, <2>2, <2>3, LoopAddsUp
<1> QED
  BY <1>1, Invariance, PTL

-----------------------------------------------------------------------------
(* Metrics.                                                                *)

(***************************************************************************)
(* Only what can be counted: the model stays finite, as every list a       *)
(* client posts is.                                                        *)
(***************************************************************************)
FiniteModel == /\ IsFiniteSet(Known)
               /\ IsFiniteSet(DOMAIN pods)
               /\ \A n \in DOMAIN pods : IsFiniteSet(pods[n])

\* A function has finitely many values on a finite set.
LEMMA FiniteImage ==
    ASSUME NEW S, IsFiniteSet(S), NEW f
    PROVE  IsFiniteSet({f[x] : x \in S})
<1> DEFINE of(T) == {f[x] : x \in T}
           G == {T \in SUBSET S : IsFiniteSet(of(T))}
<1>1. {} \in G
  <2>1. of({}) = {}
    OBVIOUS
  <2> QED
    BY <2>1, FS_EmptySet
<1>2. ASSUME NEW T \in SUBSET S, T # {}, \A x \in T : T \ {x} \in G PROVE T \in G
  <2>1. PICK x \in T : TRUE
    BY <1>2
  <2>2. of(T) = of(T \ {x}) \cup {f[x]}
    OBVIOUS
  <2>3. IsFiniteSet(of(T \ {x}))
    BY <1>2
  <2> HIDE DEF of
  <2> QED
    BY <2>2, <2>3, FS_AddElement
<1>3. \A T \in (SUBSET S) \ {{}} : (\A x \in T : T \ {x} \in G) => T \in G
  BY <1>2
<1>4. \A T \in SUBSET S : T \in G
  <2> HIDE DEF G
  <2> QED
    BY <1>1, <1>3, SubsetInduction
<1> QED
  BY <1>4

\* The shas of finitely many images are finitely many.
LEMMA FiniteShas ==
    ASSUME NEW imgs, IsFiniteSet(imgs)
    PROVE  IsFiniteSet(ShasOf(imgs))
<1> DEFINE f == [i \in imgs |-> i.sha]
<1>1. ShasOf(imgs) = {f[i] : i \in imgs}
  BY DEF ShasOf
<1> HIDE DEF f
<1> QED
  BY <1>1, FiniteImage


\* No step makes the model infinite.
LEMMA FiniteStep ==
    ASSUME FiniteModel, [CoreNext]_coreVars
    PROVE  FiniteModel'
<1>1. ASSUME NEW imgs, IsFiniteSet(imgs), createImages(imgs) PROVE IsFiniteSet(Known')
  <2>1. Known' = Known \cup ShasOf(imgs)
    BY <1>1 DEF createImages, Adopted, Known
  <2> QED
    BY <1>1, <2>1, FiniteShas, FS_Union DEF FiniteModel
<1>2. ASSUME NEW pod \in UNION PodLists, addPod(pod) PROVE FiniteModel'
  <2>1. IsFiniteSet(pod.images)
    BY FiniteListsAssumption
  <2>2. IsFiniteSet(Known')
    BY <1>1, <1>2, <2>1 DEF addPod
  <2>3. pods' = [n \in DOMAIN pods \cup {pod.name} |->
                   IF n = pod.name THEN ShasOf(pod.images) ELSE pods[n]]
    BY <1>2 DEF addPod
  <2>4. IsFiniteSet(DOMAIN pods \cup {pod.name})
    BY FS_AddElement, Zenon DEF FiniteModel
  <2> QED
    BY <2>1, <2>2, <2>3, <2>4, FiniteShas DEF FiniteModel
<1>3. ASSUME NEW name \in PodNames, deletePod(name) PROVE FiniteModel'
  <2>1. DOMAIN pods' = DOMAIN pods \ {name} /\ \A n \in DOMAIN pods' : pods'[n] = pods[n]
    BY <1>3 DEF deletePod
  <2>2. Known' = Known
    BY <1>3 DEF deletePod, Known
  <2>3. IsFiniteSet(DOMAIN pods')
    BY <2>1, FS_RemoveElement DEF FiniteModel
  <2> QED
    BY <2>1, <2>2, <2>3 DEF FiniteModel
<1>4. ASSUME NEW list \in PodLists, allPods(list) PROVE FiniteModel'
  <2> DEFINE names == {pod.name : pod \in list}
             posted == {pod.images : pod \in list}
  <2>1. IsFiniteSet(list) /\ \A pod \in list : IsFiniteSet(pod.images)
    BY FiniteListsAssumption
  <2>2. IsFiniteSet(names) /\ IsFiniteSet(posted)
    <3> DEFINE name == [pod \in list |-> pod.name]
               posts == [pod \in list |-> pod.images]
    <3>1. names = {name[pod] : pod \in list} /\ posted = {posts[pod] : pod \in list}
      OBVIOUS
    <3> HIDE DEF names, posted, name, posts
    <3> QED
      BY <2>1, <3>1, FiniteImage
  <2>3. IsFiniteSet(UNION posted)
    BY <2>1, <2>2, FS_UNION
  <2>4. IsFiniteSet(Known')
    BY <1>1, <1>4, <2>3 DEF allPods
  <2>5. PICK last \in [names -> list] : pods' = [n \in names |-> ShasOf(last[n].images)]
    BY <1>4 DEF allPods
  <2>6. \A n \in DOMAIN pods' : IsFiniteSet(pods'[n])
    BY <2>1, <2>5, FiniteShas
  <2> QED
    BY <2>2, <2>4, <2>5, <2>6 DEF FiniteModel
<1>5. ASSUME NEW image \in Image, addImage(image) PROVE FiniteModel'
  <2>1. IsFiniteSet(Known') /\ pods' = pods
    BY <1>1, <1>5, FS_Singleton DEF addImage, allImages
  <2> QED
    BY <2>1 DEF FiniteModel
<1>6. ASSUME NEW list \in ImageLists, allImages(list) PROVE FiniteModel'
  <2>1. IsFiniteSet(Known') /\ pods' = pods
    BY <1>1, <1>6, FiniteListsAssumption DEF allImages
  <2> QED
    BY <2>1 DEF FiniteModel
<1>7. ASSUME NEW s \in Shas, startScanClient(s) PROVE FiniteModel'
  <2>1. Known' = Known /\ pods' = pods
    BY <1>7 DEF startScanClient, setImageScanStatus, Known
  <2> QED
    BY <2>1 DEF FiniteModel
<1>8. ASSUME NEW s \in Shas, NEW failed \in BOOLEAN, finishRunningScanClient(s, failed)
      PROVE  FiniteModel'
  <2>1. Known' = Known /\ pods' = pods
    BY <1>8 DEF finishRunningScanClient, setImageScanStatus, Known
  <2> QED
    BY <2>1 DEF FiniteModel
<1>9. ASSUME NEW s \in Shas, NEW r \in ScanResults \cup {NoResults}, scanDidFinish(s, r)
      PROVE  FiniteModel'
  <2>1. Known' = Known /\ pods' = pods
    BY <1>9 DEF scanDidFinish, setImageScanStatus, Known
  <2> QED
    BY <2>1 DEF FiniteModel
<1>10. CASE UNCHANGED coreVars
  BY <1>10 DEF coreVars, FiniteModel, Known
<1> QED
  BY <1>2, <1>3, <1>4, <1>5, <1>6, <1>7, <1>8, <1>9, <1>10 DEF CoreNext

\* The model is finite in every reachable state.
LEMMA Finiteness == CoreSpec => []FiniteModel
<1>1. CoreInit => FiniteModel
  BY FS_EmptySet DEF CoreInit, FiniteModel, Known
<1>2. FiniteModel /\ [CoreNext]_coreVars => FiniteModel'
  BY FiniteStep
<1> QED
  BY <1>1, <1>2, PTL DEF CoreSpec

\* The statuses of pods and images, and of scans, are few.
LEMMA FewStatuses ==
    /\ IsFiniteSet(PolicyStatuses \cup {"Unknown"})
    /\ IsFiniteSet(ScanStatuses)
<1>1. IsFiniteSet({"NOT_IN_VIOLATION"}) /\ IsFiniteSet({"Unknown"})
  BY FS_Singleton
<1>2. IsFiniteSet({"NOT_IN_VIOLATION"} \cup {"IN_VIOLATION"})
  BY <1>1, FS_AddElement
<1>3. IsFiniteSet(({"NOT_IN_VIOLATION"} \cup {"IN_VIOLATION"}) \cup {"IN_VIOLATION_OVERRIDDEN"})
  BY <1>2, FS_AddElement
<1>4. PolicyStatuses
        = ({"NOT_IN_VIOLATION"} \cup {"IN_VIOLATION"}) \cup {"IN_VIOLATION_OVERRIDDEN"}
  BY DEF PolicyStatuses
<1>5. IsFiniteSet(PolicyStatuses \cup {"Unknown"})
  BY <1>3, <1>4, FS_AddElement
<1>6. IsFiniteSet({"Unknown"} \cup {"InQueue"})
  BY <1>1, FS_AddElement
<1>7. IsFiniteSet(({"Unknown"} \cup {"InQueue"}) \cup {"RunningScanClient"})
  BY <1>6, FS_AddElement
<1>8. IsFiniteSet((({"Unknown"} \cup {"InQueue"}) \cup {"RunningScanClient"}) \cup {"RunningHubScan"})
  BY <1>7, FS_AddElement
<1>9. ScanStatuses = ((({"Unknown"} \cup {"InQueue"}) \cup {"RunningScanClient"})
                        \cup {"RunningHubScan"}) \cup {"Complete"}
  BY DEF ScanStatuses
<1>10. IsFiniteSet(ScanStatuses)
  BY <1>8, <1>9, FS_AddElement
<1> QED
  BY <1>5, <1>10

\* SetToSeq lists a finite set.
LEMMA ListOfSet ==
    ASSUME NEW S, IsFiniteSet(S)
    PROVE  Lists!SetToSeq(S) \in [1 .. Cardinality(S) -> S]
<1>1. ExistsBijection(1 .. Cardinality(S), S)
  BY FS_CardinalityType
<1>2. PICK f \in [1 .. Cardinality(S) -> S] : Lists!IsInjective(f)
  BY <1>1 DEF ExistsBijection, Bijection, Injection, IsInjective, Lists!IsInjective
<1>3. Lists!Cardinality(S) = Cardinality(S)
  BY DEF Cardinality, Lists!Cardinality
<1> QED
  BY <1>2, <1>3 DEF Lists!SetToSeq

\* A pod has a scan with the status of a policy, or none yet.
LEMMA PodScans ==
    ASSUME IInv, NEW m \in Nat, NEW containers \in [1 .. m -> Known]
    PROVE  scanResultsForPod(containers) \in Scans \cup {NotYet}
<1>1. PICK scan \in [0 .. m -> Scans \cup {NotYet, Missing}] :
         /\ scan[0] = PodScan("NOT_IN_VIOLATION", 0, 0)
         /\ \A i \in 1 .. m : scan[i] = AddContainer(scan[i - 1], containers[i])
         /\ scanResultsForPod(containers) = scan[m]
  BY PodLoop
<1>2. \A i \in 0 .. m :
         /\ scan[i].at # "Error"
         /\ scan[i].at = "Scan" <=> \A j \in 1 .. i : containers[j] \in InStatus("Complete")
  BY <1>1, LoopGoesOn
<1>3. scan[m].at # "Error" /\ scan[m] \in Scans \cup {NotYet, Missing}
  BY <1>1, <1>2
<1> QED
  BY <1>1, <1>3, ScanFields

\* How many of the scans have which status.
StatusesOf(scan) ==
    [st \in PolicyStatuses \cup {"Unknown"} |->
        Cardinality({x \in DOMAIN scan : IF scan[x].at = "Scan"
                                         THEN scan[x].overallStatus = st
                                         ELSE scan[x].at = "Nil" /\ st = "Unknown"})]

\* The metrics of pods and of images count by their status; what has no scan
\* counts as unknown.
LEMMA StatusMetric ==
    ASSUME NEW D, IsFiniteSet(D), NEW scan \in [D -> Scans \cup {NotYet}],
           NEW v, v = StatusesOf(scan)
    PROVE  /\ Total(v) = Cardinality(D)
           /\ v["Unknown"] = Cardinality({x \in D : scan[x].at # "Scan"})
<1> DEFINE K == PolicyStatuses \cup {"Unknown"}
           class == [x \in D |-> IF scan[x].at = "Scan" THEN scan[x].overallStatus
                                                        ELSE "Unknown"]
           counted(st) == {x \in D : IF scan[x].at = "Scan"
                                     THEN scan[x].overallStatus = st
                                     ELSE scan[x].at = "Nil" /\ st = "Unknown"}
<1>1. \A x \in D : /\ scan[x].at = "Scan" => scan[x].overallStatus \in PolicyStatuses
                   /\ scan[x].at # "Scan" => scan[x].at = "Nil"
  BY ScanFields
<1>2. class \in [D -> K]
  BY <1>1
<1>3. \A st \in K : counted(st) = {x \in D : class[x] = st}
  BY <1>1
<1>4. v = [st \in K |-> Cardinality(counted(st))]
  BY DEF StatusesOf
<1>5. v = [st \in K |-> Cardinality({x \in D : class[x] = st})]
  BY <1>3, <1>4
<1>6. Total(v) = Cardinality(D)
  <2> HIDE DEF class, K
  <2>1. IsFiniteSet(K)
    BY FewStatuses DEF K
  <2> QED
    BY <1>2, <1>5, <2>1, CountsAddUp
<1>7. "Unknown" \notin PolicyStatuses
  BY DEF PolicyStatuses
<1>8. counted("Unknown") = {x \in D : scan[x].at # "Scan"}
  BY <1>1, <1>7
<1> QED
  BY <1>6, <1>8, <1>4

\* The metrics agree with the model, with each other, and with what is
\* published.
THEOREM MetricsCorrect == CoreSpec => []MetricsAgree
<1>1. ASSUME IInv, FiniteModel PROVE MetricsAgree
  <2> DEFINE lists == [n \in DOMAIN pods |-> Lists!SetToSeq(pods[n])]
             podScan == [n \in DOMAIN pods |-> scanResultsForPod(lists[n])]
             imageScan == [s \in Known |-> scanResultsForImage(s)]
  <2>1. podScan \in [DOMAIN pods -> Scans \cup {NotYet}]
    <3>1. ASSUME NEW n \in DOMAIN pods
          PROVE  scanResultsForPod(Lists!SetToSeq(pods[n])) \in Scans \cup {NotYet}
      <4>1. IsFiniteSet(pods[n]) /\ Cardinality(pods[n]) \in Nat
        BY <1>1, FS_CardinalityType DEF FiniteModel
      <4>2. pods[n] \subseteq Known
        BY <1>1 DEF IInv, PodsInv, PodImagesKnown
      <4>3. Lists!SetToSeq(pods[n]) \in [1 .. Cardinality(pods[n]) -> Known]
        BY <4>1, <4>2, ListOfSet
      <4> QED
        BY <1>1, <4>1, <4>3, PodScans
    <3> QED
      BY <3>1
  <2>2. imageScan \in [Known -> Scans \cup {NotYet}]
    BY <1>1, ImageScans
  <2>3. /\ Total(PodStatus(lists)) = Cardinality(DOMAIN pods)
        /\ PodStatus(lists)["Unknown"] = Cardinality({n \in DOMAIN pods : podScan[n].at # "Scan"})
    <3>1. PodStatus(lists) = StatusesOf(podScan)
      BY DEF PodStatus, StatusesOf
    <3>2. IsFiniteSet(DOMAIN pods)
      BY <1>1 DEF FiniteModel
    <3> HIDE DEF podScan, lists
    <3> QED
      BY <2>1, <3>1, <3>2, StatusMetric
  <2>4. /\ Total(ImageStatus) = Cardinality(Known)
        /\ ImageStatus["Unknown"] = Cardinality({s \in Known : imageScan[s].at # "Scan"})
    <3>1. ImageStatus = StatusesOf(imageScan)
      BY DEF ImageStatus, StatusesOf
    <3>2. IsFiniteSet(Known)
      BY <1>1 DEF FiniteModel
    <3> HIDE DEF imageScan
    <3> QED
      BY <2>2, <3>1, <3>2, StatusMetric
  <2>5. {n \in DOMAIN pods : podScan[n].at # "Scan"} = DOMAIN pods \ scanResultsPods(lists)
    BY DEF scanResultsPods
  <2>6. scanResultsImages = InStatus("Complete")
    BY <1>1 DEF scanResultsImages, InStatus, IInv, ImagesInv, ResultsSound
  <2>7. {s \in Known : imageScan[s].at # "Scan"} = Known \ scanResultsImages
    <3>1. ASSUME NEW s \in Known PROVE imageScan[s].at # "Scan" <=> s \notin InStatus("Complete")
      BY <1>1, ImageScans, ScanFields
    <3> QED
      BY <3>1, <2>6
  <2>8. statusCounts["Complete"] = Cardinality(scanResultsImages)
    BY <2>6 DEF statusCounts, ScanStatuses
  <2>9. Total(statusCounts) = Cardinality(Known)
    <3> DEFINE class == [s \in Known |-> images[s].status]
    <3>1. class \in [Known -> ScanStatuses]
      BY <1>1 DEF IInv, ImagesInv, ImagesTypeOK, ImageInfo
    <3>2. statusCounts = [st \in ScanStatuses |-> Cardinality({s \in Known : class[s] = st})]
      BY DEF statusCounts, InStatus
    <3> HIDE DEF class
    <3> QED
      BY <1>1, <3>1, <3>2, FewStatuses, CountsAddUp DEF FiniteModel
  <2> HIDE DEF podScan, imageScan
  <2> QED
    BY <2>3, <2>4, <2>5, <2>7, <2>8, <2>9 DEF MetricsAgree
<1> QED
  BY <1>1, Invariance, Finiteness, PTL

-----------------------------------------------------------------------------
(* The loop over createImage.                                              *)

\* The images and the queue are maps, with nothing beside their keys.
Maps == /\ images = [s \in Known |-> images[s]]
        /\ queue = [s \in DOMAIN queue |-> queue[s]]

\* Every step leaves maps behind.
LEMMA MapsStep ==
    ASSUME Maps, [CoreNext]_coreVars
    PROVE  Maps'
<1>1. ASSUME NEW imgs, createImages(imgs) PROVE Maps'
  BY <1>1 DEF createImages, Adopted, Requeued, Maps, Known
<1>2. ASSUME NEW imgs, imgs = [s \in DOMAIN imgs |-> imgs[s]], NEW s, NEW to,
             setImageScanStatus(imgs, s, to)
      PROVE  Maps'
  BY <1>2 DEF setImageScanStatus, leaveState, enterState, Add, Remove, Maps, Known
<1>3. ASSUME UNCHANGED <<images, queue>> PROVE Maps'
  BY <1>3 DEF Maps, Known
<1>4. ASSUME NEW pod \in UNION PodLists, addPod(pod) PROVE Maps'
  BY <1>1, <1>4 DEF addPod
<1>5. ASSUME NEW name \in PodNames, deletePod(name) PROVE Maps'
  BY <1>3, <1>5 DEF deletePod
<1>6. ASSUME NEW list \in PodLists, allPods(list) PROVE Maps'
  BY <1>1, <1>6 DEF allPods
<1>7. ASSUME NEW image \in Image, addImage(image) PROVE Maps'
  BY <1>1, <1>7 DEF addImage, allImages
<1>8. ASSUME NEW list \in ImageLists, allImages(list) PROVE Maps'
  BY <1>1, <1>8 DEF allImages
<1>9. ASSUME NEW s \in Shas, startScanClient(s) PROVE Maps'
  BY <1>2, <1>3, <1>9 DEF startScanClient, Maps, Known
<1>10. ASSUME NEW s \in Shas, NEW failed \in BOOLEAN, finishRunningScanClient(s, failed)
       PROVE  Maps'
  <2> DEFINE demoted == [images EXCEPT ![s].priority = -1]
  <2>1. demoted = [x \in DOMAIN demoted |-> demoted[x]]
    OBVIOUS
  <2> HIDE DEF demoted
  <2>2. images = [x \in DOMAIN images |-> images[x]]
    BY DEF Maps, Known
  <2> QED
    BY <1>2, <1>3, <1>10, <2>1, <2>2 DEF finishRunningScanClient, demoted
<1>11. ASSUME NEW s \in Shas, NEW r \in ScanResults \cup {NoResults}, scanDidFinish(s, r)
       PROVE  Maps'
  <2> DEFINE stored == IF Outcome(r) = "Success" THEN [images EXCEPT ![s].results = r]
                                                 ELSE images
  <2>1. stored = [x \in DOMAIN stored |-> stored[x]]
    BY DEF Maps, Known
  <2> HIDE DEF stored
  <2>2. \/ UNCHANGED <<images, queue>>
        \/ images' = stored /\ UNCHANGED queue
        \/ \E to \in ScanStatuses : setImageScanStatus(stored, s, to)
    BY <1>11 DEF scanDidFinish, stored
  <2>3. CASE images' = stored /\ UNCHANGED queue
    BY <2>1, <2>3 DEF Maps, Known
  <2> QED
    BY <1>2, <1>3, <2>1, <2>2, <2>3
<1>12. CASE UNCHANGED coreVars
  BY <1>3, <1>12 DEF coreVars
<1> QED
  BY <1>4, <1>5, <1>6, <1>7, <1>8, <1>9, <1>10, <1>11, <1>12 DEF CoreNext

\* The images and the queue are maps in every reachable state.
LEMMA MapsAlways == CoreSpec => []Maps
<1>1. CoreInit => Maps
  BY DEF CoreInit, EmptyQueue, Maps, Known
<1>2. Maps /\ [CoreNext]_coreVars => Maps'
  BY MapsStep
<1> QED
  BY <1>1, <1>2, PTL DEF CoreSpec

\* What the loop may work on.
Work == [images : UNION {[D -> ImageInfo] : D \in SUBSET Shas},
         queue : UNION {[D -> Priorities] : D \in SUBSET Shas}]

\* The loop starts on what may be worked on, and a step of it stays there.
LEMMA WorkType ==
    /\ IInv /\ Maps => Now \in Work
    /\ \A known \in Work, image \in Image : createImage(known, image) \in Work
<1>1. ASSUME IInv, Maps PROVE Now \in Work
  <2>1. images \in [Known -> ImageInfo] /\ Known \in SUBSET Shas
    BY <1>1 DEF IInv, ImagesInv, ImagesTypeOK, Maps
  <2>2. queue \in [DOMAIN queue -> Priorities] /\ DOMAIN queue \in SUBSET Shas
    BY <1>1 DEF IInv, ImagesInv, ImagesTypeOK, Maps
  <2> QED
    BY <2>1, <2>2 DEF Now, Work
<1>2. ASSUME NEW known \in Work, NEW image \in Image PROVE createImage(known, image) \in Work
  <2>1. PICK D \in SUBSET Shas : known.images \in [D -> ImageInfo]
    BY DEF Work
  <2>2. PICK E \in SUBSET Shas : known.queue \in [E -> Priorities]
    BY DEF Work
  <2>3. image.sha \in Shas /\ image.priority \in Priorities
    BY DEF Image
  <2>4. known = [images |-> known.images, queue |-> known.queue]
    BY DEF Work
  <2>5. NewImage(known, image) \in Work
    <3> DEFINE new == [s \in D \cup {image.sha} |->
                         IF s = image.sha THEN NewImageInfo(image.priority)
                                          ELSE known.images[s]]
    <3>1. NewImageInfo(image.priority) \in ImageInfo
      BY <2>3 DEF NewImageInfo, ImageInfo, ScanStatuses
    <3>2. new \in [D \cup {image.sha} -> ImageInfo] /\ D \cup {image.sha} \in SUBSET Shas
      BY <2>1, <2>3, <3>1
    <3>3. NewImage(known, image) = [images |-> new, queue |-> known.queue]
      BY <2>1, <2>4 DEF NewImage
    <3> HIDE DEF new
    <3> QED
      BY <2>2, <3>2, <3>3 DEF Work
  <2>6. ASSUME image.sha \in D PROVE RaisePriority(known, image) \in Work
    <3> DEFINE raised == [known.images EXCEPT ![image.sha].priority = image.priority]
               told == [known.queue EXCEPT ![image.sha] = image.priority]
    <3>1. raised \in [D -> ImageInfo]
      BY <2>1, <2>3, <2>6 DEF ImageInfo
    <3>2. told \in [E -> Priorities]
      BY <2>2, <2>3
    <3> DEFINE waits == /\ known.images[image.sha].status = "InQueue"
                        /\ HasKey(known.queue, image.sha)
               q == IF waits THEN told ELSE known.queue
    <3>3. RaisePriority(known, image) = [images |-> raised, queue |-> q]
      <4>1. RaisePriority(known, image) = [known EXCEPT !.images = raised, !.queue = q]
        BY DEF RaisePriority
      <4> HIDE DEF raised, q
      <4> QED
        BY <2>4, <4>1
    <3>4. q \in [E -> Priorities]
      BY <2>2, <3>2
    <3> HIDE DEF raised, q
    <3> QED
      BY <3>1, <3>3, <3>4 DEF Work
  <2> QED
    BY <2>1, <2>5, <2>6 DEF createImage
<1> QED
  BY <1>1, <1>2

\* The loop over a list of images: what it works on after each of them.
LEMMA ImageLoop ==
    ASSUME IInv, Maps, NEW list \in Seq(Image)
    PROVE  \E known : /\ known[0] = Now
                      /\ \A i \in 1 .. Len(list) :
                            known[i] = createImage(known[i - 1], list[i])
                      /\ Loop(list) = known[Len(list)]
<1> DEFINE m == Len(list)
           S == 1 .. m
           next == [T \in SUBSET S |-> Seqs!Max(T)]
           step == [i \in S |-> [x \in Work |-> createImage(x, list[i])]]
           Runs(f) == f = [T \in SUBSET DOMAIN list |->
                             IF T = {} THEN Now
                             ELSE LET x == Seqs!Max(T)
                                  IN  createImage(f[T \ {x}], list[x])]
           fold == CHOOSE f : Runs(f)
<1>1. IsFiniteSet(S) /\ DOMAIN list = S /\ m \in Nat
  BY FS_Interval
<1>2. \A T \in (SUBSET S) \ {{}} : /\ Seqs!Max(T) \in T
                                   /\ \A i \in T : i <= Seqs!Max(T)
                                   /\ next[T] = Seqs!Max(T)
  <2>1. \A T : Seqs!Max(T) = Lists!Max(T)
    BY DEF Seqs!Max, Lists!Max
  <2> QED
    BY <1>1, <2>1, HighestPosition
<1>3. Now \in Work
  BY WorkType
<1>4. ASSUME NEW x \in Work, NEW i \in S PROVE createImage(x, list[i]) \in Work
  <2>1. list[i] \in Image
    OBVIOUS
  <2> QED
    BY <2>1, WorkType
<1>5. step \in [S -> [Work -> Work]]
  BY <1>4
<1>6. \A i \in S, x \in Work : step[i][x] = createImage(x, list[i])
  OBVIOUS
<1>7. PICK f \in [SUBSET S -> Work] : FoldEquation(f, SUBSET S, Now, step, next)
  <2>1. IsFiniteSet(S) /\ \A T \in (SUBSET S) \ {{}} : next[T] \in T
    BY <1>1, <1>2
  <2> HIDE DEF S, step, next, m
  <2> QED
    BY <2>1, <1>3, <1>5, FoldExists
<1>8. Runs(f)
  <2> HIDE DEF S, step, next
  <2>1. ASSUME NEW T \in SUBSET S, T # {}
        PROVE  f[T] = createImage(f[T \ {Seqs!Max(T)}], list[Seqs!Max(T)])
    <3>1. /\ f[T] = step[next[T]][f[T \ {next[T]}]]
          /\ next[T] \in S /\ T \ {next[T]} \in SUBSET S
      BY <2>1, <1>2, <1>7 DEF FoldEquation
    <3>2. f[T \ {next[T]}] \in Work
      BY <3>1
    <3> QED
      BY <2>1, <3>1, <3>2, <1>2, <1>6
  <2>2. f[{}] = Now
    BY <1>7 DEF FoldEquation
  <2> QED
    BY <2>1, <2>2, <1>1
<1>9. Runs(fold)
  BY <1>8
<1>10. Loop(list) = fold[DOMAIN list]
  BY DEF Loop, Seqs!FoldLeft, Seqs!MapThenFoldSet
<1> HIDE DEF fold, step, next
<1>11. fold[1 .. 0] = Now
  <2>1. 1 .. 0 = {} /\ {} \in SUBSET DOMAIN list
    OBVIOUS
  <2> QED
    BY <1>9, <2>1
<1>12. ASSUME NEW i \in 1 .. m
       PROVE  fold[1 .. i] = createImage(fold[1 .. i - 1], list[i])
  <2>1. 1 .. i \in SUBSET S /\ 1 .. i # {} /\ i \in 1 .. i
    OBVIOUS
  <2>2. Seqs!Max(1 .. i) \in 1 .. i /\ i <= Seqs!Max(1 .. i)
    BY <1>2, <2>1
  <2>3. Seqs!Max(1 .. i) = i
    BY <2>2
  <2>4. (1 .. i) \ {i} = 1 .. i - 1
    OBVIOUS
  <2> QED
    BY <1>1, <1>9, <2>1, <2>3, <2>4
<1> DEFINE known == [i \in 0 .. m |-> fold[1 .. i]]
<1>13. /\ known[0] = Now
       /\ \A i \in 1 .. m : known[i] = createImage(known[i - 1], list[i])
       /\ Loop(list) = known[m]
  BY <1>1, <1>10, <1>11, <1>12
<1> HIDE DEF known
<1> QED
  BY <1>13

\* One more offer raises a priority as createImage does.
LEMMA RaisedByOneMore ==
    ASSUME NEW old \in Priorities, NEW P \in SUBSET Priorities, NEW p \in Priorities
    PROVE  /\ Raised(old, {}) = old
           /\ Raised(p, {p}) = p
           /\ Raised(old, P \cup {p}) = IF p > Raised(old, P) /\ Raised(old, P) >= 0
                                        THEN p ELSE Raised(old, P)
<1>1. old \in Int /\ p \in Int /\ P \subseteq Int
  BY PrioritiesAssumption
<1>2. Raised(old, {}) = old
  <2>1. Highest({old} \cup {}) \in {old} \cup {}
    BY HighestIsMaximum
  <2> QED
    BY <2>1 DEF Raised
<1>3. Raised(p, {p}) = p
  <2>1. Highest({p} \cup {p}) \in {p} \cup {p}
    BY HighestIsMaximum
  <2> QED
    BY <2>1 DEF Raised
<1> DEFINE h == Highest({old} \cup P)
           k == Highest({old} \cup (P \cup {p}))
<1>4. h \in {old} \cup P /\ \A x \in {old} \cup P : x <= h
  BY HighestIsMaximum
<1>5. k \in {old} \cup (P \cup {p}) /\ \A x \in {old} \cup (P \cup {p}) : x <= k
  BY HighestIsMaximum
<1>6. Raised(old, P) = (IF old < 0 THEN old ELSE h)
        /\ Raised(old, P \cup {p}) = (IF old < 0 THEN old ELSE k)
  BY DEF Raised
<1> HIDE DEF h, k
<1>7. h \in Int /\ k \in Int /\ old <= h /\ h <= k /\ p <= k
  BY <1>1, <1>4, <1>5
<1>8. k = p \/ k = h
  <2>1. k \in {old} \cup P => k <= h
    BY <1>4
  <2> QED
    BY <1>5, <1>7, <2>1
<1> QED
  BY <1>1, <1>2, <1>3, <1>6, <1>7, <1>8

\* The work after the images imgs, as CoreModel's one step leaves it.
DoneWith(imgs, first) == [images |-> Adopted(imgs, first),
                          queue |-> Requeued(Adopted(imgs, first))]

\* No image changes nothing.
LEMMA DoneWithNone ==
    ASSUME IInv, Maps
    PROVE  \E first \in FirstPriorities({}) : Now = DoneWith({}, first)
<1> DEFINE first == [s \in {} |-> 0]
<1>1. ShasOf({}) = {} /\ \A s : Offered({}, s) = {}
  BY DEF ShasOf, Offered
<1>2. first \in FirstPriorities({})
  BY <1>1 DEF FirstPriorities
<1>3. \A s \in Known : images[s] \in ImageInfo /\ images[s].priority \in Priorities
  BY DEF IInv, ImagesInv, ImagesTypeOK, ImageInfo
<1>4. ASSUME NEW s \in Known
      PROVE  [images[s] EXCEPT !.priority = Raised(images[s].priority, Offered({}, s))] = images[s]
  <2>1. Raised(images[s].priority, {}) = images[s].priority
    BY <1>3, RaisedByOneMore
  <2> QED
    BY <1>1, <1>3, <2>1 DEF ImageInfo
<1>5. Adopted({}, first) = images
  <2>1. Adopted({}, first) = [s \in Known |-> images[s]]
    BY <1>1, <1>4 DEF Adopted
  <2> QED
    BY <2>1 DEF Maps
<1>6. Requeued(images) = queue
  <2>1. \A s \in InStatus("InQueue") : ~(images[s].priority > images[s].priority)
    BY <1>3, PrioritiesAssumption DEF InStatus
  <2>2. Requeued(images) = [s \in DOMAIN queue |-> queue[s]]
    BY <2>1 DEF Requeued
  <2> QED
    BY <2>2 DEF Maps
<1> HIDE DEF first
<1> QED
  BY <1>2, <1>5, <1>6 DEF Now, DoneWith

\* What one more image adds to what is offered.
LEMMA OfferedOneMore ==
    ASSUME NEW imgs, NEW image
    PROVE  /\ ShasOf(imgs \cup {image}) = ShasOf(imgs) \cup {image.sha}
           /\ Offered(imgs \cup {image}, image.sha) = Offered(imgs, image.sha) \cup {image.priority}
           /\ \A s : s # image.sha => Offered(imgs \cup {image}, s) = Offered(imgs, s)
           /\ \A s : s \notin ShasOf(imgs) => Offered(imgs, s) = {}
  BY DEF ShasOf, Offered

\* A priority that an image was created with stays the first one.
Extends(f, first) == \A s \in DOMAIN first : f[s] = first[s]

\* One more image: what createImage does to the work so far is what CoreModel's
\* one step does for all of them.
LEMMA DoneWithOneMore ==
    ASSUME IInv, NEW imgs \in SUBSET Image, NEW image \in Image,
           NEW first \in FirstPriorities(imgs)
    PROVE  \E f \in FirstPriorities(imgs \cup {image}) :
              /\ Extends(f, first)
              /\ createImage(DoneWith(imgs, first), image) = DoneWith(imgs \cup {image}, f)
<1> DEFINE s == image.sha
           p == image.priority
           more == imgs \cup {image}
           A == Adopted(imgs, first)
           known == DoneWith(imgs, first)
<1>1. /\ ShasOf(more) = ShasOf(imgs) \cup {s}
      /\ Offered(more, s) = Offered(imgs, s) \cup {p}
      /\ \A x : x # s => Offered(more, x) = Offered(imgs, x)
      /\ s \notin ShasOf(imgs) => Offered(imgs, s) = {}
  BY OfferedOneMore
<1>2. p \in Priorities /\ s \in Shas /\ \A x : Offered(imgs, x) \in SUBSET Priorities
  BY OfferedType DEF Image
<1>3. \A x \in Known : images[x] \in ImageInfo /\ images[x].priority \in Priorities
  BY DEF IInv, ImagesInv, ImagesTypeOK, ImageInfo
<1>4. /\ first \in [ShasOf(imgs) \ Known -> Priorities]
      /\ \A x \in DOMAIN first : first[x] \in Offered(imgs, x)
  BY DEF FirstPriorities
<1>5. /\ DOMAIN A = Known \cup ShasOf(imgs)
      /\ known.images = A /\ known.queue = Requeued(A)
      /\ DOMAIN Requeued(A) = DOMAIN queue
  BY DEF Adopted, DoneWith, Requeued
<1>6. \A x \in InStatus("InQueue") : x \in Known
  BY DEF InStatus
<1>7. CASE s \notin DOMAIN A
  <2> DEFINE f == [x \in ShasOf(more) \ Known |-> IF x = s THEN p ELSE first[x]]
             B == Adopted(more, f)
  <2>1. s \notin Known /\ s \notin ShasOf(imgs) /\ Offered(more, s) = {p}
    BY <1>1, <1>5, <1>7
  <2>2. f \in [ShasOf(more) \ Known -> Priorities]
    BY <1>1, <1>2, <1>4
  <2>3. ASSUME NEW x \in DOMAIN f PROVE f[x] \in Offered(more, x)
    BY <1>1, <1>4, <2>1
  <2>4. f \in FirstPriorities(more)
    BY <2>2, <2>3 DEF FirstPriorities
  <2>5. f[s] = p /\ \A x \in ShasOf(imgs) \ Known : x # s /\ f[x] = first[x]
    BY <1>1, <2>1
  <2> HIDE DEF f
  <2>6. B = [x \in DOMAIN A \cup {s} |-> IF x = s THEN NewImageInfo(p) ELSE A[x]]
    <3>1. Raised(p, {p}) = p
      BY <1>2, RaisedByOneMore
    <3>2. DOMAIN A \cup {s} = Known \cup ShasOf(more)
      BY <1>1, <1>5
    <3>3. ASSUME NEW x \in Known \cup ShasOf(more)
          PROVE  B[x] = IF x = s THEN NewImageInfo(p) ELSE A[x]
      <4>1. CASE x = s
        BY <2>1, <2>5, <3>1, <4>1 DEF Adopted
      <4>2. CASE x # s /\ x \in Known
        BY <1>1, <4>2 DEF Adopted
      <4>3. CASE x # s /\ x \notin Known
        BY <1>1, <2>5, <4>3 DEF Adopted
      <4> QED
        BY <4>1, <4>2, <4>3
    <3>4. B = [x \in Known \cup ShasOf(more) |-> B[x]]
      BY DEF Adopted
    <3> HIDE DEF A, B
    <3> QED
      BY <3>2, <3>3, <3>4
  <2>7. Requeued(B) = Requeued(A)
    <3>1. \A x \in InStatus("InQueue") : B[x] = A[x]
      BY <1>5, <1>6, <2>1, <2>6
    <3> QED
      BY <3>1 DEF Requeued
  <2>8. createImage(known, image) = [known EXCEPT !.images = B]
    BY <1>5, <1>7, <2>6 DEF createImage, NewImage
  <2>9. [known EXCEPT !.images = B] = [images |-> B, queue |-> Requeued(A)]
    BY DEF DoneWith
  <2> QED
    BY <1>4, <2>4, <2>5, <2>7, <2>8, <2>9 DEF DoneWith, Extends
<1>8. CASE s \in DOMAIN A
  <2> DEFINE B == Adopted(more, first)
             old == IF s \in Known THEN images[s].priority ELSE first[s]
             now == Raised(old, Offered(imgs, s))
             later == Raised(old, Offered(more, s))
  <2>1. ShasOf(more) \ Known = ShasOf(imgs) \ Known /\ DOMAIN A = Known \cup ShasOf(more)
    BY <1>1, <1>5, <1>8
  <2>2. first \in FirstPriorities(more)
    <3>1. \A x \in DOMAIN first : first[x] \in Offered(more, x)
      BY <1>1, <1>4
    <3> QED
      BY <1>4, <2>1, <3>1 DEF FirstPriorities
  <2>3. old \in Priorities
    BY <1>3, <1>4, <1>5, <1>8
  <2>4. later = IF p > now /\ now >= 0 THEN p ELSE now
    <3> DEFINE P == Offered(imgs, s)
    <3>1. Offered(more, s) = P \cup {p} /\ P \in SUBSET Priorities /\ p \in Priorities
      BY <1>1, <1>2
    <3> HIDE DEF old, P, p
    <3>2. Raised(old, P \cup {p}) = IF p > Raised(old, P) /\ Raised(old, P) >= 0
                                    THEN p ELSE Raised(old, P)
      BY <2>3, <3>1, RaisedByOneMore
    <3> QED
      BY <3>1, <3>2 DEF P
  <2>5. now \in Int /\ p \in Int /\ old \in Int /\ old <= now
    <3> HIDE DEF old
    <3> QED
      BY <1>2, <2>3, RaisedPriority, PrioritiesAssumption
  <2>6. /\ A[s].priority = now
        /\ B[s] = [A[s] EXCEPT !.priority = later]
        /\ A[s] = [A[s] EXCEPT !.priority = now]
        /\ s \in Known => A[s].status = images[s].status
        /\ s \notin Known => A[s].status = "Unknown"
    <3>1. CASE s \in Known
      BY <1>3, <1>8, <3>1, <2>1 DEF Adopted, ImageInfo
    <3>2. CASE s \notin Known
      <4>1. s \in Known \cup ShasOf(imgs) /\ s \in Known \cup ShasOf(more)
        BY <1>5, <1>8, <2>1
      <4>2. A[s] = NewImageInfo(now) /\ B[s] = NewImageInfo(later)
        BY <3>2, <4>1 DEF Adopted
      <4> HIDE DEF A, B, now, later
      <4> QED
        BY <3>2, <4>2 DEF NewImageInfo
    <3> QED
      BY <3>1, <3>2
  <2>7. \A x \in DOMAIN A : x # s => B[x] = A[x]
    BY <1>1, <2>1, <1>5 DEF Adopted
  <2>8. /\ B = [x \in DOMAIN A |-> B[x]]
        /\ A = [x \in DOMAIN A |-> A[x]]
    BY <2>1, <1>5 DEF Adopted
  <2> HIDE DEF A, B, now, later, old
  <2>9. CASE p > now /\ now >= 0
    <3>1. Raises(known, image)
      BY <1>5, <2>6, <2>9 DEF Raises
    <3>2. B = [A EXCEPT ![s].priority = p]
      <4>1. later = p
        BY <2>4, <2>9
      <4> QED
        BY <1>8, <2>6, <2>7, <2>8, <4>1
    <3> DEFINE waits == A[s].status = "InQueue" /\ HasKey(Requeued(A), s)
               q == IF waits THEN [Requeued(A) EXCEPT ![s] = p] ELSE Requeued(A)
    <3>3. createImage(known, image) = [images |-> B, queue |-> q]
      <4>1. createImage(known, image) = RaisePriority(known, image)
        BY <1>5, <1>8, <3>1 DEF createImage
      <4>2. known = [images |-> A, queue |-> Requeued(A)]
        BY DEF DoneWith, A
      <4>3. RaisePriority(known, image) = [known EXCEPT !.images = B, !.queue = q]
        BY <1>5, <3>2 DEF RaisePriority
      <4> HIDE DEF q, known
      <4> QED
        BY <4>1, <4>2, <4>3
    <3>4. q = Requeued(B)
      <4>1. waits <=> s \in InStatus("InQueue")
        BY <2>6, <1>5 DEF IInv, ImagesInv, QueueMatchesStatus, InStatus, HasKey
      <4>2. s \in Known /\ s \in DOMAIN queue => B[s].priority = p
        BY <1>8, <2>4, <2>6, <2>9, <3>2
      <4>3. DOMAIN queue = InStatus("InQueue")
        BY DEF IInv, ImagesInv, QueueMatchesStatus
      <4>4. CASE s \in InStatus("InQueue")
        <5>1. p > images[s].priority /\ B[s].priority = p /\ waits
          BY <1>6, <2>5, <2>9, <4>1, <4>2, <4>3, <4>4 DEF old
        <5>2. \A x \in DOMAIN queue : x # s => B[x] = A[x]
          BY <1>5, <1>6, <2>7, <4>3
        <5>3. ASSUME NEW x \in DOMAIN queue
              PROVE  Requeued(B)[x] = IF x = s THEN p ELSE Requeued(A)[x]
          BY <4>3, <4>4, <5>1, <5>2 DEF Requeued
        <5>4. Requeued(B) = [x \in DOMAIN queue |-> IF x = s THEN p ELSE Requeued(A)[x]]
          <6>1. Requeued(B) = [x \in DOMAIN queue |-> Requeued(B)[x]]
            BY DEF Requeued
          <6> QED
            BY <5>3, <6>1
        <5>5. q = [x \in DOMAIN queue |-> IF x = s THEN p ELSE Requeued(A)[x]]
          BY <1>5, <5>1
        <5> QED
          BY <5>4, <5>5
      <4>5. CASE s \notin InStatus("InQueue")
        <5>1. \A x \in InStatus("InQueue") : B[x] = A[x]
          BY <1>5, <1>6, <2>7, <4>5
        <5>2. Requeued(B) = Requeued(A)
          BY <5>1 DEF Requeued
        <5> QED
          BY <4>1, <4>5, <5>2
      <4> QED
        BY <4>4, <4>5
    <3> QED
      BY <2>2, <3>3, <3>4 DEF DoneWith, B, Extends
  <2>10. CASE ~(p > now /\ now >= 0)
    <3>1. ~Raises(known, image)
      BY <1>5, <2>6, <2>10 DEF Raises
    <3>2. B = A
      <4>1. later = now
        BY <2>4, <2>10
      <4> QED
        BY <1>8, <2>6, <2>7, <2>8, <4>1
    <3>3. createImage(known, image) = known
      BY <1>5, <1>8, <3>1 DEF createImage
    <3> QED
      BY <2>2, <3>2, <3>3 DEF DoneWith, A, B, Extends
  <2> QED
    BY <2>9, <2>10
<1> QED
  BY <1>7, <1>8

\* The first i images of a list.
Done(list, i) == {list[j] : j \in 1 .. i}

\* Once the loop has done the first images of a list as CoreModel's one step
\* would, it goes on to do so, with the same first priorities.
LEMMA LoopStaysClosed ==
    ASSUME IInv, NEW list \in Seq(Image),
           NEW known, \A i \in 1 .. Len(list) : known[i] = createImage(known[i - 1], list[i]),
           NEW a \in 0 .. Len(list),
           NEW first \in FirstPriorities(Done(list, a)),
           known[a] = DoneWith(Done(list, a), first)
    PROVE  \E f \in FirstPriorities(Done(list, Len(list))) :
              /\ Extends(f, first)
              /\ known[Len(list)] = DoneWith(Done(list, Len(list)), f)
<1> DEFINE n == Len(list)
           good(i) == \E f \in FirstPriorities(Done(list, i)) :
                         Extends(f, first) /\ known[i] = DoneWith(Done(list, i), f)
           G == {i \in 0 .. n : i >= a => good(i)}
<1>1. n \in Nat /\ DOMAIN list = 1 .. n
  OBVIOUS
<1>2. good(a)
  BY DEF Extends
<1>3. ASSUME NEW i \in 0 .. n - 1, i >= a, good(i) PROVE good(i + 1)
  <2>1. i + 1 \in 1 .. n /\ (i + 1) - 1 = i
    BY <1>1
  <2>2. Done(list, i + 1) = Done(list, i) \cup {list[i + 1]}
    <3>1. \A j : j \in 1 .. i + 1 <=> j \in 1 .. i \/ j = i + 1
      BY <1>1
    <3> QED
      BY <3>1 DEF Done
  <2>3. list[i + 1] \in Image /\ Done(list, i) \in SUBSET Image
    BY <1>1, <2>1 DEF Done
  <2>4. PICK f \in FirstPriorities(Done(list, i)) :
           Extends(f, first) /\ known[i] = DoneWith(Done(list, i), f)
    BY <1>3
  <2>5. known[i + 1] = createImage(known[i], list[i + 1])
    BY <2>1
  <2>6. PICK g \in FirstPriorities(Done(list, i) \cup {list[i + 1]}) :
           /\ Extends(g, f)
           /\ createImage(DoneWith(Done(list, i), f), list[i + 1])
                = DoneWith(Done(list, i) \cup {list[i + 1]}, g)
    BY <2>3, DoneWithOneMore
  <2>7. DOMAIN first \subseteq DOMAIN f
    <3>1. Done(list, a) \subseteq Done(list, i)
      BY <1>1, <1>3 DEF Done
    <3>2. DOMAIN first = ShasOf(Done(list, a)) \ Known /\ DOMAIN f = ShasOf(Done(list, i)) \ Known
      BY DEF FirstPriorities
    <3> QED
      BY <3>1, <3>2 DEF ShasOf
  <2>8. Extends(g, first)
    BY <2>4, <2>6, <2>7 DEF Extends
  <2> QED
    BY <2>2, <2>4, <2>5, <2>6, <2>8
<1>4. n \in G
  <2>1. 0 \in G /\ \A i \in 0 .. n - 1 : i \in G => i + 1 \in G
    <3>1. ASSUME NEW i \in 0 .. n, i >= a, ~good(i) PROVE i > a
      BY <1>2, <3>1
    <3> HIDE DEF good
    <3>2. 0 \in G
      BY <1>1, <1>2
    <3>3. ASSUME NEW i \in 0 .. n - 1, i \in G PROVE i + 1 \in G
      <4>1. CASE i >= a
        BY <1>1, <1>3, <3>3, <4>1
      <4>2. CASE i + 1 = a
        BY <1>1, <1>2, <4>2
      <4>3. CASE i + 1 < a
        BY <1>1, <4>3
      <4> QED
        BY <1>1, <4>1, <4>2, <4>3
    <3> QED
      BY <3>2, <3>3
  <2>2. \A i \in 0 .. n : i \in G
    <3> HIDE DEF G, n
    <3> QED
      BY <1>1, <2>1, UpTo
  <2> HIDE DEF G
  <2> QED
    BY <1>1, <2>2
<1> HIDE DEF good
<1>5. good(n)
  BY <1>1, <1>4
<1> QED
  BY <1>5 DEF good

\* Whatever list of images is posted, the loop over it ends where CoreModel's
\* one step for the set of its images may.
THEOREM LoopIsClosedForm == CoreSpec => []ClosedFormIsTheLoop
<1>1. ASSUME IInv, Maps PROVE ClosedFormIsTheLoop
  <2> SUFFICES ASSUME NEW list \in Orders
               PROVE  \E first \in FirstPriorities(Seqs!ToSet(list)) :
                         Loop(list) = DoneWith(Seqs!ToSet(list), first)
    BY DEF ClosedFormIsTheLoop, DoneWith
  <2>1. list \in Seq(Image)
    BY OrdersAssumption
  <2>2. PICK known : /\ known[0] = Now
                     /\ \A i \in 1 .. Len(list) :
                           known[i] = createImage(known[i - 1], list[i])
                     /\ Loop(list) = known[Len(list)]
    BY <1>1, <2>1, ImageLoop
  <2>3. Done(list, 0) = {} /\ 0 \in 0 .. Len(list)
    BY <2>1 DEF Done
  <2>4. PICK none \in FirstPriorities(Done(list, 0)) : known[0] = DoneWith(Done(list, 0), none)
    BY <1>1, <2>2, <2>3, DoneWithNone
  <2>5. PICK first \in FirstPriorities(Done(list, Len(list))) :
           known[Len(list)] = DoneWith(Done(list, Len(list)), first)
    BY <1>1, <2>1, <2>2, <2>3, <2>4, LoopStaysClosed
  <2>6. Done(list, Len(list)) = Seqs!ToSet(list)
    BY <2>1 DEF Seqs!ToSet, Done
  <2> QED
    BY <2>2, <2>5, <2>6
<1> QED
  BY <1>1, Invariance, MapsAlways, PTL

(***************************************************************************)
(* The one step says no more than the loop: in every reachable state, for  *)
(* every finite set of images and every choice of first priorities some    *)
(* order of the list, with repetitions, ends the loop over createImage     *)
(* exactly there.                                                          *)
(***************************************************************************)
EveryOutcomeHasAnOrder ==
    \A imgs \in SUBSET Image : IsFiniteSet(imgs) =>
        \A first \in FirstPriorities(imgs) :
            \E list \in Seq(Image) : /\ Seqs!ToSet(list) = imgs
                                     /\ Loop(list).images = Adopted(imgs, first)
                                     /\ Loop(list).queue = Requeued(Adopted(imgs, first))

\* A finite set is the set of the elements of a list.
LEMMA SomeList ==
    ASSUME NEW S, IsFiniteSet(S)
    PROVE  \E q \in Seq(S) : \A x \in S : \E i \in 1 .. Len(q) : q[i] = x
  BY DEF IsFiniteSet

\* CoreModel's one step for a set of images adds nothing to what the loop over
\* createImage does for the lists of it.
THEOREM ClosedFormIsExact == CoreSpec => []EveryOutcomeHasAnOrder
<1>1. ASSUME IInv, Maps PROVE EveryOutcomeHasAnOrder
  <2> SUFFICES ASSUME NEW imgs \in SUBSET Image, IsFiniteSet(imgs),
                      NEW first \in FirstPriorities(imgs)
               PROVE  \E list \in Seq(Image) : /\ Seqs!ToSet(list) = imgs
                                               /\ Loop(list) = DoneWith(imgs, first)
    BY DEF EveryOutcomeHasAnOrder, DoneWith
  <2> DEFINE new == {i \in imgs : i.sha \notin Known /\ i.priority = first[i.sha]}
  <2>1. /\ first \in [ShasOf(imgs) \ Known -> Priorities]
        /\ \A s \in DOMAIN first : first[s] \in Offered(imgs, s)
    BY DEF FirstPriorities
  <2>2. /\ ShasOf(new) \ Known = DOMAIN first
        /\ \A s \in DOMAIN first : Offered(new, s) = {first[s]}
    <3>1. \A s \in DOMAIN first : \E i \in imgs : i.sha = s /\ i.priority = first[s]
      BY <2>1 DEF Offered
    <3>2. \A i \in new : i.sha \in DOMAIN first
      BY <2>1 DEF ShasOf
    <3>3. \A s \in DOMAIN first : s \notin Known
      BY <2>1
    <3> QED
      BY <3>1, <3>2, <3>3 DEF ShasOf, Offered
  <2>3. new \in SUBSET imgs /\ IsFiniteSet(new)
    BY FS_Subset
  <2> HIDE DEF new
  <2>4. PICK q \in Seq(new) : \A x \in new : \E i \in 1 .. Len(q) : q[i] = x
    BY <2>3, SomeList
  <2>5. PICK r \in Seq(imgs) : \A x \in imgs : \E i \in 1 .. Len(r) : r[i] = x
    BY SomeList
  <2> DEFINE list == q \o r
             n == Len(q)
  <2>6. /\ q \in Seq(imgs) /\ q \in Seq(Image) /\ r \in Seq(Image)
        /\ list \in Seq(imgs) /\ list \in Seq(Image)
    BY <2>3
  <2>7. /\ Len(list) = n + Len(r) /\ n \in Nat /\ Len(r) \in Nat
        /\ \A i \in 1 .. n : list[i] = q[i]
        /\ \A i \in 1 .. Len(r) : list[n + i] = r[i]
    BY <2>6
  <2> HIDE DEF list
  <2>8. Done(list, n) = new
    <3>1. \A i \in 1 .. n : q[i] \in new
      OBVIOUS
    <3>2. Done(list, n) = {q[i] : i \in 1 .. n}
      BY <2>7 DEF Done
    <3> QED
      BY <2>4, <3>1, <3>2
  <2>9. Done(list, Len(list)) = imgs
    <3>1. \A i \in 1 .. Len(list) : list[i] \in imgs
      BY <2>6
    <3>2. \A x \in imgs : \E i \in 1 .. Len(list) : list[i] = x
      <4>1. \A i \in 1 .. Len(r) : n + i \in 1 .. Len(list)
        BY <2>7
      <4> QED
        BY <2>5, <2>7, <4>1
    <3> QED
      BY <3>1, <3>2 DEF Done
  <2>10. PICK known : /\ known[0] = Now
                      /\ \A i \in 1 .. Len(list) :
                            known[i] = createImage(known[i - 1], list[i])
                      /\ Loop(list) = known[Len(list)]
    BY <1>1, <2>6, ImageLoop
  <2>11. known[n] = DoneWith(new, first)
    <3>1. /\ Done(list, 0) = {} /\ 0 \in 0 .. n
          /\ \A i \in 1 .. n : known[i] = createImage(known[i - 1], q[i])
          /\ Done(q, 0) = {} /\ Done(q, n) = new
      <4>1. \A i \in 1 .. n : known[i] = createImage(known[i - 1], q[i])
        BY <2>7, <2>10
      <4>2. Done(q, n) = Done(list, n)
        BY <2>7 DEF Done
      <4>3. Done(q, 0) = {} /\ Done(list, 0) = {}
        BY DEF Done
      <4> QED
        BY <2>7, <2>8, <4>1, <4>2, <4>3
    <3>2. PICK none \in FirstPriorities(Done(q, 0)) : known[0] = DoneWith(Done(q, 0), none)
      BY <1>1, <2>10, <3>1, DoneWithNone
    <3>3. PICK f \in FirstPriorities(Done(q, n)) : known[n] = DoneWith(Done(q, n), f)
      BY <1>1, <2>6, <3>1, <3>2, LoopStaysClosed
    <3>4. f = first
      <4>1. /\ f \in [ShasOf(new) \ Known -> Priorities]
            /\ \A s \in DOMAIN f : f[s] \in Offered(new, s)
        BY <3>1 DEF FirstPriorities
      <4>2. f \in [DOMAIN first -> Priorities] /\ \A s \in DOMAIN first : f[s] = first[s]
        BY <2>2, <4>1
      <4> QED
        BY <2>1, <4>2
    <3> QED
      BY <3>1, <3>3, <3>4
  <2>12. first \in FirstPriorities(new)
    BY <2>1, <2>2 DEF FirstPriorities
  <2>13. n \in 0 .. Len(list)
    BY <2>7
  <2>14. PICK g \in FirstPriorities(imgs) :
            Extends(g, first) /\ known[Len(list)] = DoneWith(imgs, g)
    <3> HIDE DEF n
    <3> QED
      BY <1>1, <2>6, <2>8, <2>9, <2>10, <2>11, <2>12, <2>13, LoopStaysClosed
  <2>15. g = first
    <3>1. g \in [ShasOf(imgs) \ Known -> Priorities]
      BY DEF FirstPriorities
    <3> QED
      BY <2>1, <2>14, <3>1 DEF Extends
  <2>16. Seqs!ToSet(list) = imgs
    <3>1. DOMAIN list = 1 .. Len(list)
      BY <2>6
    <3> QED
      BY <2>9, <3>1 DEF Done, Seqs!ToSet
  <2> QED
    BY <2>6, <2>10, <2>14, <2>15, <2>16
<1> QED
  BY <1>1, Invariance, MapsAlways, PTL
=============================================================================
