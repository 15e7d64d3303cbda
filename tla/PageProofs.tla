------------------------------- MODULE PageProofs -------------------------------
(***************************************************************************)
(* Proofs about how an agent sees a page: ElementLookup (from an element   *)
(* it was shown back to the live page), HtmlChanges (what an action has    *)
(* changed) and ElementXPath (an XPath for elements), each for all pages.  *)
(***************************************************************************)
EXTENDS ElementLookup, HtmlChanges, ElementXPath, SequenceTheorems, FiniteSetTheorems, WellFoundedInduction, TLAPS

-----------------------------------------------------------------------------
(* Numbers, and functions that are defined by recursion. *)

\* A set of numbers has a least one.
LEMMA LeastNumber ==
    ASSUME NEW T \in SUBSET Nat, T # {}
    PROVE  \E m \in T : \A k \in T : m <= k
<1> DEFINE X == {0 .. k : k \in T}
           R == StrictSubsetOrdering(Nat)
<1>1. IsWellFoundedOn(R, FiniteSubsetsOf(Nat))
  BY FS_StrictSubsetOrderingWellFounded
<1>2. X \subseteq FiniteSubsetsOf(Nat) /\ X # {}
  <2>1. ASSUME NEW k \in T PROVE 0 .. k \in FiniteSubsetsOf(Nat)
    <3>1. k \in Nat /\ 0 \in Int /\ k \in Int
      OBVIOUS
    <3>2. IsFiniteSet(0 .. k)
      BY <3>1, FS_Interval
    <3>3. 0 .. k \in SUBSET Nat
      BY <3>1
    <3> QED
      BY <3>2, <3>3 DEF FiniteSubsetsOf
  <2> QED
    BY <2>1
<1>3. PICK x \in X : \A y \in X : <<y, x>> \notin R
  <2> HIDE DEF X, R
  <2> QED
    BY <1>1, <1>2, WFMin
<1>4. PICK m \in T : x = 0 .. m
  BY <1>3
<1>5. ASSUME NEW k \in T PROVE m <= k
  <2>1. 0 .. k \in X /\ <<0 .. k, 0 .. m>> \notin R
    BY <1>3, <1>4
  <2>2. SUFFICES ASSUME k < m PROVE FALSE
    OBVIOUS
  <2>3. 0 .. k \subseteq 0 .. m /\ m \in 0 .. m /\ m \notin 0 .. k /\ 0 .. k \subseteq Nat /\ 0 .. m \subseteq Nat
    BY <2>2
  <2> HIDE DEF X
  <2> QED
    BY <2>1, <2>3 DEF StrictSubsetOrdering
<1> QED
  BY <1>5

\* And Min gives it.
LEMMA MinOfNumbers ==
    ASSUME NEW T \in SUBSET Nat, T # {}
    PROVE  Min(T) \in T /\ \A k \in T : Min(T) <= k
BY LeastNumber DEF Min

\* A set of numbers up to N has a greatest one.
LEMMA GreatestNumber ==
    ASSUME NEW N \in Nat, NEW T \in SUBSET (0 .. N), T # {}
    PROVE  \E m \in T : \A k \in T : k <= m
<1> DEFINE X == {N - k : k \in T}
<1>1. X \in SUBSET Nat /\ X # {}
  <2>1. \A k \in T : N - k \in Nat
    OBVIOUS
  <2> QED
    BY <2>1
<1>2. PICK x \in X : \A y \in X : x <= y
  <2> HIDE DEF X
  <2> QED
    BY <1>1, LeastNumber
<1>3. PICK m \in T : x = N - m
  OBVIOUS
<1>4. ASSUME NEW k \in T PROVE k <= m
  <2>1. N - m <= N - k
    BY <1>2, <1>3
  <2> QED
    BY <2>1
<1> QED
  BY <1>4

\* A function over 0 .. N may be defined step by step.
GoesUp(N, V, first, step) == \E f \in [0 .. N -> V] : f[0] = first /\ \A i \in 1 .. N : f[i] = step[i][f[i - 1]]

LEMMA StepByStep ==
    ASSUME NEW N \in Nat, NEW V, NEW first \in V, NEW step \in [1 .. N -> [V -> V]]
    PROVE  GoesUp(N, V, first, step)
<1> DEFINE Fits(f, m) == f[0] = first /\ \A i \in 1 .. m : f[i] = step[i][f[i - 1]]
           Can(m) == \E f \in [0 .. m -> V] : Fits(f, m)
           bad == {m \in 0 .. N : ~Can(m)}
<1>1. SUFFICES ASSUME ~Can(N) PROVE FALSE
  BY DEF GoesUp
<1>2. PICK m \in bad : \A k \in bad : m <= k
  <2>1. bad \in SUBSET Nat /\ N \in bad
    <3> HIDE DEF Can
    <3> QED
      BY <1>1
  <2> HIDE DEF bad
  <2> QED
    BY <2>1, LeastNumber
<1>3. m \in 0 .. N /\ ~Can(m)
  <2> HIDE DEF Can
  <2> QED
    OBVIOUS
<1>4. m # 0
  <2> DEFINE f == [i \in 0 .. 0 |-> first]
  <2>1. f \in [0 .. 0 -> V] /\ Fits(f, 0)
    OBVIOUS
  <2>2. Can(0)
    BY <2>1
  <2> HIDE DEF Can
  <2> QED
    BY <1>3, <2>2
<1>5. m - 1 \in 0 .. N /\ m - 1 \in Nat /\ m \in 1 .. N /\ ~(m <= m - 1)
  BY <1>3, <1>4
<1>6. Can(m - 1)
  <2> HIDE DEF Can
  <2> QED
    BY <1>2, <1>5
<1>7. PICK f \in [0 .. m - 1 -> V] : Fits(f, m - 1)
  BY <1>6
<1> DEFINE e == [i \in 0 .. m |-> IF i = m THEN step[m][f[m - 1]] ELSE f[i]]
<1>8. f[m - 1] \in V /\ step[m] \in [V -> V] /\ step[m][f[m - 1]] \in V
  BY <1>5, <1>7
<1>9. e \in [0 .. m -> V]
  BY <1>5, <1>7, <1>8
<1>10. e[0] = first
  BY <1>5, <1>7
<1>11. ASSUME NEW i \in 1 .. m PROVE e[i] = step[i][e[i - 1]]
  <2>1. i \in 0 .. m /\ i - 1 \in 0 .. m /\ i - 1 # m /\ i - 1 \in 0 .. m - 1
    BY <1>5
  <2>2. e[i - 1] = f[i - 1]
    BY <2>1
  <2>3. CASE i = m
    BY <2>1, <2>2, <2>3
  <2>4. CASE i # m
    <3>1. i \in 1 .. m - 1
      BY <1>5, <2>4
    <3>2. e[i] = f[i] /\ f[i] = step[i][f[i - 1]]
      BY <1>7, <2>1, <2>4, <3>1
    <3> QED
      BY <2>2, <3>2
  <2> QED
    BY <2>3, <2>4
<1>12. Can(m)
  <2> HIDE DEF e
  <2> QED
    BY <1>9, <1>10, <1>11
<1> HIDE DEF Can
<1> QED
  BY <1>3, <1>12

\* And a function over lo .. hi from the values at greater numbers.
GoesBack(lo, hi, V, step) == \E f \in [lo .. hi -> V] : \A m \in lo .. hi : f[m] = step[m][f]

LEMMA StepByStepBack ==
    ASSUME NEW lo \in Nat, NEW hi \in Nat, NEW V, V # {}, NEW step \in [lo .. hi -> [[lo .. hi -> V] -> V]],
           \A m \in lo .. hi : \A f, g \in [lo .. hi -> V] :
              (\A k \in m + 1 .. hi : f[k] = g[k]) => step[m][f] = step[m][g]
    PROVE  GoesBack(lo, hi, V, step)
<1> DEFINE F == [lo .. hi -> V]
           Can(d) == \E f \in F : \A m \in lo .. hi : m + d > hi => f[m] = step[m][f]
           bad == {d \in Nat : ~Can(d)}
<1>1. SUFFICES ASSUME ~Can(hi + 1) PROVE FALSE
  <2>1. ASSUME Can(hi + 1) PROVE GoesBack(lo, hi, V, step)
    <3>1. PICK f \in F : \A m \in lo .. hi : m + (hi + 1) > hi => f[m] = step[m][f]
      BY <2>1
    <3>2. \A m \in lo .. hi : m + (hi + 1) > hi
      OBVIOUS
    <3> QED
      BY <3>1, <3>2 DEF GoesBack
  <2> QED
    BY <2>1
<1>2. PICK d \in bad : \A k \in bad : d <= k
  <2>1. bad \in SUBSET Nat /\ hi + 1 \in bad
    <3> HIDE DEF Can
    <3> QED
      BY <1>1
  <2> HIDE DEF bad
  <2> QED
    BY <2>1, LeastNumber
<1>3. d \in Nat /\ ~Can(d)
  <2> HIDE DEF Can
  <2> QED
    OBVIOUS
<1>4. d # 0
  <2>1. PICK v : v \in V
    OBVIOUS
  <2> DEFINE f == [m \in lo .. hi |-> v]
  <2>2. f \in F /\ \A m \in lo .. hi : ~(m + 0 > hi)
    BY <2>1
  <2>3. Can(0)
    BY <2>2
  <2> HIDE DEF Can
  <2> QED
    BY <1>3, <2>3
<1>5. d - 1 \in Nat /\ ~(d <= d - 1)
  BY <1>3, <1>4
<1>6. PICK f \in F : \A m \in lo .. hi : m + (d - 1) > hi => f[m] = step[m][f]
  <2>1. Can(d - 1)
    <3> HIDE DEF Can
    <3> QED
      BY <1>2, <1>5
  <2> QED
    BY <2>1
<1> DEFINE e == [m \in lo .. hi |-> IF m + d = hi + 1 THEN step[m][f] ELSE f[m]]
<1>7. e \in F
  <2>1. \A m \in lo .. hi : step[m][f] \in V /\ f[m] \in V
    BY <1>6
  <2> QED
    BY <2>1
<1>8. ASSUME NEW m \in lo .. hi, m + d > hi PROVE e[m] = step[m][e]
  <2>1. \A k \in m + 1 .. hi : k \in lo .. hi /\ k + d # hi + 1
    BY <1>3, <1>8
  <2>2. \A k \in m + 1 .. hi : e[k] = f[k]
    BY <2>1
  <2>3. step[m][e] = step[m][f]
    <3> HIDE DEF e
    <3> QED
      BY <1>6, <1>7, <2>2
  <2>4. CASE m + d = hi + 1
    BY <2>3, <2>4
  <2>5. CASE m + d # hi + 1
    <3>1. m + (d - 1) > hi
      BY <1>3, <1>8, <2>5
    <3> QED
      BY <1>6, <2>3, <2>5, <3>1
  <2> QED
    BY <2>4, <2>5
<1>9. Can(d)
  <2> HIDE DEF e
  <2> QED
    BY <1>7, <1>8
<1> HIDE DEF Can
<1> QED
  BY <1>3, <1>9

-----------------------------------------------------------------------------
(* Parsed pages: what is below an element. *)

LastNode(p) == Cardinality(Nodes(p))

LEMMA ParsedParts ==
    ASSUME NEW p, IsParsed(p)
    PROVE  /\ LastNode(p) \in Nat /\ Nodes(p) = 1 .. LastNode(p) /\ DOMAIN p.kids = 0 .. LastNode(p)
           /\ \A n \in 0 .. LastNode(p) : /\ ToSet(p.kids[n]) \subseteq Nodes(p)
                                          /\ \A k \in ToSet(p.kids[n]) : n < k
           /\ \A m, n \in 0 .. LastNode(p) : ToSet(p.kids[m]) \cap ToSet(p.kids[n]) # {} => m = n
<1>1. LastNode(p) \in Nat
  BY FS_CardinalityType DEF IsParsed, LastNode
<1>2. Nodes(p) = 1 .. LastNode(p) /\ DOMAIN p.kids = {0} \cup Nodes(p)
  BY DEF IsParsed, LastNode
<1>3. DOMAIN p.kids = 0 .. LastNode(p)
  BY <1>1, <1>2
<1>4. ASSUME NEW n \in 0 .. LastNode(p) PROVE ToSet(p.kids[n]) \subseteq Nodes(p) /\ \A k \in ToSet(p.kids[n]) : n < k
  <2>1. p.kids[n] \in Seq(Nodes(p)) /\ \A k \in ToSet(p.kids[n]) : n < k
    BY <1>3 DEF IsParsed
  <2> QED
    BY <2>1 DEF ToSet
<1>5. \A m, n \in 0 .. LastNode(p) : ToSet(p.kids[m]) \cap ToSet(p.kids[n]) # {} => m = n
  BY <1>3 DEF IsParsed
<1> QED
  BY <1>1, <1>2, <1>3, <1>4, <1>5

\* The descendants of an element are its children and their descendants.
LEMMA DescendantsUnroll ==
    ASSUME NEW p, IsParsed(p), NEW n \in 0 .. LastNode(p)
    PROVE  Descendants(p, n) = UNION {{k} \cup Descendants(p, k) : k \in ToSet(p.kids[n])}
<1> DEFINE N == LastNode(p)
           V == SUBSET Nodes(p)
           OfKids(f, m) == UNION {{k} \cup f[k] : k \in ToSet(p.kids[m])}
           Rule(f) == [m \in DOMAIN p.kids |-> OfKids(f, m)]
           step == [m \in 0 .. N |-> [f \in [0 .. N -> V] |-> OfKids(f, m)]]
           below == CHOOSE f : f = Rule(f)
<1>1. /\ N \in Nat /\ Nodes(p) = 1 .. N /\ DOMAIN p.kids = 0 .. N
      /\ \A m \in 0 .. N : /\ ToSet(p.kids[m]) \subseteq 1 .. N /\ ToSet(p.kids[m]) \subseteq 0 .. N
                           /\ ToSet(p.kids[m]) \subseteq m + 1 .. N
  <2>1. /\ N \in Nat /\ Nodes(p) = 1 .. N /\ DOMAIN p.kids = 0 .. N
        /\ \A m \in 0 .. N : ToSet(p.kids[m]) \subseteq 1 .. N /\ \A k \in ToSet(p.kids[m]) : m < k
    BY ParsedParts
  <2> HIDE DEF N
  <2>2. ASSUME NEW m \in 0 .. N, NEW k \in ToSet(p.kids[m]) PROVE k \in 1 .. N /\ k \in 0 .. N /\ k \in m + 1 .. N
    <3>1. k \in 1 .. N /\ m < k /\ m \in Nat
      BY <2>1
    <3> QED
      BY <2>1, <3>1
  <2> QED
    BY <2>1, <2>2
<1> HIDE DEF N
<1>2. step \in [0 .. N -> [[0 .. N -> V] -> V]]
  <2>1. ASSUME NEW m \in 0 .. N, NEW f \in [0 .. N -> V] PROVE OfKids(f, m) \in V
    BY <1>1
  <2> HIDE DEF OfKids, V
  <2> QED
    BY <2>1
<1>3. ASSUME NEW m \in 0 .. N, NEW f \in [0 .. N -> V], NEW g \in [0 .. N -> V], \A k \in m + 1 .. N : f[k] = g[k]
      PROVE  step[m][f] = step[m][g]
  <2>1. OfKids(f, m) = OfKids(g, m)
    BY <1>1, <1>3
  <2> HIDE DEF OfKids, V
  <2> QED
    BY <2>1
<1>4. PICK f \in [0 .. N -> V] : \A m \in 0 .. N : f[m] = step[m][f]
  <2>1. V # {} /\ 0 \in Nat
    OBVIOUS
  <2>2. GoesBack(0, N, V, step)
    <3> HIDE DEF step, V
    <3> QED
      BY <1>1, <1>2, <1>3, <2>1, StepByStepBack
  <2> HIDE DEF step, V
  <2> QED
    BY <2>2 DEF GoesBack
<1>5. f = Rule(f)
  <2>1. \A m \in 0 .. N : f[m] = OfKids(f, m)
    <3> HIDE DEF OfKids, V
    <3> QED
      BY <1>4
  <2> HIDE DEF OfKids, V
  <2> QED
    BY <1>1, <1>4, <2>1
<1>6. below = Rule(below)
  <2> HIDE DEF Rule
  <2> QED
    BY <1>5
<1>7. \A m : Descendants(p, m) = below[m]
  BY DEF Descendants
<1>8. below[n] = OfKids(below, n)
  <2> HIDE DEF below, OfKids
  <2> QED
    BY <1>1, <1>6 DEF N
<1> HIDE DEF below
<1> QED
  BY <1>7, <1>8

\* What is below an element has a greater number.
LEMMA DescendantsAreGreater ==
    ASSUME NEW p, IsParsed(p), NEW n \in 0 .. LastNode(p)
    PROVE  Descendants(p, n) \subseteq n + 1 .. LastNode(p)
<1> DEFINE N == LastNode(p)
           bad == {m \in 0 .. N : ~(Descendants(p, m) \subseteq m + 1 .. N)}
<1>1. N \in Nat /\ \A m \in 0 .. N : \A k \in ToSet(p.kids[m]) : k \in 1 .. N /\ m < k
  BY ParsedParts
<1>2. SUFFICES ASSUME bad # {} PROVE FALSE
  OBVIOUS
<1>3. PICK m \in bad : \A k \in bad : k <= m
  <2>1. bad \in SUBSET (0 .. N)
    OBVIOUS
  <2> HIDE DEF bad, N
  <2> QED
    BY <1>1, <1>2, <2>1, GreatestNumber
<1>4. m \in 0 .. N /\ Descendants(p, m) = UNION {{k} \cup Descendants(p, k) : k \in ToSet(p.kids[m])}
  BY DescendantsUnroll
<1> HIDE DEF N
<1>5. ASSUME NEW j \in Descendants(p, m) PROVE j \in m + 1 .. N
  <2>1. PICK k \in ToSet(p.kids[m]) : j = k \/ j \in Descendants(p, k)
    BY <1>4
  <2>2. k \in 1 .. N /\ m < k /\ m \in Nat /\ k \in 0 .. N /\ ~(k <= m)
    BY <1>1, <1>4
  <2>3. Descendants(p, k) \subseteq k + 1 .. N
    BY <1>3, <2>2
  <2>4. CASE j = k
    BY <1>1, <2>2, <2>4
  <2>5. CASE j \in Descendants(p, k)
    <3>1. j \in k + 1 .. N
      BY <2>3, <2>5
    <3> QED
      BY <1>1, <2>2, <3>1
  <2> QED
    BY <2>1, <2>4, <2>5
<1> QED
  BY <1>5

\* What is below something below an element is below the element.
LEMMA DescendantsAreTransitive ==
    ASSUME NEW p, IsParsed(p), NEW n \in 0 .. LastNode(p), NEW k \in Descendants(p, n)
    PROVE  k \in 1 .. LastNode(p) /\ n < k /\ Descendants(p, k) \subseteq Descendants(p, n)
<1> DEFINE N == LastNode(p)
           bad == {m \in 0 .. N : \E j \in Descendants(p, m) : ~(Descendants(p, j) \subseteq Descendants(p, m))}
<1>1. N \in Nat /\ \A m \in 0 .. N : \A j \in ToSet(p.kids[m]) : j \in 1 .. N /\ m < j
  BY ParsedParts
<1>2. bad = {}
  <2>1. SUFFICES ASSUME bad # {} PROVE FALSE
    OBVIOUS
  <2>2. PICK m \in bad : \A j \in bad : j <= m
    <3>1. bad \in SUBSET (0 .. N)
      OBVIOUS
    <3> HIDE DEF bad, N
    <3> QED
      BY <1>1, <2>1, <3>1, GreatestNumber
  <2>3. m \in 0 .. N /\ Descendants(p, m) = UNION {{j} \cup Descendants(p, j) : j \in ToSet(p.kids[m])}
    BY DescendantsUnroll
  <2>4. PICK j \in Descendants(p, m) : ~(Descendants(p, j) \subseteq Descendants(p, m))
    OBVIOUS
  <2>5. PICK c \in ToSet(p.kids[m]) : j = c \/ j \in Descendants(p, c)
    BY <2>3
  <2>6. Descendants(p, c) \subseteq Descendants(p, m)
    BY <2>3
  <2>7. c \in 0 .. N /\ ~(c <= m)
    <3> HIDE DEF N
    <3> QED
      BY <1>1, <2>3
  <2>8. j \in Descendants(p, c) => Descendants(p, j) \subseteq Descendants(p, c)
    BY <2>2, <2>7
  <2> QED
    BY <2>4, <2>5, <2>6, <2>8
<1>3. k \in n + 1 .. N
  BY DescendantsAreGreater
<1>4. Descendants(p, k) \subseteq Descendants(p, n)
  BY <1>2
<1> HIDE DEF N
<1>5. k \in 1 .. N /\ n < k
  <2>1. n \in Nat
    BY <1>1 DEF N
  <2> QED
    BY <1>1, <1>3, <2>1
<1> QED
  BY <1>4, <1>5 DEF N

\* What is below an element has its parent there, or is a child of it.
LEMMA ParentBelow ==
    ASSUME NEW p, IsParsed(p), NEW n \in 0 .. LastNode(p), NEW k \in Descendants(p, n)
    PROVE  \E q \in 0 .. LastNode(p) : (q = n \/ q \in Descendants(p, n)) /\ k \in ToSet(p.kids[q])
<1> DEFINE N == LastNode(p)
           Parent(q, m, j) == (q = m \/ q \in Descendants(p, m)) /\ j \in ToSet(p.kids[q])
           bad == {m \in 0 .. N : \E j \in Descendants(p, m) : ~ \E q \in 0 .. N : Parent(q, m, j)}
<1>1. N \in Nat /\ \A m \in 0 .. N : \A j \in ToSet(p.kids[m]) : j \in 1 .. N /\ m < j
  BY ParsedParts
<1>2. SUFFICES ASSUME bad # {} PROVE FALSE
  OBVIOUS
<1>3. PICK m \in bad : \A j \in bad : j <= m
  <2>1. bad \in SUBSET (0 .. N)
    OBVIOUS
  <2> HIDE DEF bad, N
  <2> QED
    BY <1>1, <1>2, <2>1, GreatestNumber
<1>4. m \in 0 .. N /\ Descendants(p, m) = UNION {{j} \cup Descendants(p, j) : j \in ToSet(p.kids[m])}
  BY DescendantsUnroll
<1>5. PICK j \in Descendants(p, m) : ~ \E q \in 0 .. N : Parent(q, m, j)
  OBVIOUS
<1>6. PICK c \in ToSet(p.kids[m]) : j = c \/ j \in Descendants(p, c)
  BY <1>4
<1>7. c \in Descendants(p, m) /\ Descendants(p, c) \subseteq Descendants(p, m)
  BY <1>4
<1>8. j # c
  BY <1>4, <1>5, <1>6
<1>9. c \in 0 .. N /\ ~(c <= m)
  <2> HIDE DEF N
  <2> QED
    BY <1>1, <1>4
<1>10. PICK q \in 0 .. N : Parent(q, c, j)
  BY <1>3, <1>6, <1>8, <1>9
<1>11. Parent(q, m, j)
  BY <1>7, <1>10
<1> QED
  BY <1>5, <1>11

\* Of two elements that something is below, or is, one is below the other, or is it.
LEMMA OneBelowTheOther ==
    ASSUME NEW p, IsParsed(p), NEW m \in 0 .. LastNode(p), NEW r \in 0 .. LastNode(p), NEW n,
           n = m \/ n \in Descendants(p, m), n = r \/ n \in Descendants(p, r)
    PROVE  m = r \/ m \in Descendants(p, r) \/ r \in Descendants(p, m)
<1> DEFINE N == LastNode(p)
           bad == {k \in 0 .. N : k \in Descendants(p, m) /\ k \in Descendants(p, r)}
<1>1. /\ N \in Nat /\ \A a \in 0 .. N : \A j \in ToSet(p.kids[a]) : j \in 1 .. N /\ a < j
      /\ \A a, b \in 0 .. N : ToSet(p.kids[a]) \cap ToSet(p.kids[b]) # {} => a = b
  BY ParsedParts
<1>2. SUFFICES ASSUME m # r, m \notin Descendants(p, r), r \notin Descendants(p, m) PROVE FALSE
  OBVIOUS
<1>3. n \in bad
  <2>1. n \in Descendants(p, m) /\ n \in Descendants(p, r)
    BY <1>2
  <2>2. n \in m + 1 .. N
    BY <2>1, DescendantsAreGreater
  <2> HIDE DEF N
  <2>3. n \in 0 .. N
    <3>1. m \in Nat
      BY <1>1 DEF N
    <3> QED
      BY <1>1, <2>2, <3>1
  <2> QED
    BY <2>1, <2>3
<1>4. PICK k \in bad : \A j \in bad : k <= j
  <2>1. bad \in SUBSET Nat
    BY <1>1
  <2> HIDE DEF bad
  <2> QED
    BY <1>3, <2>1, LeastNumber
<1>5. PICK a \in 0 .. N : (a = m \/ a \in Descendants(p, m)) /\ k \in ToSet(p.kids[a])
  BY ParentBelow
<1>6. PICK b \in 0 .. N : (b = r \/ b \in Descendants(p, r)) /\ k \in ToSet(p.kids[b])
  BY ParentBelow
<1>7. a = b
  BY <1>1, <1>5, <1>6
<1>8. a \in bad
  BY <1>2, <1>5, <1>6, <1>7
<1>9. a < k /\ a \in Nat /\ k \in Nat
  <2> HIDE DEF N
  <2> QED
    BY <1>1, <1>5, <1>8
<1> QED
  BY <1>4, <1>8, <1>9

\* What is below an element and is, or has below it, a child of it, is, or is below, the child.
LEMMA BelowTheSameChild ==
    ASSUME NEW p, IsParsed(p), NEW k \in 0 .. LastNode(p), NEW c \in ToSet(p.kids[k]),
           NEW m \in Descendants(p, k), NEW n, n = c \/ n \in Descendants(p, c), n = m \/ n \in Descendants(p, m)
    PROVE  m = c \/ m \in Descendants(p, c)
<1> DEFINE N == LastNode(p)
<1>1. /\ N \in Nat /\ c \in 1 .. N /\ k < c /\ k \in Nat
      /\ \A a, b \in 0 .. N : ToSet(p.kids[a]) \cap ToSet(p.kids[b]) # {} => a = b
  <2>1. /\ N \in Nat /\ \A a \in 0 .. N : \A j \in ToSet(p.kids[a]) : j \in 1 .. N /\ a < j
        /\ \A a, b \in 0 .. N : ToSet(p.kids[a]) \cap ToSet(p.kids[b]) # {} => a = b
    BY ParsedParts
  <2> QED
    BY <2>1
<1>2. m \in 1 .. N /\ k < m
  BY DescendantsAreTransitive
<1>3. SUFFICES ASSUME c \in Descendants(p, m) PROVE FALSE
  <2>1. m \in 0 .. LastNode(p) /\ c \in 0 .. LastNode(p)
    BY <1>1, <1>2
  <2>2. m = c \/ m \in Descendants(p, c) \/ c \in Descendants(p, m)
    BY <2>1, OneBelowTheOther
  <2> QED
    BY <1>3, <2>2
<1>4. m \in 0 .. LastNode(p)
  BY <1>1, <1>2
<1>5. PICK q \in 0 .. N : (q = m \/ q \in Descendants(p, m)) /\ c \in ToSet(p.kids[q])
  BY <1>3, <1>4, ParentBelow
<1>6. q = k
  BY <1>1, <1>5
<1>7. q = m \/ m < q
  BY <1>4, <1>5, DescendantsAreTransitive
<1> HIDE DEF N
<1> QED
  BY <1>1, <1>2, <1>6, <1>7

-----------------------------------------------------------------------------
(* ElementLookup.  No two elements of the page that was shown have the same *)
(* index, and on the live page an element of another one's index is one     *)
(* whose index the page has put on two.                                     *)

IsPage(p) ==
    /\ DOMAIN p = {"kids", "tag", "words", "attrs"}
    /\ DOMAIN p.attrs = Nodes(p)
    /\ \A n \in Nodes(p) : IsFiniteSet(DOMAIN p.attrs[n]) /\ \A a \in DOMAIN p.attrs[n] : p.attrs[n][a] \in Seq(ToSet(p.attrs[n][a]))

IndicesTellApart(p) ==
    \A n \in AllElements(p) : /\ Has(p, n, "__id__") /\ \E i \in DOMAIN FindAll(p) : Index(p, n) = <<i>>
                              /\ \A m \in AllElements(p) : Index(p, m) = Index(p, n) => m = n

IndicesMeanTheSame ==
    \A m \in AllElements(live), n \in AllElements(shot) : Index(live, m) = Index(shot, n) => m = n \/ n \in doubled

LookupPcs == {"idle", "loaded", "shown", "found", "not_found"}
LookupInv ==
    /\ lookPc \in LookupPcs
    /\ lookPc # "idle" => IsPage(live)
    /\ lookPc \in {"shown", "found", "not_found"} => IsPage(shot) /\ IndicesTellApart(shot) /\ IndicesMeanTheSame
    /\ ActsOnShownElement

\* Indexing leaves the elements what they are and gives each an index of its own.
LEMMA IndexingTellsApart ==
    ASSUME NEW p, IsPage(p)
    PROVE  IsPage(AddUniqueIndex(p)) /\ IndicesTellApart(AddUniqueIndex(p))
<1> DEFINE q == AddUniqueIndex(p)
           With(n) == [a \in DOMAIN p.attrs[n] \cup {"__id__"} |-> IF a = "__id__" THEN <<Place(p, n)>> ELSE p.attrs[n][a]]
<1>1. /\ DOMAIN q = {"kids", "tag", "words", "attrs"} /\ q.kids = p.kids /\ q.tag = p.tag
      /\ q.attrs = [n \in Nodes(p) |-> IF n \notin AllElements(p) THEN p.attrs[n] ELSE With(n)]
  <2> HIDE DEF With
  <2>1. q = [p EXCEPT !.attrs = [n \in DOMAIN p.attrs |-> IF n \notin AllElements(p) THEN p.attrs[n] ELSE With(n)]]
    BY DEF AddUniqueIndex, With
  <2> HIDE DEF q
  <2> QED
    BY <2>1 DEF IsPage
<1> HIDE DEF q
<1>2. FindAll(q) = FindAll(p) /\ Nodes(q) = Nodes(p)
  BY <1>1 DEF FindAll, Below, Nodes
<1>3. AllElements(q) = AllElements(p)
  BY <1>2 DEF AllElements
<1>4. \A n \in AllElements(p) : n \in Nodes(p) /\ Place(p, n) \in DOMAIN FindAll(p) /\ FindAll(p)[Place(p, n)] = n
  BY DEF AllElements, Place, ToSet
<1>5. ASSUME NEW n \in AllElements(p) PROVE Has(q, n, "__id__") /\ Index(q, n) = <<Place(p, n)>>
  <2>1. q.attrs[n] = With(n)
    BY <1>1, <1>4
  <2>2. "__id__" \in DOMAIN With(n) /\ With(n)["__id__"] = <<Place(p, n)>>
    OBVIOUS
  <2> HIDE DEF With
  <2> QED
    BY <2>1, <2>2 DEF Has, Index
<1>6. ASSUME NEW n \in AllElements(p), NEW m \in AllElements(p), Index(q, m) = Index(q, n) PROVE m = n
  <2>1. <<Place(p, m)>> = <<Place(p, n)>>
    BY <1>5, <1>6
  <2>2. Place(p, m) = Place(p, n)
    BY <2>1
  <2> QED
    BY <1>4, <2>2
<1>7. IndicesTellApart(q)
  BY <1>2, <1>3, <1>4, <1>5, <1>6 DEF IndicesTellApart
<1>71. ASSUME NEW n \in Nodes(p), NEW a \in DOMAIN q.attrs[n] PROVE q.attrs[n][a] \in Seq(ToSet(q.attrs[n][a]))
  <2>1. q.attrs[n] \in {p.attrs[n], With(n)}
    <3> HIDE DEF With
    <3> QED
      BY <1>1
  <2>2. CASE q.attrs[n] = p.attrs[n]
    BY <1>71, <2>2 DEF IsPage
  <2>3. CASE q.attrs[n] = With(n)
    <3>1. CASE a = "__id__"
      <4>1. q.attrs[n][a] = <<Place(p, n)>>
        BY <2>3, <3>1
      <4>2. <<Place(p, n)>>[1] = Place(p, n) /\ 1 \in DOMAIN <<Place(p, n)>>
        OBVIOUS
      <4>3. Place(p, n) \in ToSet(<<Place(p, n)>>)
        BY <4>2 DEF ToSet
      <4> QED
        BY <4>1, <4>3
    <3>2. CASE a # "__id__"
      <4>1. a \in DOMAIN p.attrs[n] /\ With(n)[a] = p.attrs[n][a]
        BY <1>71, <2>3, <3>2
      <4> HIDE DEF With
      <4> QED
        BY <2>3, <4>1 DEF IsPage
    <3> QED
      BY <3>1, <3>2
  <2> QED
    BY <2>1, <2>2, <2>3
<1>8. ASSUME NEW n \in Nodes(p) PROVE IsFiniteSet(DOMAIN q.attrs[n])
  <2>1. IsFiniteSet(DOMAIN p.attrs[n])
    BY DEF IsPage
  <2>2. IsFiniteSet(DOMAIN p.attrs[n] \cup {"__id__"})
    BY <2>1, FS_AddElement
  <2>3. DOMAIN With(n) = DOMAIN p.attrs[n] \cup {"__id__"}
    OBVIOUS
  <2>4. q.attrs[n] \in {p.attrs[n], With(n)}
    <3> HIDE DEF With
    <3> QED
      BY <1>1
  <2> HIDE DEF With
  <2> QED
    BY <2>1, <2>2, <2>3, <2>4
<1>9. DOMAIN q.attrs = Nodes(q)
  BY <1>1, <1>2
<1>10. IsPage(q)
  BY <1>1, <1>2, <1>71, <1>8, <1>9 DEF IsPage
<1> QED
  BY <1>7, <1>10 DEF q

\* An attribute narrows the elements to some of them; it never loses the target,
\* and the index leaves nothing but the target.
LEMMA NarrowKeepsTarget ==
    ASSUME live = shot, IsPage(shot), IndicesTellApart(shot), NEW nodes \in SUBSET AllElements(live), NEW n \in nodes, AsShown(n),
           NEW name \in DOMAIN shot.attrs[n]
    PROVE  /\ Narrow(nodes, name, shot.attrs[n][name]) \subseteq nodes
           /\ n \in Narrow(nodes, name, shot.attrs[n][name])
           /\ name = "__id__" => Narrow(nodes, name, shot.attrs[n][name]) = {n}
<1> DEFINE words == shot.attrs[n][name]
           Having(k) == {m \in nodes : \E said \in GetAttribute(m, name) : \A i \in 1 .. k : words[i] \in ToSet(said)}
           enough == {k \in 0 .. Len(words) : AtMostOne(Having(k))}
           chosen == IF enough = {} THEN Len(words) ELSE Min(enough)
           some == Narrow(nodes, name, words)
<1>0. Has(shot, n, name) /\ name \in LiveNames => <<n, name>> \notin DOMAIN props
  BY DEF AsShown
<1>1. some = IF Having(chosen) = {} /\ name \notin ToSet(IdentifyingAttributes) THEN Having(0) ELSE Having(chosen)
  BY DEF Narrow
<1>2. n \in Having(0) /\ \A k : Having(k) \subseteq nodes
  <2>1. 1 .. 0 = {}
    OBVIOUS
  <2>2. Has(live, n, name) /\ ~(name \in LiveNames /\ <<n, name>> \in DOMAIN props)
    BY <1>0 DEF Has
  <2>3. GetAttribute(n, name) # {}
    BY <2>2 DEF GetAttribute
  <2> QED
    BY <2>1, <2>3
<1>3. words \in Seq(ToSet(words)) /\ Len(words) \in Nat /\ DOMAIN words = 1 .. Len(words)
  <2>1. words \in Seq(ToSet(words))
    BY DEF IsPage, AllElements
  <2> HIDE DEF words
  <2> QED
    BY <2>1
<1>4. chosen \in 0 .. Len(words) /\ (enough # {} => AtMostOne(Having(chosen)))
  <2>1. enough \in SUBSET Nat /\ enough \subseteq 0 .. Len(words)
    BY <1>3
  <2>2. \A k \in enough : AtMostOne(Having(k))
    OBVIOUS
  <2>3. enough # {} => Min(enough) \in enough
    <3> HIDE DEF enough
    <3> QED
      BY <2>1, MinOfNumbers
  <2>4. chosen \in 0 .. Len(words)
    <3>1. CASE enough = {}
      <4>1. chosen = Len(words)
        BY <3>1
      <4> HIDE DEF chosen, words, enough
      <4> QED
        BY <1>3, <4>1
    <3>2. CASE enough # {}
      <4>1. chosen = Min(enough)
        BY <3>2
      <4> HIDE DEF chosen, words, enough
      <4> QED
        BY <2>1, <2>3, <3>2, <4>1
    <3> QED
      BY <3>1, <3>2
  <2>5. ASSUME enough # {} PROVE AtMostOne(Having(chosen))
    <3>1. chosen = Min(enough)
      BY <2>5
    <3> HIDE DEF enough, Having, words, chosen
    <3> QED
      BY <2>2, <2>3, <2>5, <3>1
  <2> QED
    BY <2>4, <2>5
<1>5. CASE name # "href"
  <2>1. ASSUME NEW k \in 0 .. Len(words) PROVE n \in Having(k)
    <3>1. \A i \in 1 .. k : i \in DOMAIN words
      BY <1>3
    <3>2. GetAttribute(n, name) = {words}
      <4>1. Has(live, n, name) /\ ~(name \in LiveNames /\ <<n, name>> \in DOMAIN props)
        BY <1>0 DEF Has
      <4> QED
        BY <1>5, <4>1 DEF GetAttribute
    <3>3. \A i \in 1 .. k : words[i] \in ToSet(words)
      BY <3>1 DEF ToSet
    <3> HIDE DEF words
    <3> QED
      BY <3>2, <3>3
  <2>2. some = Having(chosen)
    <3> HIDE DEF some, Having, chosen, words
    <3> QED
      BY <1>1, <1>4, <2>1
  <2>3. n \in some /\ some \subseteq nodes
    <3> HIDE DEF some, Having, chosen, words
    <3> QED
      BY <1>2, <1>4, <2>1, <2>2
  <2>4. ASSUME name = "__id__" PROVE some = {n}
    <3>1. /\ Index(shot, n) = words /\ n \in AllElements(shot)
          /\ \E i : words = <<i>>
      BY <2>4 DEF IndicesTellApart, Index, Has
    <3>2. words[1] \in ToSet(words) /\ Len(words) = 1
      BY <3>1 DEF ToSet
    <3>3. ASSUME NEW m \in Having(1) PROVE m = n
      <4>1. m \in AllElements(shot) /\ Has(shot, m, "__id__") /\ words[1] \in ToSet(shot.attrs[m]["__id__"])
        <5>1. 1 \in 1 .. 1 /\ m \in AllElements(shot)
          OBVIOUS
        <5>2. Has(shot, m, "__id__") /\ "__id__" \notin LiveNames
          BY <5>1, LookupAssumption DEF IndicesTellApart
        <5>3. GetAttribute(m, "__id__") = {shot.attrs[m]["__id__"]}
          BY <5>2 DEF GetAttribute
        <5> QED
          BY <2>4, <5>1, <5>2, <5>3
      <4>2. PICK j : Index(shot, m) = <<j>>
        BY <4>1 DEF IndicesTellApart
      <4>3. words[1] \in ToSet(<<j>>)
        BY <4>1, <4>2 DEF Index
      <4>4. words[1] = j
        BY <4>3 DEF ToSet
      <4>5. words = <<j>>
        BY <3>1, <4>4
      <4> HIDE DEF words
      <4> QED
        BY <3>1, <4>1, <4>2, <4>5 DEF IndicesTellApart
    <3>4. AtMostOne(Having(1))
      <4> HIDE DEF Having
      <4> QED
        BY <3>3 DEF AtMostOne
    <3>5. 1 \in enough
      <4>1. 1 \in 0 .. Len(words)
        BY <3>2
      <4> HIDE DEF Having, words
      <4> QED
        BY <3>4, <4>1
    <3>6. AtMostOne(some)
      <4> HIDE DEF some, Having, chosen, enough
      <4> QED
        BY <1>4, <2>2, <3>5
    <3> HIDE DEF some
    <3> QED
      BY <2>3, <3>6 DEF AtMostOne
  <2> QED
    BY <2>3, <2>4
<1>6. CASE name = "href"
  <2>1. \A k : Having(k) \in {{}, Having(0)}
    <3>1. ASSUME NEW k PROVE Having(k) = IF \A i \in 1 .. k : words[i] \in ToSet(<<"resolved">>) THEN Having(0) ELSE {}
      <4>1. \A m : GetAttribute(m, name) = IF Has(live, m, name) THEN {<<"resolved">>} ELSE {}
        BY <1>6, LookupAssumption DEF GetAttribute
      <4>2. 1 .. 0 = {}
        OBVIOUS
      <4> HIDE DEF words
      <4> QED
        BY <4>1, <4>2
    <3> HIDE DEF Having
    <3> QED
      BY <3>1
  <2>2. name \notin ToSet(IdentifyingAttributes)
    BY <1>6 DEF ToSet, IdentifyingAttributes
  <2>3. some = Having(0)
    <3> HIDE DEF some, Having, chosen
    <3> QED
      BY <1>1, <2>1, <2>2
  <2>4. n \in some /\ some \subseteq nodes
    <3> HIDE DEF some, Having
    <3> QED
      BY <1>2, <2>3
  <2> QED
    BY <1>6, <2>4
<1> QED
  BY <1>5, <1>6
\* On the page it was cut from, a snippet with its index finds its element and
\* nothing else.
LEMMA HtmlFindsItself ==
    ASSUME live = shot, IsPage(shot), IndicesTellApart(shot), NEW n \in AllElements(shot), AsShown(n),
           NEW order \in InAnyOrder(OtherAttributes(n))
    PROVE  FindElementByHtml(n, order) = {n}
<1> DEFINE byText == FindElementsByXPath(shot.tag[n], ToSet(GetText(shot, n)))
           names == IdentifyingAttributes \o order
           first == IF byText # {} THEN byText ELSE FindElementsByXPath(shot.tag[n], {})
           Left(some, i) ==
               IF AtMostOne(some) \/ ~Has(shot, n, names[i]) THEN some
               ELSE Narrow(some, names[i], shot.attrs[n][names[i]])
           Rule(f) == [i \in 0 .. Len(names) |-> IF i = 0 THEN first ELSE Left(f[i - 1], i)]
           With == {some \in SUBSET AllElements(live) : n \in some}
           step == [i \in 1 .. Len(names) |-> [some \in With |-> Left(some, i)]]
           left == CHOOSE f : f = Rule(f)
<1>1. n \in Nodes(shot) /\ Has(shot, n, "__id__") /\ IsFiniteSet(OtherAttributes(n))
  <2>1. n \in Nodes(shot) /\ Has(shot, n, "__id__") /\ IsFiniteSet(DOMAIN shot.attrs[n])
    BY DEF AllElements, IndicesTellApart, IsPage
  <2> QED
    BY <2>1, FS_Subset DEF OtherAttributes
<1>2. Len(names) \in Nat /\ \E i \in 1 .. Len(names) : names[i] = "__id__"
  <2> DEFINE K == Cardinality(OtherAttributes(n))
             Others == OtherAttributes(n)
             Known == IdentifyingAttributes
  <2>1. K \in Nat
    BY <1>1, FS_CardinalityType
  <2>2. order \in [1 .. K -> Others] /\ ToSet(order) = Others
    BY DEF InAnyOrder
  <2>3. "__id__" \in Others
    BY <1>1 DEF OtherAttributes, Has, IdentifyingAttributes, ToSet
  <2>4. PICK j \in 1 .. K : order[j] = "__id__"
    BY <2>2, <2>3 DEF ToSet
  <2>5. PICK names3 : Known \in Seq(names3) /\ Len(Known) = 3
    <3>1. \A a, b, c : <<a, b, c>> \in Seq({a, b, c}) /\ Len(<<a, b, c>>) = 3
      OBVIOUS
    <3>2. Known = <<"id", "aria-label", "class">>
      BY DEF IdentifyingAttributes
    <3> QED
      BY <3>1, <3>2, Zenon
  <2> HIDE DEF K, Others, Known
  <2>6. order \in Seq(Others) /\ Len(order) = K
    BY <2>1, <2>2
  <2>7. Len(Known \o order) = 3 + K /\ (Known \o order)[3 + j] = order[j] /\ 3 + j \in 1 .. 3 + K
    <3> DEFINE Both == names3 \cup Others
    <3>1. Known \in Seq(Both) /\ order \in Seq(Both)
      BY <2>5, <2>6
    <3> HIDE DEF Both
    <3>2. 3 + j \in 1 .. 3 + K /\ 3 + j > 3 /\ (3 + j) - 3 = j /\ j \in Nat
      BY <2>1, <2>4
    <3>3. /\ Len(Known \o order) = Len(Known) + Len(order)
          /\ \A i \in 1 .. Len(Known) + Len(order) :
               (Known \o order)[i] = IF i <= Len(Known) THEN Known[i] ELSE order[i - Len(Known)]
      BY <3>1, ConcatProperties, Zenon
    <3>4. Len(Known \o order) = 3 + K
      BY <2>5, <2>6, <3>3
    <3>5. (Known \o order)[3 + j] = order[(3 + j) - 3]
      BY <2>5, <2>6, <3>2, <3>3
    <3> QED
      BY <3>2, <3>4, <3>5
  <2> QED
    BY <2>1, <2>4, <2>7 DEF Known
<1>3. first \in With
  <2> DEFINE ws == ToSet(GetText(shot, n))
  <2>1. n \in byText /\ byText \in SUBSET AllElements(live)
    <3> HIDE DEF ws
    <3> QED
      BY DEF FindElementsByXPath
  <2> HIDE DEF byText
  <2> QED
    BY <2>1
<1>4. ASSUME NEW some \in With, NEW i \in 1 .. Len(names)
      PROVE  /\ Left(some, i) \in With
             /\ names[i] = "__id__" => Left(some, i) = {n}
             /\ some = {n} => Left(some, i) = {n}
  <2> DEFINE name == names[i]
             found1 == Narrow(some, name, shot.attrs[n][name])
  <2>1. some \in SUBSET AllElements(live) /\ n \in some
    OBVIOUS
  <2>2. ASSUME name \in DOMAIN shot.attrs[n]
        PROVE  found1 \subseteq some /\ n \in found1 /\ (name = "__id__" => found1 = {n})
    <3> HIDE DEF name
    <3> QED
      BY <2>1, <2>2, NarrowKeepsTarget, Zenon
  <2>3. AtMostOne(some) => some = {n}
    BY <2>1 DEF AtMostOne
  <2>4. Has(shot, n, name) <=> name \in DOMAIN shot.attrs[n]
    BY DEF Has
  <2>5. Left(some, i) = IF AtMostOne(some) \/ ~Has(shot, n, name) THEN some ELSE found1
    OBVIOUS
  <2>6. some = {n} => AtMostOne(some)
    BY DEF AtMostOne
  <2>7. name = "__id__" => Has(shot, n, name)
    BY <1>1
  <2> HIDE DEF name, found1
  <2>8. Left(some, i) \subseteq some /\ n \in Left(some, i)
    BY <2>1, <2>2, <2>4, <2>5
  <2>9. name = "__id__" => Left(some, i) = {n}
    BY <2>2, <2>3, <2>4, <2>5, <2>7
  <2>10. some = {n} => Left(some, i) = {n}
    BY <2>5, <2>6
  <2> HIDE DEF Left
  <2> QED
    BY <2>1, <2>8, <2>9, <2>10 DEF name
<1>5. left = Rule(left)
  <2>1. step \in [1 .. Len(names) -> [With -> With]]
    <3> HIDE DEF With, Left, names
    <3> QED
      BY <1>4
  <2>2. PICK f \in [0 .. Len(names) -> With] : f[0] = first /\ \A i \in 1 .. Len(names) : f[i] = step[i][f[i - 1]]
    <3>1. GoesUp(Len(names), With, first, step)
      <4> HIDE DEF step, With, names, first
      <4> QED
        BY <1>2, <1>3, <2>1, StepByStep
    <3> HIDE DEF step, With, names, first
    <3> QED
      BY <3>1 DEF GoesUp
  <2>3. ASSUME NEW i \in 0 .. Len(names) PROVE f[i] = IF i = 0 THEN first ELSE Left(f[i - 1], i)
    <3>1. CASE i = 0
      <4> HIDE DEF step, With, names, first
      <4> QED
        BY <2>2, <3>1
    <3>2. CASE i # 0
      <4>1. i \in 1 .. Len(names) /\ i - 1 \in 0 .. Len(names)
        <5> HIDE DEF names
        <5> QED
          BY <1>2, <3>2
      <4>2. f[i - 1] \in With /\ f[i] = step[i][f[i - 1]]
        <5> HIDE DEF step, With, names, first
        <5> QED
          BY <2>2, <4>1
      <4>3. step[i][f[i - 1]] = Left(f[i - 1], i)
        <5> HIDE DEF With, names, Left
        <5> QED
          BY <4>1, <4>2
      <4> HIDE DEF step, Left, names, first
      <4> QED
        BY <3>2, <4>2, <4>3
    <3> QED
      BY <3>1, <3>2
  <2>4. f = Rule(f)
    <3> HIDE DEF Left, first, names
    <3> QED
      BY <2>2, <2>3
  <2> HIDE DEF Rule
  <2> QED
    BY <2>4
<1>6. FindElementByHtml(n, order) = left[Len(names)]
  BY DEF FindElementByHtml
<1> DEFINE N == Len(names)
           bad == {i \in 0 .. N : left[i] \notin With}
<1>7. /\ left[0] = first
      /\ \A i \in 1 .. N : left[i] = Left(left[i - 1], i)
  <2> HIDE DEF Left, first, left, names
  <2>1. \A i \in 0 .. N : left[i] = IF i = 0 THEN first ELSE Left(left[i - 1], i)
    BY <1>5
  <2> HIDE DEF N
  <2> QED
    BY <1>2, <2>1 DEF N
<1> HIDE DEF left, first, Left, names, With, N
<1>8. N \in Nat
  BY <1>2 DEF N
<1>9. \A i \in 0 .. N : left[i] \in With
  <2> SUFFICES ASSUME bad # {} PROVE FALSE
    OBVIOUS
  <2>1. PICK i \in bad : \A k \in bad : i <= k
    <3>1. bad \in SUBSET Nat
      BY <1>8
    <3> HIDE DEF bad
    <3> QED
      BY <3>1, LeastNumber
  <2>2. i \in 1 .. N /\ i - 1 \in 0 .. N /\ ~(i <= i - 1)
    BY <1>3, <1>7, <1>8
  <2>3. left[i - 1] \in With
    BY <2>1, <2>2
  <2>4. left[i] \in With
    BY <1>4, <1>7, <2>2, <2>3 DEF N
  <2> QED
    BY <2>4
<1>10. PICK j \in 1 .. N : names[j] = "__id__"
  BY <1>2 DEF N
<1>11. \A i \in j .. N : left[i] = {n}
  <2> DEFINE late == {i \in j .. N : left[i] # {n}}
  <2> SUFFICES ASSUME late # {} PROVE FALSE
    OBVIOUS
  <2>1. PICK i \in late : \A k \in late : i <= k
    <3>1. late \in SUBSET Nat
      BY <1>8
    <3> HIDE DEF late
    <3> QED
      BY <3>1, LeastNumber
  <2>2. i \in 1 .. N /\ i - 1 \in 0 .. N /\ ~(i <= i - 1) /\ (i # j => i - 1 \in j .. N)
    BY <1>8
  <2>3. left[i - 1] \in With /\ left[i] = Left(left[i - 1], i)
    BY <1>7, <1>9, <2>2
  <2>4. i # j => left[i - 1] = {n}
    BY <2>1, <2>2
  <2>5. left[i] = {n}
    BY <1>4, <1>10, <2>2, <2>3, <2>4 DEF N
  <2> QED
    BY <2>5
<1> QED
  BY <1>6, <1>8, <1>10, <1>11 DEF N

\* Moving a node leaves attributes as they are.
LEMMA ExtractKeeps ==
    ASSUME NEW p, IsPage(p), NEW n
    PROVE  IsPage(Extract(p, n)) /\ Extract(p, n).attrs = p.attrs
<1> DEFINE kids == [m \in DOMAIN p.kids |-> IF n \in ToSet(p.kids[m]) THEN SelectSeq(p.kids[m], LAMBDA k : k # n) ELSE p.kids[m]]
           q == Extract(p, n)
<1>1. q = [p EXCEPT !.kids = kids]
  BY DEF Extract
<1> HIDE DEF q, kids
<1>2. DOMAIN q = DOMAIN p /\ q.attrs = p.attrs /\ q.tag = p.tag
  BY <1>1 DEF IsPage
<1>3. IsPage(q)
  BY <1>2 DEF IsPage, Nodes
<1> QED
  BY <1>2, <1>3 DEF q

LEMMA InsertKeeps ==
    ASSUME NEW p, IsPage(p), NEW n, NEW first
    PROVE  IsPage(Insert(p, n, first)) /\ Insert(p, n, first).attrs = p.attrs
<1> DEFINE top == FindAll(p)[1]
           put == [p.kids EXCEPT ![top] = IF first THEN <<n>> \o p.kids[top] ELSE p.kids[top] \o <<n>>]
           q == Insert(p, n, first)
<1>1. q = [p EXCEPT !.kids = put]
  BY DEF Insert
<1> HIDE DEF q, put
<1>2. DOMAIN q = DOMAIN p /\ q.attrs = p.attrs /\ q.tag = p.tag
  BY <1>1 DEF IsPage
<1>3. IsPage(q)
  BY <1>2 DEF IsPage, Nodes
<1> QED
  BY <1>2, <1>3 DEF q

LEMMA CopyKeeps ==
    ASSUME NEW p, IsPage(p), NEW n \in Nodes(p), NEW k \in Nodes(p), k \notin AllElements(p)
    PROVE  IsPage(CopyTo(p, k, n)) /\ \A m \in AllElements(p) : CopyTo(p, k, n).attrs[m] = p.attrs[m]
<1> DEFINE q == CopyTo(p, k, n)
<1>1. /\ DOMAIN q = DOMAIN p /\ q.attrs = [p.attrs EXCEPT ![k] = p.attrs[n]] /\ q.tag = [p.tag EXCEPT ![k] = p.tag[n]]
  BY DEF CopyTo, IsPage
<1> HIDE DEF q
<1>2. Nodes(q) = Nodes(p) /\ DOMAIN q.attrs = Nodes(p)
  BY <1>1 DEF Nodes, IsPage
<1>3. \A m \in Nodes(p) : q.attrs[m] = IF m = k THEN p.attrs[n] ELSE p.attrs[m]
  BY <1>1 DEF IsPage
<1>4. IsPage(q)
  BY <1>1, <1>2, <1>3 DEF IsPage
<1>5. \A m \in AllElements(p) : q.attrs[m] = p.attrs[m]
  BY <1>3 DEF AllElements
<1> QED
  BY <1>4, <1>5 DEF q

\* The invariant of the lookups.
LEMMA LookupInvHolds == LookupSpec => []LookupInv
<1>1. LookupInit => LookupInv
  BY DEF LookupInit, LookupInv, LookupPcs, ActsOnShownElement
<1>2. LookupInv /\ [LookupNext]_lookVars => LookupInv'
  <2> SUFFICES ASSUME LookupInv, [LookupNext]_lookVars PROVE LookupInv'
    OBVIOUS
  <2>1. ASSUME NEW p \in LivePages, LoadPage(p) PROVE LookupInv'
    <3>1. IsPage(p)
      BY LookupAssumption DEF IsPage
    <3> QED
      BY <2>1, <3>1 DEF LoadPage, LookupInv, LookupPcs, ActsOnShownElement
  <2>2. CASE IndexAndShow
    <3>1. IsPage(live)
      BY <2>2 DEF IndexAndShow, LookupInv
    <3>2. IsPage(live') /\ IndicesTellApart(live') /\ live' = shot' /\ lookPc' = "shown"
      BY <2>2, <3>1, IndexingTellsApart DEF IndexAndShow
    <3>3. IndicesMeanTheSame' /\ IndicesTellApart(shot)' /\ IsPage(shot)' /\ IsPage(live)'
      BY <3>2 DEF IndicesMeanTheSame, IndicesTellApart
    <3> QED
      BY <3>2, <3>3 DEF LookupInv, LookupPcs, ActsOnShownElement
  <2>3. CASE ContinueSequence
    BY <2>3 DEF ContinueSequence, LookupInv, LookupPcs, ActsOnShownElement, IndicesMeanTheSame, IndicesTellApart, IsPage
  <2>4. ASSUME NEW p, PageChanges(p), IsPage(p), \A m \in AllElements(live) : p.attrs[m] = live.attrs[m]
        PROVE  LookupInv'
    <3>1. /\ lookPc = "shown" /\ lookPc' = "shown" /\ live' = p /\ shot' = shot /\ way' = way /\ asked' = asked
          /\ doubled' = doubled \cup
               {m \in Nodes(shot) : \E k \in (AllElements(p) \ AllElements(live)) \ {m} :
                    Index(p, k) # <<>> /\ Index(p, k) = Index(shot, m)}
      BY <2>4 DEF PageChanges
    <3>2. IsPage(shot) /\ IndicesTellApart(shot) /\ IndicesMeanTheSame
      BY <3>1 DEF LookupInv
    <3>3. ASSUME NEW m \in AllElements(p), NEW n \in AllElements(shot), Index(p, m) = Index(shot, n)
          PROVE  m = n \/ n \in doubled'
      <4>1. CASE m \in AllElements(live)
        <5>1. Index(p, m) = Index(live, m)
          BY <2>4, <4>1 DEF Index, Has
        <5> QED
          BY <3>1, <3>2, <3>3, <4>1, <5>1 DEF IndicesMeanTheSame
      <4>2. CASE m \notin AllElements(live)
        <5>1. PICK i : Index(shot, n) = <<i>>
          BY <3>2 DEF IndicesTellApart
        <5>2. Index(p, m) # <<>> /\ n \in Nodes(shot)
          BY <3>3, <5>1 DEF AllElements
        <5> QED
          BY <3>1, <3>3, <4>2, <5>2
      <4> QED
        BY <4>1, <4>2
    <3>4. IndicesMeanTheSame'
      BY <3>1, <3>3 DEF IndicesMeanTheSame
    <3>5. IndicesTellApart(shot)' /\ IsPage(shot)' /\ IsPage(live)'
      BY <2>4, <3>1, <3>2
    <3> QED
      BY <3>1, <3>4, <3>5 DEF LookupInv, LookupPcs, ActsOnShownElement
  <2>5. ASSUME NEW n, NEW first, PageAdds(n, first) PROVE LookupInv'
    <3> DEFINE p == Insert(Extract(live, n), n, first)
    <3>1. PageChanges(p) /\ lookPc = "shown" /\ IsPage(live)
      BY <2>5 DEF PageAdds, PageChanges, LookupInv
    <3>2. IsPage(Extract(live, n)) /\ Extract(live, n).attrs = live.attrs
      BY <3>1, ExtractKeeps
    <3>3. IsPage(p) /\ p.attrs = live.attrs
      BY <3>2, InsertKeeps
    <3> HIDE DEF p
    <3> QED
      BY <2>4, <3>1, <3>3
  <2>6. ASSUME NEW n, PageRemoves(n) PROVE LookupInv'
    <3> DEFINE p == Extract(live, n)
    <3>1. PageChanges(p) /\ lookPc = "shown" /\ IsPage(live)
      BY <2>6 DEF PageRemoves, PageChanges, LookupInv
    <3>2. IsPage(p) /\ p.attrs = live.attrs
      BY <3>1, ExtractKeeps
    <3> HIDE DEF p
    <3> QED
      BY <2>4, <3>1, <3>2
  <2>7. ASSUME NEW n, NEW k, NEW first, PageCopies(n, k, first) PROVE LookupInv'
    <3> DEFINE c == CopyTo(live, k, n)
               p == Insert(Extract(c, k), k, first)
    <3>1. /\ PageChanges(p) /\ lookPc = "shown" /\ IsPage(live)
          /\ n \in Nodes(live) /\ k \in Nodes(live) /\ k \notin AllElements(live)
      BY <2>7 DEF PageCopies, PageChanges, LookupInv, AllElements
    <3>2. IsPage(c) /\ \A m \in AllElements(live) : c.attrs[m] = live.attrs[m]
      BY <3>1, CopyKeeps
    <3>3. IsPage(Extract(c, k)) /\ Extract(c, k).attrs = c.attrs
      BY <3>2, ExtractKeeps
    <3>4. IsPage(p) /\ p.attrs = c.attrs
      BY <3>3, InsertKeeps
    <3> HIDE DEF p, c
    <3> QED
      BY <2>4, <3>1, <3>2, <3>4
  <2>8. ASSUME NEW n, NEW name, NEW nodes, Look(n, name, nodes),
               n \in doubled \/ nodes \subseteq {n} \/ (name # "index" /\ ~(live = shot /\ AsShown(n)))
        PROVE  LookupInv'
    <3>1. lookPc' \in {"found", "not_found"} /\ UNCHANGED <<live, props, shot, doubled>> /\ LookupInv /\ lookPc = "shown"
      BY <2>8 DEF Look
    <3>2. IsPage(live)' /\ IsPage(shot)' /\ IndicesTellApart(shot)' /\ IndicesMeanTheSame'
      BY <3>1 DEF LookupInv, IndicesMeanTheSame
    <3>3. ASSUME lookPc' = "found", n \notin doubled, name = "index" \/ (live = shot /\ AsShown(n)) PROVE found' = n
      <4>1. nodes # {} /\ found' = First(live, nodes)
        BY <2>8, <3>3 DEF Look
      <4>2. nodes = {n}
        BY <2>8, <3>3, <4>1
      <4> QED
        BY <4>1, <4>2 DEF First
    <3>4. ActsOnShownElement'
      BY <2>8, <3>1, <3>3 DEF ActsOnShownElement, AsShown, Look
    <3> QED
      BY <3>1, <3>2, <3>4 DEF LookupInv, LookupPcs
  <2>9. ASSUME NEW n, FindByIndex(n) PROVE LookupInv'
    <3>1. n \in AllElements(shot) /\ IndicesMeanTheSame
      BY <2>9 DEF FindByIndex, Look, LookupInv
    <3>2. n \in doubled \/ ByIndex(n) \subseteq {n}
      BY <3>1 DEF ByIndex, IndicesMeanTheSame
    <3> QED
      BY <2>8, <2>9, <3>2 DEF FindByIndex
  <2>10. ASSUME NEW n, FindByHtml(n) PROVE LookupInv'
    <3>1. lookPc = "shown" /\ n \in AllElements(shot) /\ IsPage(shot) /\ IndicesTellApart(shot)
      BY <2>10 DEF FindByHtml, LookupInv
    <3>2. PICK order \in InAnyOrder(OtherAttributes(n)) : Look(n, "html", FindElementByHtml(n, order))
      BY <2>10 DEF FindByHtml
    <3>3. live = shot /\ AsShown(n) => FindElementByHtml(n, order) = {n}
      BY <3>1, HtmlFindsItself
    <3> QED
      BY <2>8, <3>2, <3>3
  <2>11. ASSUME NEW n, NEW name, NEW answer, StateChanges(n, name, answer) PROVE LookupInv'
    BY <2>11 DEF StateChanges, LookupInv, LookupPcs, ActsOnShownElement, IndicesMeanTheSame, IndicesTellApart, IsPage
  <2>12. CASE UNCHANGED lookVars
    BY <2>12 DEF lookVars, LookupInv, ActsOnShownElement, AsShown, IndicesMeanTheSame
  <2> QED
    BY <2>1, <2>2, <2>3, <2>5, <2>6, <2>7, <2>9, <2>10, <2>11, <2>12 DEF LookupNext
<1> QED
  BY <1>1, <1>2, PTL DEF LookupSpec

\* An action on an element of the answer lands on the element that was shown, by
\* index or by html, or fails: on every page, after any changes of it.
THEOREM ActionsLandOnShownElement == LookupSpec => []ActsOnShownElement
<1>1. LookupInv => ActsOnShownElement
  BY DEF LookupInv
<1> QED
  BY <1>1, LookupInvHolds, PTL

-----------------------------------------------------------------------------
(* HtmlChanges.  Whatever below an element is new is in what is kept of the *)
(* element, with what is below and above it: the first element of the page  *)
(* that loses something would have a child that loses it too.               *)

\* What of an element is in the incremental tree.
Strs(p, m) == {k \in ToSet(p.kids[m]) : p.tag[k] \in {"#text", "#comment"} /\ how.keepText}
KeptOf(p, m, inc) ==
    IF IsUnseen(p, m) THEN {m} \cup Descendants(p, m)
    ELSE IF Strs(p, m) \cup UNION {inc[k] : k \in ElementKids(p, m)} # {} /\ ElementKids(p, m) # {}
         THEN {m} \cup Strs(p, m) \cup UNION {inc[k] : k \in ElementKids(p, m)}
    ELSE {}

IncrementalUnrolled(p) ==
    \E inc : \A m \in Nodes(p) : Incremental(p, m) = inc[m] /\ inc[m] = KeptOf(p, m, inc)

LEMMA IncrementalUnrolls ==
    ASSUME NEW p, IsParsed(p)
    PROVE  IncrementalUnrolled(p)
<1> DEFINE N == LastNode(p)
           V == SUBSET Nodes(p)
           Rule(f) == [m \in Nodes(p) |->
                LET strings == {k \in ToSet(p.kids[m]) : p.tag[k] \in {"#text", "#comment"} /\ how.keepText}
                    below == UNION {f[k] : k \in ElementKids(p, m)}
                IN IF IsUnseen(p, m) THEN {m} \cup Descendants(p, m)
                   ELSE IF strings \cup below # {} /\ ElementKids(p, m) # {} THEN {m} \cup strings \cup below
                   ELSE {}]
           step == [m \in 1 .. N |-> [f \in [1 .. N -> V] |-> KeptOf(p, m, f)]]
           inc == CHOOSE f : f = Rule(f)
<1>1. /\ N \in Nat /\ Nodes(p) = 1 .. N
      /\ \A m \in 1 .. N : \A k \in ToSet(p.kids[m]) : k \in 1 .. N /\ k \in m + 1 .. N
      /\ \A m \in 1 .. N : Descendants(p, m) \subseteq 1 .. N
  <2>1. /\ N \in Nat /\ Nodes(p) = 1 .. N
        /\ \A m \in 0 .. N : ToSet(p.kids[m]) \subseteq 1 .. N /\ \A k \in ToSet(p.kids[m]) : m < k
    BY ParsedParts
  <2>2. \A m \in 0 .. N : \A k \in Descendants(p, m) : k \in 1 .. N
    BY DescendantsAreTransitive
  <2> HIDE DEF N
  <2>3. ASSUME NEW m \in 1 .. N, NEW k \in ToSet(p.kids[m]) PROVE k \in 1 .. N /\ k \in m + 1 .. N
    <3>1. m \in 0 .. N /\ m \in Nat
      BY <2>1
    <3>2. k \in 1 .. N /\ m < k
      BY <2>1, <3>1
    <3> QED
      BY <2>1, <3>1, <3>2
  <2>4. \A m \in 1 .. N : m \in 0 .. N
    BY <2>1
  <2> QED
    BY <2>1, <2>2, <2>3, <2>4
<1> HIDE DEF N
<1>2. \A m \in 1 .. N : ElementKids(p, m) \subseteq ToSet(p.kids[m]) /\ Strs(p, m) \subseteq ToSet(p.kids[m])
  BY DEF ElementKids, Strs
<1>3. step \in [1 .. N -> [[1 .. N -> V] -> V]]
  <2>1. ASSUME NEW m \in 1 .. N, NEW f \in [1 .. N -> V] PROVE KeptOf(p, m, f) \in V
    <3>1. UNION {f[k] : k \in ElementKids(p, m)} \subseteq 1 .. N
      BY <1>1, <1>2
    <3>2. Strs(p, m) \subseteq 1 .. N /\ {m} \cup Descendants(p, m) \subseteq 1 .. N
      BY <1>1, <1>2
    <3> QED
      BY <1>1, <3>1, <3>2 DEF KeptOf
  <2> HIDE DEF V
  <2> QED
    BY <2>1
<1>4. ASSUME NEW m \in 1 .. N, NEW f \in [1 .. N -> V], NEW g \in [1 .. N -> V], \A k \in m + 1 .. N : f[k] = g[k]
      PROVE  step[m][f] = step[m][g]
  <2>1. UNION {f[k] : k \in ElementKids(p, m)} = UNION {g[k] : k \in ElementKids(p, m)}
    BY <1>1, <1>2, <1>4
  <2>2. KeptOf(p, m, f) = KeptOf(p, m, g)
    BY <2>1 DEF KeptOf
  <2> HIDE DEF V
  <2> QED
    BY <2>2
<1>5. PICK f \in [1 .. N -> V] : \A m \in 1 .. N : f[m] = step[m][f]
  <2>1. V # {} /\ 1 \in Nat
    OBVIOUS
  <2>2. GoesBack(1, N, V, step)
    <3> HIDE DEF step, V
    <3> QED
      BY <1>1, <1>3, <1>4, <2>1, StepByStepBack
  <2> HIDE DEF step, V
  <2> QED
    BY <2>2 DEF GoesBack
<1>6. f = Rule(f)
  <2>1. \A m \in 1 .. N : f[m] = KeptOf(p, m, f)
    <3> HIDE DEF V
    <3> QED
      BY <1>5
  <2>2. \A m \in 1 .. N : f[m] = Rule(f)[m]
    BY <1>1, <2>1 DEF KeptOf, Strs
  <2>3. DOMAIN Rule(f) = 1 .. N /\ Rule(f) = [m \in 1 .. N |-> Rule(f)[m]]
    BY <1>1
  <2> HIDE DEF Rule, V
  <2> QED
    BY <1>5, <2>2, <2>3
<1>7. inc = Rule(inc)
  <2> HIDE DEF Rule
  <2> QED
    BY <1>6
<1>8. \A m : Incremental(p, m) = inc[m]
  BY DEF Incremental
<1>9. ASSUME NEW m \in Nodes(p) PROVE inc[m] = KeptOf(p, m, inc)
  <2>1. Rule(inc)[m] = KeptOf(p, m, inc)
    <3> HIDE DEF inc
    <3> QED
      BY DEF KeptOf, Strs
  <2> HIDE DEF Rule, inc
  <2> QED
    BY <1>7, <2>1
<1> HIDE DEF inc
<1> QED
  BY <1>8, <1>9 DEF IncrementalUnrolled

\* What is shown of an unseen element: itself, all below it, and what it is in.
ShownIn(p, k, n) == {n} \cup Descendants(p, n) \cup {m \in {k} \cup Descendants(p, k) : n \in Descendants(p, m)}

LEMMA NothingUnseenIsLost ==
    ASSUME NEW p, IsParsed(p), NEW k \in Nodes(p), NEW n \in {k} \cup Descendants(p, k), ~IsString(p, n), IsUnseen(p, n)
    PROVE  ShownIn(p, k, n) \subseteq Incremental(p, k)
<1> DEFINE N == LastNode(p)
           Loses(m, j) == ~IsString(p, j) /\ IsUnseen(p, j) /\ ~(ShownIn(p, m, j) \subseteq Incremental(p, m))
           bad == {m \in 1 .. N : \E j \in {m} \cup Descendants(p, m) : Loses(m, j)}
<1>1. /\ N \in Nat /\ Nodes(p) = 1 .. N /\ \A m \in 1 .. N : m \in 0 .. N
      /\ \A m \in 0 .. N : \A j \in ToSet(p.kids[m]) : j \in 1 .. N /\ m < j
      /\ \A a, b \in 0 .. N : ToSet(p.kids[a]) \cap ToSet(p.kids[b]) # {} => a = b
  <2>1. /\ N \in Nat /\ Nodes(p) = 1 .. N
        /\ \A m \in 0 .. N : \A j \in ToSet(p.kids[m]) : j \in 1 .. N /\ m < j
        /\ \A a, b \in 0 .. N : ToSet(p.kids[a]) \cap ToSet(p.kids[b]) # {} => a = b
    BY ParsedParts
  <2>2. \A m \in 1 .. N : m \in 0 .. N
    BY <2>1
  <2> QED
    BY <2>1, <2>2
<1>2. SUFFICES ASSUME bad # {} PROVE FALSE
  <2>1. k \in 1 .. N
    BY <1>1
  <2> HIDE DEF N
  <2> QED
    BY <1>2, <2>1
<1>3. PICK m \in bad : \A j \in bad : j <= m
  <2>1. bad \in SUBSET (0 .. N)
    <3> HIDE DEF N, Loses
    <3> QED
      BY <1>1
  <2> HIDE DEF bad, N
  <2> QED
    BY <1>1, <1>2, <2>1, GreatestNumber
<1>4. m \in 1 .. N /\ m \in 0 .. N
  <2> HIDE DEF N, Loses
  <2> QED
    BY <1>1
<1>5. PICK j \in {m} \cup Descendants(p, m) : Loses(m, j)
  <2> HIDE DEF Loses
  <2> QED
    OBVIOUS
<1>6. PICK inc : \A a \in 1 .. N : Incremental(p, a) = inc[a] /\ inc[a] = KeptOf(p, a, inc)
  BY <1>1, IncrementalUnrolls DEF IncrementalUnrolled
<1>7. CASE IsUnseen(p, m)
  <2>1. Incremental(p, m) = {m} \cup Descendants(p, m)
    BY <1>4, <1>6, <1>7 DEF KeptOf
  <2>2. Descendants(p, j) \subseteq Descendants(p, m)
    BY <1>4, <1>5, DescendantsAreTransitive
  <2> QED
    BY <1>5, <2>1, <2>2 DEF ShownIn
<1>8. CASE ~IsUnseen(p, m)
  <2>1. j \in Descendants(p, m)
    BY <1>5, <1>8
  <2>2. PICK c \in ToSet(p.kids[m]) : j = c \/ j \in Descendants(p, c)
    BY <1>4, <2>1, DescendantsUnroll
  <2>3. c \in 1 .. N /\ c \in 0 .. N /\ ~(c <= m)
    <3>1. c \in 1 .. N /\ m < c
      BY <1>1, <1>4, <2>2
    <3> HIDE DEF N
    <3> QED
      BY <1>1, <1>4, <3>1
  <2>4. ~IsString(p, c)
    <3>1. SUFFICES ASSUME IsString(p, c) PROVE FALSE
      OBVIOUS
    <3>2. p.kids[c] = <<>>
      BY <1>1, <2>3, <3>1 DEF IsParsed
    <3>3. ToSet(p.kids[c]) = {}
      BY <3>2 DEF ToSet
    <3>4. Descendants(p, c) = {}
      BY <2>3, <3>3, DescendantsUnroll
    <3> QED
      BY <1>5, <2>2, <3>1, <3>4
  <2>5. c \in ElementKids(p, m)
    BY <2>4 DEF ElementKids
  <2>6. ShownIn(p, c, j) \subseteq inc[c]
    BY <1>3, <1>5, <1>6, <2>2, <2>3
  <2>7. j \in inc[c] /\ inc[c] \subseteq UNION {inc[a] : a \in ElementKids(p, m)}
    BY <2>5, <2>6 DEF ShownIn
  <2>8. Incremental(p, m) = {m} \cup Strs(p, m) \cup UNION {inc[a] : a \in ElementKids(p, m)}
    BY <1>4, <1>6, <1>8, <2>5, <2>7 DEF KeptOf
  <2>9. ASSUME NEW a \in Descendants(p, m), j \in Descendants(p, a) PROVE a \in ShownIn(p, c, j)
    <3>1. a = c \/ a \in Descendants(p, c)
      BY <1>4, <2>2, <2>9, BelowTheSameChild
    <3> QED
      BY <2>9, <3>1 DEF ShownIn
  <2>10. ShownIn(p, m, j) \subseteq {m} \cup ShownIn(p, c, j)
    BY <2>9 DEF ShownIn
  <2> QED
    BY <1>5, <2>6, <2>7, <2>8, <2>10
<1> QED
  BY <1>7, <1>8

\* The first element of a page is below the document, and only there.
LEMMA RootOfPage ==
    ASSUME NEW p, IsParsed(p), ElementKids(p, 0) # {}
    PROVE  /\ Root(p) \in Nodes(p) /\ Root(p) \in ToSet(p.kids[0])
           /\ \A m \in Nodes(p) : Root(p) \notin Descendants(p, m)
<1> DEFINE N == LastNode(p)
           places == {i \in DOMAIN p.kids[0] : ~IsString(p, p.kids[0][i])}
<1>1. /\ N \in Nat /\ Nodes(p) = 1 .. N /\ 0 \in DOMAIN p.kids /\ 0 \in 0 .. N
      /\ ToSet(p.kids[0]) \subseteq Nodes(p)
      /\ \A a, b \in 0 .. N : ToSet(p.kids[a]) \cap ToSet(p.kids[b]) # {} => a = b
  <2>1. /\ N \in Nat /\ Nodes(p) = 1 .. N /\ DOMAIN p.kids = 0 .. N
        /\ \A m \in 0 .. N : ToSet(p.kids[m]) \subseteq Nodes(p)
        /\ \A a, b \in 0 .. N : ToSet(p.kids[a]) \cap ToSet(p.kids[b]) # {} => a = b
    BY ParsedParts
  <2>2. 0 \in 0 .. N
    BY <2>1
  <2> QED
    BY <2>1, <2>2
<1>2. places \in SUBSET Nat /\ places # {}
  <2>1. p.kids[0] \in Seq(Nodes(p))
    BY <1>1 DEF IsParsed
  <2> QED
    BY <2>1 DEF ElementKids, ToSet
<1>3. Min(places) \in places
  <2> HIDE DEF places
  <2> QED
    BY <1>2, MinOfNumbers
<1>4. Root(p) \in ToSet(p.kids[0])
  BY <1>3 DEF Root, ToSet
<1>5. ASSUME NEW m \in Nodes(p), Root(p) \in Descendants(p, m) PROVE FALSE
  <2>1. m \in 0 .. N /\ m # 0
    BY <1>1
  <2>2. PICK q \in 0 .. N : (q = m \/ q \in Descendants(p, m)) /\ Root(p) \in ToSet(p.kids[q])
    BY <1>5, <2>1, ParentBelow
  <2>3. q = 0
    BY <1>1, <1>4, <2>2
  <2>4. 0 \in 1 .. N
    BY <2>1, <2>2, <2>3, DescendantsAreTransitive
  <2> QED
    BY <2>4
<1> QED
  BY <1>1, <1>4, <1>5

\* Nothing unseen of a page is lost.
AllUnseenIn(nodes) ==
    \A n \in ElementsOf(after) :
        IsUnseen(after, n) => {n} \cup Descendants(after, n) \cup (Ancestors(after, n) \ {0}) \subseteq nodes

LEMMA IncrementalHasAllUnseen ==
    ASSUME IsParsed(after), ElementKids(after, 0) # {}
    PROVE  AllUnseenIn(Incremental(after, Root(after))) /\ AllUnseenIn(Nodes(after))
<1> DEFINE N == LastNode(after)
           r == Root(after)
<1>1. /\ N \in Nat /\ Nodes(after) = 1 .. N /\ DOMAIN after.kids = {0} \cup Nodes(after)
      /\ \A m \in Nodes(after) : m \in 0 .. N
  <2>1. N \in Nat /\ Nodes(after) = 1 .. N
    BY ParsedParts
  <2>2. \A m \in 1 .. N : m \in 0 .. N
    BY <2>1
  <2> QED
    BY <2>1, <2>2 DEF IsParsed
<1>2. r \in Nodes(after) /\ \A m \in Nodes(after) : r \notin Descendants(after, m)
  BY RootOfPage
<1> HIDE DEF r
<1>3. SUFFICES ASSUME NEW n \in ElementsOf(after), IsUnseen(after, n),
                      NEW k \in {n} \cup Descendants(after, n) \cup (Ancestors(after, n) \ {0})
               PROVE  k \in Incremental(after, r) /\ k \in Nodes(after)
  BY DEF AllUnseenIn, r
<1>4. n \in {r} \cup Descendants(after, r) /\ ~IsString(after, n)
  BY DEF ElementsOf, r
<1>5. n \in Nodes(after)
  BY <1>1, <1>2, <1>4, DescendantsAreTransitive
<1>6. k \in Nodes(after)
  <2>1. k \in Descendants(after, n) => k \in 1 .. N
    BY <1>1, <1>5, DescendantsAreTransitive
  <2>2. k \in Ancestors(after, n) \ {0} => k \in Nodes(after)
    BY <1>1 DEF Ancestors
  <2> QED
    BY <1>1, <1>3, <1>5, <2>1, <2>2
<1>7. k \in ShownIn(after, r, n)
  <2>1. SUFFICES ASSUME k \in Ancestors(after, n) PROVE k \in {r} \cup Descendants(after, r)
    BY <1>3 DEF ShownIn, Ancestors
  <2>2. n \in Descendants(after, k)
    BY <2>1 DEF Ancestors
  <2>3. k = r \/ k \in Descendants(after, r) \/ r \in Descendants(after, k)
    BY <1>1, <1>2, <1>4, <1>6, <2>2, OneBelowTheOther
  <2> QED
    BY <1>2, <1>6, <2>3
<1>8. ShownIn(after, r, n) \subseteq Incremental(after, r)
  BY <1>2, <1>3, <1>4, NothingUnseenIsLost
<1> QED
  BY <1>6, <1>7, <1>8

\* The invariant of the extraction.
ChangePcs == {"idle", "signatures", "elements", "thresholds", "done", "value_error"}
ChangesInv ==
    /\ changePc \in ChangePcs
    /\ changePc # "idle" => \A p \in {before, after} : IsParsed(p) /\ ElementKids(p, 0) # {}
    /\ changePc \in {"elements", "thresholds", "done"} => seen = {Signature(before, n, how) : n \in ElementsOf(before)}
    /\ changePc \in {"thresholds", "done"} => AllUnseenIn(kept)

LEMMA ChangesInvHolds == ChangesSpec => []ChangesInv
<1>1. ChangeInit => ChangesInv
  BY DEF ChangeInit, ChangesInv, ChangePcs
<1>2. ChangesInv /\ [ChangesNext]_changeVars => ChangesInv'
  <2> SUFFICES ASSUME ChangesInv, [ChangesNext]_changeVars PROVE ChangesInv'
    OBVIOUS
  <2>1. ASSUME changePc = "idle", NEW pages \in ComparedPages, NEW o \in ChangeOptions, StartExtraction(pages, o)
        PROVE  ChangesInv'
    <3>1. changePc' \in {"signatures", "value_error"} /\ before' = pages[1] /\ after' = pages[2]
      BY <2>1 DEF StartExtraction
    <3>2. \A p \in {before', after'} : IsParsed(p) /\ ElementKids(p, 0) # {}
      BY <3>1, ChangesAssumption
    <3> QED
      BY <3>1, <3>2 DEF ChangesInv, ChangePcs
  <2>2. CASE CollectSignatures
    BY <2>2 DEF CollectSignatures, ChangesInv, ChangePcs
  <2>3. CASE FindIncrementalElements
    <3>1. /\ changePc = "elements" /\ changePc' = "thresholds" /\ kept' = Incremental(after, Root(after))
          /\ before' = before /\ after' = after /\ how' = how /\ seen' = seen
      BY <2>3 DEF FindIncrementalElements
    <3>2. AllUnseenIn(kept')
      BY <3>1, IncrementalHasAllUnseen DEF ChangesInv
    <3>3. AllUnseenIn(kept)'
      BY <3>1, <3>2 DEF AllUnseenIn, IsUnseen
    <3> QED
      BY <3>1, <3>3 DEF ChangesInv, ChangePcs
  <2>4. CASE ApplyThresholds
    <3>1. /\ changePc = "thresholds" /\ changePc' = "done" /\ kept' \in {kept, Nodes(after)}
          /\ before' = before /\ after' = after /\ how' = how /\ seen' = seen
      BY <2>4 DEF ApplyThresholds
    <3>2. AllUnseenIn(kept) /\ AllUnseenIn(Nodes(after))
      BY <3>1, IncrementalHasAllUnseen DEF ChangesInv
    <3>3. AllUnseenIn(kept)'
      BY <3>1, <3>2 DEF AllUnseenIn, IsUnseen
    <3> QED
      BY <3>1, <3>3 DEF ChangesInv, ChangePcs
  <2>5. CASE UNCHANGED changeVars
    BY <2>5 DEF changeVars, ChangesInv, AllUnseenIn, IsUnseen
  <2> QED
    BY <2>1, <2>2, <2>3, <2>4, <2>5 DEF ChangesNext
<1> QED
  BY <1>1, <1>2, PTL DEF ChangesSpec

\* An element that no element of the page before equals has none of their signatures.
LEMMA NewIsUnseen ==
    ASSUME seen = {Signature(before, n, how) : n \in ElementsOf(before)}, NEW n \in ElementsOf(after), IsNew(n)
    PROVE  IsUnseen(after, n)
<1>1. SUFFICES ASSUME NEW m \in ElementsOf(before), Signature(before, m, how) = Signature(after, n, how) PROVE FALSE
  BY DEF IsUnseen
<1> DEFINE Attributes(p, k) == SortedAttributes(p, k, how.ignore)
           Text(p, k) == IF how.text THEN GetImmediateText(p, k) ELSE <<>>
<1>2. \A p, k : Signature(p, k, how) = <<p.tag[k], Attributes(p, k), Text(p, k)>>
  BY DEF Signature
<1> HIDE DEF Attributes, Text
<1>3. before.tag[m] = after.tag[n] /\ Attributes(before, m) = Attributes(after, n) /\ Text(before, m) = Text(after, n)
  BY <1>1, <1>2
<1>4. how.text => GetImmediateText(before, m) = GetImmediateText(after, n)
  BY <1>3 DEF Text
<1>5. DOMAIN before.attrs[m] \ how.ignore = DOMAIN after.attrs[n] \ how.ignore
  BY <1>3 DEF Attributes, SortedAttributes
<1>6. ASSUME NEW a \in (DOMAIN before.attrs[m] \cup DOMAIN after.attrs[n]) \ how.ignore
      PROVE  Has(before, m, a) /\ Has(after, n, a) /\ Value(before, m, a) = Value(after, n, a)
  <2>1. a \in DOMAIN before.attrs[m] \ how.ignore /\ a \in DOMAIN after.attrs[n] \ how.ignore
    BY <1>5
  <2>2. Attributes(before, m)[a] = Value(before, m, a) /\ Attributes(after, n)[a] = Value(after, n, a)
    BY <2>1 DEF Attributes, SortedAttributes
  <2> QED
    BY <1>3, <2>1, <2>2 DEF Has
<1> QED
  BY <1>3, <1>4, <1>6 DEF IsNew

\* The agent is shown every element an action brought, with all below it and what it
\* is in: for all pages and arguments, whatever the thresholds say.
THEOREM NothingNewIsWithheld == ChangesSpec => []NothingNewWithheld
<1>1. ChangesInv => NothingNewWithheld
  <2>1. SUFFICES ASSUME ChangesInv, changePc \in {"thresholds", "done"}, NEW n \in ElementsOf(after), IsNew(n)
                 PROVE  {n} \cup Descendants(after, n) \cup (Ancestors(after, n) \ {0}) \subseteq kept
    BY DEF NothingNewWithheld
  <2>2. seen = {Signature(before, k, how) : k \in ElementsOf(before)} /\ AllUnseenIn(kept)
    BY <2>1 DEF ChangesInv
  <2>3. IsUnseen(after, n)
    BY <2>1, <2>2, NewIsUnseen
  <2> QED
    BY <2>2, <2>3 DEF AllUnseenIn
<1> QED
  BY <1>1, ChangesInvHolds, PTL

-----------------------------------------------------------------------------
(* ElementXPath.  An answer is an XPath that was validated against the      *)
(* wanted elements, or the position of an element that looks the same as    *)
(* the only wanted one.                                                     *)

\* Places among the matches tell elements apart.
LEMMA RankTellsApart ==
    ASSUME NEW N \in Nat, NEW nodes \in SUBSET (1 .. N), NEW n \in nodes, NEW m \in nodes, Rank(nodes, n) = Rank(nodes, m)
    PROVE  n = m
<1> DEFINE UpTo(k) == {j \in nodes : j <= k}
<1>1. IsFiniteSet(nodes)
  <2>1. IsFiniteSet(1 .. N)
    BY FS_Interval
  <2> QED
    BY <2>1, FS_Subset
<1>2. ASSUME NEW k \in nodes PROVE IsFiniteSet(UpTo(k)) /\ k \in UpTo(k)
  <2>1. k <= k
    OBVIOUS
  <2> QED
    BY <1>1, <2>1, FS_Subset
<1>3. ASSUME NEW a \in nodes, NEW b \in nodes, Rank(nodes, a) = Rank(nodes, b), a < b PROVE FALSE
  <2>1. UpTo(a) \subseteq UpTo(b) /\ b \notin UpTo(a)
    <3>1. \A j \in nodes : j \in Nat
      OBVIOUS
    <3>2. \A j \in nodes : j <= a => j <= b
      BY <1>3, <3>1
    <3>3. ~(b <= a)
      BY <1>3, <3>1
    <3> QED
      BY <3>2, <3>3
  <2>2. Cardinality(UpTo(a)) = Cardinality(UpTo(b))
    BY <1>3 DEF Rank
  <2>3. UpTo(a) = UpTo(b)
    <3> HIDE DEF UpTo
    <3> QED
      BY <1>2, <2>1, <2>2, FS_Subset
  <2> QED
    BY <1>2, <2>1, <2>3
<1>4. n < m \/ m < n \/ n = m
  OBVIOUS
<1> QED
  BY <1>3, <1>4

\* An XPath selects elements; the place of one among the matches selects that one.
LEMMA SelectsElements ==
    ASSUME NEW p, NEW x
    PROVE  Select(p, x) \subseteq Tags(p)
<1>1. \A steps : Matches(p, steps) \subseteq Tags(p)
  BY DEF Matches
<1>2. \A y : SelectOne(p, y) \subseteq Tags(p)
  BY <1>1 DEF SelectOne
<1> QED
  BY <1>2 DEF Select

LEMMA PositionSelectsOne ==
    ASSUME NEW p, IsParsed(p), NEW steps, NEW m \in Matches(p, steps)
    PROVE  Select(p, Position(steps, Rank(Matches(p, steps), m))) = {m}
<1>1. LastNode(p) \in Nat /\ Matches(p, steps) \subseteq 1 .. LastNode(p)
  BY ParsedParts DEF Matches, Tags
<1> DEFINE x == Position(steps, Rank(Matches(p, steps), m))
<1>2. x.kind = "position" /\ x.steps = steps /\ x.index = Rank(Matches(p, steps), m)
  BY DEF Position
<1> HIDE DEF x
<1>3. Select(p, x) = {n \in Matches(p, steps) : Rank(Matches(p, steps), n) = Rank(Matches(p, steps), m)}
  BY <1>2 DEF Select, SelectOne
<1>4. \A n \in Matches(p, steps) : Rank(Matches(p, steps), n) = Rank(Matches(p, steps), m) => n = m
  BY <1>1, RankTellsApart
<1> QED
  BY <1>3, <1>4 DEF x

\* What the ways of finding an XPath give: nothing, or one that was validated.
Validated(p, nodes, answer) == answer = <<>> \/ \E x : answer = <<x>> /\ ValidateXPath(p, x, nodes)

LEMMA ValidIsValidated ==
    ASSUME NEW p, NEW x, NEW nodes
    PROVE  Validated(p, nodes, Valid(p, x, nodes))
BY DEF Validated, Valid

LEMMA WithAncestorsIsValidated ==
    ASSUME NEW p, NEW n, NEW d
    PROVE  Validated(p, <<n>>, WithAncestors(p, n, d))
<1> DEFINE Long(steps) == AddParentContext(p, n, steps, d)
           Try(steps) == IF Long(steps) = <<>> THEN <<>> ELSE Valid(p, Path(Long(steps)), <<n>>)
           candidates == GenerateBaseXPath(p, n)
           good == {i \in 1 .. Len(candidates) : Try(candidates[i]) # <<>>}
<1>1. WithAncestors(p, n, d) = IF good = {} THEN <<>> ELSE Try(candidates[Min(good)])
  BY DEF WithAncestors, FirstOf
<1> HIDE DEF good, candidates
<1>2. \A steps : Validated(p, <<n>>, Try(steps))
  BY ValidIsValidated DEF Validated
<1> HIDE DEF Try
<1> QED
  BY <1>1, <1>2 DEF Validated

LEMMA ByDepthIsValidated ==
    ASSUME NEW p, NEW n
    PROVE  Validated(p, <<n>>, ByDepth(p, n))
<1> DEFINE Try(d) == WithAncestors(p, n, d - 1)
           candidates == [d \in 1 .. MaxDepth + 1 |-> d]
           good == {i \in 1 .. Len(candidates) : Try(candidates[i]) # <<>>}
<1>1. ByDepth(p, n) = IF good = {} THEN <<>> ELSE Try(candidates[Min(good)])
  BY DEF ByDepth, FirstOf
<1> HIDE DEF good, candidates
<1>2. \A d : Validated(p, <<n>>, Try(d))
  BY WithAncestorsIsValidated
<1> HIDE DEF Try
<1> QED
  BY <1>1, <1>2 DEF Validated

LEMMA ByPositionIsValidated ==
    ASSUME NEW p, NEW n
    PROVE  Validated(p, <<n>>, ByPosition(p, n))
<1>1. \A x : Validated(p, <<n>>, Valid(p, x, <<n>>))
  BY ValidIsValidated
<1>2. Validated(p, <<n>>, <<>>)
  BY DEF Validated
<1> QED
  BY <1>1, <1>2 DEF ByPosition

\* By mode: a look-alike, and only it.
FindsLookAlike(p, n, answer) ==
    answer = <<>> \/ \E x, m : answer = <<x>> /\ Select(p, x) = {m} /\ LooksSame(p, n, m)

LEMMA PositionLooksSame ==
    ASSUME NEW p, IsParsed(p), NEW steps, NEW n
    PROVE  FindsLookAlike(p, n, FindMatchingElementPosition(p, steps, n))
<1> DEFINE same == {m \in Matches(p, steps) : LooksSame(p, n, m)}
           x == Position(steps, Rank(Matches(p, steps), Min(same)))
<1>1. FindMatchingElementPosition(p, steps, n) = IF same = {} THEN <<>> ELSE <<x>>
  BY DEF FindMatchingElementPosition
<1>2. CASE same = {}
  BY <1>1, <1>2 DEF FindsLookAlike
<1>3. CASE same # {}
  <2>1. same \in SUBSET Nat
    <3>1. LastNode(p) \in Nat /\ Matches(p, steps) \subseteq 1 .. LastNode(p)
      BY ParsedParts DEF Matches, Tags
    <3> QED
      BY <3>1
  <2>2. Min(same) \in same
    <3> HIDE DEF same
    <3> QED
      BY <1>3, <2>1, MinOfNumbers
  <2>3. Min(same) \in Matches(p, steps) /\ LooksSame(p, n, Min(same))
    BY <2>2
  <2>4. Select(p, x) = {Min(same)}
    <3> HIDE DEF same
    <3> QED
      BY <2>3, PositionSelectsOne
  <2> HIDE DEF x, same
  <2> QED
    BY <1>1, <1>3, <2>3, <2>4 DEF FindsLookAlike
<1> QED
  BY <1>2, <1>3

LEMMA ByModeLooksSame ==
    ASSUME NEW p, IsParsed(p), NEW n, mode # "first_match"
    PROVE  FindsLookAlike(p, n, ByMode(p, n)) /\ (mode = "unique_only" => ByMode(p, n) = <<>>)
<1> DEFINE Try(steps) == FindMatchingElementPosition(p, steps, n)
           candidates == GenerateBaseXPath(p, n)
           good == {i \in 1 .. Len(candidates) : Try(candidates[i]) # <<>>}
           tried == IF good = {} THEN <<>> ELSE Try(candidates[Min(good)])
<1>1. ByMode(p, n) = IF mode = "unique_only" THEN <<>> ELSE tried
  BY DEF ByMode, FirstOf
<1>2. \A steps : FindsLookAlike(p, n, Try(steps))
  BY PositionLooksSame
<1> HIDE DEF Try, good, candidates
<1>3. FindsLookAlike(p, n, <<>>)
  BY DEF FindsLookAlike
<1> QED
  BY <1>1, <1>2, <1>3

LEMMA SingleIsValidatedOrLooksSame ==
    ASSUME NEW p, IsParsed(p), NEW n, mode # "first_match"
    PROVE  /\ Validated(p, <<n>>, SingleXPath(p, n)) \/ FindsLookAlike(p, n, SingleXPath(p, n))
           /\ mode = "unique_only" => Validated(p, <<n>>, SingleXPath(p, n))
<1>1. Validated(p, <<n>>, ByDepth(p, n)) /\ Validated(p, <<n>>, ByPosition(p, n))
  BY ByDepthIsValidated, ByPositionIsValidated
<1>2. FindsLookAlike(p, n, ByMode(p, n)) /\ (mode = "unique_only" => ByMode(p, n) = <<>>)
  BY ByModeLooksSame
<1>3. Validated(p, <<n>>, <<>>)
  BY DEF Validated
<1> QED
  BY <1>1, <1>2, <1>3 DEF SingleXPath

LEMMA SeveralIsValidated ==
    ASSUME NEW p, NEW nodes
    PROVE  Validated(p, nodes, FirstOf(LAMBDA steps : Valid(p, Path(steps), nodes), GenerateMultiXPath(p, nodes)))
<1> DEFINE Try(steps) == Valid(p, Path(steps), nodes)
           candidates == GenerateMultiXPath(p, nodes)
           good == {i \in 1 .. Len(candidates) : Try(candidates[i]) # <<>>}
           tried == IF good = {} THEN <<>> ELSE Try(candidates[Min(good)])
<1>1. FirstOf(LAMBDA steps : Valid(p, Path(steps), nodes), GenerateMultiXPath(p, nodes)) = tried
  BY DEF FirstOf
<1>2. \A steps : Validated(p, nodes, Try(steps))
  BY ValidIsValidated
<1>3. Validated(p, nodes, <<>>)
  BY DEF Validated
<1> HIDE DEF Try, good, candidates
<1>4. Validated(p, nodes, tried)
  BY <1>2, <1>3
<1> QED
  BY <1>1, <1>4

\* What XPathSelectsTarget says of an XPath for elements of a page.
SelectsTarget(p, nodes, x) ==
    /\ mode = "unique_only" /\ Indexed(p) /\ IdsTellApart(p) => Select(p, x) = ToSet(nodes)
    /\ Cardinality(Select(p, x)) = Len(nodes)
    /\ IdsTellApart(p) => \A n \in ToSet(nodes) : \E m \in Select(p, x) : Alike(p, n, m)

\* An element with the same identifier is the element itself, or has no id and is a look-alike.
LEMMA SameIdentifier ==
    ASSUME NEW p, IdsTellApart(p), NEW n \in Tags(p), NEW m \in Tags(p), Identifier(p, n) = Identifier(p, m)
    PROVE  Alike(p, n, m) /\ (Has(p, n, "__id__") => n = m)
<1> DEFINE Tag(k) == p.tag[k]
           Id(k) == p.attrs[k]["__id__"]
<1>1. \A k : Identifier(p, k) = IF Has(p, k, "__id__") THEN <<"__id__", Id(k)>> ELSE <<"tag_text", Tag(k), TextStart(p, k)>>
  BY DEF Identifier
<1> HIDE DEF Tag, Id
<1>2. Has(p, n, "__id__") <=> Has(p, m, "__id__")
  BY <1>1
<1>3. CASE Has(p, n, "__id__")
  <2>1. Id(n) = Id(m)
    BY <1>1, <1>2, <1>3
  <2>2. n = m
    BY <1>2, <1>3, <2>1 DEF IdsTellApart, Id
  <2> QED
    BY <2>2 DEF Alike
<1>4. CASE ~Has(p, n, "__id__")
  <2>1. Tag(n) = Tag(m) /\ TextStart(p, n) = TextStart(p, m)
    BY <1>1, <1>2, <1>4
  <2> QED
    BY <1>4, <2>1 DEF Alike, Tag
<1> QED
  BY <1>3, <1>4

LEMMA ValidatedSelectsTarget ==
    ASSUME NEW p, NEW nodes, ToSet(nodes) \subseteq Tags(p), NEW x, ValidateXPath(p, x, nodes)
    PROVE  SelectsTarget(p, nodes, x)
<1>1. Cardinality(Select(p, x)) = Len(nodes)
  BY DEF ValidateXPath
<1>2. Select(p, x) \subseteq Tags(p)
  BY SelectsElements
<1>3. \A n \in ToSet(nodes) : \E m \in Select(p, x) : Identifier(p, n) = Identifier(p, m)
  BY DEF ValidateXPath
<1>4. \A m \in Select(p, x) : \E n \in ToSet(nodes) : Identifier(p, n) = Identifier(p, m)
  BY DEF ValidateXPath
<1>5. ASSUME IdsTellApart(p), NEW n \in ToSet(nodes) PROVE \E m \in Select(p, x) : Alike(p, n, m)
  <2>1. PICK m \in Select(p, x) : Identifier(p, n) = Identifier(p, m)
    BY <1>3
  <2>2. n \in Tags(p) /\ m \in Tags(p)
    BY <1>2
  <2> QED
    BY <1>5, <2>1, <2>2, SameIdentifier
<1>6. ASSUME IdsTellApart(p), Indexed(p) PROVE Select(p, x) = ToSet(nodes)
  <2>1. ASSUME NEW n \in ToSet(nodes), NEW m \in Select(p, x), Identifier(p, n) = Identifier(p, m) PROVE n = m
    <3>1. n \in Tags(p) /\ m \in Tags(p)
      BY <1>2
    <3> QED
      BY <1>6, <2>1, <3>1, SameIdentifier DEF Indexed
  <2> QED
    BY <1>3, <1>4, <2>1
<1> QED
  BY <1>1, <1>5, <1>6 DEF SelectsTarget

LEMMA LookAlikeSelectsTarget ==
    ASSUME NEW p, NEW n, NEW m, NEW x, Select(p, x) = {m}, LooksSame(p, n, m), mode \in {"match_by_html", "match_by_signature"}
    PROVE  SelectsTarget(p, <<n>>, x)
<1>1. p.tag[n] = p.tag[m] /\ GetText(p, n) = GetText(p, m)
  <2>1. CASE mode = "match_by_html"
    <3>1. SameElement(p, n, p, m, {}, FALSE)
      BY <2>1 DEF LooksSame
    <3>2. SameButChildren(p, n, p, m, {})
      BY <3>1 DEF SameElement
    <3> QED
      BY <3>2 DEF SameButChildren
  <2>2. CASE mode = "match_by_signature"
    BY <2>2 DEF LooksSame
  <2> QED
    BY <2>1, <2>2
<1>2. Alike(p, n, m)
  BY <1>1 DEF Alike, TextStart
<1>3. Cardinality({m}) = 1 /\ Len(<<n>>) = 1
  BY FS_Singleton
<1>4. ToSet(<<n>>) = {n}
  BY DEF ToSet
<1> QED
  BY <1>2, <1>3, <1>4 DEF SelectsTarget

\* The invariant of the search.
XPathPcs == {"idle", "one", "several", "union", "done", "value_error"}
XPathInv ==
    /\ xpathPc \in XPathPcs
    /\ xpathPc # "idle" => IsParsed(context) /\ mode \in ResolutionModes
    /\ xpathPc = "one" => \E n \in Tags(context) : wanted = <<n>>
    /\ xpathPc \in {"several", "union"} => ToSet(wanted) \subseteq Tags(context)
    /\ xpathPc = "done" /\ mode \notin {"first_match", "match_by_text"} => SelectsTarget(context, wanted, xpath[1])

\* An answer is kept as the XPath it holds.
LEMMA AnswerKeeps ==
    ASSUME XPathInv, xpathPc # "idle", NEW answer, NEW otherwise \in {"union", "value_error"}, Answer(answer, otherwise),
           otherwise = "union" => xpathPc = "several",
           \A x : answer = <<x>> /\ mode \notin {"first_match", "match_by_text"} => SelectsTarget(context, wanted, x),
           mode \notin {"first_match", "match_by_text"} => answer = <<>> \/ \E x : answer = <<x>>
    PROVE  XPathInv'
<1>1. UNCHANGED <<context, wanted, ranking, mode>> /\ IsParsed(context) /\ mode \in ResolutionModes
  BY DEF Answer, XPathInv
<1>2. CASE answer = <<>>
  <2>1. xpathPc' = otherwise
    BY <1>2 DEF Answer
  <2>2. otherwise = "union" => ToSet(wanted) \subseteq Tags(context)
    BY DEF XPathInv
  <2> QED
    BY <1>1, <2>1, <2>2 DEF XPathInv, XPathPcs
<1>3. CASE answer # <<>>
  <2>1. xpathPc' = "done" /\ xpath' = <<answer[1]>>
    BY <1>3 DEF Answer
  <2>2. mode \notin {"first_match", "match_by_text"} => SelectsTarget(context, wanted, answer[1])
    <3>1. SUFFICES ASSUME mode \notin {"first_match", "match_by_text"} PROVE SelectsTarget(context, wanted, answer[1])
      OBVIOUS
    <3>2. PICK x : answer = <<x>>
      BY <1>3, <3>1
    <3>3. answer[1] = x
      BY <3>2
    <3> QED
      BY <3>1, <3>2, <3>3
  <2>3. xpath'[1] = answer[1]
    BY <2>1
  <2>4. mode' \notin {"first_match", "match_by_text"} => SelectsTarget(context, wanted, xpath[1])'
    BY <1>1, <2>2, <2>3 DEF SelectsTarget
  <2> QED
    BY <1>1, <2>1, <2>4 DEF XPathInv, XPathPcs
<1> QED
  BY <1>2, <1>3

LEMMA XPathInvHolds == XPathSpec => []XPathInv
<1>1. XPathInit => XPathInv
  BY DEF XPathInit, XPathInv, XPathPcs
<1>2. XPathInv /\ [XPathNext]_xpathVars => XPathInv'
  <2> SUFFICES ASSUME XPathInv, [XPathNext]_xpathVars PROVE XPathInv'
    OBVIOUS
  <2>1. ASSUME NEW p \in XPathPages, NEW r \in Rankings, NEW md \in ResolutionModes, NEW nodes,
               nodes \in {<<>>} \cup {<<n>> : n \in Tags(p)} \cup {<<n, m>> : n, m \in Tags(p)},
               StartXPath(p, nodes, r, md)
        PROVE  XPathInv'
    <3>1. context' = p /\ wanted' = nodes /\ mode' = md /\ IsParsed(p)
      BY <2>1, XPathAssumption DEF StartXPath
    <3>2. CASE nodes = <<>>
      <4>1. xpathPc' = "value_error"
        BY <2>1, <3>2 DEF StartXPath
      <4> QED
        BY <3>1, <4>1 DEF XPathInv, XPathPcs
    <3>3. ASSUME NEW n \in Tags(p), nodes = <<n>> PROVE XPathInv'
      <4>1. Len(nodes) = 1 /\ nodes # <<>>
        BY <3>3
      <4>2. xpathPc' = "one"
        BY <2>1, <4>1 DEF StartXPath
      <4> QED
        BY <3>1, <3>3, <4>2 DEF XPathInv, XPathPcs
    <3>4. ASSUME NEW n \in Tags(p), NEW m \in Tags(p), nodes = <<n, m>> PROVE XPathInv'
      <4>1. Len(nodes) = 2 /\ nodes # <<>> /\ ToSet(nodes) \subseteq Tags(p)
        BY <3>4 DEF ToSet
      <4>2. xpathPc' = "several"
        BY <2>1, <4>1 DEF StartXPath
      <4> QED
        BY <3>1, <4>1, <4>2 DEF XPathInv, XPathPcs
    <3> QED
      BY <2>1, <3>2, <3>3, <3>4
  <2>2. CASE OneElement
    <3> DEFINE answer == SingleXPath(context, wanted[1])
    <3>1. xpathPc = "one" /\ Answer(answer, "value_error") /\ IsParsed(context)
      BY <2>2 DEF OneElement, XPathInv
    <3>2. PICK n \in Tags(context) : wanted = <<n>>
      BY <3>1 DEF XPathInv
    <3>3. wanted[1] = n /\ ToSet(wanted) \subseteq Tags(context)
      BY <3>2 DEF ToSet
    <3>4. ASSUME mode \notin {"first_match", "match_by_text"}
          PROVE  /\ answer = <<>> \/ \E x : answer = <<x>>
                 /\ \A x : answer = <<x>> => SelectsTarget(context, wanted, x)
      <4>1. mode \in {"unique_only", "match_by_html", "match_by_signature"}
        BY <3>1, <3>4, XPathAssumption DEF XPathInv
      <4>2. /\ Validated(context, <<n>>, answer) \/ FindsLookAlike(context, n, answer)
            /\ mode = "unique_only" => Validated(context, <<n>>, answer)
        BY <3>1, <3>3, <3>4, SingleIsValidatedOrLooksSame
      <4> HIDE DEF answer
      <4>3. CASE Validated(context, <<n>>, answer)
        <5>1. answer = <<>> \/ \E x : answer = <<x>> /\ ValidateXPath(context, x, wanted)
          BY <3>2, <4>3 DEF Validated
        <5>2. ASSUME NEW x, answer = <<x>> PROVE SelectsTarget(context, wanted, x)
          <6>1. ValidateXPath(context, x, wanted)
            BY <5>1, <5>2
          <6> QED
            BY <3>3, <6>1, ValidatedSelectsTarget
        <5> QED
          BY <5>1, <5>2
      <4>4. CASE FindsLookAlike(context, n, answer) /\ mode # "unique_only"
        <5>1. answer = <<>> \/ \E x, m : answer = <<x>> /\ Select(context, x) = {m} /\ LooksSame(context, n, m)
          BY <4>4 DEF FindsLookAlike
        <5>2. ASSUME NEW x, answer = <<x>> PROVE SelectsTarget(context, wanted, x)
          <6>1. PICK m : Select(context, x) = {m} /\ LooksSame(context, n, m)
            BY <5>1, <5>2
          <6> QED
            BY <3>2, <4>1, <4>4, <6>1, LookAlikeSelectsTarget
        <5> QED
          BY <5>1, <5>2
      <4> QED
        BY <4>2, <4>3, <4>4
    <3> HIDE DEF answer
    <3> QED
      BY <3>1, <3>4, AnswerKeeps
  <2>3. ASSUME NEW answer, NEW otherwise \in {"union", "value_error"}, Answer(answer, otherwise),
               xpathPc \in {"several", "union"}, otherwise = "union" => xpathPc = "several",
               Validated(context, wanted, answer)
        PROVE  XPathInv'
    <3>1. ToSet(wanted) \subseteq Tags(context)
      BY <2>3 DEF XPathInv
    <3>2. answer = <<>> \/ \E x : answer = <<x>> /\ ValidateXPath(context, x, wanted)
      BY <2>3 DEF Validated
    <3>3. ASSUME NEW x, answer = <<x>> PROVE SelectsTarget(context, wanted, x)
      <4>1. ValidateXPath(context, x, wanted)
        BY <3>2, <3>3
      <4> QED
        BY <3>1, <4>1, ValidatedSelectsTarget
    <3> QED
      BY <2>3, <3>2, <3>3, AnswerKeeps
  <2>4. CASE SeveralElements
    <3> DEFINE answer == FirstOf(LAMBDA steps : Valid(context, Path(steps), wanted), GenerateMultiXPath(context, wanted))
    <3>1. xpathPc = "several" /\ Answer(answer, "union")
      BY <2>4 DEF SeveralElements
    <3>2. Validated(context, wanted, answer)
      BY SeveralIsValidated
    <3> HIDE DEF answer
    <3> QED
      BY <2>3, <3>1, <3>2
  <2>5. CASE UnionOfElements
    <3> DEFINE each == UNION {ToSet(SingleXPath(context, n)) : n \in ToSet(wanted)}
               answer == IF each = {} THEN <<>> ELSE Valid(context, [kind |-> "union", of |-> each], wanted)
    <3>1. xpathPc = "union" /\ Answer(answer, "value_error")
      BY <2>5 DEF UnionOfElements
    <3>2. Validated(context, wanted, answer)
      <4>1. \A x : Validated(context, wanted, Valid(context, x, wanted))
        BY ValidIsValidated
      <4>2. Validated(context, wanted, <<>>)
        BY DEF Validated
      <4> HIDE DEF each
      <4> QED
        BY <4>1, <4>2
    <3> HIDE DEF answer
    <3> QED
      BY <2>3, <3>1, <3>2
  <2>6. CASE UNCHANGED xpathVars
    BY <2>6 DEF xpathVars, XPathInv, SelectsTarget
  <2> QED
    BY <2>1, <2>2, <2>4, <2>5, <2>6 DEF XPathNext
<1> QED
  BY <1>1, <1>2, PTL DEF XPathSpec

\* An XPath that is handed out selects the wanted elements, as far as the page tells
\* elements apart: for all pages, rankings, depths and limits.
THEOREM XPathsSelectTheirTarget == XPathSpec => []XPathSelectsTarget
<1>1. XPathInv => XPathSelectsTarget
  BY DEF XPathInv, XPathSelectsTarget, SelectsTarget
<1> QED
  BY <1>1, XPathInvHolds, PTL

=============================================================================
