--------------------------- MODULE ForecastProofs ---------------------------
(***************************************************************************)
(* Proofs about Forecast, for every number of purchases, days, runs and    *)
(* sessions.                                                               *)
(*                                                                         *)
(* The first part is about the algorithm: a finite set of purchases has a  *)
(* last one, the lower median is one of the values it is taken of, and the *)
(* loop that rolls a date on ends on the first day from the start of the   *)
(* run on that it can reach.  Each is proved by the least counterexample   *)
(* of a measure.  The second part is about the runs and the decisions: a   *)
(* run holds what is calculated from its snapshot, and a request about a   *)
(* suggestion still holds the decision that it has seen.                   *)
(***************************************************************************)
EXTENDS Forecast, FiniteSetTheorems, FunctionTheorems, WellFoundedInduction, TLAPS

-----------------------------------------------------------------------------
(* Numbers and finite orders *)

\* A set of natural numbers has a least one.
LEMMA LeastNumber ==
    ASSUME NEW S, S \subseteq Nat, S # {}
    PROVE  \E n \in S : \A m \in S : n <= m
  <1> DEFINE Smaller == {ss \in Nat \X Nat : ss[1] < ss[2]}
  <1>1. IsWellFoundedOn(Smaller, Nat)
    BY NatLessThanWellFounded DEF OpToRel
  <1> HIDE DEF Smaller
  <1>2. PICK n \in S : \A m \in S : <<m, n>> \notin Smaller
    BY <1>1, WFMin
  <1>3. ASSUME NEW m \in S
        PROVE  n <= m
    <2>1. m \in Nat /\ n \in Nat
      OBVIOUS
    <2>2. ~(m < n)
      BY <1>2, <2>1 DEF Smaller
    <2> QED BY <2>1, <2>2
  <1> QED BY <1>3

\* R[p] are the elements of P before p, in a strict total order.
Ordered(P, R) ==
    /\ \A p \in P : p \notin R[p]
    /\ \A p, q, r \in P : p \in R[q] /\ q \in R[r] => p \in R[r]
    /\ \A p, q \in P : p # q => p \in R[q] \/ q \in R[p]

\* A finite set with a strict total order has a last element: the one with the
\* most others before it.
LEMMA LastElement ==
    ASSUME NEW P, IsFiniteSet(P), P # {}, NEW R, Ordered(P, R)
    PROVE  \E p \in P : \A q \in P \ {p} : q \in R[p]
  <1>0. /\ \A p \in P : p \notin R[p]
        /\ \A p, q, r \in P : p \in R[q] /\ q \in R[r] => p \in R[r]
        /\ \A p, q \in P : p # q => p \in R[q] \/ q \in R[p]
    BY DEF Ordered
  <1> DEFINE Prior(p) == {q \in P : q \in R[p]}
             n == Cardinality(P)
             missing(p) == n - Cardinality(Prior(p))
             Missing == {missing(p) : p \in P}
  <1>1. n \in Nat
    BY FS_CardinalityType
  <1>2. ASSUME NEW p \in P
        PROVE  /\ IsFiniteSet(Prior(p)) /\ Cardinality(Prior(p)) \in Nat
               /\ Cardinality(Prior(p)) <= n
    <2>1. Prior(p) \subseteq P
      OBVIOUS
    <2> QED BY <2>1, FS_Subset, FS_CardinalityType
  <1>3. \A p \in P : missing(p) \in Nat
    BY <1>1, <1>2
  <1> HIDE DEF missing
  <1>4. PICK p \in P : \A q \in P : missing(p) <= missing(q)
    <2>1. Missing \subseteq Nat /\ Missing # {}
      BY <1>3
    <2>2. PICK m \in Missing : \A k \in Missing : m <= k
      BY <2>1, LeastNumber
    <2> QED BY <2>2
  <1>5. ASSUME NEW q \in P \ {p}, q \notin R[p]
        PROVE  FALSE
    <2>1. p \in R[q]
      BY <1>0, <1>5
    <2>2. Prior(p) \cup {p} \subseteq Prior(q)
      BY <1>0, <2>1
    <2>3. p \notin Prior(p)
      BY <1>0
    <2>4. /\ IsFiniteSet(Prior(p) \cup {p})
          /\ Cardinality(Prior(p) \cup {p}) = Cardinality(Prior(p)) + 1
      BY <1>2, <2>3, FS_AddElement
    <2>5. Cardinality(Prior(p) \cup {p}) <= Cardinality(Prior(q))
      BY <1>2, <2>2, FS_Subset
    <2> HIDE DEF Prior, n
    <2>6. Cardinality(Prior(p)) < Cardinality(Prior(q))
      BY <1>2, <2>4, <2>5
    <2>7. n - Cardinality(Prior(p)) <= n - Cardinality(Prior(q))
      BY <1>4 DEF missing
    <2> QED BY <1>1, <1>2, <2>6, <2>7
  <1> QED BY <1>5

\* A finite set of numbers has a greatest one.
LEMMA GreatestNumber ==
    ASSUME NEW S, IsFiniteSet(S), S \subseteq Nat, S # {}
    PROVE  \E m \in S : \A x \in S : x <= m
  <1> DEFINE R == [p \in S |-> {q \in S : q < p}]
  <1>1. Ordered(S, R)
    BY DEF Ordered
  <1>2. \A p, q \in S : q \in R[p] => q < p
    OBVIOUS
  <1> HIDE DEF R
  <1>3. PICK m \in S : \A q \in S \ {m} : q \in R[m]
    BY <1>1, LastElement
  <1>4. ASSUME NEW x \in S
        PROVE  x <= m
    <2>1. x \in Nat /\ m \in Nat
      OBVIOUS
    <2>2. x # m => x < m
      BY <1>2, <1>3
    <2> QED BY <2>1, <2>2
  <1> QED BY <1>4

-----------------------------------------------------------------------------
(* Purchases in their order *)

LEMMA ConstantTypes ==
    /\ Records \subseteq Nat /\ IsFiniteSet(Records) /\ Dues \subseteq Times
    /\ FirstDay \in Nat /\ LastDay \in Nat /\ FirstDay <= LastDay /\ Horizon \in Nat
    /\ MaxRuns \in Nat /\ MaxRevision \in Nat \ {0} /\ None \notin Int
    /\ Days \subseteq Nat /\ Times \subseteq Nat /\ Days \subseteq Times
  <1>1. /\ Records \subseteq Nat /\ IsFiniteSet(Records)
        /\ Dues \subseteq FirstDay..(LastDay + Horizon)
        /\ FirstDay \in Nat /\ LastDay \in Nat /\ FirstDay <= LastDay
        /\ Horizon \in Nat \ {0} /\ MaxRuns \in Nat \ {0} /\ MaxRevision \in Nat \ {0}
        /\ None \notin Int
    BY ConstantsAssumption, Zenon
  <1> QED BY <1>1 DEF Days, Times

Purchases(P) ==
    /\ P \subseteq Seen /\ IsFiniteSet(P)
    /\ \A p, q \in P : p.record = q.record => p = q

\* A set of purchases that is not empty has a last one.
LEMMA LastOfIsLast ==
    ASSUME NEW P, Purchases(P), P # {}
    PROVE  LastOf(P) \in P /\ \A q \in P \ {LastOf(P)} : Before(q, LastOf(P))
  <1> DEFINE R == [p \in P |-> {q \in P : Before(q, p)}]
  <1>1. \A p \in P : p.at \in Nat /\ p.record \in Nat
    BY ConstantTypes DEF Purchases, Seen
  <1>2. Ordered(P, R)
    <2>1. \A p \in P : p \notin R[p]
      BY <1>1 DEF Before
    <2>2. \A p, q, r \in P : p \in R[q] /\ q \in R[r] => p \in R[r]
      BY <1>1 DEF Before
    <2>3. \A p, q \in P : p # q => p \in R[q] \/ q \in R[p]
      BY <1>1 DEF Before, Purchases
    <2> QED BY <2>1, <2>2, <2>3 DEF Ordered
  <1>3. \A p, q \in P : q \in R[p] => Before(q, p)
    OBVIOUS
  <1> HIDE DEF R
  <1>4. IsFiniteSet(P)
    BY DEF Purchases
  <1>5. PICK p \in P : \A q \in P \ {p} : q \in R[p]
    BY <1>2, <1>4, LastElement
  <1>6. \E x \in P : \A q \in P \ {x} : Before(q, x)
    BY <1>3, <1>5
  <1> QED BY <1>6 DEF LastOf

\* The intervals between a purchase and the one before it are numbers.
LEMMA IntervalsAreNumbers ==
    ASSUME NEW P, Purchases(P)
    PROVE  \A p \in Later(P) : Interval(P)[p] \in Int
  <1> SUFFICES ASSUME NEW p \in Later(P)
               PROVE  p.at - Previous(P, p).at \in Int
    BY DEF Interval
  <1> DEFINE E == {q \in P : Before(q, p)}
  <1>1. p \in P /\ E # {}
    BY DEF Later
  <1>2. E \subseteq P
    OBVIOUS
  <1>3. Purchases(E)
    BY <1>2, FS_Subset DEF Purchases
  <1>4. LastOf(E) \in E
    BY <1>1, <1>3, LastOfIsLast
  <1>5. Previous(P, p) \in P
    BY <1>2, <1>4 DEF Previous
  <1>6. \A q \in P : q.at \in Nat
    BY ConstantTypes DEF Purchases, Seen
  <1> QED BY <1>1, <1>5, <1>6

-----------------------------------------------------------------------------
(* The lower median *)

\* Of finitely many values one is the lower median: the least value that more
\* than half of the index set is not above.
LEMMA LowerMedianIsThere ==
    ASSUME NEW I, IsFiniteSet(I), I # {}, NEW f, \A i \in I : f[i] \in Nat
    PROVE  /\ LowerMedian(f, I) \in {f[i] : i \in I}
           /\ Cardinality({i \in I : f[i] < LowerMedian(f, I)})
                 <= (Cardinality(I) - 1) \div 2
           /\ Cardinality({i \in I : f[i] <= LowerMedian(f, I)})
                 > (Cardinality(I) - 1) \div 2
  <1> DEFINE values == {f[i] : i \in I}
             middle == (Cardinality(I) - 1) \div 2
             Below(v) == {i \in I : f[i] < v}
             UpTo(v) == {i \in I : f[i] <= v}
             High == {v \in values : Cardinality(UpTo(v)) > middle}
  <1>1. Cardinality(I) \in Nat \ {0}
    BY FS_CardinalityType, FS_EmptySet
  <1> DEFINE n == Cardinality(I)
  <1>2. middle \in Nat /\ middle < n
    <2> HIDE DEF n
    <2>1. n \in Nat \ {0} => (n - 1) \div 2 \in Nat /\ (n - 1) \div 2 < n
      OBVIOUS
    <2> QED BY <1>1, <2>1 DEF n
  <1>3. \A v : /\ IsFiniteSet(UpTo(v)) /\ Cardinality(UpTo(v)) \in Nat
               /\ IsFiniteSet(Below(v)) /\ Cardinality(Below(v)) \in Nat
    <2> TAKE v
    <2>1. UpTo(v) \subseteq I /\ Below(v) \subseteq I
      OBVIOUS
    <2> QED BY <2>1, FS_Subset, FS_CardinalityType
  <1>4. IsFiniteSet(values) /\ values \subseteq Nat /\ values # {}
    <2> DEFINE F == [i \in I |-> f[i]]
    <2>1. F \in Surjection(I, values)
      BY Fun_IsSurj
    <2> HIDE DEF F
    <2>2. IsFiniteSet(values)
      BY <2>1, FS_Surjection
    <2> QED BY <2>2
  <1> HIDE DEF middle, n
  <1>5. High # {}
    <2>1. PICK g \in values : \A v \in values : v <= g
      <3> HIDE DEF values
      <3> QED BY <1>4, GreatestNumber
    <2>2. UpTo(g) = I
      BY <2>1
    <2> QED BY <1>2, <2>2 DEF n
  <1>6. PICK v \in High : \A u \in High : v <= u
    <2>1. High \subseteq Nat
      BY <1>4
    <2> QED BY <1>5, <2>1, LeastNumber
  <1>7. Cardinality(Below(v)) <= middle
    <2> DEFINE Lower == {u \in values : u < v}
    <2>1. CASE Lower = {}
      <3>1. Below(v) = {}
        BY <2>1
      <3> QED BY <1>2, <3>1, FS_EmptySet
    <2>2. CASE Lower # {}
      <3>1. Lower \subseteq Nat /\ IsFiniteSet(Lower)
        <4>1. Lower \subseteq values
          OBVIOUS
        <4> QED BY <1>4, <4>1, FS_Subset
      <3>2. PICK u \in Lower : \A x \in Lower : x <= u
        <4> HIDE DEF Lower
        <4> QED BY <2>2, <3>1, GreatestNumber
      <3>3. u \in values /\ u < v /\ u \in Nat /\ v \in Nat
        BY <1>4, <1>6, <3>2
      <3>4. u \notin High
        BY <1>6, <3>3
      <3>5. Below(v) \subseteq UpTo(u)
        <4> SUFFICES ASSUME NEW i \in I, f[i] < v
                     PROVE  f[i] <= u
          OBVIOUS
        <4>1. f[i] \in Lower
          OBVIOUS
        <4> QED BY <3>2, <4>1
      <3>6. Cardinality(Below(v)) <= Cardinality(UpTo(u))
        BY <1>3, <3>5, FS_Subset
      <3>7. ~(Cardinality(UpTo(u)) > middle)
        BY <3>3, <3>4
      <3> HIDE DEF Below, UpTo
      <3> QED BY <1>2, <1>3, <3>6, <3>7
    <2> QED BY <2>1, <2>2
  <1>8. \E x \in values : Cardinality(Below(x)) <= middle /\ Cardinality(UpTo(x)) > middle
    BY <1>6, <1>7
  <1>9. LowerMedian(f, I) = CHOOSE x \in values :
            Cardinality(Below(x)) <= middle /\ Cardinality(UpTo(x)) > middle
    BY DEF LowerMedian, middle
  <1> QED BY <1>8, <1>9 DEF middle

-----------------------------------------------------------------------------
(* The loop that rolls a date on *)

\* Where the loop ends from x: the first number not before the start that is a
\* whole number of intervals after x.
Ends(y, x, g, start) ==
    /\ \E k \in Nat : y = x + k * g
    /\ y >= start
    /\ y = x \/ y - g < start

LEMMA EndIsUnique ==
    ASSUME NEW g \in Nat \ {0}, NEW start \in Nat, NEW x \in Nat, NEW y, NEW z,
           Ends(y, x, g, start), Ends(z, x, g, start)
    PROVE  y = z
  <1>1. PICK k \in Nat : y = x + k * g
    BY DEF Ends
  <1>2. PICK m \in Nat : z = x + m * g
    BY DEF Ends
  <1>3. k * g \in Nat /\ m * g \in Nat
    OBVIOUS
  <1>4. k < m => k * g + g <= m * g
    <2>1. k < m => m = k + (m - k) /\ m - k \in Nat \ {0}
      OBVIOUS
    <2>2. \A d \in Nat \ {0} : (k + d) * g = k * g + d * g /\ d * g >= g
      OBVIOUS
    <2> QED BY <1>3, <2>1, <2>2
  <1>5. m < k => m * g + g <= k * g
    <2>1. m < k => k = m + (k - m) /\ k - m \in Nat \ {0}
      OBVIOUS
    <2>2. \A d \in Nat \ {0} : (m + d) * g = m * g + d * g /\ d * g >= g
      OBVIOUS
    <2> QED BY <1>3, <2>1, <2>2
  <1> DEFINE a == k * g
             b == m * g
  <1>6. /\ y = x + a /\ z = x + b /\ a \in Nat /\ b \in Nat
        /\ k < m => a + g <= b
        /\ m < k => b + g <= a
        /\ k = m => a = b
    BY <1>1, <1>2, <1>3, <1>4, <1>5
  <1> HIDE DEF a, b
  <1>7. /\ y >= start /\ (y = x \/ y - g < start)
        /\ z >= start /\ (z = x \/ z - g < start)
    BY DEF Ends
  <1> QED BY <1>6, <1>7

LEMMA EndExists ==
    ASSUME NEW g \in Nat \ {0}, NEW start \in Nat, NEW x \in Nat
    PROVE  \E y \in Nat : Ends(y, x, g, start)
  <1> DEFINE Far == {k \in Nat : x + k * g >= start}
  <1>1. start \in Far
    <2>1. start * g >= start
      OBVIOUS
    <2>2. start * g \in Nat
      OBVIOUS
    <2> QED BY <2>1, <2>2
  <1>2. PICK k \in Far : \A m \in Far : k <= m
    BY <1>1, LeastNumber
  <1> DEFINE y == x + k * g
  <1>3. k \in Nat /\ y \in Nat /\ y >= start
    BY <1>2
  <1>4. y = x \/ y - g < start
    <2>1. CASE k = 0
      BY <2>1
    <2>2. CASE k # 0
      <3>1. k - 1 \in Nat /\ ~(k <= k - 1)
        BY <1>3, <2>2
      <3>2. ~(x + (k - 1) * g >= start)
        BY <1>2, <3>1
      <3>3. (k - 1) * g = k * g - g /\ k * g \in Nat
        BY <1>3
      <3> QED BY <3>2, <3>3
    <2> QED BY <2>1, <2>2
  <1> QED BY <1>3, <1>4 DEF Ends

\* The loop goes on to the end from every date not after the start: the
\* recursive function has a value, and of two dates the later is nearer to it.
LEMMA RollingEnds ==
    ASSUME NEW g \in Nat \ {0}, NEW start \in Nat
    PROVE  \A x \in 0..(start + g) : Ends(Rolling(g, start)[x], x, g, start)
  <1> DEFINE D == 0..(start + g)
             Step(f) == [x \in D |-> IF x < start THEN f[x + g] ELSE x]
             Solution == [x \in D |-> CHOOSE y \in Nat : Ends(y, x, g, start)]
             r == Rolling(g, start)
  <1>1. \A x \in D : /\ x \in Nat
                     /\ x < start => x + g \in D
    OBVIOUS
  <1>2. \A x \in D : Solution[x] \in Nat /\ Ends(Solution[x], x, g, start)
    BY <1>1, EndExists
  <1>3. \A x \in D : x >= start => Ends(x, x, g, start)
    <2> SUFFICES ASSUME NEW x \in D, x >= start
                 PROVE  Ends(x, x, g, start)
      OBVIOUS
    <2>1. x = x + 0 * g
      OBVIOUS
    <2> QED BY <2>1 DEF Ends
  <1>4. \A x \in D : \A y \in Nat :
            x < start /\ Ends(y, x + g, g, start) => Ends(y, x, g, start)
    <2> SUFFICES ASSUME NEW x \in D, NEW y \in Nat, x < start, Ends(y, x + g, g, start)
                 PROVE  Ends(y, x, g, start)
      OBVIOUS
    <2>1. PICK k \in Nat : y = (x + g) + k * g
      BY DEF Ends
    <2>2. (k + 1) * g = k * g + g /\ k * g \in Nat
      OBVIOUS
    <2>3. y = x + (k + 1) * g
      BY <1>1, <2>1, <2>2
    <2>4. y >= start /\ (y = x + g \/ y - g < start)
      BY DEF Ends
    <2>5. y - g < start
      BY <1>1, <2>4
    <2> QED BY <2>3, <2>4, <2>5 DEF Ends
  <1>5. Solution = Step(Solution)
    <2>1. ASSUME NEW x \in D
          PROVE  Solution[x] = IF x < start THEN Solution[x + g] ELSE x
      <3> HIDE DEF Solution
      <3>1. CASE x < start
        <4>1. Ends(Solution[x + g], x, g, start)
          BY <1>1, <1>2, <1>4, <3>1
        <4> QED BY <1>1, <1>2, <3>1, <4>1, EndIsUnique
      <3>2. CASE ~(x < start)
        <4>1. Ends(x, x, g, start)
          BY <1>1, <1>3, <3>2
        <4> QED BY <1>1, <1>2, <3>2, <4>1, EndIsUnique
      <3> QED BY <3>1, <3>2
    <2>2. Step(Solution) = [x \in D |-> Solution[x]]
      BY <2>1
    <2> QED BY <2>2
  <1>6. r = Step(r)
    <2>1. r = CHOOSE f : f = Step(f)
      BY DEF Rolling
    <2> HIDE DEF Solution, Step, r
    <2>2. \E f : f = Step(f)
      BY <1>5
    <2> QED BY <2>1, <2>2
  <1>7. \A x \in D : r[x] = IF x < start THEN r[x + g] ELSE x
    <2> HIDE DEF r
    <2> QED BY <1>6
  <1> DEFINE Wrong == {n \in Nat : \E x \in D : n = start + g - x
                                              /\ ~Ends(r[x], x, g, start)}
  <1>8. Wrong = {}
    <2> SUFFICES ASSUME Wrong # {}
                 PROVE  FALSE
      OBVIOUS
    <2> HIDE DEF r
    <2>1. PICK n \in Wrong : \A m \in Wrong : n <= m
      <3>1. Wrong \subseteq Nat
        OBVIOUS
      <3> HIDE DEF Wrong
      <3> QED BY <3>1, LeastNumber
    <2>2. PICK x \in D : n = start + g - x /\ ~Ends(r[x], x, g, start)
      OBVIOUS
    <2>3. x < start
      BY <1>1, <1>3, <1>7, <2>2
    <2>4. x + g \in D /\ r[x] = r[x + g]
      BY <1>1, <1>7, <2>3
    <2>5. ~Ends(r[x + g], x + g, g, start)
      <3> SUFFICES ASSUME Ends(r[x + g], x + g, g, start)
                   PROVE  FALSE
        OBVIOUS
      <3>1. PICK k \in Nat : r[x + g] = (x + g) + k * g
        BY DEF Ends
      <3>2. k * g \in Nat
        OBVIOUS
      <3>3. r[x + g] \in Nat
        BY <1>1, <3>1, <3>2
      <3> QED BY <1>4, <2>2, <2>3, <2>4, <3>3
    <2>6. start + g - (x + g) \in Nat /\ start + g - (x + g) < n
      BY <1>1, <2>2, <2>4
    <2>7. start + g - (x + g) \in Wrong
      BY <2>4, <2>5, <2>6
    <2> QED BY <2>1, <2>6, <2>7
  <1>9. ASSUME NEW x \in D
        PROVE  Ends(r[x], x, g, start)
    <2>1. start + g - x \in Nat
      OBVIOUS
    <2> QED BY <1>8, <2>1
  <1> QED BY <1>9

\* The date rolled on: the first one not before the start, or the date itself.
LEMMA RolledEnds ==
    ASSUME NEW g \in Nat \ {0}, NEW start \in Nat, NEW at \in Nat
    PROVE  Ends(Rolled(at, g, start), at, g, start)
  <1>1. CASE at > start
    <2>1. at = at + 0 * g
      OBVIOUS
    <2> QED BY <1>1, <2>1 DEF Rolled, Ends
  <1>2. CASE ~(at > start)
    <2>1. at \in 0..(start + g)
      BY <1>2
    <2> QED BY <1>2, <2>1, RollingEnds DEF Rolled
  <1> QED BY <1>1, <1>2

\* The least of a set of numbers is the one that is not above the others.
LEMMA SetMinIs ==
    ASSUME NEW S, S \subseteq Nat, NEW y \in S, \A x \in S : y <= x
    PROVE  SetMin(S) = y
  <1>1. SetMin(S) \in S /\ \A x \in S : SetMin(S) <= x
    BY DEF SetMin
  <1>2. SetMin(S) \in Nat /\ y \in Nat /\ SetMin(S) <= y /\ y <= SetMin(S)
    BY <1>1
  <1> QED BY <1>2

-----------------------------------------------------------------------------
(* What is calculated from a snapshot *)

LEMMA SnapshotTypes ==
    ASSUME NEW s, IsSnapshot(s)
    PROVE  /\ s.asOf \in Days /\ s.due \in Times /\ s.cycle \in Cycle \cup {None}
           /\ Purchases(s.purchases)
  BY DEF IsSnapshot, Snapshot, Purchases

\* The typical interval is at least a day.
LEMMA GapIsPositive ==
    ASSUME NEW P, Purchases(P), ~(Cardinality(Positive(P)) < 2)
    PROVE  LowerMedian(Interval(P), Positive(P)) \in Nat \ {0}
  <1>1. /\ Positive(P) \subseteq P
        /\ Positive(P) \subseteq Later(P)
    BY DEF Positive, Later
  <1>2. IsFiniteSet(Positive(P))
    BY <1>1, FS_Subset DEF Purchases
  <1>3. Positive(P) # {}
    BY FS_EmptySet
  <1>4. \A p \in Positive(P) : Interval(P)[p] \in Nat \ {0}
    BY <1>1, IntervalsAreNumbers DEF Positive
  <1> DEFINE f == Interval(P)
             I == Positive(P)
  <1>5. LowerMedian(f, I) \in {f[p] : p \in I}
    <2>1. \A p \in I : f[p] \in Nat
      BY <1>4
    <2> HIDE DEF f, I
    <2> QED BY <1>2, <1>3, <2>1, LowerMedianIsThere DEF I
  <1> QED BY <1>4, <1>5

\* A suggestion to buy again names the last purchase, and the first day of the
\* run on that is a whole number of typical intervals after it.
LEMMA RepeatIsCalculated ==
    ASSUME NEW s, IsSnapshot(s), NEW i \in Calculate(s), i.kind = "repeat_purchase"
    PROVE  LET gap == LowerMedian(Interval(s.purchases), Positive(s.purchases))
               last == LastOf(s.purchases).at
           IN /\ LastOf(s.purchases) \in s.purchases
              /\ i.anchor = LastOf(s.purchases).record
              /\ i.at \in Times
              /\ i.at = SetMin({x \in Times : /\ x > last /\ x >= s.asOf
                                              /\ (x - last) % gap = 0})
  <1> DEFINE P == s.purchases
             gap == LowerMedian(Interval(P), Positive(P))
             last == LastOf(P).at
             Dates == {x \in Times : /\ x > last /\ x >= s.asOf
                                     /\ (x - last) % gap = 0}
  <1>1. /\ ~(Cardinality(P) < 3) /\ ~(Cardinality(Positive(P)) < 2)
        /\ i.at = Rolled(last + gap, gap, s.asOf)
        /\ i.anchor = LastOf(P).record
        /\ i.at <= s.asOf + Horizon
    BY DEF Calculate, CommitmentDue, UseCycleEnd, RepeatPurchase, WithinHorizon
  <1>2. s.asOf \in Days /\ Purchases(P)
    BY SnapshotTypes
  <1>3. gap \in Nat \ {0}
    BY <1>1, <1>2, GapIsPositive
  <1>4. LastOf(P) \in P /\ last \in Nat
    <2>1. P # {}
      BY <1>1, FS_EmptySet
    <2>2. LastOf(P) \in P
      BY <1>2, <2>1, LastOfIsLast
    <2> QED BY <1>2, <2>2, ConstantTypes DEF Purchases, Seen
  <1>5. s.asOf \in Nat /\ s.asOf <= LastDay /\ LastDay \in Nat /\ Horizon \in Nat
    BY <1>2, ConstantTypes DEF Days
  <1> HIDE DEF gap, last
  <1>6. Ends(i.at, last + gap, gap, s.asOf)
    BY <1>1, <1>3, <1>4, <1>5, RolledEnds
  <1>7. PICK k \in Nat : i.at = (last + gap) + k * gap
    BY <1>6 DEF Ends
  <1>8. k * gap \in Nat /\ (k + 1) * gap = k * gap + gap
    BY <1>3
  <1>9. i.at \in Nat /\ i.at > last /\ i.at - last = (k + 1) * gap /\ i.at >= s.asOf
    BY <1>3, <1>4, <1>5, <1>6, <1>7, <1>8 DEF Ends
  <1>10. i.at \in Times
    BY <1>1, <1>5, <1>9 DEF Times
  <1>11. i.at \in Dates
    <2>1. \A n \in Nat : (n * gap) % gap = 0
      BY <1>3
    <2>2. (i.at - last) % gap = 0
      BY <1>9, <2>1
    <2> QED BY <1>9, <1>10, <2>2
  <1>12. ASSUME NEW x \in Dates
         PROVE  i.at <= x
    <2>1. x \in Nat /\ x > last /\ x >= s.asOf /\ (x - last) % gap = 0
      BY ConstantTypes
    <2>2. PICK m \in Int : x - last = m * gap
      <3>1. x - last \in Int
        BY <1>4, <2>1
      <3>2. \A a \in Int : a % gap = 0 => \E m \in Int : a = m * gap
        BY <1>3
      <3> QED BY <2>1, <3>1, <3>2
    <2>3. m * gap > 0
      BY <1>4, <2>1, <2>2
    <2>4. m >= 1 /\ m * gap \in Nat /\ m * gap >= gap
      BY <1>3, <2>3
    <2>5. CASE i.at = last + gap
      BY <1>3, <1>4, <2>1, <2>2, <2>4, <2>5
    <2>6. CASE i.at - gap < s.asOf
      <3>1. k * gap < m * gap
        BY <1>3, <1>4, <1>5, <1>7, <1>8, <2>1, <2>2, <2>4, <2>6
      <3>2. k + 1 <= m
        BY <1>3, <3>1
      <3>3. (k + 1) * gap <= m * gap
        BY <1>3, <3>2
      <3> QED BY <1>3, <1>4, <1>9, <2>1, <2>2, <2>4, <3>3
    <2> QED BY <1>6, <2>5, <2>6 DEF Ends
  <1>13. SetMin(Dates) = i.at
    <2>1. Dates \subseteq Nat
      BY ConstantTypes
    <2> HIDE DEF Dates
    <2> QED BY <1>11, <1>12, <2>1, SetMinIs
  <1> QED BY <1>1, <1>4, <1>10, <1>13 DEF gap, last

\* The typical duration of the completed use cycles is a number of days.
LEMMA DurationIsNumber ==
    ASSUME ~(Cardinality(Lasting) < 2)
    PROVE  LowerMedian(Durations, Lasting) \in Nat
  <1> DEFINE Past == [started : Nat, ended : Nat]
  <1>1. PastCycles \in Seq(Past)
    BY ConstantsAssumption, Zenon
  <1>2. /\ DOMAIN PastCycles = 1..Len(PastCycles) /\ Len(PastCycles) \in Nat
        /\ \A n \in DOMAIN PastCycles : PastCycles[n] \in Past
    <2> HIDE DEF Past
    <2> QED BY <1>1
  <1>3. IsFiniteSet(DOMAIN PastCycles)
    BY <1>2, FS_Interval
  <1>4. Lasting \subseteq DOMAIN PastCycles
    BY DEF Lasting
  <1>5. IsFiniteSet(Lasting) /\ Lasting # {}
    BY <1>3, <1>4, FS_Subset, FS_EmptySet
  <1>6. \A n \in Lasting : Durations[n] \in Nat
    <2> SUFFICES ASSUME NEW n \in Lasting
                 PROVE  Durations[n] \in Nat
      OBVIOUS
    <2>1. n \in DOMAIN PastCycles /\ Durations[n] > 0
      BY DEF Lasting
    <2>2. Durations[n] = PastCycles[n].ended - PastCycles[n].started
      BY <2>1 DEF Durations
    <2> QED BY <1>2, <2>1, <2>2
  <1>7. LowerMedian(Durations, Lasting) \in {Durations[n] : n \in Lasting}
    BY <1>5, <1>6, LowerMedianIsThere
  <1> QED BY <1>6, <1>7

LEMMA SuggestionsAreTyped ==
    ASSUME NEW s, IsSnapshot(s)
    PROVE  Calculate(s) \subseteq Suggestion
  <1> SUFFICES ASSUME NEW i \in Calculate(s)
               PROVE  i \in Suggestion
    OBVIOUS
  <1>1. /\ s.asOf \in Days /\ s.due \in Times /\ s.cycle \in Cycle \cup {None}
        /\ Purchases(s.purchases)
    BY SnapshotTypes
  <1>2. WithinHorizon(s, i)
    BY DEF Calculate
  <1>3. CASE i \in CommitmentDue(s)
    BY <1>1, <1>3 DEF CommitmentDue, Suggestion, Kinds
  <1>4. CASE i \in RepeatPurchase(s)
    <2> DEFINE last == LastOf(s.purchases)
    <2>1. PICK at : i = [kind |-> "repeat_purchase", at |-> at, anchor |-> last.record]
      <3> HIDE DEF last
      <3> QED BY <1>4 DEF RepeatPurchase, last
    <2>2. i.kind = "repeat_purchase"
      BY <2>1
    <2>3. last \in s.purchases /\ i.at \in Times
      BY <2>2, RepeatIsCalculated
    <2>4. last.record \in Records /\ at \in Times
      BY <1>1, <2>1, <2>3 DEF Purchases, Seen
    <2> QED BY <2>1, <2>4 DEF Suggestion, Kinds
  <1>5. CASE i \in UseCycleEnd(s)
    <2>1. s.cycle # None /\ s.cycle \in Cycle
      BY <1>1, <1>5 DEF UseCycleEnd
    <2>2. CASE s.cycle.expected # None
      <3>1. s.cycle.expected \in Times
        BY <2>1, <2>2 DEF Cycle
      <3> QED BY <1>5, <2>2, <3>1 DEF UseCycleEnd, Suggestion, Kinds
    <2>3. CASE s.cycle.expected = None
      <3> DEFINE at == s.cycle.started + LowerMedian(Durations, Lasting)
      <3>1. /\ ~(Cardinality(Lasting) < 2)
            /\ i = [kind |-> "use_cycle_end", at |-> at, anchor |-> CycleId]
        BY <1>5, <2>3 DEF UseCycleEnd
      <3>2. s.cycle.started \in Nat
        BY <2>1, ConstantTypes DEF Cycle
      <3>3. at \in Nat
        BY <3>1, <3>2, DurationIsNumber
      <3> HIDE DEF at
      <3>4. at <= s.asOf + Horizon /\ s.asOf \in Nat /\ s.asOf <= LastDay
        BY <1>1, <1>2, <3>1, ConstantTypes DEF WithinHorizon, Days
      <3>5. at \in Times
        BY <3>3, <3>4, ConstantTypes DEF Times
      <3> QED BY <3>1, <3>5 DEF Suggestion, Kinds
    <2> QED BY <2>2, <2>3
  <1> QED BY <1>3, <1>4, <1>5 DEF Calculate

\* The anchor of a suggestion is the last purchase, the due time or the cycle.
LEMMA AnchorOf ==
    ASSUME NEW s, IsSnapshot(s), NEW i \in Calculate(s)
    PROVE  /\ i.kind \in Kinds
           /\ i.kind = "commitment_due" => i.anchor = s.due
           /\ i.kind = "repeat_purchase" => i.anchor = LastOf(s.purchases).record
           /\ i.kind = "use_cycle_end" => i.anchor = CycleId
  <1>1. CASE i \in CommitmentDue(s)
    BY <1>1 DEF CommitmentDue, Kinds
  <1>2. CASE i \in RepeatPurchase(s)
    BY <1>2 DEF RepeatPurchase, Kinds
  <1>3. CASE i \in UseCycleEnd(s)
    BY <1>3 DEF UseCycleEnd, Kinds
  <1> QED BY <1>1, <1>2, <1>3 DEF Calculate

-----------------------------------------------------------------------------
(* The inductive invariant: the facts and the runs *)

LEMMA InitIsCorrect == Init => IInv
  <1> SUFFICES ASSUME Init
               PROVE  IInv
    OBVIOUS
  <1>1. TypeOK
    <2>1. /\ DOMAIN Bought \subseteq Records /\ FirstDay \in Dues
          /\ \A c \in DOMAIN Bought : Bought[c] \in 0..(FirstDay - 1)
      BY ConstantsAssumption, Zenon
    <2>2. FirstDay \in Times /\ FirstDay \in FirstDay..LastDay
      BY ConstantTypes DEF Times
    <2>3. \A c \in DOMAIN Bought : [at |-> Bought[c], state |-> "confirmed"] \in Purchase
      <3>1. \A c \in DOMAIN Bought : Bought[c] \in Days
        BY <2>1, ConstantTypes DEF Days
      <3> QED BY <3>1 DEF Purchase
    <2>4. purchase \in [Records -> Purchase \cup {None}]
      BY <2>3 DEF Init
    <2>5. runs \in Seq(Run) /\ Len(runs) = 0
      BY DEF Init
    <2>6. DOMAIN feedback = {}
      BY DEF Init
    <2> QED BY <2>2, <2>4, <2>5, <2>6, ConstantTypes DEF Init, TypeOK
  <1>2. RunsAreCalculated
    BY DEF Init, RunsAreCalculated
  <1>3. Saving = {} /\ \A t \in Sessions : session[t] = None
    BY DEF Init, Saving
  <1> QED BY <1>1, <1>2, <1>3 DEF IInv, SessionsFit, RowsAreLocked

\* Runs and requests do not read facts after their snapshot.
LEMMA FactsKeep ==
    ASSUME IInv, UNCHANGED <<runs, feedback, session>>,
           day' \in FirstDay..LastDay,
           purchase' \in [Records -> Purchase \cup {None}],
           due' \in Times,
           cycle' \in Cycle \cup {None}
    PROVE  IInv'
  <1>1. TypeOK'
    BY DEF IInv, TypeOK
  <1>2. RunsAreCalculated'
    BY DEF IInv, RunsAreCalculated
  <1>3. Saving' = Saving /\ \A e : RevisionOf(e)' = RevisionOf(e)
    BY DEF Saving, RevisionOf, Decided
  <1>4. SessionsFit'
    BY <1>3 DEF IInv, SessionsFit, GenerationFits, DecisionFits
  <1>5. RowsAreLocked'
    BY <1>3 DEF IInv, RowsAreLocked
  <1> QED BY <1>1, <1>2, <1>4, <1>5 DEF IInv

LEMMA FactsTyped ==
    ASSUME IInv
    PROVE  /\ day \in FirstDay..LastDay
           /\ purchase \in [Records -> Purchase \cup {None}]
           /\ due \in Times
           /\ cycle \in Cycle \cup {None}
           /\ runs \in Seq(Run) /\ Len(runs) <= MaxRuns
           /\ \A e \in DOMAIN feedback : feedback[e] \in Feedback
           /\ DOMAIN session = Sessions
  BY DEF IInv, TypeOK

LEMMA FactStepsKeepIInv ==
    ASSUME IInv, \/ NextDay \/ CompleteCycle
                 \/ \E c \in Records : Void(c) \/ \E at \in Days : Buy(c, at)
                 \/ \E d \in Dues : MoveDue(d) \/ StartCycle(d) \/ ExpectEnd(d)
                 \/ StartCycle(None)
    PROVE  IInv'
  <1> USE FactsTyped
  <1>0. day \in Days /\ day \in Times
    BY ConstantTypes DEF Days, Times
  <1>1. CASE NextDay
    <2>1. day' \in FirstDay..LastDay
      BY <1>1, ConstantTypes DEF NextDay
    <2> QED BY <1>1, <2>1, FactsKeep DEF NextDay
  <1>2. CASE CompleteCycle
    <2>1. cycle' \in Cycle
      BY <1>0, <1>2 DEF CompleteCycle, Cycle
    <2> QED BY <1>2, <2>1, FactsKeep DEF CompleteCycle
  <1>3. ASSUME NEW c \in Records, Void(c)
        PROVE  IInv'
    <2>1. purchase' \in [Records -> Purchase \cup {None}]
      BY <1>3 DEF Void, Purchase
    <2> QED BY <1>3, <2>1, FactsKeep DEF Void
  <1>4. ASSUME NEW c \in Records, NEW at \in Days, Buy(c, at)
        PROVE  IInv'
    <2>1. purchase' \in [Records -> Purchase \cup {None}]
      BY <1>4 DEF Buy, Purchase
    <2> QED BY <1>4, <2>1, FactsKeep DEF Buy
  <1>5. ASSUME NEW d \in Dues, MoveDue(d)
        PROVE  IInv'
    <2>1. due' \in Times
      BY <1>5, ConstantTypes DEF MoveDue
    <2> QED BY <1>5, <2>1, FactsKeep DEF MoveDue
  <1>6. ASSUME NEW d \in Dues \cup {None}, StartCycle(d)
        PROVE  IInv'
    <2>1. cycle' \in Cycle
      BY <1>0, <1>6, ConstantTypes DEF StartCycle, Cycle
    <2> QED BY <1>6, <2>1, FactsKeep DEF StartCycle
  <1>7. ASSUME NEW d \in Dues, ExpectEnd(d)
        PROVE  IInv'
    <2>1. cycle' \in Cycle
      BY <1>7, ConstantTypes DEF ExpectEnd, Cycle
    <2> QED BY <1>7, <2>1, FactsKeep DEF ExpectEnd
  <1> QED BY <1>1, <1>2, <1>3, <1>4, <1>5, <1>6, <1>7

-----------------------------------------------------------------------------
(* A session that generates a run *)

\* What one session does, when it is not about a decision.
LEMMA SessionTypes ==
    ASSUME IInv, NEW t \in Sessions, NEW value,
           session' = [session EXCEPT ![t] = value],
           value # None => value.step \in {"started", "snapshot", "feedback"}
    PROVE  /\ DOMAIN session' = Sessions
           /\ \A u \in Sessions : session'[u] # None =>
                 session'[u].step \in {"started", "snapshot", "feedback"}
           /\ \A u \in Sessions \ {t} : session'[u] = session[u]
           /\ session'[t] = value
  BY DEF IInv, TypeOK

LEMMA GenerationKeeps ==
    ASSUME IInv, NEW t \in Sessions, NEW value,
           session' = [session EXCEPT ![t] = value],
           \/ value = None
           \/ value.step \in {"started", "snapshot"} /\ GenerationFits(value),
           UNCHANGED <<facts, feedback>>,
           runs' \in Seq(Run) /\ Len(runs') <= MaxRuns, RunsAreCalculated'
    PROVE  IInv'
  <1>1. /\ DOMAIN session' = Sessions
        /\ \A u \in Sessions : session'[u] # None =>
              session'[u].step \in {"started", "snapshot", "feedback"}
        /\ \A u \in Sessions \ {t} : session'[u] = session[u]
        /\ session'[t] = value
    BY SessionTypes
  <1>2. TypeOK'
    BY <1>1 DEF IInv, TypeOK, facts
  <1>3. Saving' \subseteq Saving \ {t}
    BY <1>1 DEF Saving
  <1>4. feedback' = feedback
    OBVIOUS
  <1>5. \A u \in Sessions : session'[u] # None => GenerationFits(session'[u])
    BY <1>1 DEF IInv, SessionsFit
  <1>6. \A u \in Saving' : DecisionFits(session[u])'
    <2> SUFFICES ASSUME NEW u \in Saving'
                 PROVE  DecisionFits(session[u])'
      OBVIOUS
    <2>1. u \in Saving /\ session'[u] = session[u]
      BY <1>1, <1>3 DEF Saving
    <2>2. DecisionFits(session[u])
      BY <2>1 DEF IInv, SessionsFit
    <2> QED BY <1>4, <2>1, <2>2 DEF DecisionFits, RevisionOf, Decided
  <1>7. SessionsFit'
    BY <1>5, <1>6 DEF SessionsFit
  <1>8. RowsAreLocked'
    BY <1>1, <1>3 DEF IInv, RowsAreLocked, Saving
  <1> QED BY <1>2, <1>7, <1>8 DEF IInv

LEMMA GenerateKeepsIInv ==
    ASSUME IInv, NEW t \in Sessions, NEW daily \in BOOLEAN, NEW asOf \in FirstDay..LastDay,
           Generate(t, daily, asOf)
    PROVE  IInv'
  <1> DEFINE value == [step |-> "started", daily |-> daily, asOf |-> asOf, due |-> due]
  <1>1. session' = [session EXCEPT ![t] = value] /\ UNCHANGED <<facts, runs, feedback>>
    BY DEF Generate
  <1>2. asOf \in Days /\ due \in Times
    BY FactsTyped, ConstantTypes DEF Days
  <1>3. value.step \in {"started", "snapshot"} /\ GenerationFits(value)
    BY <1>2 DEF GenerationFits
  <1>4. runs' \in Seq(Run) /\ Len(runs') <= MaxRuns /\ RunsAreCalculated'
    BY <1>1, FactsTyped DEF IInv, RunsAreCalculated
  <1> HIDE DEF value
  <1> QED BY <1>1, <1>3, <1>4, GenerationKeeps

\* What the queries find is a snapshot: of each purchase one row.
LEMMA FactsAreSnapshot ==
    ASSUME IInv, NEW asOf \in Days, NEW d \in Times
    PROVE  IsSnapshot([asOf |-> asOf, due |-> d,
                       purchases |-> PurchasesBefore(asOf), cycle |-> CycleAt(asOf)])
  <1> DEFINE C == {c \in Records : /\ purchase[c] # None
                                   /\ purchase[c].state = "confirmed"
                                   /\ BeforeCutoff(purchase[c].at, asOf)}
             row(c) == [record |-> c, at |-> purchase[c].at]
             F == [c \in C |-> row(c)]
             P == PurchasesBefore(asOf)
  <1>1. P = {row(c) : c \in C}
    BY DEF PurchasesBefore
  <1>2. \A c \in C : row(c) \in Seen
    <2> SUFFICES ASSUME NEW c \in C
                 PROVE  row(c) \in Seen
      OBVIOUS
    <2>1. purchase[c] \in Purchase
      BY FactsTyped
    <2>2. purchase[c].at \in Days
      BY <2>1 DEF Purchase
    <2> QED BY <2>2 DEF Seen
  <1>3. P \subseteq Seen
    BY <1>1, <1>2
  <1>4. IsFiniteSet(P)
    <2>1. C \subseteq Records
      OBVIOUS
    <2>2. IsFiniteSet(C)
      BY <2>1, ConstantTypes, FS_Subset
    <2>3. F \in Surjection(C, P)
      BY <1>1, Fun_IsSurj
    <2> HIDE DEF F, P, C
    <2> QED BY <2>2, <2>3, FS_Surjection
  <1>5. \A p, q \in P : p.record = q.record => p = q
    BY <1>1
  <1>6. CycleAt(asOf) \in Cycle \cup {None}
    <2>1. CASE cycle = None \/ ~BeforeCutoff(cycle.started, asOf)
      BY <2>1 DEF CycleAt
    <2>2. CASE cycle # None /\ BeforeCutoff(cycle.started, asOf)
      <3>1. cycle \in Cycle
        BY <2>2, FactsTyped
      <3>2. [cycle EXCEPT !.state = "active", !.ended = None] \in Cycle
        BY <3>1 DEF Cycle
      <3>3. CycleAt(asOf) \in {cycle, [cycle EXCEPT !.state = "active", !.ended = None]}
        BY <2>2 DEF CycleAt
      <3> QED BY <3>1, <3>2, <3>3
    <2> QED BY <2>1, <2>2
  <1> HIDE DEF P, C, F
  <1> QED BY <1>3, <1>4, <1>5, <1>6 DEF IsSnapshot, Snapshot, P

LEMMA ReadFactsKeepsIInv ==
    ASSUME IInv, NEW t \in Sessions, ReadFacts(t)
    PROVE  IInv'
  <1>1. session[t] # None /\ session[t].step = "started"
    BY DEF ReadFacts
  <1>2. GenerationFits(session[t])
    BY <1>1 DEF IInv, SessionsFit
  <1> PICK s : s = session[t]
    OBVIOUS
  <1>3. s.asOf \in Days /\ s.due \in Times /\ s.daily \in BOOLEAN
    BY <1>1, <1>2 DEF GenerationFits
  <1> DEFINE snap == [asOf |-> s.asOf, due |-> s.due,
                      purchases |-> PurchasesBefore(s.asOf), cycle |-> CycleAt(s.asOf)]
             value == [step |-> "snapshot", daily |-> s.daily, snapshot |-> snap]
  <1>4. session' = [session EXCEPT ![t] = value] /\ UNCHANGED <<facts, runs, feedback>>
    BY FactsTyped DEF ReadFacts
  <1>5. IsSnapshot(snap)
    BY <1>3, FactsAreSnapshot
  <1> HIDE DEF snap
  <1>6. value.step \in {"started", "snapshot"} /\ GenerationFits(value)
    BY <1>3, <1>5 DEF GenerationFits
  <1>7. runs' \in Seq(Run) /\ Len(runs') <= MaxRuns /\ RunsAreCalculated'
    BY <1>4, FactsTyped DEF IInv, RunsAreCalculated
  <1> HIDE DEF value
  <1> QED BY <1>4, <1>6, <1>7, GenerationKeeps

LEMMA StoreRunKeepsIInv ==
    ASSUME IInv, NEW t \in Sessions, StoreRun(t)
    PROVE  IInv'
  <1>1. session[t] # None /\ session[t].step = "snapshot"
    BY DEF StoreRun
  <1>2. GenerationFits(session[t])
    BY <1>1 DEF IInv, SessionsFit
  <1>3. session' = [session EXCEPT ![t] = None] /\ UNCHANGED <<facts, feedback>>
    BY DEF StoreRun
  <1>4. runs' \in Seq(Run) /\ Len(runs') <= MaxRuns /\ RunsAreCalculated'
    <2>1. CASE UNCHANGED runs
      BY <2>1, FactsTyped DEF IInv, RunsAreCalculated
    <2>2. CASE ~(UNCHANGED runs)
      <3> PICK s : s = session[t].snapshot
        OBVIOUS
      <3> PICK daily : daily = session[t].daily
        OBVIOUS
      <3>1. IsSnapshot(s) /\ daily \in BOOLEAN
        BY <1>1, <1>2 DEF GenerationFits
      <3> DEFINE run == [snapshot |-> s, items |-> Calculate(s), daily |-> daily]
      <3>2. runs' = Append(runs, run) /\ Len(runs) < MaxRuns
        BY <2>2 DEF StoreRun
      <3>3. run \in Run
        <4>1. Calculate(s) \subseteq Suggestion
          BY <3>1, SuggestionsAreTyped
        <4>2. s \in Snapshot
          BY <3>1 DEF IsSnapshot
        <4> QED BY <3>1, <4>1, <4>2 DEF Run
      <3>4. IsSnapshot(run.snapshot) /\ run.items = Calculate(run.snapshot)
        BY <3>1
      <3> HIDE DEF run
      <3>5. /\ runs' \in Seq(Run) /\ Len(runs') = Len(runs) + 1
            /\ DOMAIN runs' = DOMAIN runs \cup {Len(runs) + 1}
            /\ runs'[Len(runs) + 1] = run
            /\ \A n \in DOMAIN runs : runs'[n] = runs[n]
        BY <3>2, <3>3, FactsTyped
      <3>6. Len(runs') <= MaxRuns
        <4>1. Len(runs) \in Nat
          BY FactsTyped
        <4> QED BY <3>2, <3>5, <4>1, ConstantTypes
      <3>7. \A n \in DOMAIN runs' : runs'[n] = run \/ (n \in DOMAIN runs /\ runs'[n] = runs[n])
        BY <3>5
      <3>8. \A n \in DOMAIN runs' : /\ IsSnapshot(runs'[n].snapshot)
                                    /\ runs'[n].items = Calculate(runs'[n].snapshot)
        BY <3>4, <3>7 DEF IInv, RunsAreCalculated
      <3>9. RunsAreCalculated'
        BY <3>8 DEF RunsAreCalculated
      <3> QED BY <3>5, <3>6, <3>9
    <2> QED BY <2>1, <2>2
  <1> QED BY <1>3, <1>4, GenerationKeeps

LEMMA RollbackKeepsIInv ==
    ASSUME IInv, NEW t \in Sessions, Rollback(t)
    PROVE  IInv'
  <1>1. session' = [session EXCEPT ![t] = None] /\ UNCHANGED <<facts, runs, feedback>>
    BY DEF Rollback
  <1>2. runs' \in Seq(Run) /\ Len(runs') <= MaxRuns /\ RunsAreCalculated'
    BY <1>1, FactsTyped DEF IInv, RunsAreCalculated
  <1> QED BY <1>1, <1>2, GenerationKeeps

-----------------------------------------------------------------------------
(* A session that decides about a suggestion *)

LEMMA RevisionsAreNumbers ==
    ASSUME IInv
    PROVE  /\ \A e : RevisionOf(e) \in 0..MaxRevision
           /\ \A e : Decided(e) <=> RevisionOf(e) # 0
  <1>1. \A e \in DOMAIN feedback : feedback[e].revision \in 1..MaxRevision
    BY FactsTyped DEF Feedback
  <1> QED BY <1>1, ConstantTypes DEF RevisionOf, Decided

LEMMA OpenFeedbackKeepsIInv ==
    ASSUME IInv, NEW t \in Sessions, NEW n \in DOMAIN runs,
           NEW expected \in {None} \cup 0..MaxRevision, NEW state \in Decisions,
           NEW until \in Dues \cup {None}, NEW i \in Suggested(n),
           OpenFeedback(t, n, i, expected, state, until)
    PROVE  IInv'
  <1> DEFINE e == EpisodeKey(i)
             held == IF expected = None THEN 0 ELSE expected
             value == [step |-> "feedback", of |-> <<n, i>>, episode |-> e,
                       expected |-> held, state |-> state, until |-> until]
  <1>1. /\ session' = [session EXCEPT ![t] = value] /\ UNCHANGED <<facts, runs, feedback>>
        /\ session[t] = None
        /\ Decided(e) => \A u \in Saving : session[u].episode # e \/ session[u].expected = 0
        /\ SeenCurrent(e, expected) /\ RevisionOf(e) < MaxRevision
    BY DEF OpenFeedback
  <1>2. /\ held \in 0..(MaxRevision - 1)
        /\ held # 0 => held = RevisionOf(e) /\ Decided(e)
    <2>1. held = 0 \/ (held = expected /\ expected = RevisionOf(e))
      BY <1>1 DEF SeenCurrent
    <2>2. RevisionOf(e) \in 0..MaxRevision /\ (Decided(e) <=> RevisionOf(e) # 0)
      BY RevisionsAreNumbers
    <2> HIDE DEF held, e
    <2> QED BY <1>1, <2>1, <2>2, ConstantTypes
  <1>3. /\ value.step = "feedback" /\ value.episode = e /\ value.expected = held
        /\ value.state \in Decisions /\ value.until \in Times \cup {None}
    BY ConstantTypes
  <1> HIDE DEF value, held, e
  <1>4. /\ DOMAIN session' = Sessions
        /\ \A u \in Sessions : session'[u] # None =>
              session'[u].step \in {"started", "snapshot", "feedback"}
        /\ \A u \in Sessions \ {t} : session'[u] = session[u]
        /\ session'[t] = value
    BY <1>1, <1>3, SessionTypes
  <1>5. \A u \in Saving' : u = t \/ (u \in Saving /\ session'[u] = session[u])
    BY <1>4 DEF Saving
  <1>6. TypeOK'
    BY <1>1, <1>4 DEF IInv, TypeOK, facts
  <1>7. RunsAreCalculated'
    BY <1>1 DEF IInv, RunsAreCalculated
  <1>8. SessionsFit'
    <2>1. GenerationFits(value)
      BY <1>3 DEF GenerationFits
    <2>2. \A u \in Sessions : session'[u] # None => GenerationFits(session'[u])
      BY <1>4, <2>1 DEF IInv, SessionsFit
    <2>3. \A u \in Saving' : DecisionFits(session[u])'
      <3> SUFFICES ASSUME NEW u \in Saving'
                   PROVE  DecisionFits(session[u])'
        OBVIOUS
      <3>1. CASE u = t
        BY <1>1, <1>2, <1>3, <1>4, <3>1 DEF DecisionFits, RevisionOf, Decided
      <3>2. CASE u # t
        <4>1. u \in Saving /\ session'[u] = session[u]
          BY <1>5, <3>2
        <4>2. DecisionFits(session[u])
          BY <4>1 DEF IInv, SessionsFit
        <4> QED BY <1>1, <4>1, <4>2 DEF DecisionFits, RevisionOf, Decided
      <3> QED BY <3>1, <3>2
    <2> QED BY <2>2, <2>3 DEF SessionsFit
  <1>9. RowsAreLocked'
    <2> SUFFICES ASSUME NEW u \in Saving', NEW w \in Saving', u # w,
                        session'[u].episode = session'[w].episode
                 PROVE  session'[u].expected = 0 \/ session'[w].expected = 0
      BY DEF RowsAreLocked
    <2>1. ASSUME NEW v \in Saving, session[v].episode = e, held # 0
          PROVE  session[v].expected = 0
      BY <1>1, <1>2, <2>1
    <2>2. CASE u # t /\ w # t
      BY <1>5, <2>2 DEF IInv, RowsAreLocked
    <2>3. CASE u = t
      BY <1>3, <1>4, <1>5, <2>1, <2>3
    <2>4. CASE w = t
      BY <1>3, <1>4, <1>5, <2>1, <2>4
    <2> QED BY <2>2, <2>3, <2>4
  <1> QED BY <1>6, <1>7, <1>8, <1>9 DEF IInv

\* A request that may save holds the decision that it has seen: the row is
\* locked, or there is none.
LEMMA SavedIsSeen ==
    ASSUME IInv, NEW t \in Saving, Insertable(t)
    PROVE  /\ session[t].expected = RevisionOf(session[t].episode)
           /\ RevisionOf(session[t].episode) < MaxRevision
  <1> PICK s : s = session[t]
    OBVIOUS
  <1>1. DecisionFits(s)
    BY DEF IInv, SessionsFit
  <1>2. s.expected \in 0..(MaxRevision - 1) /\ (s.expected # 0 => s.expected = RevisionOf(s.episode))
    BY <1>1 DEF DecisionFits
  <1>3. s.expected = 0 => RevisionOf(s.episode) = 0
    BY DEF Insertable, RevisionOf
  <1> QED BY <1>2, <1>3, ConstantTypes

LEMMA SaveKeepsIInv ==
    ASSUME IInv, NEW t \in Sessions, Save(t)
    PROVE  IInv'
  <1> PICK s : s = session[t]
    OBVIOUS
  <1> DEFINE new == [state |-> s.state, until |-> s.until, revision |-> NextRevision(s.episode)]
  <1>1. /\ t \in Saving /\ Insertable(t)
        /\ feedback' = [e \in DOMAIN feedback \cup {s.episode} |->
                           IF e = s.episode THEN new ELSE feedback[e]]
        /\ session' = [session EXCEPT ![t] = None]
        /\ UNCHANGED <<facts, runs>>
    BY DEF Save
  <1>2. DecisionFits(s) /\ s.expected = RevisionOf(s.episode)
        /\ RevisionOf(s.episode) < MaxRevision
    BY <1>1, SavedIsSeen DEF IInv, SessionsFit
  <1>3. new \in Feedback
    <2>1. RevisionOf(s.episode) \in 0..MaxRevision
      BY RevisionsAreNumbers
    <2>2. NextRevision(s.episode) \in 1..MaxRevision
      BY <1>2, <2>1, ConstantTypes DEF NextRevision
    <2> QED BY <1>2, <2>2 DEF DecisionFits, Feedback
  <1> HIDE DEF new
  <1>4. /\ DOMAIN session' = Sessions
        /\ \A u \in Sessions : session'[u] # None =>
              session'[u].step \in {"started", "snapshot", "feedback"}
        /\ \A u \in Sessions \ {t} : session'[u] = session[u]
        /\ session'[t] = None
    BY <1>1, SessionTypes
  <1>5. Saving' = Saving \ {t} /\ \A u \in Saving' : session'[u] = session[u]
    BY <1>4 DEF Saving
  <1>6. TypeOK'
    <2>1. \A e \in DOMAIN feedback' : feedback'[e] \in Feedback
      BY <1>1, <1>3, FactsTyped
    <2> QED BY <1>1, <1>4, <2>1 DEF IInv, TypeOK, facts
  <1>7. RunsAreCalculated'
    BY <1>1 DEF IInv, RunsAreCalculated
  <1>8. SessionsFit'
    <2>1. \A u \in Sessions : session'[u] # None => GenerationFits(session'[u])
      BY <1>4 DEF IInv, SessionsFit
    <2>2. \A u \in Saving' : DecisionFits(session[u])'
      <3> SUFFICES ASSUME NEW u \in Saving'
                   PROVE  DecisionFits(session[u])'
        OBVIOUS
      <3>1. u \in Saving /\ u # t /\ session'[u] = session[u]
        BY <1>5
      <3>2. DecisionFits(session[u])
        BY <3>1 DEF IInv, SessionsFit
      <3>3. session[u].episode = s.episode => session[u].expected = 0
        <4> SUFFICES ASSUME session[u].episode = s.episode, session[u].expected # 0
                     PROVE  FALSE
          OBVIOUS
        <4>1. s.expected = 0
          BY <1>1, <3>1 DEF IInv, RowsAreLocked
        <4>2. session[u].expected = RevisionOf(s.episode)
          BY <3>2 DEF DecisionFits
        <4> QED BY <1>2, <4>1, <4>2
      <3>4. session[u].episode # s.episode =>
                /\ session[u].episode \in DOMAIN feedback' <=> session[u].episode \in DOMAIN feedback
                /\ session[u].episode \in DOMAIN feedback =>
                      feedback'[session[u].episode] = feedback[session[u].episode]
        BY <1>1
      <3>5. session[u].expected # 0 => session[u].expected = RevisionOf(session[u].episode)'
        BY <3>1, <3>2, <3>3, <3>4 DEF DecisionFits, RevisionOf, Decided
      <3> QED BY <3>1, <3>2, <3>5 DEF DecisionFits, RevisionOf, Decided
    <2> QED BY <2>1, <2>2 DEF SessionsFit
  <1>9. RowsAreLocked'
    BY <1>5 DEF IInv, RowsAreLocked
  <1> QED BY <1>6, <1>7, <1>8, <1>9 DEF IInv

-----------------------------------------------------------------------------
(* Theorems *)

\* The inductive invariant: runs hold what is calculated, requests hold the
\* decision they have seen, by the row lock of the suggestion's episode.
THEOREM Invariance == Spec => []IInv
  <1>1. IInv /\ [Next]_vars => IInv'
    <2> SUFFICES ASSUME IInv, [Next]_vars
                 PROVE  IInv'
      OBVIOUS
    <2>1. CASE UNCHANGED vars
      <3>1. UNCHANGED <<runs, feedback, session>> /\ UNCHANGED <<day, purchase, due, cycle>>
        BY <2>1 DEF vars, facts
      <3>2. /\ day' \in FirstDay..LastDay /\ purchase' \in [Records -> Purchase \cup {None}]
            /\ due' \in Times /\ cycle' \in Cycle \cup {None}
        BY <3>1, FactsTyped
      <3> QED BY <3>1, <3>2, FactsKeep
    <2>2. CASE \/ NextDay \/ CompleteCycle
               \/ \E c \in Records : Void(c) \/ \E at \in Days : Buy(c, at)
               \/ \E d \in Dues : MoveDue(d) \/ StartCycle(d) \/ ExpectEnd(d)
               \/ StartCycle(None)
      BY <2>2, FactStepsKeepIInv
    <2>3. ASSUME NEW t \in Sessions, ReadFacts(t) \/ StoreRun(t) \/ Save(t) \/ Rollback(t)
          PROVE  IInv'
      BY <2>3, ReadFactsKeepsIInv, StoreRunKeepsIInv, SaveKeepsIInv, RollbackKeepsIInv
    <2>4. ASSUME NEW t \in Sessions, NEW daily \in BOOLEAN, NEW asOf \in FirstDay..LastDay,
                 Generate(t, daily, asOf)
          PROVE  IInv'
      BY <2>4, GenerateKeepsIInv
    <2>5. ASSUME NEW t \in Sessions, NEW n \in DOMAIN runs,
                 NEW expected \in {None} \cup 0..MaxRevision, NEW state \in Decisions,
                 NEW until \in Dues \cup {None}, NEW i \in Suggested(n),
                 OpenFeedback(t, n, i, expected, state, until)
          PROVE  IInv'
      BY <2>5, OpenFeedbackKeepsIInv
    <2> QED BY <2>1, <2>2, <2>3, <2>4, <2>5 DEF Next
  <1> QED BY <1>1, InitIsCorrect, PTL DEF Spec

\* Every variable keeps its type: a run's suggestions lie within its horizon,
\* and the days of a use cycle's end and of the next purchase are numbers.
THEOREM TypeCorrect == Spec => []TypeOK
  <1>1. IInv => TypeOK
    BY DEF IInv
  <1> QED BY <1>1, Invariance, PTL

\* calculate(), the loop that moves predicted_at on: a repeat purchase is expected on
\* the first day not before the run that lies a whole number of typical
\* intervals after the last purchase, for every history of purchases.
THEOREM RepeatsAreOnInterval == Spec => []RepeatIsNextInterval
  <1>1. IInv => RepeatIsNextInterval
    <2> SUFFICES ASSUME IInv, NEW n \in DOMAIN runs, NEW i \in Suggested(n),
                        i.kind = "repeat_purchase"
                 PROVE  LET s == runs[n].snapshot
                            gap == LowerMedian(Interval(s.purchases), Positive(s.purchases))
                            last == LastOf(s.purchases).at
                        IN i.at = SetMin({x \in Times : /\ x > last /\ x >= s.asOf
                                                        /\ (x - last) % gap = 0})
      BY DEF RepeatIsNextInterval
    <2> PICK s : s = runs[n].snapshot
      OBVIOUS
    <2>1. IsSnapshot(s) /\ i \in Calculate(s)
      BY DEF IInv, RunsAreCalculated, Suggested
    <2> QED BY <2>1, RepeatIsCalculated
  <1> QED BY <1>1, Invariance, PTL

\* episode_key(): feedback about a suggestion is shown with the same suggestion
\* of every other run, whatever day that run predicts.
THEOREM DecisionsOutliveRuns == Spec => []DecisionOutlivesRun
  <1>1. IInv => DecisionOutlivesRun
    <2> SUFFICES ASSUME IInv, NEW n \in DOMAIN runs, NEW m \in DOMAIN runs,
                        NEW i \in Suggested(n), NEW j \in Suggested(m),
                        i.kind = j.kind,
                        i.kind = "repeat_purchase" =>
                           LastOf(runs[n].snapshot.purchases) = LastOf(runs[m].snapshot.purchases),
                        i.kind = "commitment_due" =>
                           runs[n].snapshot.due = runs[m].snapshot.due
                 PROVE  Shown(i) = Shown(j)
      BY DEF DecisionOutlivesRun
    <2>1. /\ IsSnapshot(runs[n].snapshot) /\ i \in Calculate(runs[n].snapshot)
          /\ IsSnapshot(runs[m].snapshot) /\ j \in Calculate(runs[m].snapshot)
      BY DEF IInv, RunsAreCalculated, Suggested
    <2>2. i.anchor = j.anchor
      BY <2>1, AnchorOf DEF Kinds
    <2>3. EpisodeKey(i) = EpisodeKey(j)
      BY <2>2 DEF EpisodeKey
    <2> QED BY <2>3 DEF Shown
  <1> QED BY <1>1, Invariance, PTL

\* save_feedback(): a request replaces the decision that it has seen, and no
\* other, by the row lock and the unique constraint on the episode.
THEOREM DecisionsReplaceSeen == Spec => DecisionReplacesSeen
  <1> DEFINE A == \A e \in DOMAIN feedback' :
                    (~Decided(e) \/ feedback'[e] # feedback[e]) =>
                        \E t \in Saving : /\ session'[t] = None
                                          /\ session[t].episode = e
                                          /\ session[t].expected = RevisionOf(e)
  <1>1. IInv /\ [Next]_vars => [A]_vars
    <2> SUFFICES ASSUME IInv, Next, NEW e \in DOMAIN feedback',
                        ~Decided(e) \/ feedback'[e] # feedback[e]
                 PROVE  \E t \in Saving : /\ session'[t] = None
                                          /\ session[t].episode = e
                                          /\ session[t].expected = RevisionOf(e)
      OBVIOUS
    <2>1. feedback' # feedback
      BY DEF Decided
    <2>2. PICK t \in Sessions : Save(t)
      <3>1. ~(NextDay \/ CompleteCycle)
        BY <2>1 DEF NextDay, CompleteCycle
      <3>2. \A c \in Records : ~Void(c) /\ \A at \in Days : ~Buy(c, at)
        BY <2>1 DEF Void, Buy
      <3>3. \A d : ~(MoveDue(d) \/ StartCycle(d) \/ ExpectEnd(d))
        BY <2>1 DEF MoveDue, StartCycle, ExpectEnd
      <3>4. \A t \in Sessions : ~(ReadFacts(t) \/ StoreRun(t) \/ Rollback(t))
        BY <2>1 DEF ReadFacts, StoreRun, Rollback
      <3>5. \A t \in Sessions : \A daily, asOf : ~Generate(t, daily, asOf)
        BY <2>1 DEF Generate
      <3>6. \A t \in Sessions : \A n, i, expected, state, until :
                ~OpenFeedback(t, n, i, expected, state, until)
        BY <2>1 DEF OpenFeedback
      <3> QED BY <3>1, <3>2, <3>3, <3>4, <3>5, <3>6 DEF Next
    <2>3. t \in Saving /\ Insertable(t) /\ session'[t] = None
      BY <2>2, FactsTyped DEF Save
    <2>4. e = session[t].episode
      <3>1. PICK new : feedback' = [x \in DOMAIN feedback \cup {session[t].episode} |->
                                       IF x = session[t].episode THEN new ELSE feedback[x]]
        BY <2>2 DEF Save
      <3>2. e \in DOMAIN feedback => feedback'[e] # feedback[e]
        BY DEF Decided
      <3>3. \A x \in DOMAIN feedback' : x # session[t].episode =>
                x \in DOMAIN feedback /\ feedback'[x] = feedback[x]
        BY <3>1
      <3>4. e # session[t].episode => e \in DOMAIN feedback /\ feedback'[e] = feedback[e]
        BY <3>3
      <3> QED BY <3>2, <3>4
    <2> QED BY <2>3, <2>4, SavedIsSeen
  <1> QED BY <1>1, Invariance, PTL DEF Spec, DecisionReplacesSeen
=============================================================================
