--------------------------- MODULE IdentitiesProofs ---------------------------
(* What holds of Identities for every value of its constants. *)
EXTENDS Identities, FiniteSetTheorems, WellFoundedInduction, TLAPS

-----------------------------------------------------------------------------
(* Induction: what fails for some number fails for a least one *)

LEMMA LeastNumber ==
  ASSUME NEW S, S \subseteq Nat, S # {}
  PROVE  \E n \in S : \A m \in S : n <= m
<1> DEFINE Before == {ss \in Nat \X Nat : ss[1] < ss[2]}
<1>1. IsWellFoundedOn(Before, Nat)
  BY NatLessThanWellFounded DEF OpToRel
<1> HIDE DEF Before
<1>2. PICK n \in S : \A m \in S : <<m, n>> \notin Before
  BY <1>1, WFMin
<1>3. ASSUME NEW m \in S PROVE n <= m
  <2>1. m \in Nat /\ n \in Nat
    OBVIOUS
  <2>2. ~(m < n)
    BY <1>2, <2>1 DEF Before
  <2>. QED
    BY <2>1, <2>2
<1>. QED
  BY <1>3

-----------------------------------------------------------------------------
(* Chains of redirects: Follow, as a function of the redirects *)

Row(r, f, n) == [i \in Ids |-> IF n = 0 \/ r[i] = None THEN i ELSE f[n - 1][r[i]]]
Walk(r) == CHOOSE f : f = [n \in 0..Cardinality(Ids) |-> Row(r, f, n)]
RootOf(r, i) == Walk(r)[Cardinality(Ids)][i]

Redirects == [Ids -> Ids \cup {None}]
Orders(r, depth) ==
    /\ depth \in [Ids -> 0..Cardinality(Ids)]
    /\ \A i \in Ids : r[i] # None => depth[r[i]] < depth[i]

LEMMA RootIsWalked == Follow = Walk(redirect) /\ \A i : Root(i) = RootOf(redirect, i)
  BY DEF Follow, Walk, Row, Root, RootOf

LEMMA IdsAreCounted == Cardinality(Ids) \in Nat
  BY ConstantsAssumption, FS_CardinalityType

\* The recursion of Follow has a solution.
LEMMA WalkUnfolds ==
  ASSUME NEW r
  PROVE  Walk(r) = [n \in 0..Cardinality(Ids) |-> Row(r, Walk(r), n)]
<1> DEFINE Solved(m) == \E f : f = [n \in 0..m |-> Row(r, f, n)]
           Unsolved == {m \in Nat : ~Solved(m)}
<1>1. Unsolved = {}
  <2> SUFFICES ASSUME Unsolved # {} PROVE FALSE
    OBVIOUS
  <2>1. PICK m \in Unsolved : \A k \in Unsolved : m <= k
    BY LeastNumber
  <2>2. m \in Nat /\ ~Solved(m)
    OBVIOUS
  <2>3. CASE m = 0
    <3> DEFINE f == [n \in 0..m |-> [i \in Ids |-> i]]
    <3>1. ASSUME NEW n \in 0..m PROVE [i \in Ids |-> i] = Row(r, f, n)
      <4>1. n = 0
        BY <2>3
      <4>. QED
        BY <4>1 DEF Row
    <3>2. f = [n \in 0..m |-> Row(r, f, n)]
      BY <3>1
    <3>. QED
      BY <2>2, <3>2
  <2>4. CASE m # 0
    <3>1. m - 1 \in Nat /\ ~(m <= m - 1)
      BY <2>2, <2>4
    <3>2. Solved(m - 1)
      BY <2>1, <3>1
    <3>3. PICK f : f = [n \in 0..(m - 1) |-> Row(r, f, n)]
      BY <3>2
    <3> DEFINE g == [n \in 0..m |-> IF n = m THEN Row(r, f, n) ELSE f[n]]
    <3>4. ASSUME NEW n \in 0..m PROVE g[n] = Row(r, g, n)
      <4>1. g[n] = Row(r, f, n)
        <5>1. CASE n = m
          BY <5>1
        <5>2. CASE n # m
          <6>1. n \in 0..(m - 1)
            BY <2>2, <5>2
          <6>. QED
            BY <3>3, <5>2, <6>1
        <5>. QED
          BY <5>1, <5>2
      <4>2. CASE n = 0
        BY <4>1, <4>2 DEF Row
      <4>3. CASE n # 0
        <5>1. n - 1 \in 0..m /\ n - 1 # m
          BY <2>2, <4>3
        <5>2. g[n - 1] = f[n - 1]
          BY <5>1
        <5>. QED
          BY <4>1, <5>2 DEF Row
      <4>. QED
        BY <4>2, <4>3
    <3>5. g = [n \in 0..m |-> g[n]]
      OBVIOUS
    <3> HIDE DEF g
    <3>6. g = [n \in 0..m |-> Row(r, g, n)]
      BY <3>4, <3>5
    <3>. QED
      BY <2>2, <3>6
  <2>. QED
    BY <2>3, <2>4
<1>2. Solved(Cardinality(Ids))
  BY <1>1, IdsAreCounted
<1>. QED
  BY <1>2 DEF Walk

LEMMA WalkStep ==
  ASSUME NEW r, NEW n \in 0..Cardinality(Ids), NEW i \in Ids
  PROVE  Walk(r)[n][i] = IF n = 0 \/ r[i] = None THEN i ELSE Walk(r)[n - 1][r[i]]
<1>1. Walk(r)[n] = Row(r, Walk(r), n)
  BY WalkUnfolds
<1>. QED
  BY <1>1 DEF Row

\* Where redirects descend, a walk that is long enough ends, and keeps within
\* every set that the redirects do not leave; a longer one ends there too.
LEMMA WalkEnds ==
  ASSUME NEW r \in Redirects, NEW depth, Orders(r, depth),
         NEW E, \A i \in Ids \cap E : r[i] # None => r[i] \in E
  PROVE  \A n \in 0..Cardinality(Ids), i \in Ids : depth[i] <= n =>
            /\ Walk(r)[n][i] \in Ids
            /\ r[Walk(r)[n][i]] = None
            /\ i \in E => Walk(r)[n][i] \in E
            /\ n < Cardinality(Ids) => Walk(r)[n + 1][i] = Walk(r)[n][i]
<1> DEFINE Good(n, i) ==
              /\ Walk(r)[n][i] \in Ids
              /\ r[Walk(r)[n][i]] = None
              /\ i \in E => Walk(r)[n][i] \in E
              /\ n < Cardinality(Ids) => Walk(r)[n + 1][i] = Walk(r)[n][i]
           Bad == {n \in 0..Cardinality(Ids) : \E i \in Ids : depth[i] <= n /\ ~Good(n, i)}
<1>1. /\ Cardinality(Ids) \in Nat
      /\ \A i \in Ids : /\ depth[i] \in Nat
                        /\ r[i] \in Ids \cup {None}
                        /\ r[i] # None => r[i] \in Ids /\ depth[r[i]] < depth[i]
  BY IdsAreCounted DEF Redirects, Orders
<1>2. ASSUME NEW n \in 0..Cardinality(Ids), NEW i \in Ids, r[i] = None
      PROVE  Good(n, i)
  <2>1. Walk(r)[n][i] = i
    BY <1>2, WalkStep
  <2>2. n < Cardinality(Ids) => Walk(r)[n + 1][i] = i
    BY <1>1, <1>2, WalkStep
  <2>. QED
    BY <1>2, <2>1, <2>2
<1>3. ASSUME NEW n \in 0..Cardinality(Ids), NEW i \in Ids, r[i] # None,
             n > 0, Good(n - 1, r[i])
      PROVE  Good(n, i)
  <2>1. r[i] \in Ids /\ n - 1 < Cardinality(Ids) /\ (n - 1) + 1 = n
    BY <1>1, <1>3
  <2>2. Walk(r)[n][i] = Walk(r)[n - 1][r[i]]
    BY <1>3, WalkStep
  <2>3. n < Cardinality(Ids) => Walk(r)[n + 1][i] = Walk(r)[n][r[i]]
    <3>1. n < Cardinality(Ids) => n + 1 \in 0..Cardinality(Ids) /\ n + 1 # 0 /\ (n + 1) - 1 = n
      BY <1>1
    <3>. QED
      BY <1>3, <3>1, WalkStep
  <2>4. Walk(r)[n][r[i]] = Walk(r)[n - 1][r[i]]
    BY <1>3, <2>1
  <2>. QED
    BY <1>3, <2>1, <2>2, <2>3, <2>4
<1> SUFFICES \A n \in 0..Cardinality(Ids), i \in Ids : depth[i] <= n => Good(n, i)
  OBVIOUS
<1> HIDE DEF Good
<1> SUFFICES ASSUME NEW p \in 0..Cardinality(Ids), NEW j \in Ids, depth[j] <= p, ~Good(p, j)
             PROVE  FALSE
  OBVIOUS
<1>4. Bad # {} /\ Bad \subseteq Nat
  BY <1>1
<1>5. PICK n \in Bad : \A m \in Bad : n <= m
  BY <1>4, LeastNumber
<1>6. PICK i \in Ids : depth[i] <= n /\ ~Good(n, i)
  BY <1>5
<1>7. n \in 0..Cardinality(Ids) /\ r[i] # None
  BY <1>2, <1>5, <1>6
<1>8. r[i] \in Ids /\ depth[r[i]] <= n - 1 /\ n > 0
  BY <1>1, <1>6, <1>7
<1>9. n - 1 \in 0..Cardinality(Ids) /\ ~(n <= n - 1)
  BY <1>1, <1>7, <1>8
<1>10. Good(n - 1, r[i])
  BY <1>5, <1>8, <1>9
<1>. QED
  BY <1>3, <1>6, <1>7, <1>8, <1>10

\* The root of an identity is its own, or that of the identity it is merged into.
LEMMA RootFacts ==
  ASSUME NEW r \in Redirects, NEW depth, Orders(r, depth),
         NEW E, \A i \in Ids \cap E : r[i] # None => r[i] \in E,
         NEW i \in Ids
  PROVE  /\ RootOf(r, i) \in Ids
         /\ r[RootOf(r, i)] = None
         /\ i \in E => RootOf(r, i) \in E
         /\ RootOf(r, i) = IF r[i] = None THEN i ELSE RootOf(r, r[i])
<1> DEFINE N == Cardinality(Ids)
<1>1. /\ N \in Nat
      /\ \A j \in Ids : /\ depth[j] \in 0..N
                        /\ r[j] \in Ids \cup {None}
                        /\ r[j] # None => r[j] \in Ids /\ depth[r[j]] < depth[j]
  BY IdsAreCounted DEF Redirects, Orders
<1>2. /\ RootOf(r, i) \in Ids
      /\ r[RootOf(r, i)] = None
      /\ i \in E => RootOf(r, i) \in E
  BY <1>1, WalkEnds DEF RootOf
<1>3. CASE r[i] = None
  BY <1>1, <1>2, <1>3, WalkStep DEF RootOf
<1>4. CASE r[i] # None
  <2>1. r[i] \in Ids /\ depth[r[i]] <= N - 1 /\ N - 1 \in 0..N /\ N # 0 /\ N - 1 < N
    BY <1>1, <1>4
  <2>2. Walk(r)[N][i] = Walk(r)[N - 1][r[i]]
    BY <1>1, <1>4, <2>1, WalkStep
  <2>3. Walk(r)[(N - 1) + 1][r[i]] = Walk(r)[N - 1][r[i]]
    BY <2>1, WalkEnds
  <2>4. (N - 1) + 1 = N
    BY <1>1
  <2>. QED
    BY <1>2, <1>4, <2>2, <2>3, <2>4 DEF RootOf
<1>. QED
  BY <1>2, <1>3, <1>4

\* Nothing else satisfies that equation.
LEMMA RootIsUnique ==
  ASSUME NEW r \in Redirects, NEW depth, Orders(r, depth), NEW g,
         \A i \in Ids : g[i] = IF r[i] = None THEN i ELSE g[r[i]]
  PROVE  \A i \in Ids : RootOf(r, i) = g[i]
<1> DEFINE Bad == {i \in Ids : RootOf(r, i) # g[i]}
           Depths == {n \in Nat : \E i \in Bad : depth[i] = n}
<1> SUFFICES ASSUME Bad # {} PROVE FALSE
  OBVIOUS
<1>1. \A i \in Ids : /\ depth[i] \in Nat
                     /\ r[i] # None => r[i] \in Ids /\ depth[r[i]] < depth[i]
  BY IdsAreCounted DEF Redirects, Orders
<1>2. Depths # {}
  BY <1>1
<1>3. PICK n \in Depths : \A m \in Depths : n <= m
  BY <1>2, LeastNumber
<1>4. PICK i \in Bad : depth[i] = n
  BY <1>3
<1>5. \A j \in Ids : RootOf(r, j) = IF r[j] = None THEN j ELSE RootOf(r, r[j])
  <2>1. \A j \in Ids \cap Ids : r[j] # None => r[j] \in Ids
    BY <1>1
  <2>. QED
    BY <2>1, RootFacts
<1>6. r[i] # None /\ r[i] \in Bad
  BY <1>1, <1>4, <1>5
<1>7. depth[r[i]] \in Depths /\ depth[r[i]] < n
  BY <1>1, <1>4, <1>6
<1>. QED
  BY <1>1, <1>3, <1>6, <1>7

-----------------------------------------------------------------------------
(* The initial states *)

LEMMA InitIInv == Init => IInv
<1> SUFFICES ASSUME Init PROVE IInv
  OBVIOUS
<1>1. TypeOK
  BY DEF Init, TypeOK
<1>2. Merged = {} /\ ActiveRules = {} /\ \A k : Running(k) = {}
  BY DEF Init, Merged, ActiveRules, Running
<1>3. MergedIsRetired
  BY <1>2 DEF Init, MergedIsRetired, Exists
<1>4. RedirectsDescend
  <2> DEFINE depth == [i \in Ids |-> 0]
  <2>1. depth \in [Ids -> 0..Cardinality(Merged)]
    BY <1>2, FS_EmptySet
  <2>. QED
    BY <1>2, <2>1 DEF RedirectsDescend
<1>5. AcceptedIsMerged /\ AcceptanceIsHeld /\ ProposalIsNew
  BY <1>2 DEF Init, AcceptedIsMerged, AcceptanceIsHeld, ProposalIsNew
<1>6. RowsAreHeldInOrder /\ ReviewsAreCurrent /\ RuleIsAlone
  BY <1>2 DEF RowsAreHeldInOrder, ReviewsAreCurrent, RuleIsAlone
<1>. QED
  BY <1>1, <1>3, <1>4, <1>5, <1>6 DEF IInv

-----------------------------------------------------------------------------
(* What a step leaves alone *)

\* The fields of a request.
LEMMA SessionFacts ==
  ASSUME IInv, NEW t \in Sessions, session[t] # None
  PROVE  /\ session[t] \in Session
         /\ session[t].kind = "merge" =>
               /\ session[t].pair \in Pairs
               /\ session[t].pair[1] \in Ids /\ session[t].pair[2] \in Ids
               /\ session[t].pair[1] # session[t].pair[2]
               /\ session[t].accepts \in BOOLEAN
               /\ session[t].held \subseteq Ids
         /\ session[t].kind = "propose" => session[t].found \subseteq Pairs
         /\ session[t].kind = "assign" => session[t].holder \in Holders /\ session[t].id \in Ids
         /\ session[t].kind = "review" =>
               /\ session[t].item \in Items /\ session[t].id \in Ids
               /\ session[t].rule \in Rules \cup {None}
<1>1. session[t] \in Session
  BY DEF IInv, TypeOK
<1>2. ASSUME session[t].kind = "merge"
      PROVE  /\ session[t].pair \in Pairs /\ session[t].accepts \in BOOLEAN
             /\ session[t].held \subseteq Ids
  BY <1>1, <1>2 DEF Session
<1>3. session[t].kind = "merge" => /\ session[t].pair[1] \in Ids /\ session[t].pair[2] \in Ids
                                   /\ session[t].pair[1] # session[t].pair[2]
  BY <1>2 DEF Pairs
<1>4. session[t].kind = "propose" => session[t].found \subseteq Pairs
  BY <1>1 DEF Session
<1>5. session[t].kind = "assign" => session[t].holder \in Holders /\ session[t].id \in Ids
  BY <1>1 DEF Session
<1>6. session[t].kind = "review" => /\ session[t].item \in Items /\ session[t].id \in Ids
                                    /\ session[t].rule \in Rules \cup {None}
  BY <1>1 DEF Session
<1>. QED
  BY <1>1, <1>2, <1>3, <1>4, <1>5, <1>6

\* What runs after one request was written.
LEMMA SessionWritten ==
  ASSUME IInv, NEW t \in Sessions, NEW s \in Session \cup {None},
         session' = [session EXCEPT ![t] = s]
  PROVE  /\ session' \in [Sessions -> Session \cup {None}]
         /\ session'[t] = s
         /\ \A u \in Sessions \ {t} : session'[u] = session[u]
         /\ \A k : Running(k)' = IF s # None /\ s.kind = k
                                 THEN Running(k) \cup {t} ELSE Running(k) \ {t}
  BY DEF IInv, TypeOK, Running

LEMMA SessionEnded ==
  ASSUME IInv, NEW t \in Sessions, session' = [session EXCEPT ![t] = None]
  PROVE  /\ session' \in [Sessions -> Session \cup {None}]
         /\ session'[t] = None
         /\ \A u \in Sessions \ {t} : session'[u] = session[u]
         /\ \A k : Running(k)' = Running(k) \ {t}
  BY DEF IInv, TypeOK, Running

\* Only Lock adds to the rows that a merge holds.
LEMMA HeldStays ==
  ASSUME IInv, NEW t \in Sessions, NEW s \in Session \cup {None},
         session' = [session EXCEPT ![t] = s],
         s # None /\ s.kind = "merge" => s.held = {}
  PROVE  RowsAreHeldInOrder'
<1>1. /\ session'[t] = s
      /\ \A u \in Sessions \ {t} : session'[u] = session[u]
      /\ \A u \in Running("merge")' : u \in Running("merge") \ {t} \/ (u = t /\ s.held = {})
      /\ Running("merge") \subseteq Sessions
  BY SessionWritten DEF Running
<1> SUFFICES ASSUME NEW u \in Running("merge")'
             PROVE  /\ session'[u].held \subseteq {session'[u].pair[1], session'[u].pair[2]}
                    /\ \A i \in {session'[u].pair[1], session'[u].pair[2]} \ session'[u].held,
                          j \in session'[u].held : j < i
                    /\ \A v \in Running("merge")' \ {u} : session'[v].held \cap session'[u].held = {}
  BY DEF RowsAreHeldInOrder
<1>2. CASE u = t
  BY <1>1, <1>2
<1>3. CASE u # t
  BY <1>1, <1>3 DEF IInv, RowsAreHeldInOrder
<1>. QED
  BY <1>2, <1>3

\* A request that accepts or proposes starts alone.
LEMMA SuggestionsStay ==
  ASSUME IInv, UNCHANGED <<redirect, suggestion>>,
         NEW t \in Sessions, NEW s \in Session \cup {None},
         session' = [session EXCEPT ![t] = s],
         s # None /\ s.kind = "merge" /\ s.accepts =>
             /\ suggestion[s.pair] = "pending"
             /\ \A u \in Running("merge") \ {t} : ~(session[u].accepts /\ session[u].pair = s.pair),
         s # None /\ s.kind = "propose" =>
             Running("propose") = {} /\ \A p \in s.found : suggestion[p] = "none"
  PROVE  AcceptedIsMerged' /\ AcceptanceIsHeld' /\ ProposalIsNew'
<1>1. /\ session'[t] = s
      /\ \A u \in Sessions \ {t} : session'[u] = session[u]
      /\ \A k : Running(k)' = IF s # None /\ s.kind = k
                              THEN Running(k) \cup {t} ELSE Running(k) \ {t}
  BY SessionWritten
<1>2. AcceptedIsMerged' /\ \A k : Running(k) \subseteq Sessions
  BY DEF IInv, AcceptedIsMerged, Running
<1>3. AcceptanceIsHeld'
  <2> SUFFICES ASSUME NEW u \in Running("merge")', session'[u].accepts
               PROVE  /\ suggestion[session'[u].pair] = "pending"
                      /\ \A v \in Running("merge")' :
                            session'[v].accepts /\ session'[v].pair = session'[u].pair => v = u
    BY DEF AcceptanceIsHeld
  <2>1. CASE u = t
    BY <1>1, <2>1
  <2>2. CASE u # t
    BY <1>1, <1>2, <2>2 DEF IInv, AcceptanceIsHeld
  <2>. QED
    BY <2>1, <2>2
<1>4. ProposalIsNew'
  <2> SUFFICES ASSUME NEW u \in Running("propose")'
               PROVE  /\ Running("propose")' = {u}
                      /\ \A p \in session'[u].found : suggestion[p] = "none"
    BY DEF ProposalIsNew
  <2>1. CASE u = t
    <3>1. s # None /\ s.kind = "propose"
      BY <1>1, <2>1
    <3>. QED
      BY <1>1, <2>1, <3>1
  <2>2. CASE u # t
    BY <1>1, <1>2, <2>2 DEF IInv, ProposalIsNew
  <2>. QED
    BY <2>1, <2>2
<1>. QED
  BY <1>2, <1>3, <1>4

\* A review starts with an item, and with a rule that no other review counts.
LEMMA ReviewsStay ==
  ASSUME IInv, UNCHANGED reviews,
         NEW t \in Sessions, NEW s \in Session \cup {None},
         session' = [session EXCEPT ![t] = s],
         s # None /\ s.kind = "review" =>
             /\ item[s.item] # None
             /\ s.rule # None => /\ rule[s.rule] # None /\ rule[s.rule].evidence < MaxEvidence
                                 /\ RuleFree(s.rule)
  PROVE  /\ rule' \in [Rules -> Rule \cup {None}]
         /\ item' \in [Items -> Item \cup {None}]
         /\ ReviewsAreCurrent' /\ RuleIsAlone'
<1>1. /\ session'[t] = s
      /\ \A u \in Sessions \ {t} : session'[u] = session[u]
      /\ Running("review")' = IF s # None /\ s.kind = "review"
                              THEN Running("review") \cup {t} ELSE Running("review") \ {t}
      /\ Running("review") \subseteq Sessions
  BY SessionWritten DEF Running
<1>2. UNCHANGED <<rule, item>>
  BY DEF reviews
<1>3. RuleIsAlone'
  BY <1>2 DEF IInv, RuleIsAlone, ActiveRules
<1>4. ReviewsAreCurrent'
  <2> SUFFICES ASSUME NEW u \in Running("review")'
               PROVE  /\ item[session'[u].item] # None
                      /\ session'[u].rule # None =>
                            /\ rule[session'[u].rule] # None
                            /\ rule[session'[u].rule].evidence < MaxEvidence
                            /\ \A v \in Running("review")' :
                                  session'[v].rule = session'[u].rule => v = u
    <3>1. rule' = rule /\ item' = item
      BY <1>2
    <3>. QED
      BY <3>1 DEF ReviewsAreCurrent
  <2>1. CASE u = t
    BY <1>1, <2>1 DEF RuleFree
  <2>2. CASE u # t
    BY <1>1, <2>2 DEF IInv, ReviewsAreCurrent, RuleFree
  <2>. QED
    BY <2>1, <2>2
<1>. QED
  BY <1>2, <1>3, <1>4 DEF IInv, TypeOK

LEMMA IdentitiesStay ==
  ASSUME IInv, UNCHANGED identities
  PROVE  /\ name' \in [Ids -> Names \cup {None}]
         /\ active' \in [Ids -> BOOLEAN]
         /\ redirect' \in [Ids -> Ids \cup {None}]
         /\ MergedIsRetired' /\ RedirectsDescend'
<1>1. UNCHANGED <<name, active, redirect>>
  BY DEF identities
<1>2. Merged' = Merged
  BY <1>1 DEF Merged
<1>. QED
  BY <1>1, <1>2 DEF IInv, TypeOK, MergedIsRetired, RedirectsDescend, Exists

-----------------------------------------------------------------------------
(* Steps that write a request and at most a reference to an identity *)

LEMMA SessionIInv ==
  ASSUME IInv, UNCHANGED <<identities, suggestion, reviews>>,
         uses' \in [Holders -> Ids \cup {None}],
         NEW t \in Sessions, NEW s \in Session \cup {None},
         session' = [session EXCEPT ![t] = s],
         s # None /\ s.kind = "merge" => s.held = {},
         s # None /\ s.kind = "merge" /\ s.accepts =>
             /\ suggestion[s.pair] = "pending"
             /\ \A u \in Running("merge") \ {t} : ~(session[u].accepts /\ session[u].pair = s.pair),
         s # None /\ s.kind = "propose" =>
             Running("propose") = {} /\ \A p \in s.found : suggestion[p] = "none",
         s # None /\ s.kind = "review" =>
             /\ item[s.item] # None
             /\ s.rule # None => /\ rule[s.rule] # None /\ rule[s.rule].evidence < MaxEvidence
                                 /\ RuleFree(s.rule)
  PROVE  IInv'
<1>1. RowsAreHeldInOrder'
  BY HeldStays
<1>2. AcceptedIsMerged' /\ AcceptanceIsHeld' /\ ProposalIsNew'
  BY SuggestionsStay DEF identities
<1>3. /\ rule' \in [Rules -> Rule \cup {None}]
      /\ item' \in [Items -> Item \cup {None}]
      /\ ReviewsAreCurrent' /\ RuleIsAlone'
  BY ReviewsStay
<1>4. /\ session' \in [Sessions -> Session \cup {None}]
      /\ suggestion' \in [Pairs -> {"none", "pending", "accepted", "rejected"}]
  BY SessionWritten DEF IInv, TypeOK
<1>. QED
  BY <1>1, <1>2, <1>3, <1>4, IdentitiesStay DEF IInv, TypeOK

\* A request that ends.
LEMMA EndIInv ==
  ASSUME IInv, UNCHANGED <<identities, suggestion, reviews>>,
         uses' \in [Holders -> Ids \cup {None}], NEW t \in Sessions, End(t)
  PROVE  IInv'
<1>1. session' = [session EXCEPT ![t] = None]
  BY DEF End
<1>. QED
  BY <1>1, SessionIInv

LEMMA EndsIInv ==
  ASSUME IInv, NEW t \in Sessions,
         Rollback(t) \/ RefuseMerge(t) \/ RefuseReview(t) \/ Assign(t)
  PROVE  IInv'
<1>1. uses \in [Holders -> Ids \cup {None}]
  BY DEF IInv, TypeOK
<1>2. CASE Rollback(t) \/ RefuseMerge(t) \/ RefuseReview(t)
  BY <1>1, <1>2, EndIInv DEF Rollback, RefuseMerge, RefuseReview
<1>3. CASE Assign(t)
  <2>1. session[t].id \in Ids
    BY <1>3, SessionFacts DEF Assign, Is
  <2>2. uses' \in [Holders -> Ids \cup {None}]
    BY <1>1, <1>3, <2>1 DEF Assign
  <2>. QED
    BY <1>3, <2>2, EndIInv DEF Assign
<1>. QED
  BY <1>2, <1>3

LEMMA BeginIInv ==
  ASSUME IInv, NEW t \in Sessions,
         \/ \E p \in Pairs : OpenMerge(t, p) \/ Accept(t, p)
         \/ \E h \in Holders, i \in Ids : OpenAssign(t, h, i)
         \/ \E x \in Items, i \in Ids, learn \in BOOLEAN, settled \in SUBSET {"amount"} :
               OpenReview(t, x, i, learn, settled)
         \/ Propose(t)
  PROVE  IInv'
<1>1. uses \in [Holders -> Ids \cup {None}]
  BY DEF IInv, TypeOK
<1>2. ASSUME NEW p \in Pairs, OpenMerge(t, p) PROVE IInv'
  <2> DEFINE s == [kind |-> "merge", pair |-> p, accepts |-> FALSE, held |-> {}]
  <2>1. s \in Session /\ s.kind = "merge" /\ s.held = {} /\ ~s.accepts
    BY DEF Session
  <2>2. /\ session' = [session EXCEPT ![t] = s]
        /\ UNCHANGED <<identities, suggestion, uses, reviews>>
    BY <1>2 DEF OpenMerge, Begin
  <2> HIDE DEF s
  <2>. QED
    BY <1>1, <2>1, <2>2, SessionIInv
<1>3. ASSUME NEW p \in Pairs, Accept(t, p) PROVE IInv'
  <2> DEFINE s == [kind |-> "merge", pair |-> p, accepts |-> TRUE, held |-> {}]
  <2>1. s \in Session /\ s.kind = "merge" /\ s.held = {} /\ s.pair = p
    BY DEF Session
  <2>2. /\ session' = [session EXCEPT ![t] = s]
        /\ UNCHANGED <<identities, suggestion, uses, reviews>>
        /\ suggestion[p] = "pending"
        /\ \A u \in Running("merge") \ {t} : ~(session[u].accepts /\ session[u].pair = p)
    BY <1>3 DEF Accept, Begin, SuggestionFree
  <2> HIDE DEF s
  <2>. QED
    BY <1>1, <2>1, <2>2, SessionIInv
<1>4. ASSUME NEW h \in Holders, NEW i \in Ids, OpenAssign(t, h, i) PROVE IInv'
  <2> DEFINE s == [kind |-> "assign", holder |-> h, id |-> i]
  <2>1. s \in Session /\ s.kind = "assign"
    BY DEF Session
  <2>2. /\ session' = [session EXCEPT ![t] = s]
        /\ UNCHANGED <<identities, suggestion, uses, reviews>>
    BY <1>4 DEF OpenAssign, Begin
  <2> HIDE DEF s
  <2>. QED
    BY <1>1, <2>1, <2>2, SessionIInv
<1>5. ASSUME NEW x \in Items, NEW i \in Ids, NEW learn \in BOOLEAN, NEW settled \in SUBSET {"amount"},
             OpenReview(t, x, i, learn, settled)
      PROVE  IInv'
  <2>1. /\ item[x] # None
        /\ UNCHANGED <<identities, suggestion, uses, reviews>>
    BY <1>5 DEF OpenReview
  <2>2. PICK r \in IF learn /\ ActiveRules # {} THEN ActiveRules ELSE {None} :
          /\ r # None => RuleFree(r) /\ rule[r].evidence < MaxEvidence
          /\ Begin(t, [kind |-> "review", item |-> x, id |-> i, learn |-> learn,
                       rule |-> r, settled |-> settled])
    BY <1>5 DEF OpenReview
  <2>3. r \in Rules \cup {None} /\ (r # None => rule[r] # None)
    BY <2>2 DEF ActiveRules
  <2> DEFINE s == [kind |-> "review", item |-> x, id |-> i, learn |-> learn,
                   rule |-> r, settled |-> settled]
  <2>4. s \in Session /\ s.kind = "review" /\ s.item = x /\ s.rule = r
    BY <2>3 DEF Session
  <2>5. session' = [session EXCEPT ![t] = s]
    BY <2>2 DEF Begin
  <2> HIDE DEF s
  <2>. QED
    BY <1>1, <2>1, <2>2, <2>3, <2>4, <2>5, SessionIInv
<1>6. CASE Propose(t)
  <2>1. PICK found \in SUBSET Pairs :
          /\ \A p \in found : suggestion[p] = "none"
          /\ Begin(t, [kind |-> "propose", found |-> found])
    BY <1>6 DEF Propose, Suggestable
  <2>2. Running("propose") = {} /\ UNCHANGED <<identities, suggestion, uses, reviews>>
    BY <1>6 DEF Propose
  <2> DEFINE s == [kind |-> "propose", found |-> found]
  <2>3. s \in Session /\ s.kind = "propose" /\ s.found = found
    BY DEF Session
  <2>4. session' = [session EXCEPT ![t] = s]
    BY <2>1 DEF Begin
  <2> HIDE DEF s
  <2>. QED
    BY <1>1, <2>1, <2>2, <2>3, <2>4, SessionIInv
<1>. QED
  BY <1>2, <1>3, <1>4, <1>5, <1>6

-----------------------------------------------------------------------------
(* Steps that write no request *)

LEMMA RequestsStay ==
  ASSUME IInv, UNCHANGED session
  PROVE  /\ session' \in [Sessions -> Session \cup {None}]
         /\ \A k : Running(k)' = Running(k)
         /\ RowsAreHeldInOrder'
<1>1. \A k : Running(k)' = Running(k)
  BY DEF Running
<1>2. session' \in [Sessions -> Session \cup {None}]
  BY DEF IInv, TypeOK
<1>3. RowsAreHeldInOrder'
  BY <1>1 DEF IInv, RowsAreHeldInOrder
<1>. QED
  BY <1>1, <1>2, <1>3

LEMMA ProposalsStay ==
  ASSUME IInv, UNCHANGED <<redirect, suggestion, session>>
  PROVE  /\ suggestion' \in [Pairs -> {"none", "pending", "accepted", "rejected"}]
         /\ AcceptedIsMerged' /\ AcceptanceIsHeld' /\ ProposalIsNew'
<1>1. AcceptedIsMerged'
  BY DEF IInv, AcceptedIsMerged
<1>2. AcceptanceIsHeld'
  BY RequestsStay DEF IInv, AcceptanceIsHeld
<1>3. ProposalIsNew'
  BY RequestsStay DEF IInv, ProposalIsNew
<1>. QED
  BY <1>1, <1>2, <1>3 DEF IInv, TypeOK

LEMMA RulesStay ==
  ASSUME IInv, UNCHANGED <<reviews, session>>
  PROVE  /\ rule' \in [Rules -> Rule \cup {None}]
         /\ item' \in [Items -> Item \cup {None}]
         /\ ReviewsAreCurrent' /\ RuleIsAlone'
<1>1. rule' = rule /\ item' = item
  BY DEF reviews
<1>2. ActiveRules' = ActiveRules
  BY <1>1 DEF ActiveRules
<1>3. ReviewsAreCurrent'
  BY <1>1, RequestsStay DEF IInv, ReviewsAreCurrent
<1>4. RuleIsAlone'
  BY <1>2 DEF IInv, RuleIsAlone
<1>. QED
  BY <1>1, <1>3, <1>4 DEF IInv, TypeOK

\* A new row, or a new name of an active one.
LEMMA NameIInv ==
  ASSUME IInv, NEW i \in Ids, NEW n \in Names, Create(i, n) \/ EditIdentity(i, n)
  PROVE  IInv'
<1>1. /\ name \in [Ids -> Names \cup {None}]
      /\ active \in [Ids -> BOOLEAN]
      /\ n # None
  BY ConstantsAssumption DEF IInv, TypeOK
<1>2. /\ UNCHANGED <<redirect, suggestion, uses, reviews, session>>
      /\ name' = [name EXCEPT ![i] = n]
      /\ active' \in [Ids -> BOOLEAN]
      /\ \A j \in Ids : active'[j] = (active[j] \/ j = i)
  BY <1>1 DEF Create, EditIdentity
<1>3. \A j \in Ids : Exists(j)' <=> Exists(j) \/ j = i
  BY <1>1, <1>2 DEF Exists
<1>4. i \notin Merged
  BY DEF Create, EditIdentity, IInv, MergedIsRetired, Merged
<1>5. Merged' = Merged
  BY <1>2 DEF Merged
<1>6. MergedIsRetired'
  <2>1. \A j \in Merged : redirect[j] \in Ids
    BY DEF Merged, IInv, TypeOK
  <2>. QED
    BY <1>2, <1>3, <1>4, <1>5, <2>1 DEF IInv, MergedIsRetired
<1>7. RedirectsDescend'
  BY <1>2, <1>5 DEF IInv, RedirectsDescend
<1>8. name' \in [Ids -> Names \cup {None}]
  BY <1>1, <1>2
<1>9. redirect' \in [Ids -> Ids \cup {None}] /\ uses' \in [Holders -> Ids \cup {None}]
  BY <1>2 DEF IInv, TypeOK
<1>. QED
  BY <1>2, <1>6, <1>7, <1>8, <1>9, RequestsStay, ProposalsStay, RulesStay DEF IInv, TypeOK

\* Nobody accepts what is rejected.
LEMMA RejectIInv ==
  ASSUME IInv, NEW p \in Pairs, Reject(p)
  PROVE  IInv'
<1>1. /\ suggestion \in [Pairs -> {"none", "pending", "accepted", "rejected"}]
      /\ suggestion[p] = "pending" /\ SuggestionFree(p)
      /\ suggestion' = [suggestion EXCEPT ![p] = "rejected"]
      /\ UNCHANGED <<identities, uses, reviews, session>>
      /\ UNCHANGED redirect
  BY DEF Reject, IInv, TypeOK, identities
<1>2. /\ suggestion' \in [Pairs -> {"none", "pending", "accepted", "rejected"}]
      /\ \A q \in Pairs : suggestion'[q] = IF q = p THEN "rejected" ELSE suggestion[q]
  BY <1>1
<1>3. AcceptedIsMerged'
  BY <1>1, <1>2 DEF IInv, AcceptedIsMerged
<1>4. AcceptanceIsHeld'
  <2> SUFFICES ASSUME NEW t \in Running("merge"), session[t].accepts
               PROVE  /\ suggestion'[session[t].pair] = "pending"
                      /\ \A u \in Running("merge") :
                            session[u].accepts /\ session[u].pair = session[t].pair => u = t
    BY <1>1, RequestsStay DEF AcceptanceIsHeld
  <2>1. session[t].pair \in Pairs
    BY SessionFacts DEF Running
  <2>. QED
    BY <1>1, <1>2, <2>1 DEF IInv, AcceptanceIsHeld, SuggestionFree
<1>5. ProposalIsNew'
  <2> SUFFICES ASSUME NEW t \in Running("propose")
               PROVE  /\ Running("propose") = {t}
                      /\ \A q \in session[t].found : suggestion'[q] = "none"
    BY <1>1, RequestsStay DEF ProposalIsNew
  <2>1. session[t].found \subseteq Pairs
    BY SessionFacts DEF Running
  <2>2. Running("propose") = {t} /\ \A q \in session[t].found : suggestion[q] = "none"
    BY DEF IInv, ProposalIsNew
  <2>. QED
    BY <1>1, <1>2, <2>1, <2>2
<1>6. uses' \in [Holders -> Ids \cup {None}]
  BY <1>1 DEF IInv, TypeOK
<1>. QED
  BY <1>1, <1>2, <1>3, <1>4, <1>5, <1>6, IdentitiesStay, RequestsStay, RulesStay DEF IInv, TypeOK

\* What comes in, and rules that are revoked.
LEMMA ArrivalsIInv ==
  ASSUME IInv,
         \/ \E h \in Holders, i \in Ids : Refer(h, i)
         \/ \E x \in Items, amount \in BOOLEAN : DeliverItem(x, amount)
         \/ \E r \in Rules : RevokeRule(r)
         \/ UNCHANGED vars
  PROVE  IInv'
<1>1. /\ uses \in [Holders -> Ids \cup {None}]
      /\ rule \in [Rules -> Rule \cup {None}]
      /\ item \in [Items -> Item \cup {None}]
  BY DEF IInv, TypeOK
<1>2. UNCHANGED <<identities, suggestion, session>>
  BY DEF Refer, DeliverItem, RevokeRule, vars
<1>3. UNCHANGED redirect
  BY <1>2 DEF identities
<1>4. ASSUME UNCHANGED reviews, uses' \in [Holders -> Ids \cup {None}] PROVE IInv'
  BY <1>2, <1>3, <1>4, IdentitiesStay, ProposalsStay, RequestsStay, RulesStay DEF IInv, TypeOK
<1>5. CASE UNCHANGED vars
  BY <1>1, <1>4, <1>5 DEF vars
<1>6. ASSUME NEW h \in Holders, NEW i \in Ids, Refer(h, i) PROVE IInv'
  BY <1>1, <1>4, <1>6 DEF Refer
<1>7. ASSUME UNCHANGED uses,
             rule' \in [Rules -> Rule \cup {None}], item' \in [Items -> Item \cup {None}],
             ReviewsAreCurrent', RuleIsAlone'
      PROVE  IInv'
  BY <1>1, <1>2, <1>3, <1>7, IdentitiesStay, ProposalsStay, RequestsStay DEF IInv, TypeOK
<1>8. ASSUME NEW x \in Items, NEW amount \in BOOLEAN, DeliverItem(x, amount) PROVE IInv'
  <2>1. /\ item[x] = None
        /\ UNCHANGED <<uses, rule>>
    BY <1>8 DEF DeliverItem
  <2>2. PICK r \in IF ActiveRules = {} THEN {None} ELSE ActiveRules :
          LET merchant == IF r = None THEN None ELSE rule[r].merchant
              reasons == (IF r = None THEN {"merchant"} ELSE {})
                             \cup (IF amount THEN {"amount"} ELSE {})
          IN item' = [item EXCEPT ![x] =
                [state |-> IF reasons = {} THEN "resolved" ELSE "pending",
                 reasons |-> reasons, merchant |-> merchant, rule |-> r]]
    BY <1>8 DEF DeliverItem
  <2> DEFINE merchant == IF r = None THEN None ELSE rule[r].merchant
             reasons == (IF r = None THEN {"merchant"} ELSE {})
                            \cup (IF amount THEN {"amount"} ELSE {})
             new == [state |-> IF reasons = {} THEN "resolved" ELSE "pending",
                     reasons |-> reasons, merchant |-> merchant, rule |-> r]
  <2>3. r \in Rules \cup {None} /\ merchant \in Ids \cup {None}
    BY <1>1, <2>2 DEF ActiveRules, Rule
  <2>4. new \in Item
    BY <2>3 DEF Item, Reasons
  <2>5. item' = [item EXCEPT ![x] = new]
    BY <2>2
  <2> HIDE DEF new
  <2>6. /\ item' \in [Items -> Item \cup {None}]
        /\ \A y \in Items : item[y] # None => item'[y] # None
    BY <1>1, <2>1, <2>4, <2>5
  <2>7. ActiveRules' = ActiveRules
    BY <2>1 DEF ActiveRules
  <2>8. RuleIsAlone'
    BY <2>7 DEF IInv, RuleIsAlone
  <2>9. ReviewsAreCurrent'
    <3>1. \A t \in Running("review") : session[t].item \in Items
      BY SessionFacts DEF Running
    <3>. QED
      BY <1>2, <2>1, <2>6, <3>1, RequestsStay DEF IInv, ReviewsAreCurrent
  <2>. QED
    BY <1>1, <1>7, <2>1, <2>6, <2>8, <2>9
<1>9. ASSUME NEW r \in Rules, RevokeRule(r) PROVE IInv'
  <2>1. /\ UNCHANGED <<uses, item>>
        /\ RuleFree(r) /\ rule[r] # None /\ rule[r] \in Rule
        /\ rule' = [rule EXCEPT ![r].active = FALSE]
    BY <1>1, <1>9 DEF RevokeRule, ActiveRules
  <2>2. /\ rule' \in [Rules -> Rule \cup {None}]
        /\ \A q \in Rules \ {r} : rule'[q] = rule[q]
        /\ rule'[r] # None /\ ~rule'[r].active
    BY <1>1, <2>1, NoneAssumption DEF Rule
  <2>3. ActiveRules' \subseteq ActiveRules
    BY <2>2 DEF ActiveRules
  <2>4. RuleIsAlone'
    BY <2>3 DEF IInv, RuleIsAlone
  <2>5. ReviewsAreCurrent'
    <3>1. \A t \in Running("review") : session[t].rule # None =>
              session[t].rule \in Rules /\ session[t].rule # r
      BY <2>1, SessionFacts DEF Running, RuleFree
    <3>. QED
      BY <1>2, <2>1, <2>2, <3>1, RequestsStay DEF IInv, ReviewsAreCurrent
  <2>. QED
    BY <1>1, <1>7, <2>1, <2>2, <2>4, <2>5
<1>. QED
  BY <1>5, <1>6, <1>8, <1>9

-----------------------------------------------------------------------------
(* Merges *)

\* The next lock is the lower one of those that are left.
LEMMA NextLockFacts ==
  ASSUME NEW p \in Pairs, NEW held, {p[1], p[2]} \ held # {}
  PROVE  /\ NextLock(p, held) \in {p[1], p[2]} \ held
         /\ \A i \in {p[1], p[2]} \ held : NextLock(p, held) <= i
<1>1. p[1] \in Nat /\ p[2] \in Nat
  BY ConstantsAssumption DEF Pairs
<1>2. PICK i \in {p[1], p[2]} \ held : \A j \in {p[1], p[2]} \ held : i <= j
  BY <1>1, LeastNumber
<1>. QED
  BY <1>2 DEF NextLock

LEMMA LockIInv ==
  ASSUME IInv, NEW t \in Sessions, Lock(t)
  PROVE  IInv'
<1> DEFINE p == session[t].pair
           x == NextLock(p, session[t].held)
           s == [session[t] EXCEPT !.held = session[t].held \cup {x}]
<1>1. /\ t \in Running("merge") /\ session[t] # None /\ session[t].kind = "merge"
      /\ {p[1], p[2]} \ session[t].held # {} /\ Free(x)
      /\ session' = [session EXCEPT ![t].held = @ \cup {x}]
      /\ UNCHANGED <<identities, suggestion, uses, reviews>>
  BY DEF Lock, Is, Running
<1>2. /\ session[t] \in Session /\ p \in Pairs
      /\ p[1] \in Ids /\ p[2] \in Ids /\ session[t].held \subseteq Ids
  BY <1>1, SessionFacts
<1>3. /\ x \in {p[1], p[2]} \ session[t].held
      /\ \A i \in {p[1], p[2]} \ session[t].held : x <= i
  BY <1>1, <1>2, NextLockFacts
<1>4. session' = [session EXCEPT ![t] = s]
  BY <1>1 DEF IInv, TypeOK
<1>5. /\ s \in Session /\ s.kind = "merge" /\ s.pair = p /\ s.accepts = session[t].accepts
      /\ s.held = session[t].held \cup {x}
  <2>1. session[t] \in [kind : {"merge"}, pair : Pairs, accepts : BOOLEAN, held : SUBSET Ids]
    BY <1>1, <1>2 DEF Session
  <2>2. session[t].held \cup {x} \in SUBSET Ids
    BY <1>2, <1>3
  <2>. QED
    BY <2>1, <2>2 DEF Session
<1> HIDE DEF s, x
<1>6. /\ session'[t] = s
      /\ \A u \in Sessions \ {t} : session'[u] = session[u]
      /\ Running("merge")' = Running("merge")
      /\ session' \in [Sessions -> Session \cup {None}]
  <2>1. /\ session'[t] = s
        /\ \A u \in Sessions \ {t} : session'[u] = session[u]
        /\ \A k : Running(k)' = IF s # None /\ s.kind = k
                                THEN Running(k) \cup {t} ELSE Running(k) \ {t}
        /\ session' \in [Sessions -> Session \cup {None}]
    BY <1>4, <1>5, SessionWritten
  <2>2. s # None
    BY <1>5, NoneAssumption
  <2>. QED
    BY <1>1, <1>5, <2>1, <2>2
<1>7. RowsAreHeldInOrder'
  <2>1. /\ session[t].held \subseteq {p[1], p[2]}
        /\ \A i \in {p[1], p[2]} \ session[t].held, j \in session[t].held : j < i
        /\ \A u \in Running("merge") \ {t} : session[u].held \cap session[t].held = {}
    BY <1>1 DEF IInv, RowsAreHeldInOrder
  <2>2. s.held \subseteq {s.pair[1], s.pair[2]}
    BY <1>3, <1>5, <2>1
  <2>3. ASSUME NEW i \in {p[1], p[2]} \ s.held, NEW j \in s.held PROVE j < i
    <3>1. i \in Nat /\ x \in Nat /\ x # i /\ i \notin session[t].held
      BY <1>2, <1>3, <1>5, ConstantsAssumption
    <3>2. x < i
      BY <1>3, <3>1
    <3>. QED
      BY <1>5, <2>1, <3>1, <3>2
  <2>4. \A u \in Running("merge") \ {t} : session[u].held \cap s.held = {}
    BY <1>1, <1>5, <2>1 DEF Free
  <2> SUFFICES ASSUME NEW u \in Running("merge")
               PROVE  /\ session'[u].held \subseteq {session'[u].pair[1], session'[u].pair[2]}
                      /\ \A i \in {session'[u].pair[1], session'[u].pair[2]} \ session'[u].held,
                            j \in session'[u].held : j < i
                      /\ \A v \in Running("merge") \ {u} : session'[v].held \cap session'[u].held = {}
    BY <1>6 DEF RowsAreHeldInOrder
  <2>5. CASE u = t
    <3>1. \A v \in Running("merge") \ {u} : session'[v] = session[v]
      BY <1>6, <2>5 DEF Running
    <3>. QED
      BY <1>5, <1>6, <2>2, <2>3, <2>4, <2>5, <3>1
  <2>6. CASE u # t
    <3>1. session'[u] = session[u]
      BY <1>6, <2>6 DEF Running
    <3>2. \A v \in Running("merge") \ {u} : session'[v].held \cap session[u].held = {}
      <4>1. \A v \in Running("merge") \ {u} : session[v].held \cap session[u].held = {}
        BY DEF IInv, RowsAreHeldInOrder
      <4>2. s.held \cap session[u].held = {}
        BY <2>4, <2>6
      <4>3. \A v \in Running("merge") : session'[v] = session[v] \/ v = t
        BY <1>6 DEF Running
      <4>. QED
        BY <1>6, <4>1, <4>2, <4>3
    <3>. QED
      BY <3>1, <3>2 DEF IInv, RowsAreHeldInOrder
  <2>. QED
    BY <2>5, <2>6
<1>8. AcceptedIsMerged' /\ AcceptanceIsHeld' /\ ProposalIsNew'
  <2>1. s.accepts => /\ suggestion[s.pair] = "pending"
                     /\ \A u \in Running("merge") \ {t} :
                           ~(session[u].accepts /\ session[u].pair = s.pair)
    BY <1>1, <1>5 DEF IInv, AcceptanceIsHeld
  <2>2. UNCHANGED redirect
    BY <1>1 DEF identities
  <2>. QED
    BY <1>1, <1>4, <1>5, <2>1, <2>2, SuggestionsStay
<1>9. /\ rule' \in [Rules -> Rule \cup {None}]
      /\ item' \in [Items -> Item \cup {None}]
      /\ ReviewsAreCurrent' /\ RuleIsAlone'
  BY <1>1, <1>4, <1>5, ReviewsStay
<1>. QED
  BY <1>1, <1>6, <1>7, <1>8, <1>9, IdentitiesStay DEF IInv, TypeOK

\* The source becomes the only new redirect, and its target is a root.
LEMMA MergeWrites ==
  ASSUME IInv, NEW t \in Sessions, Merge(t)
  PROVE  LET p == session[t].pair IN
         /\ p \in Pairs /\ p[1] \in Ids /\ p[2] \in Ids /\ p[1] # p[2]
         /\ \A i \in {p[1], p[2]} : active[i] /\ redirect[i] = None
         /\ \A i \in Ids : redirect'[i] = IF i = p[1] THEN p[2] ELSE redirect[i]
         /\ \A i \in Ids : active'[i] = IF i = p[1] THEN FALSE ELSE active[i]
         /\ redirect' \in [Ids -> Ids \cup {None}]
         /\ active' \in [Ids -> BOOLEAN]
         /\ UNCHANGED <<name, uses, reviews>>
         /\ session' = [session EXCEPT ![t] = None]
         /\ suggestion' = IF session[t].accepts THEN [suggestion EXCEPT ![p] = "accepted"]
                          ELSE suggestion
         /\ t \in Running("merge")
<1> DEFINE p == session[t].pair
<1>1. p \in Pairs /\ p[1] \in Ids /\ p[2] \in Ids /\ p[1] # p[2]
  BY SessionFacts DEF Merge, Is
<1>2. redirect \in [Ids -> Ids \cup {None}] /\ active \in [Ids -> BOOLEAN]
  BY DEF IInv, TypeOK
<1>. QED
  BY <1>1, <1>2 DEF Merge, Is, Mergeable, End, Accepted, Running

LEMMA MergeIInv ==
  ASSUME IInv, NEW t \in Sessions, Merge(t)
  PROVE  IInv'
<1> DEFINE p == session[t].pair
<1>1. /\ p \in Pairs /\ p[1] \in Ids /\ p[2] \in Ids /\ p[1] # p[2]
      /\ \A i \in {p[1], p[2]} : active[i] /\ redirect[i] = None
      /\ \A i \in Ids : redirect'[i] = IF i = p[1] THEN p[2] ELSE redirect[i]
      /\ \A i \in Ids : active'[i] = IF i = p[1] THEN FALSE ELSE active[i]
      /\ redirect' \in [Ids -> Ids \cup {None}]
      /\ active' \in [Ids -> BOOLEAN]
      /\ UNCHANGED <<name, uses, reviews>>
      /\ session' = [session EXCEPT ![t] = None]
      /\ suggestion' = IF session[t].accepts THEN [suggestion EXCEPT ![p] = "accepted"]
                       ELSE suggestion
      /\ t \in Running("merge")
  BY MergeWrites
<1> HIDE DEF p
<1>2. p[1] \notin Merged /\ p[2] \notin Merged /\ Merged' = Merged \cup {p[1]}
  <2>1. p[2] # None
    BY <1>1, ConstantsAssumption
  <2>. QED
    BY <1>1, <2>1 DEF Merged
<1>3. MergedIsRetired'
  <2>1. \A i : Exists(i)' <=> Exists(i)
    BY <1>1 DEF Exists
  <2>2. Exists(p[1]) /\ Exists(p[2])
    BY <1>1 DEF IInv, MergedIsRetired
  <2>. QED
    BY <1>1, <1>2, <2>1, <2>2 DEF IInv, MergedIsRetired
<1>4. RedirectsDescend'
  <2>1. PICK depth \in [Ids -> 0..Cardinality(Merged)] :
          \A i \in Merged : depth[redirect[i]] < depth[i]
    BY DEF IInv, RedirectsDescend
  <2>2. IsFiniteSet(Merged) /\ Cardinality(Merged) \in Nat
    BY ConstantsAssumption, FS_Subset, FS_CardinalityType DEF Merged
  <2>3. Cardinality(Merged') = Cardinality(Merged) + 1
    BY <1>2, <2>2, FS_AddElement
  <2> DEFINE deeper == [i \in Ids |-> IF i = p[2] THEN 0 ELSE depth[i] + 1]
  <2>4. deeper \in [Ids -> 0..Cardinality(Merged')]
    BY <2>1, <2>2, <2>3
  <2>5. ASSUME NEW i \in Merged' PROVE deeper[redirect'[i]] < deeper[i]
    <3>1. i \in Ids /\ i # p[2] /\ redirect'[i] \in Ids
      BY <1>1, <1>2, <2>5 DEF Merged
    <3>2. deeper[i] = depth[i] + 1 /\ depth[i] \in Nat
      BY <2>1, <2>2, <3>1
    <3>3. CASE redirect'[i] = p[2]
      BY <3>1, <3>2, <3>3
    <3>4. CASE redirect'[i] # p[2]
      <4>1. i \in Merged /\ redirect'[i] = redirect[i]
        BY <1>1, <1>2, <2>5, <3>1, <3>4
      <4>2. deeper[redirect'[i]] = depth[redirect[i]] + 1 /\ depth[redirect[i]] \in Nat
        BY <2>1, <2>2, <3>1, <3>4, <4>1
      <4>3. depth[redirect[i]] < depth[i]
        BY <2>1, <4>1
      <4>. QED
        BY <3>2, <4>2, <4>3
    <3>. QED
      BY <3>3, <3>4
  <2> HIDE DEF deeper
  <2>. QED
    BY <2>4, <2>5 DEF RedirectsDescend
<1>5. /\ suggestion' \in [Pairs -> {"none", "pending", "accepted", "rejected"}]
      /\ \A q \in Pairs : suggestion'[q] = IF session[t].accepts /\ q = p
                                           THEN "accepted" ELSE suggestion[q]
  BY <1>1 DEF IInv, TypeOK
<1>6. AcceptedIsMerged'
  <2> SUFFICES ASSUME NEW q \in Pairs, suggestion'[q] = "accepted"
               PROVE  redirect'[q[1]] = q[2]
    BY DEF AcceptedIsMerged
  <2>1. CASE q = p
    BY <1>1, <2>1
  <2>2. CASE q # p
    <3>1. q[1] \in Ids /\ q[2] # None
      BY ConstantsAssumption DEF Pairs
    <3>2. redirect[q[1]] = q[2]
      BY <1>5, <2>2 DEF IInv, AcceptedIsMerged
    <3>. QED
      BY <1>1, <3>1, <3>2
  <2>. QED
    BY <2>1, <2>2
<1>7. /\ session'[t] = None
      /\ \A u \in Sessions \ {t} : session'[u] = session[u]
      /\ \A k : Running(k)' = Running(k) \ {t}
      /\ session' \in [Sessions -> Session \cup {None}]
  BY <1>1, SessionEnded
<1>8. session[t].accepts => suggestion[p] = "pending"
  BY <1>1 DEF IInv, AcceptanceIsHeld, p
<1>9. AcceptanceIsHeld'
  <2> SUFFICES ASSUME NEW u \in Running("merge") \ {t}, session[u].accepts
               PROVE  /\ suggestion'[session[u].pair] = "pending"
                      /\ \A v \in Running("merge") \ {t} :
                            session[v].accepts /\ session[v].pair = session[u].pair => v = u
    BY <1>7 DEF AcceptanceIsHeld, Running
  <2>1. session[u].pair \in Pairs /\ suggestion[session[u].pair] = "pending"
    BY SessionFacts DEF Running, IInv, AcceptanceIsHeld
  <2>2. session[t].accepts => session[u].pair # p
    BY <1>1 DEF IInv, AcceptanceIsHeld, p
  <2>. QED
    BY <1>5, <2>1, <2>2 DEF IInv, AcceptanceIsHeld
<1>10. ProposalIsNew'
  <2> SUFFICES ASSUME NEW u \in Running("propose") \ {t}
               PROVE  /\ Running("propose") \ {t} = {u}
                      /\ \A q \in session[u].found : suggestion'[q] = "none"
    BY <1>7 DEF ProposalIsNew, Running
  <2>1. /\ session[u].found \subseteq Pairs
        /\ Running("propose") = {u}
        /\ \A q \in session[u].found : suggestion[q] = "none"
    BY SessionFacts DEF Running, IInv, ProposalIsNew
  <2>. QED
    BY <1>5, <1>8, <2>1
<1>11. RowsAreHeldInOrder'
  BY <1>1, HeldStays
<1>12. /\ rule' \in [Rules -> Rule \cup {None}]
       /\ item' \in [Items -> Item \cup {None}]
       /\ ReviewsAreCurrent' /\ RuleIsAlone'
  BY <1>1, ReviewsStay
<1>13. name' \in [Ids -> Names \cup {None}] /\ uses' \in [Holders -> Ids \cup {None}]
  BY <1>1 DEF IInv, TypeOK
<1>. QED
  BY <1>1, <1>3, <1>4, <1>5, <1>6, <1>7, <1>9, <1>10, <1>11, <1>12, <1>13 DEF IInv, TypeOK

\* What a proposal found is pending from here on.
LEMMA AddSuggestionsIInv ==
  ASSUME IInv, NEW t \in Sessions, AddSuggestions(t)
  PROVE  IInv'
<1>1. /\ t \in Running("propose") /\ session' = [session EXCEPT ![t] = None]
      /\ suggestion' = [p \in Pairs |-> IF p \in session[t].found
                                        THEN "pending" ELSE suggestion[p]]
      /\ UNCHANGED <<identities, uses, reviews>>
      /\ UNCHANGED redirect
      /\ suggestion \in [Pairs -> {"none", "pending", "accepted", "rejected"}]
  BY DEF AddSuggestions, Is, End, Running, identities, IInv, TypeOK
<1>2. /\ session'[t] = None
      /\ \A u \in Sessions \ {t} : session'[u] = session[u]
      /\ \A k : Running(k)' = Running(k) \ {t}
      /\ session' \in [Sessions -> Session \cup {None}]
  BY <1>1, SessionEnded
<1>3. suggestion' \in [Pairs -> {"none", "pending", "accepted", "rejected"}]
  BY <1>1
<1>4. AcceptedIsMerged'
  BY <1>1 DEF IInv, AcceptedIsMerged
<1>5. AcceptanceIsHeld'
  <2> SUFFICES ASSUME NEW u \in Running("merge") \ {t}, session[u].accepts
               PROVE  /\ suggestion'[session[u].pair] = "pending"
                      /\ \A v \in Running("merge") \ {t} :
                            session[v].accepts /\ session[v].pair = session[u].pair => v = u
    BY <1>2 DEF AcceptanceIsHeld, Running
  <2>1. session[u].pair \in Pairs /\ suggestion[session[u].pair] = "pending"
    BY SessionFacts DEF Running, IInv, AcceptanceIsHeld
  <2>. QED
    BY <1>1, <2>1 DEF IInv, AcceptanceIsHeld
<1>6. ProposalIsNew'
  <2>1. Running("propose") = {t}
    BY <1>1 DEF IInv, ProposalIsNew
  <2>. QED
    BY <1>2, <2>1 DEF ProposalIsNew
<1>7. RowsAreHeldInOrder'
  BY <1>1, HeldStays
<1>8. /\ rule' \in [Rules -> Rule \cup {None}]
      /\ item' \in [Items -> Item \cup {None}]
      /\ ReviewsAreCurrent' /\ RuleIsAlone'
  BY <1>1, ReviewsStay
<1>9. uses' \in [Holders -> Ids \cup {None}]
  BY <1>1 DEF IInv, TypeOK
<1>. QED
  BY <1>1, <1>2, <1>3, <1>4, <1>5, <1>6, <1>7, <1>8, <1>9, IdentitiesStay DEF IInv, TypeOK

-----------------------------------------------------------------------------
(* Reviews *)

\* Of the rules a review writes one at most; a new one when none is active.
LEMMA LearnedFacts ==
  ASSUME IInv, NEW t \in Running("review"), NEW l \in Learned(t), rule' = l[2]
  PROVE  /\ l[1] \in Rules \cup {None}
         /\ rule' \in [Rules -> Rule \cup {None}]
         /\ RuleIsAlone'
         /\ \A q \in Rules : rule[q] # None => rule'[q] = rule[q] \/ q = session[t].rule
         /\ \A q \in Rules : rule[q] # None => rule'[q] # None
<1> DEFINE s == session[t]
<1>1. /\ rule \in [Rules -> Rule \cup {None}]
      /\ item \in [Items -> Item \cup {None}]
      /\ RuleIsAlone
  BY DEF IInv, TypeOK
<1>2. s.item \in Items /\ s.id \in Ids /\ s.rule \in Rules \cup {None}
  BY SessionFacts DEF Running
<1>3. /\ item[s.item] # None
      /\ s.rule # None => rule[s.rule] # None /\ rule[s.rule].evidence < MaxEvidence
  BY DEF IInv, ReviewsAreCurrent
<1>4. CASE ~s.learn
  <2>1. l = <<item[s.item].rule, rule>>
    BY <1>4 DEF Learned
  <2>2. item[s.item].rule \in Rules \cup {None}
    BY <1>1, <1>2, <1>3 DEF Item
  <2>. QED
    BY <1>1, <2>1, <2>2 DEF RuleIsAlone, ActiveRules
<1>5. CASE s.learn /\ s.rule # None
  <2>1. l = <<s.rule, [rule EXCEPT ![s.rule].evidence = @ + 1]>>
    BY <1>5 DEF Learned
  <2>2. rule[s.rule] \in Rule
    BY <1>1, <1>2, <1>3, <1>5
  <2>3. rule[s.rule].evidence + 1 \in 1..MaxEvidence
    BY <1>3, <1>5, <2>2, ConstantsAssumption DEF Rule
  <2> DEFINE new == [rule[s.rule] EXCEPT !.evidence = rule[s.rule].evidence + 1]
  <2>4. new \in Rule /\ new.active = rule[s.rule].active
    BY <2>2, <2>3 DEF Rule
  <2>5. rule' = [rule EXCEPT ![s.rule] = new] /\ l[1] = s.rule
    BY <1>1, <1>2, <1>5, <2>1
  <2> HIDE DEF new
  <2>6. /\ rule' \in [Rules -> Rule \cup {None}]
        /\ \A q \in Rules : rule'[q] = IF q = s.rule THEN new ELSE rule[q]
        /\ new # None
    BY <1>1, <1>2, <2>4, <2>5, NoneAssumption
  <2>7. ActiveRules' = ActiveRules
    BY <1>2, <1>3, <1>5, <2>4, <2>6 DEF ActiveRules
  <2>8. RuleIsAlone'
    BY <1>1, <2>7 DEF RuleIsAlone
  <2>. QED
    BY <1>2, <2>5, <2>6, <2>8
<1>6. CASE s.learn /\ s.rule = None
  <2>1. PICK r \in Rules : /\ rule[r] = None /\ ActiveRules = {}
                           /\ l = <<r, [rule EXCEPT ![r] = NewRule(s.id)]>>
    BY <1>6 DEF Learned, RuleInsertable
  <2> DEFINE new == NewRule(s.id)
  <2>2. new \in Rule
    BY <1>2, ConstantsAssumption DEF NewRule, Rule
  <2>3. rule' = [rule EXCEPT ![r] = new] /\ l[1] = r
    BY <2>1
  <2> HIDE DEF new
  <2>4. /\ rule' \in [Rules -> Rule \cup {None}]
        /\ \A q \in Rules : rule'[q] = IF q = r THEN new ELSE rule[q]
    BY <1>1, <2>2, <2>3
  <2>5. ActiveRules' \subseteq {r}
    BY <2>1, <2>4 DEF ActiveRules
  <2>6. RuleIsAlone'
    BY <2>5 DEF RuleIsAlone
  <2>. QED
    BY <2>1, <2>3, <2>4, <2>6
<1>. QED
  BY <1>4, <1>5, <1>6

LEMMA ReviewIInv ==
  ASSUME IInv, NEW t \in Sessions, Review(t)
  PROVE  IInv'
<1> DEFINE x == session[t].item
           reasons == item[x].reasons \ ({"merchant"} \cup session[t].settled)
<1>1. /\ t \in Running("review") /\ session' = [session EXCEPT ![t] = None]
      /\ UNCHANGED <<identities, suggestion, uses>>
      /\ UNCHANGED redirect
  BY DEF Review, Is, End, Running, identities
<1>2. /\ x \in Items /\ session[t].id \in Ids /\ item[x] # None
      /\ item \in [Items -> Item \cup {None}]
  BY <1>1, SessionFacts DEF Running, IInv, TypeOK, ReviewsAreCurrent
<1>3. PICK l \in Learned(t) :
        /\ rule' = l[2]
        /\ item' = [item EXCEPT ![x] =
              [state |-> IF reasons = {} THEN "resolved" ELSE "pending",
               reasons |-> reasons, merchant |-> session[t].id, rule |-> l[1]]]
  BY DEF Review
<1>4. /\ l[1] \in Rules \cup {None}
      /\ rule' \in [Rules -> Rule \cup {None}]
      /\ RuleIsAlone'
      /\ \A q \in Rules : rule[q] # None => rule'[q] = rule[q] \/ q = session[t].rule
      /\ \A q \in Rules : rule[q] # None => rule'[q] # None
  BY <1>1, <1>3, LearnedFacts
<1> DEFINE new == [state |-> IF reasons = {} THEN "resolved" ELSE "pending",
                   reasons |-> reasons, merchant |-> session[t].id, rule |-> l[1]]
<1>5. new \in Item
  <2>1. item[x].reasons \subseteq Reasons
    BY <1>2 DEF Item
  <2>2. reasons \subseteq Reasons
    BY <2>1
  <2> HIDE DEF reasons
  <2>. QED
    BY <1>2, <1>4, <2>2 DEF Item
<1>6. item' = [item EXCEPT ![x] = new]
  BY <1>3
<1> HIDE DEF new
<1>7. /\ item' \in [Items -> Item \cup {None}]
      /\ \A y \in Items : item[y] # None => item'[y] # None
  BY <1>2, <1>5, <1>6, NoneAssumption
<1>8. /\ session'[t] = None
      /\ \A u \in Sessions \ {t} : session'[u] = session[u]
      /\ \A k : Running(k)' = Running(k) \ {t}
      /\ session' \in [Sessions -> Session \cup {None}]
  BY <1>1, SessionEnded
<1>9. ReviewsAreCurrent'
  <2> SUFFICES ASSUME NEW u \in Running("review") \ {t}
               PROVE  /\ item'[session[u].item] # None
                      /\ session[u].rule # None =>
                            /\ rule'[session[u].rule] # None
                            /\ rule'[session[u].rule].evidence < MaxEvidence
                            /\ \A v \in Running("review") \ {t} :
                                  session[v].rule = session[u].rule => v = u
    BY <1>8 DEF ReviewsAreCurrent, Running
  <2>1. session[u].item \in Items /\ session[u].rule \in Rules \cup {None}
    BY SessionFacts DEF Running
  <2>2. session[u].rule # None => session[t].rule # session[u].rule
    BY <1>1 DEF IInv, ReviewsAreCurrent
  <2>3. session[u].rule # None => rule'[session[u].rule] = rule[session[u].rule]
    BY <1>4, <2>1, <2>2 DEF IInv, ReviewsAreCurrent
  <2>. QED
    BY <1>7, <2>1, <2>3 DEF IInv, ReviewsAreCurrent
<1>10. RowsAreHeldInOrder'
  BY <1>1, HeldStays
<1>11. AcceptedIsMerged' /\ AcceptanceIsHeld' /\ ProposalIsNew'
  BY <1>1, SuggestionsStay
<1>12. /\ suggestion' \in [Pairs -> {"none", "pending", "accepted", "rejected"}]
       /\ uses' \in [Holders -> Ids \cup {None}]
  BY <1>1 DEF IInv, TypeOK
<1>. QED
  BY <1>1, <1>4, <1>7, <1>8, <1>9, <1>10, <1>11, <1>12, IdentitiesStay DEF IInv, TypeOK

-----------------------------------------------------------------------------
(* The theorems *)

LEMMA NextIInv == IInv /\ [Next]_vars => IInv'
<1> SUFFICES ASSUME IInv, [Next]_vars PROVE IInv'
  OBVIOUS
<1>1. ASSUME NEW t \in Sessions, Step(t) PROVE IInv'
  BY <1>1, LockIInv, MergeIInv, AddSuggestionsIInv, ReviewIInv, EndsIInv DEF Step
<1>2. ASSUME NEW t \in Sessions, Rollback(t) PROVE IInv'
  BY <1>2, EndsIInv
<1>3. ASSUME NEW t \in Sessions,
             \/ \E p \in Pairs : OpenMerge(t, p) \/ Accept(t, p)
             \/ \E h \in Holders, i \in Ids : OpenAssign(t, h, i)
             \/ \E x \in Items, i \in Ids, learn \in BOOLEAN, settled \in SUBSET {"amount"} :
                   OpenReview(t, x, i, learn, settled)
             \/ Propose(t)
      PROVE  IInv'
  BY <1>3, BeginIInv
<1>4. ASSUME NEW i \in Ids, NEW n \in Names, Create(i, n) \/ EditIdentity(i, n) PROVE IInv'
  BY <1>4, NameIInv
<1>5. ASSUME NEW p \in Pairs, Reject(p) PROVE IInv'
  BY <1>5, RejectIInv
<1>6. CASE \/ \E h \in Holders, i \in Ids : Refer(h, i)
           \/ \E x \in Items, amount \in BOOLEAN : DeliverItem(x, amount)
           \/ \E r \in Rules : RevokeRule(r)
           \/ UNCHANGED vars
  BY <1>6, ArrivalsIInv
<1>. QED
  BY <1>1, <1>2, <1>3, <1>4, <1>5, <1>6 DEF Next

THEOREM Invariance == Spec => []IInv
  BY InitIInv, NextIInv, PTL DEF Spec

\* Identities, suggestions, references, rules, review items and requests are of
\* their types.
THEOREM TypeCorrect == Spec => []TypeOK
<1>1. IInv => TypeOK
  BY DEF IInv
<1>. QED
  BY <1>1, Invariance, PTL

\* At most one rule speaks for a raw name.
THEOREM NamesHaveOneRule == Spec => []OneRulePerName
<1>1. IInv => OneRulePerName
  <2> SUFFICES ASSUME IInv PROVE Cardinality(ActiveRules) <= 1
    BY DEF OneRulePerName
  <2>1. CASE ActiveRules = {}
    BY <2>1, FS_EmptySet
  <2>2. CASE ActiveRules # {}
    <3>1. PICK r \in ActiveRules : ActiveRules = {r}
      BY <2>2 DEF IInv, RuleIsAlone
    <3>2. Cardinality({r}) = 1
      BY FS_Singleton
    <3>. QED
      BY <3>1, <3>2
  <2>. QED
    BY <2>1, <2>2
<1>. QED
  BY <1>1, Invariance, PTL

-----------------------------------------------------------------------------
(* Families *)

LEMMA RedirectsAreOrdered ==
  ASSUME IInv
  PROVE  redirect \in Redirects /\ \E depth : Orders(redirect, depth)
<1>1. redirect \in Redirects
  BY DEF IInv, TypeOK, Redirects
<1>2. PICK depth \in [Ids -> 0..Cardinality(Merged)] :
          \A i \in Merged : depth[redirect[i]] < depth[i]
  BY DEF IInv, RedirectsDescend
<1>3. /\ Cardinality(Ids) \in Nat /\ Cardinality(Merged) \in Nat
      /\ Cardinality(Merged) <= Cardinality(Ids)
  BY ConstantsAssumption, FS_Subset, FS_CardinalityType DEF Merged
<1>4. depth \in [Ids -> 0..Cardinality(Ids)]
  BY <1>2, <1>3
<1>5. Orders(redirect, depth)
  BY <1>2, <1>4 DEF Orders, Merged
<1>. QED
  BY <1>1, <1>5

\* Every identity that exists leads to one that can be edited, and a suggestion
\* that is shown as accepted was merged.
THEOREM FamiliesHaveRoots == Spec => []FamilyHasActiveRoot
<1>1. IInv => FamilyHasActiveRoot
  <2> SUFFICES ASSUME IInv PROVE FamilyHasActiveRoot
    OBVIOUS
  <2>1. PICK depth : Orders(redirect, depth)
    BY RedirectsAreOrdered
  <2>2. ASSUME NEW i \in Ids, Exists(i)
        PROVE  redirect[Root(i)] = None /\ active[Root(i)]
    <3> DEFINE E == {j \in Ids : Exists(j)}
    <3>1. \A j \in Ids \cap E : redirect[j] # None => redirect[j] \in E
      BY DEF IInv, TypeOK, MergedIsRetired, Merged
    <3>2. RootOf(redirect, i) \in E /\ redirect[RootOf(redirect, i)] = None
      <4>1. i \in E
        BY <2>2
      <4> HIDE DEF E
      <4>. QED
        BY <2>1, <3>1, <4>1, RedirectsAreOrdered, RootFacts
    <3>3. active[RootOf(redirect, i)]
      BY <3>2 DEF IInv, MergedIsRetired, Merged
    <3>. QED
      BY <3>2, <3>3, RootIsWalked
  <2>3. \A p \in Pairs : suggestion[p] = "accepted" => redirect[p[1]] = p[2]
    BY DEF IInv, AcceptedIsMerged
  <2>. QED
    BY <2>2, <2>3 DEF FamilyHasActiveRoot
<1>. QED
  BY <1>1, Invariance, PTL

\* A merge moves the whole family of the source to the root of the target.
LEMMA MergeMovesFamily ==
  ASSUME IInv, IInv', NEW t \in Sessions, Merge(t)
  PROVE  LET p == session[t].pair IN
         \A i \in Ids : RootOf(redirect', i) =
                           IF RootOf(redirect, i) = p[1] THEN p[2] ELSE RootOf(redirect, i)
<1> DEFINE p == session[t].pair
           g == [i \in Ids |-> IF RootOf(redirect, i) = p[1] THEN p[2] ELSE RootOf(redirect, i)]
<1>1. /\ p[1] \in Ids /\ p[2] \in Ids /\ p[1] # p[2]
      /\ redirect[p[1]] = None /\ redirect[p[2]] = None
      /\ \A i \in Ids : redirect'[i] = IF i = p[1] THEN p[2] ELSE redirect[i]
  BY MergeWrites
<1>2. PICK depth : Orders(redirect, depth)
  BY RedirectsAreOrdered
<1>3. /\ redirect' \in Redirects
      /\ redirect \in [Ids -> Ids \cup {None}]
  BY DEF IInv, TypeOK, Redirects
<1>4. PICK deeper : Orders(redirect', deeper)
  <2>1. PICK d \in [Ids -> 0..Cardinality(Merged')] : \A i \in Merged' : d[redirect'[i]] < d[i]
    BY DEF IInv, RedirectsDescend
  <2>2. /\ Cardinality(Ids) \in Nat /\ Cardinality(Merged') \in Nat
        /\ Cardinality(Merged') <= Cardinality(Ids)
    BY ConstantsAssumption, FS_Subset, FS_CardinalityType DEF Merged
  <2>3. d \in [Ids -> 0..Cardinality(Ids)]
    BY <2>1, <2>2
  <2>. QED
    BY <2>1, <2>3 DEF Orders, Merged
<1>5. \A i \in Ids : RootOf(redirect, i) = IF redirect[i] = None THEN i
                                           ELSE RootOf(redirect, redirect[i])
  <2>1. \A i \in Ids \cap Ids : redirect[i] # None => redirect[i] \in Ids
    BY <1>3
  <2>. QED
    BY <1>2, <2>1, RedirectsAreOrdered, RootFacts
<1> HIDE DEF p
<1>6. ASSUME NEW i \in Ids PROVE g[i] = IF redirect'[i] = None THEN i ELSE g[redirect'[i]]
  <2>1. p[2] # None
    BY <1>1, ConstantsAssumption
  <2>2. CASE i = p[1]
    <3>1. g[i] = p[2] /\ redirect'[i] = p[2]
      BY <1>1, <1>5, <2>2
    <3>2. g[p[2]] = p[2]
      BY <1>1, <1>5
    <3>. QED
      BY <2>1, <3>1, <3>2
  <2>3. CASE i # p[1] /\ redirect[i] = None
    BY <1>1, <1>5, <2>3
  <2>4. CASE i # p[1] /\ redirect[i] # None
    <3>1. redirect'[i] = redirect[i] /\ redirect[i] \in Ids
      BY <1>1, <1>3, <2>4
    <3>2. RootOf(redirect, i) = RootOf(redirect, redirect[i])
      BY <1>5, <2>4
    <3>. QED
      BY <2>4, <3>1, <3>2
  <2>. QED
    BY <2>2, <2>3, <2>4
<1>7. \A i \in Ids : RootOf(redirect', i) = g[i]
  <2> HIDE DEF g
  <2>. QED
    BY <1>3, <1>4, <1>6, RootIsUnique
<1>. QED
  BY <1>7 DEF p

\* Identities that were counted together stay together.
THEOREM FamiliesAreNotSplit == Spec => FamiliesOnlyGrow
<1> DEFINE A == \A i, j \in Ids : Root(i) = Root(j) => Root(i)' = Root(j)'
<1>1. IInv /\ IInv' /\ [Next]_vars => [A]_redirect
  <2> SUFFICES ASSUME IInv, IInv', [Next]_vars, redirect' # redirect PROVE A
    OBVIOUS
  <2>1. PICK t \in Sessions : Merge(t)
    BY DEF Next, Step, Rollback, Propose, OpenMerge, Accept, OpenAssign, OpenReview, Create,
       EditIdentity, Reject, Refer, DeliverItem, RevokeRule, Lock, RefuseMerge, AddSuggestions,
       Assign, Review, RefuseReview, identities, vars
  <2>2. \A i : Root(i) = RootOf(redirect, i)
    BY RootIsWalked
  <2>3. \A i : Root(i)' = RootOf(redirect', i)
    BY DEF Root, RootOf, Follow, Walk, Row
  <2>. QED
    BY <2>1, <2>2, <2>3, MergeMovesFamily
<1>. QED
  BY <1>1, Invariance, PTL DEF Spec, FamiliesOnlyGrow

-----------------------------------------------------------------------------
(* Decisions about suggestions *)

\* What a merge that accepts a suggestion has locked is still open.
LEMMA AcceptancePending ==
  ASSUME IInv, NEW t \in Running("merge"), session[t].accepts
  PROVE  session[t].pair \in Pairs /\ suggestion[session[t].pair] = "pending"
<1>1. session[t].pair \in Pairs
  BY SessionFacts DEF Running
<1>. QED
  BY <1>1 DEF IInv, AcceptanceIsHeld

\* A suggestion is decided once, and accepted together with its own merge.
THEOREM SuggestionsStayDecided == Spec => SuggestionsAreDecidedOnce
<1> DEFINE Suggested == \A p \in Pairs : suggestion'[p] # suggestion[p] =>
               \/ suggestion[p] = "none" /\ suggestion'[p] = "pending"
               \/ suggestion[p] = "pending" /\ suggestion'[p] = "rejected"
               \/ suggestion[p] = "pending" /\ suggestion'[p] = "accepted"
                     /\ redirect[p[1]] = None /\ redirect'[p[1]] = p[2]
           Ended(t) == session[t].accepts /\ session'[t] # session[t] =>
               \/ session'[t] # None
               \/ suggestion'[session[t].pair] = "accepted"
               \/ suggestion'[session[t].pair] = "pending" /\ redirect' = redirect
           Quiet == UNCHANGED suggestion
                       /\ \A t \in Running("merge") : session'[t] # None \/ redirect' = redirect
<1>1. ASSUME IInv, Quiet PROVE Suggested /\ \A t \in Running("merge") : Ended(t)
  <2>1. ASSUME NEW t \in Running("merge"), session[t].accepts
        PROVE  suggestion'[session[t].pair] = "pending"
    BY <1>1, <2>1, AcceptancePending
  <2>. QED
    BY <1>1, <2>1
<1>2. ASSUME IInv, NEW t \in Sessions, Merge(t)
      PROVE  Suggested /\ \A u \in Running("merge") : Ended(u)
  <2> DEFINE p == session[t].pair
  <2>1. /\ p \in Pairs /\ redirect[p[1]] = None /\ redirect'[p[1]] = p[2]
        /\ session' = [session EXCEPT ![t] = None]
        /\ suggestion' = IF session[t].accepts THEN [suggestion EXCEPT ![p] = "accepted"]
                         ELSE suggestion
        /\ t \in Running("merge")
    BY <1>2, MergeWrites
  <2>2. suggestion \in [Pairs -> {"none", "pending", "accepted", "rejected"}]
        /\ session \in [Sessions -> Session \cup {None}]
    BY <1>2 DEF IInv, TypeOK
  <2>3. session[t].accepts => suggestion[p] = "pending"
    BY <1>2, <2>1, AcceptancePending
  <2> HIDE DEF p
  <2>4. Suggested
    BY <2>1, <2>2, <2>3
  <2>5. ASSUME NEW u \in Running("merge") PROVE Ended(u)
    <3>1. CASE u = t
      BY <2>1, <2>2, <3>1 DEF p
    <3>2. CASE u # t
      BY <2>1, <2>2, <3>2 DEF Running
    <3>. QED
      BY <3>1, <3>2
  <2>. QED
    BY <2>4, <2>5
<1>3. ASSUME IInv, NEW q \in Pairs, Reject(q)
      PROVE  Suggested /\ \A u \in Running("merge") : Ended(u)
  <2>1. suggestion \in [Pairs -> {"none", "pending", "accepted", "rejected"}]
    BY <1>3 DEF IInv, TypeOK
  <2>. QED
    BY <1>3, <2>1 DEF Reject
<1>4. ASSUME IInv, NEW t \in Sessions, AddSuggestions(t)
      PROVE  Suggested /\ \A u \in Running("merge") : Ended(u)
  <2>1. /\ \A q \in session[t].found : suggestion[q] = "none"
        /\ session \in [Sessions -> Session \cup {None}]
    BY <1>4 DEF AddSuggestions, Is, Running, IInv, TypeOK, ProposalIsNew
  <2>2. Suggested
    BY <1>4, <2>1 DEF AddSuggestions
  <2>3. \A u \in Running("merge") : session'[u] = session[u]
    BY <1>4, <2>1 DEF AddSuggestions, End, Is, Running
  <2>. QED
    BY <2>2, <2>3
<1>5. ASSUME IInv, [Next]_vars,
             \A t \in Sessions : ~Merge(t) /\ ~AddSuggestions(t), \A q \in Pairs : ~Reject(q)
      PROVE  Quiet
  BY <1>5 DEF Next, Step, Rollback, Propose, OpenMerge, Accept, OpenAssign, OpenReview, Create,
     EditIdentity, Refer, DeliverItem, RevokeRule, Lock, RefuseMerge, Assign, Review,
     RefuseReview, identities, vars
<1>6. IInv /\ [Next]_vars => [Suggested /\ \A t \in Running("merge") : Ended(t)]_vars
  BY <1>1, <1>2, <1>3, <1>4, <1>5
<1>. QED
  BY <1>6, Invariance, PTL DEF Spec, SuggestionsAreDecidedOnce

-----------------------------------------------------------------------------
(* Locks *)

\* Of the merges that wait, the one that waits for the highest row waits for
\* one that holds all it needs.
THEOREM MergesDoNotWaitInACircle == Spec => []MergesGoOn
<1>1. IInv => MergesGoOn
  <2> SUFFICES ASSUME IInv, NEW t0 \in Running("merge"),
                      \A t \in Running("merge") :
                          ~Locked(t) /\ ~Free(NextLock(session[t].pair, session[t].held))
               PROVE  FALSE
    BY DEF MergesGoOn
  <2> DEFINE next(t) == NextLock(session[t].pair, session[t].held)
             Above(t) == {i \in Ids : i > next(t)}
             Sizes == {n \in Nat : \E t \in Running("merge") : Cardinality(Above(t)) = n}
  <2>1. ASSUME NEW t \in Running("merge")
        PROVE  /\ session[t].pair \in Pairs
               /\ session[t].held \subseteq {session[t].pair[1], session[t].pair[2]}
               /\ next(t) \in {session[t].pair[1], session[t].pair[2]} \ session[t].held
               /\ next(t) \in Ids /\ next(t) \in Nat
               /\ \A j \in session[t].held : j < next(t)
    <3>1. /\ session[t].pair \in Pairs
          /\ session[t].pair[1] \in Ids /\ session[t].pair[2] \in Ids
      BY SessionFacts DEF Running
    <3>2. /\ session[t].held \subseteq {session[t].pair[1], session[t].pair[2]}
          /\ \A i \in {session[t].pair[1], session[t].pair[2]} \ session[t].held,
                j \in session[t].held : j < i
      BY DEF IInv, RowsAreHeldInOrder
    <3>3. {session[t].pair[1], session[t].pair[2]} \ session[t].held # {}
      BY <3>2 DEF Locked
    <3>4. next(t) \in {session[t].pair[1], session[t].pair[2]} \ session[t].held
      BY <3>1, <3>3, NextLockFacts
    <3>. QED
      BY <3>1, <3>2, <3>4, ConstantsAssumption
  <2>2. \A t \in Running("merge") : \E u \in Running("merge") : next(t) \in session[u].held
    BY DEF Free
  <2> HIDE DEF next
  <2>3. \A t \in Running("merge") : \E u \in Running("merge") : next(t) < next(u)
    BY <2>1, <2>2
  <2>4. \A t : IsFiniteSet(Above(t)) /\ Cardinality(Above(t)) \in Nat
    BY ConstantsAssumption, FS_Subset, FS_CardinalityType
  <2>5. ASSUME NEW t \in Running("merge"), NEW u \in Running("merge"), next(t) < next(u)
        PROVE  Cardinality(Above(u)) < Cardinality(Above(t))
    <3>1. /\ Ids \subseteq Nat
          /\ next(t) \in Nat /\ next(u) \in Nat /\ next(u) \in Ids
      BY <2>1, ConstantsAssumption
    <3>2. Above(u) \subseteq Above(t) /\ next(u) \in Above(t) /\ next(u) \notin Above(u)
      <4>1. ASSUME NEW i \in Ids, i > next(u) PROVE i > next(t)
        <5>1. i \in Nat
          BY <3>1
        <5>. QED
          BY <2>5, <3>1, <4>1, <5>1
      <4>2. next(u) > next(t) /\ ~(next(u) > next(u))
        BY <2>5, <3>1
      <4>3. Above(u) \subseteq Above(t)
        BY <4>1
      <4>. QED
        BY <3>1, <4>2, <4>3
    <3>3. Above(u) # Above(t)
      BY <3>2
    <3> HIDE DEF Above
    <3>4. /\ Cardinality(Above(u)) <= Cardinality(Above(t))
          /\ Cardinality(Above(u)) # Cardinality(Above(t))
      BY <2>4, <3>2, <3>3, FS_Subset
    <3>. QED
      BY <2>4, <3>4
  <2> HIDE DEF Above
  <2>6. Sizes # {}
    BY <2>4
  <2>7. PICK n \in Sizes : \A m \in Sizes : n <= m
    BY <2>6, LeastNumber
  <2>8. PICK t \in Running("merge") : Cardinality(Above(t)) = n
    BY <2>7
  <2>9. PICK u \in Running("merge") : next(t) < next(u)
    BY <2>3
  <2>10. Cardinality(Above(u)) \in Sizes /\ Cardinality(Above(u)) < n
    BY <2>4, <2>5, <2>8, <2>9
  <2>. QED
    BY <2>4, <2>7, <2>8, <2>10
<1>. QED
  BY <1>1, Invariance, PTL
=============================================================================
