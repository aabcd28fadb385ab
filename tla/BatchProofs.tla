---------------------------- MODULE BatchProofs ----------------------------
(***************************************************************************)
(* Proofs about Batch, for any number of requests, customers, versions and *)
(* rows: what the selection of contacts selects, that every item of a      *)
(* payload is answered under its own index, that a customer stays with one *)
(* model, and that the log describes the answers.                          *)
(***************************************************************************)
EXTENDS Batch, FiniteSetTheorems, TLAPS

---------------------------------------------------------------------------
(* Ranking.                                                                *)

\* Where B[k] is what comes before k in a total order of a finite set, the
\* number of elements before k is k's place, counted from zero.
LEMMA Ranks ==
  ASSUME NEW E, IsFiniteSet(E), NEW B \in [E -> SUBSET E],
         \A k \in E : k \notin B[k],
         \A j, k \in E : j # k => j \in B[k] \/ k \in B[j],
         \A j, k \in E : j \in B[k] => B[j] \subseteq B[k]
  PROVE  /\ Cardinality(E) \in Nat
         /\ [k \in E |-> Cardinality(B[k])] \in Bijection(E, 0..(Cardinality(E) - 1))
<1> DEFINE rank == [k \in E |-> Cardinality(B[k])]
           places == 0..(Cardinality(E) - 1)
<1>1. Cardinality(E) \in Nat
  BY FS_CardinalityType
<1>2. ASSUME NEW k \in E
      PROVE  /\ IsFiniteSet(B[k])
             /\ Cardinality(B[k]) \in Nat
             /\ Cardinality(B[k]) < Cardinality(E)
  <2>1. B[k] \in SUBSET E /\ k \notin B[k]
    OBVIOUS
  <2>2. IsFiniteSet(B[k]) /\ Cardinality(B[k]) <= Cardinality(E)
        /\ (Cardinality(E) = Cardinality(B[k]) => E = B[k])
    BY <2>1, FS_Subset
  <2>3. Cardinality(B[k]) \in Nat
    BY <2>2, FS_CardinalityType
  <2> QED BY <2>1, <2>2, <2>3, <1>1
<1>3. ASSUME NEW j \in E, NEW k \in E, j \in B[k]
      PROVE  Cardinality(B[j]) < Cardinality(B[k])
  <2>1. B[j] \in SUBSET B[k] /\ B[j] # B[k]
    BY <1>3
  <2>2. Cardinality(B[j]) <= Cardinality(B[k])
        /\ (Cardinality(B[k]) = Cardinality(B[j]) => B[k] = B[j])
    BY <2>1, <1>2, FS_Subset
  <2> QED BY <2>1, <2>2, <1>2
<1>4. rank \in [E -> places]
  BY <1>1, <1>2
<1>5. ASSUME NEW j \in E, NEW k \in E, rank[j] = rank[k]
      PROVE  j = k
  <2> SUFFICES ASSUME j # k PROVE FALSE
    OBVIOUS
  <2>1. CASE j \in B[k]
    BY <2>1, <1>2, <1>3, <1>5
  <2>2. CASE k \in B[j]
    BY <2>2, <1>2, <1>3, <1>5
  <2> QED BY <2>1, <2>2
<1>6. rank \in Injection(E, places)
  <2> HIDE DEF rank, places
  <2> QED BY <1>4, <1>5 DEF Injection, IsInjective
<1>7. IsFiniteSet(places) /\ Cardinality(places) = Cardinality(E)
  BY <1>1, FS_Interval
<1>8. rank \in Surjection(E, places)
  <2> HIDE DEF rank, places
  <2> QED BY <1>6, <1>7, FS_Injection
<1> HIDE DEF rank
<1>9. rank \in Bijection(E, places)
  BY <1>6, <1>8 DEF Bijection
<1> QED BY <1>1, <1>9 DEF rank

\* Those with fewer than n before them are n, or all.
LEMMA FirstOnes ==
  ASSUME NEW E, IsFiniteSet(E), NEW B \in [E -> SUBSET E],
         \A k \in E : k \notin B[k],
         \A j, k \in E : j # k => j \in B[k] \/ k \in B[j],
         \A j, k \in E : j \in B[k] => B[j] \subseteq B[k],
         NEW n \in Nat
  PROVE  LET first == {k \in E : Cardinality(B[k]) < n} IN
         /\ IsFiniteSet(first) /\ Cardinality(first) \in Nat
         /\ Cardinality(first) <= n
         /\ first # E => Cardinality(first) = n
<1> DEFINE rank == [k \in E |-> Cardinality(B[k])]
           first == {k \in E : Cardinality(B[k]) < n}
           size == Cardinality(E)
           m == IF n <= size THEN n ELSE size
           part == [k \in first |-> rank[k]]
<1>1. size \in Nat /\ rank \in Bijection(E, 0..(size - 1))
  BY Ranks
<1>2. m \in Nat /\ m <= n /\ m <= size
  BY <1>1
<1>3. first = {k \in E : rank[k] < n}
  OBVIOUS
<1> HIDE DEF rank, first
<1>4. /\ rank \in [E -> 0..(size - 1)]
      /\ \A j, k \in E : rank[j] = rank[k] => j = k
      /\ \A i \in 0..(size - 1) : \E k \in E : rank[k] = i
  BY <1>1 DEF Bijection, Injection, IsInjective, Surjection
<1> HIDE DEF size
<1>5. part \in [first -> 0..(m - 1)]
  <2> SUFFICES ASSUME NEW k \in first PROVE rank[k] \in 0..(m - 1)
    OBVIOUS
  <2>1. k \in E /\ rank[k] < n /\ rank[k] \in 0..(size - 1)
    BY <1>3, <1>4
  <2> QED BY <2>1, <1>1, <1>2
<1>6. \A i \in 0..(m - 1) : \E k \in first : part[k] = i
  <2> TAKE i \in 0..(m - 1)
  <2>1. i \in 0..(size - 1) /\ i < n
    BY <1>1, <1>2
  <2>2. PICK k \in E : rank[k] = i
    BY <1>4, <2>1
  <2> QED BY <2>1, <2>2, <1>3
<1>7. \A j, k \in first : part[j] = part[k] => j = k
  BY <1>3, <1>4
<1>8. part \in Bijection(first, 0..(m - 1))
  <2> HIDE DEF part, m
  <2> QED BY <1>5, <1>6, <1>7 DEF Bijection, Injection, IsInjective, Surjection
<1>9. IsFiniteSet(first) /\ Cardinality(first) <= size
      /\ (size = Cardinality(first) => E = first)
  BY <1>3, FS_Subset DEF size
<1>10. Cardinality(0..(m - 1)) = m
  <2> HIDE DEF m
  <2> QED BY <1>2, FS_Interval
<1>11. Cardinality(first) = m
  <2>1. ExistsBijection(first, 0..(m - 1))
    BY <1>8 DEF ExistsBijection
  <2> HIDE DEF m
  <2> QED BY <2>1, <1>9, <1>10, FS_Bijection
<1> QED
  <2>1. first # E => Cardinality(first) = n
    BY <1>9, <1>11, <1>1
  <2>2. IsFiniteSet(first) /\ Cardinality(first) \in Nat /\ Cardinality(first) <= n
    BY <1>2, <1>9, <1>11
  <2> QED BY <2>1, <2>2 DEF first

\* What a budget pays for, at a cost per call.
LEMMA Affordable ==
  ASSUME NEW budget \in Nat, NEW cost \in Nat \ {0}
  PROVE  /\ budget \div cost \in Nat
         /\ (budget \div cost) * cost <= budget
         /\ ((budget \div cost) + 1) * cost > budget
OBVIOUS

---------------------------------------------------------------------------
(* The contact policy.                                                     *)

Scenario == [threshold : Nat, gain : Nat, cost : Nat \ {0}]
CostFile == [capacity : Nat, budget : Nat]

LEMMA LimitIsAffordable ==
  ASSUME NEW scenario \in Scenario, NEW costs \in CostFile
  PROVE  LET n == Limit(scenario, costs) IN
         /\ n \in Nat /\ n <= costs.capacity
         /\ n * scenario.cost <= costs.budget
         /\ n = costs.capacity \/ (n + 1) * scenario.cost > costs.budget
<1> DEFINE budget == costs.budget  cost == scenario.cost
<1>1. budget \in Nat /\ cost \in Nat \ {0} /\ costs.capacity \in Nat
  BY DEF Scenario, CostFile
<1> DEFINE q == budget \div cost
<1>2. q \in Nat /\ q * cost <= budget /\ (q + 1) * cost > budget
  <2> HIDE DEF budget, cost
  <2> QED BY <1>1, Affordable
<1>3. Limit(scenario, costs) = IF costs.capacity <= q THEN costs.capacity ELSE q
  BY DEF Limit
<1> HIDE DEF q, budget, cost
<1>4. ASSUME costs.capacity <= q PROVE costs.capacity * cost <= budget
  <2> DEFINE n == costs.capacity
  <2>1. n \in Nat /\ n <= q
    BY <1>1, <1>4
  <2> HIDE DEF n
  <2>2. n * cost <= q * cost /\ n * cost \in Nat /\ q * cost \in Nat
    BY <2>1, <1>1, <1>2
  <2> QED BY <2>2, <1>1, <1>2 DEF n
<1> QED
  BY <1>1, <1>2, <1>3, <1>4 DEF budget, cost

LEMMA ValueIsNat ==
  ASSUME NEW rows \in Seq(ScoredRow), NEW k \in DOMAIN rows, NEW scenario \in Scenario
  PROVE  Value(rows[k], scenario) \in Nat
<1>1. rows[k] \in ScoredRow
  OBVIOUS
<1>2. rows[k].probability \in Nat
  BY <1>1 DEF ScoredRow
<1>3. scenario.gain \in Nat
  BY DEF Scenario
<1> DEFINE a == rows[k].probability  b == scenario.gain
<1>4. a * b \in Nat
  <2> HIDE DEF a, b
  <2> QED BY <1>2, <1>3 DEF a, b
<1> QED BY <1>4 DEF Value

\* The order rows are ranked in: Before(rows, scenario, E, k) is what comes
\* before k among E.
LEMMA RankingIsTotal ==
  ASSUME NEW rows \in Seq(ScoredRow), NEW scenario \in Scenario,
         NEW E \in SUBSET DOMAIN rows
  PROVE  LET B == [k \in E |-> Before(rows, scenario, E, k)] IN
         /\ B \in [E -> SUBSET E]
         /\ \A k \in E : k \notin B[k]
         /\ \A j, k \in E : j # k => j \in B[k] \/ k \in B[j]
         /\ \A j, k \in E : j \in B[k] => B[j] \subseteq B[k]
<1> DEFINE value == [k \in DOMAIN rows |-> Value(rows[k], scenario)]
           B == [k \in E |-> Before(rows, scenario, E, k)]
<1>1. \A k \in E : k \in Nat
  OBVIOUS
<1>2. \A k \in E : value[k] \in Nat
  BY ValueIsNat
<1>3. \A k \in E : B[k] = {j \in E : value[j] > value[k] \/ (value[j] = value[k] /\ j < k)}
  BY DEF Before
<1>4. B \in [E -> SUBSET E]
  BY DEF Before
<1> HIDE DEF value, B
<1>5. \A k \in E : k \notin B[k]
  BY <1>1, <1>2, <1>3
<1>6. \A j, k \in E : j # k => j \in B[k] \/ k \in B[j]
  BY <1>1, <1>2, <1>3
<1>7. \A j, k \in E : j \in B[k] => B[j] \subseteq B[k]
  BY <1>1, <1>2, <1>3
<1> QED
  BY <1>4, <1>5, <1>6, <1>7 DEF B

\* What select_contacts promises of one batch.
LEMMA ContactsOfBatch ==
  ASSUME NEW rows \in Seq(ScoredRow), NEW scenario \in Scenario, NEW costs \in CostFile
  PROVE  LET calls == Contacts(rows, scenario, costs)
             left == Decided(rows) \ calls
         IN /\ calls \subseteq Decided(rows)
            /\ IsFiniteSet(calls) /\ Cardinality(calls) \in Nat
            /\ Cardinality(calls) <= Limit(scenario, costs)
            /\ left # {} => Cardinality(calls) = Limit(scenario, costs)
            /\ \A j \in left, k \in calls :
                 Value(rows[k], scenario) >= Value(rows[j], scenario)
<1> DEFINE E == Decided(rows)
           B == [k \in E |-> Before(rows, scenario, E, k)]
           n == Limit(scenario, costs)
           calls == {k \in E : Cardinality(B[k]) < n}
<1>1. E \in SUBSET DOMAIN rows
  BY DEF Decided
<1>2. IsFiniteSet(E)
  <2>1. DOMAIN rows = 1..Len(rows) /\ Len(rows) \in Nat
    OBVIOUS
  <2>2. IsFiniteSet(1..Len(rows))
    BY <2>1, FS_Interval
  <2> QED BY <1>1, <2>1, <2>2, FS_Subset
<1>3. n \in Nat
  BY LimitIsAffordable
<1>4. /\ B \in [E -> SUBSET E]
      /\ \A k \in E : k \notin B[k]
      /\ \A j, k \in E : j # k => j \in B[k] \/ k \in B[j]
      /\ \A j, k \in E : j \in B[k] => B[j] \subseteq B[k]
  <2> HIDE DEF E
  <2> QED BY <1>1, RankingIsTotal
<1>5. Contacts(rows, scenario, costs) = calls
  BY DEF Contacts
<1>6. /\ IsFiniteSet(calls) /\ Cardinality(calls) \in Nat
      /\ Cardinality(calls) <= n
      /\ calls # E => Cardinality(calls) = n
  <2> HIDE DEF E, B, n
  <2> QED BY <1>2, <1>3, <1>4, FirstOnes
<1>7. ASSUME NEW j \in E \ calls, NEW k \in calls
      PROVE  Value(rows[k], scenario) >= Value(rows[j], scenario)
  <2>1. j \in E /\ k \in E /\ j # k
    OBVIOUS
  <2>2. Cardinality(B[j]) \in Nat /\ Cardinality(B[k]) \in Nat
    <3> HIDE DEF E, B
    <3> QED BY <2>1, <1>2, <1>4, FS_Subset, FS_CardinalityType
  <2>3. Cardinality(B[k]) < n /\ ~(Cardinality(B[j]) < n)
    OBVIOUS
  <2>4. j \notin B[k]
    <3> SUFFICES ASSUME j \in B[k] PROVE FALSE
      OBVIOUS
    <3>1. B[j] \subseteq B[k] /\ IsFiniteSet(B[k])
      <4> HIDE DEF E, B
      <4> QED BY <2>1, <1>2, <1>4, FS_Subset
    <3>2. Cardinality(B[j]) <= Cardinality(B[k])
      <4> HIDE DEF B
      <4> QED BY <3>1, FS_Subset
    <3> HIDE DEF B, n
    <3> QED BY <3>2, <2>2, <2>3, <1>3
  <2>5. ~(Value(rows[j], scenario) > Value(rows[k], scenario))
    BY <2>1, <2>4 DEF Before
  <2>6. ASSUME NEW i \in E PROVE Value(rows[i], scenario) \in Nat
    BY <1>1, ValueIsNat
  <2> DEFINE a == Value(rows[j], scenario)  b == Value(rows[k], scenario)
  <2>7. a \in Nat /\ b \in Nat /\ ~(a > b)
    BY <2>1, <2>5, <2>6
  <2> HIDE DEF a, b
  <2>8. b >= a
    BY <2>7
  <2> QED BY <2>8 DEF a, b
<1> HIDE DEF B, n
<1>8. calls \subseteq E
  OBVIOUS
<1> HIDE DEF calls, E
<1> QED
  BY <1>5, <1>6, <1>7, <1>8 DEF E, n

---------------------------------------------------------------------------
(* The positions of a batch and the indices of its payload.                *)

\* RowIndices names every resolved item once.
LEMMA IndicesOfRows ==
  ASSUME NEW p \in Seq(Items), NEW base
  PROVE  /\ IsFiniteSet(Resolved(p, base)) /\ Cardinality(Resolved(p, base)) \in Nat
         /\ RowIndices(p, base) \in
              Bijection(1..Cardinality(Resolved(p, base)), Resolved(p, base))
<1> DEFINE E == Resolved(p, base)
           n == Cardinality(E)
           B == [i \in E |-> {j \in E : j < i}]
           rank == [i \in E |-> Cardinality(B[i])]
           f == RowIndices(p, base)
<1>1. DOMAIN p = 1..Len(p) /\ Len(p) \in Nat
  OBVIOUS
<1>2. E \in SUBSET (1..Len(p)) /\ IsFiniteSet(E)
  <2>1. IsFiniteSet(1..Len(p))
    BY <1>1, FS_Interval
  <2>2. E \in SUBSET (1..Len(p))
    BY <1>1 DEF Resolved
  <2> HIDE DEF E
  <2> QED BY <2>1, <2>2, FS_Subset
<1>3. \A i \in E : i \in Nat
  BY <1>1, <1>2
<1> HIDE DEF E
<1>4. /\ B \in [E -> SUBSET E]
      /\ \A k \in E : k \notin B[k]
      /\ \A j, k \in E : j # k => j \in B[k] \/ k \in B[j]
      /\ \A j, k \in E : j \in B[k] => B[j] \subseteq B[k]
  BY <1>3
<1>5. n \in Nat /\ rank \in Bijection(E, 0..(n - 1))
  <2> HIDE DEF B
  <2> QED BY <1>2, <1>4, Ranks
<1>6. f = [k \in 1..n |-> CHOOSE i \in E : Cardinality({j \in E : j < i}) = k - 1]
  BY DEF RowIndices, E
<1>13. \A i \in E : rank[i] = Cardinality({j \in E : j < i})
  OBVIOUS
<1> HIDE DEF rank, B
<1>7. /\ rank \in [E -> 0..(n - 1)]
      /\ \A j, k \in E : rank[j] = rank[k] => j = k
      /\ \A m \in 0..(n - 1) : \E i \in E : rank[i] = m
  BY <1>5 DEF Bijection, Injection, IsInjective, Surjection
<1> HIDE DEF n, f
<1>8. ASSUME NEW k \in 1..n PROVE f[k] \in E /\ rank[f[k]] = k - 1
  <2>1. k - 1 \in 0..(n - 1)
    BY <1>5
  <2>2. \E i \in E : Cardinality({j \in E : j < i}) = k - 1
    BY <2>1, <1>13, <1>7
  <2>3. f[k] = CHOOSE i \in E : Cardinality({j \in E : j < i}) = k - 1
    BY <1>6
  <2>4. f[k] \in E /\ Cardinality({j \in E : j < f[k]}) = k - 1
    BY <2>2, <2>3
  <2> QED BY <2>4, <1>13
<1>9. f \in [1..n -> E]
  BY <1>6, <1>8
<1>10. \A j, k \in 1..n : f[j] = f[k] => j = k
  BY <1>5, <1>8
<1>11. \A i \in E : \E k \in 1..n : f[k] = i
  <2> TAKE i \in E
  <2>1. rank[i] \in 0..(n - 1)
    BY <1>7
  <2>2. rank[i] + 1 \in 1..n /\ (rank[i] + 1) - 1 = rank[i]
    BY <2>1, <1>5
  <2>3. f[rank[i] + 1] \in E /\ rank[f[rank[i] + 1]] = rank[i]
    BY <2>2, <1>8
  <2>4. f[rank[i] + 1] = i
    BY <2>3, <1>7
  <2> QED BY <2>2, <2>4
<1>12. f \in Bijection(1..n, E)
  BY <1>9, <1>10, <1>11 DEF Bijection, Injection, IsInjective, Surjection
<1> QED
  BY <1>2, <1>5, <1>12 DEF E, n, f

---------------------------------------------------------------------------
(* Scored rows.                                                            *)

Bases == [Customers -> Rows \cup {None}]
AnyRuntime == [champion : Versions, challenger : Versions \cup {None}]

\* A resolved item has a customer to complete it from, unless it is complete.
LEMMA ResolvedItem ==
  ASSUME NEW p \in Seq(Items), NEW base \in Bases, NEW i \in Resolved(p, base)
  PROVE  /\ i \in 1..Len(p) /\ p[i] # Malformed
         /\ p[i] \in [customer : Customers \cup {None},
                      given : [Fields -> Values \cup {None}]]
         /\ ~Complete(p[i]) => /\ p[i].customer \in Customers
                               /\ base[p[i].customer] \in Rows
<1>1. i \in DOMAIN p /\ i \in 1..Len(p) /\ p[i] \in Items /\ p[i] # Malformed
  BY DEF Resolved, Resolvable, Valid
<1>2. p[i] \in [customer : Customers \cup {None}, given : [Fields -> Values \cup {None}]]
  BY <1>1 DEF Items
<1>3. Complete(p[i]) \/ (p[i].customer # None /\ base[p[i].customer] # None)
  BY DEF Resolved, Resolvable
<1>4. ASSUME ~Complete(p[i])
      PROVE  p[i].customer \in Customers /\ base[p[i].customer] \in Rows
  <2>1. p[i].customer \in Customers
    BY <1>2, <1>3, <1>4
  <2>2. base[p[i].customer] \in Rows \cup {None}
    BY <2>1 DEF Bases
  <2> QED BY <2>1, <2>2, <1>3, <1>4
<1> QED BY <1>1, <1>2, <1>4

\* Its features are a row, with every required column set.
LEMMA FeaturesAreARow ==
  ASSUME NEW p \in Seq(Items), NEW base \in Bases, NEW i \in Resolved(p, base)
  PROVE  Features(p[i], base) \in Rows
<1> DEFINE item == p[i]
           row == Features(item, base)
<1>1. item.given \in [Fields -> Values \cup {None}]
  BY ResolvedItem
<1>2. Required \subseteq Fields
  BY BatchAssumption
<1>3. CASE Complete(item)
  <2>1. row = item.given
    BY <1>1, <1>3 DEF Features
  <2> QED BY <2>1, <1>1, <1>2, <1>3 DEF Rows, Complete
<1>4. CASE ~Complete(item)
  <2> DEFINE old == base[item.customer]
  <2>1. old \in Rows
    BY <1>4, ResolvedItem
  <2>2. old \in [Fields -> Values \cup {None}] /\ \A f \in Required : old[f] # None
    BY <2>1 DEF Rows
  <2>3. row = [f \in Fields |-> IF item.given[f] # None THEN item.given[f] ELSE old[f]]
    BY <1>4 DEF Features
  <2> HIDE DEF row, old, item
  <2>4. row \in [Fields -> Values \cup {None}]
    BY <2>2, <2>3, <1>1
  <2>5. \A f \in Required : row[f] # None
    BY <2>2, <2>3, <1>2
  <2>6. row \in Rows
    BY <2>4, <2>5 DEF Rows
  <2> QED BY <2>6 DEF row, item
<1> QED BY <1>3, <1>4

LEMMA ScoreType ==
  ASSUME NEW index \in Nat, NEW item, item.customer \in Customers \cup {None},
         NEW row \in Rows, NEW rt \in AnyRuntime
  PROVE  /\ Score(index, item, row, rt) \in ScoredRow
         /\ Serves(item.customer, rt) \in Versions
<1> DEFINE v == Serves(item.customer, rt)
<1>1. InCanary(item.customer, rt) \in BOOLEAN
  BY DEF InCanary
<1>2. v \in Versions
  BY DEF Serves, InCanary, AnyRuntime
<1>3. Risk[v][row] \in Nat /\ Policy[v].threshold \in Nat
  <2>1. Risk[v] \in [Rows -> Nat] /\ Policy[v] \in [threshold : Nat, gain : Nat, cost : Nat \ {0}]
    BY <1>2, BatchAssumption
  <2> QED BY <2>1
<1>4. Score(index, item, row, rt) =
        [index |-> index, customer |-> item.customer, features |-> row,
         canary |-> InCanary(item.customer, rt), version |-> v,
         probability |-> Risk[v][row], threshold |-> Policy[v].threshold]
  BY DEF Score
<1> HIDE DEF v
<1>5. Score(index, item, row, rt) \in ScoredRow
  BY <1>1, <1>2, <1>3, <1>4 DEF ScoredRow
<1> QED BY <1>2, <1>5 DEF v

\* The rows of a batch: their types and what they are scores of.
LEMMA ScoredRows ==
  ASSUME NEW p \in Seq(Items), NEW base \in Bases, NEW rt \in AnyRuntime
  PROVE  LET rows == Scored(p, base, rt)
             f == RowIndices(p, base)
         IN /\ rows \in Seq(ScoredRow)
            /\ Len(rows) = Cardinality(Resolved(p, base))
            /\ DOMAIN rows = DOMAIN f
            /\ \A k \in DOMAIN rows :
                 /\ f[k] \in Resolved(p, base)
                 /\ rows[k] = Score(f[k], p[f[k]], Features(p[f[k]], base), rt)
<1> DEFINE rows == Scored(p, base, rt)
           f == RowIndices(p, base)
           E == Resolved(p, base)
           n == Cardinality(E)
<1>1. n \in Nat /\ f \in [1..n -> E]
  BY IndicesOfRows DEF Bijection, Injection
<1>2. DOMAIN f = 1..n
  BY <1>1
<1>3. rows = [k \in 1..n |-> Score(f[k], p[f[k]], Features(p[f[k]], base), rt)]
  BY <1>2 DEF Scored
<1>4. ASSUME NEW k \in 1..n
      PROVE  f[k] \in E /\ Score(f[k], p[f[k]], Features(p[f[k]], base), rt) \in ScoredRow
  <2> DEFINE i == f[k]
  <2>1. i \in E
    BY <1>1
  <2> HIDE DEF i
  <2>2. i \in Nat /\ p[i].customer \in Customers \cup {None}
    BY <2>1, ResolvedItem
  <2>3. Features(p[i], base) \in Rows
    BY <2>1, FeaturesAreARow
  <2>4. Score(i, p[i], Features(p[i], base), rt) \in ScoredRow
    BY <2>2, <2>3, ScoreType
  <2> QED BY <2>1, <2>4 DEF i
<1> HIDE DEF rows, f, n, E
<1>5. rows \in Seq(ScoredRow) /\ Len(rows) = n /\ DOMAIN rows = 1..n
  BY <1>1, <1>3, <1>4
<1>6. \A k \in 1..n : f[k] \in E /\ rows[k] = Score(f[k], p[f[k]], Features(p[f[k]], base), rt)
  BY <1>3, <1>4
<1> QED BY <1>2, <1>5, <1>6 DEF rows, f, n, E

---------------------------------------------------------------------------
(* The inductive invariant: an answer is what Scored and Contacts make of  *)
(* what the request read, what it read is one content of customers_crm,    *)
(* and the log holds all of an answer's rows or none.                      *)

LogRows(r) == {LogRow(r, k) : k \in DOMAIN answer[r].rows}

AnswerIsComputed(r) ==
  /\ answer[r].costs \in CostFiles
  /\ answer[r].rows = Scored(payload[r], found[r], held[r])
  /\ answer[r].errors = DOMAIN payload[r] \ Resolved(payload[r], found[r])
  /\ answer[r].contacts = IF route[r] = "batch"
                          THEN Contacts(answer[r].rows, Policy[held[r].champion], answer[r].costs)
                          ELSE {}

OneContent(r) ==
  \E content \in seen[r] : \A c \in Customers :
    found[r][c] # None => found[r][c] = content[c]

RequestInv(r) ==
  /\ pc[r] \in {"new", "arrived"} => found[r] = NotRead
  /\ pc[r] = "arrived" => crm \in seen[r]
  /\ pc[r] = "resumed" \/ Answered(r) => OneContent(r)
  /\ Answered(r) => AnswerIsComputed(r)

LogInv(r) ==
  {row \in predictionLog : row.request = r} = IF pc[r] = "logged" THEN LogRows(r) ELSE {}

IInv == TypeOK /\ \A r \in Requests : RequestInv(r) /\ LogInv(r)

\* What a request holds, as the lemmas above want it.
LEMMA HeldTypes ==
  ASSUME TypeOK, NEW r \in Requests
  PROVE  /\ payload[r] \in Seq(Items) /\ found[r] \in Bases /\ held[r] \in AnyRuntime
         /\ held[r].champion \in Versions
         /\ Policy[held[r].champion] \in Scenario
<1>1. payload[r] \in Payloads \cup {<<>>} /\ Payloads \subseteq Seq(Items)
  BY BatchAssumption DEF TypeOK
<1>2. payload[r] \in Seq(Items)
  <2>1. CASE payload[r] = <<>>
    <3>1. <<>> \in Seq(Items)
      OBVIOUS
    <3> QED BY <2>1, <3>1
  <2>2. CASE payload[r] \in Payloads
    BY <2>2, <1>1
  <2> QED BY <1>1, <2>1, <2>2
<1>3. found[r] \in Bases
  BY DEF TypeOK, Bases
<1>4. held[r] \in AnyRuntime
  BY BatchAssumption DEF TypeOK, AnyRuntime
<1>5. held[r].champion \in Versions
  BY <1>4 DEF AnyRuntime
<1>6. Policy[held[r].champion] \in Scenario
  BY <1>5, BatchAssumption DEF Scenario
<1> QED BY <1>2, <1>3, <1>4, <1>5, <1>6

\* A request nothing happens to keeps its invariant.
LEMMA RequestKept ==
  ASSUME NEW r \in Requests, RequestInv(r), LogInv(r),
         pc'[r] = pc[r], route'[r] = route[r], payload'[r] = payload[r],
         held'[r] = held[r], found'[r] = found[r], answer'[r] = answer[r],
         seen[r] \subseteq seen'[r],
         pc[r] = "arrived" => crm' \in seen'[r],
         {row \in predictionLog' : row.request = r} = {row \in predictionLog : row.request = r}
  PROVE  RequestInv(r)' /\ LogInv(r)'
<1>1. \A k : LogRow(r, k)' = LogRow(r, k)
  BY DEF LogRow
<1>2. LogRows(r)' = LogRows(r)
  BY <1>1 DEF LogRows
<1>3. LogInv(r)'
  BY <1>2 DEF LogInv
<1>4. Answered(r)' = Answered(r)
  BY DEF Answered
<1>5. AnswerIsComputed(r) => AnswerIsComputed(r)'
  BY DEF AnswerIsComputed
<1>6. OneContent(r) => OneContent(r)'
  <2> SUFFICES ASSUME OneContent(r) PROVE OneContent(r)'
    OBVIOUS
  <2>1. PICK content \in seen[r] :
          \A c \in Customers : found[r][c] # None => found[r][c] = content[c]
    BY DEF OneContent
  <2>2. content \in seen'[r]
    BY <2>1
  <2> QED BY <2>1, <2>2 DEF OneContent
<1>7. RequestInv(r)'
  BY <1>4, <1>5, <1>6 DEF RequestInv
<1> QED BY <1>3, <1>7

LEMMA InitInv == Init => IInv
<1> SUFFICES ASSUME Init PROVE IInv
  OBVIOUS
<1> USE DEF Init
<1>1. TypeOK
  <2>1. NotRead \in [Customers -> Rows \cup {None}]
    BY DEF NotRead
  <2>2. NoAnswer \in [rows : Seq(ScoredRow), errors : SUBSET Nat,
                      contacts : SUBSET Nat, costs : CostFiles \cup {None}]
    BY DEF NoAnswer
  <2>3. swaps \in 0..MaxSwaps /\ reloads \in 0..MaxReloads
    BY BatchAssumption
  <2> QED BY <2>1, <2>2, <2>3 DEF TypeOK
<1>2. ASSUME NEW r \in Requests PROVE RequestInv(r) /\ LogInv(r)
  BY DEF RequestInv, LogInv, Answered
<1> QED BY <1>1, <1>2 DEF IInv

\* The log after a step that does not write it, as one request sees it.
LEMMA LogUnwritten ==
  ASSUME predictionLog' = predictionLog, NEW r \in Requests
  PROVE  {row \in predictionLog' : row.request = r} = {row \in predictionLog : row.request = r}
OBVIOUS

\* A step that only moves request r on, and other requests not at all.
LEMMA OthersKept ==
  ASSUME IInv, NEW r \in Requests, crm' = crm, predictionLog' = predictionLog,
         \A s \in Requests \ {r} :
           /\ pc'[s] = pc[s] /\ route'[s] = route[s] /\ payload'[s] = payload[s]
           /\ held'[s] = held[s] /\ found'[s] = found[s] /\ answer'[s] = answer[s]
           /\ seen'[s] = seen[s]
  PROVE  \A s \in Requests \ {r} : RequestInv(s)' /\ LogInv(s)'
<1> TAKE s \in Requests \ {r}
<1>1. RequestInv(s) /\ LogInv(s)
  BY DEF IInv
<1>2. pc[s] = "arrived" => crm' \in seen'[s]
  BY <1>1 DEF RequestInv
<1> QED BY <1>1, <1>2, RequestKept, LogUnwritten

LEMMA ArriveInv ==
  ASSUME IInv, NEW r \in Requests, NEW p \in Payloads, NEW rte \in {"single", "batch"},
         Arrive(r, p, rte)
  PROVE  IInv'
<1> USE DEF Arrive, Goto, serverVars
<1>1. TypeOK /\ RequestInv(r) /\ LogInv(r)
  BY DEF IInv
<1>2. TypeOK'
  <2> USE <1>1 DEF TypeOK
  <2>1. pc' \in [Requests -> {"new", "arrived", "resumed", "answered", "logged",
                            "unlogged", "refused"}]
    OBVIOUS
  <2>2. seen' \in [Requests -> SUBSET Crms] /\ held' \in [Requests -> Runtimes]
    OBVIOUS
  <2>3. route' \in [Requests -> {"single", "batch"}] /\ payload' \in [Requests -> Payloads \cup {<<>>}]
    OBVIOUS
  <2> QED BY <2>1, <2>2, <2>3
<1>3. \A s \in Requests \ {r} : RequestInv(s)' /\ LogInv(s)'
  BY <1>1, OthersKept DEF TypeOK
<1>4. pc[r] = "new" /\ pc'[r] = "arrived" /\ seen'[r] = {crm} /\ found'[r] = found[r]
  BY <1>1 DEF TypeOK
<1>5. RequestInv(r)'
  BY <1>1, <1>4 DEF RequestInv, Answered, NotRead
<1>6. LogInv(r)'
  BY <1>1, <1>4 DEF LogInv
<1> QED BY <1>2, <1>3, <1>5, <1>6 DEF IInv

LEMMA RefusedInv ==
  ASSUME IInv, NEW r \in Requests, TooLarge(r) \/ LookupFails(r)
  PROVE  IInv'
<1> USE DEF TooLarge, LookupFails, Accepted, Goto, serverVars
<1>1. TypeOK /\ RequestInv(r) /\ LogInv(r)
  BY DEF IInv
<1>2. TypeOK'
  <2>1. pc' \in [Requests -> {"new", "arrived", "resumed", "answered", "logged",
                            "unlogged", "refused"}]
    BY <1>1 DEF TypeOK
  <2> QED BY <2>1, <1>1 DEF TypeOK
<1>3. \A s \in Requests \ {r} : RequestInv(s)' /\ LogInv(s)'
  BY <1>1, OthersKept DEF TypeOK
<1>4. pc[r] = "arrived" /\ pc'[r] = "refused"
  BY <1>1 DEF TypeOK
<1>5. RequestInv(r)'
  BY <1>4 DEF RequestInv, Answered
<1>6. LogInv(r)'
  BY <1>1, <1>4 DEF LogInv
<1> QED BY <1>2, <1>3, <1>5, <1>6 DEF IInv

LEMMA LookupInv ==
  ASSUME IInv, NEW r \in Requests, Lookup(r)
  PROVE  IInv'
<1> USE DEF Lookup, Accepted, Goto, serverVars
<1>1. TypeOK /\ RequestInv(r) /\ LogInv(r)
  BY DEF IInv
<1> DEFINE read == [c \in Customers |-> IF c \in LookupIds(payload[r]) THEN crm[c] ELSE None]
<1>2. TypeOK'
  <2>1. pc' \in [Requests -> {"new", "arrived", "resumed", "answered", "logged",
                            "unlogged", "refused"}]
    BY <1>1 DEF TypeOK
  <2>2. crm \in [Customers -> Rows \cup {None}]
    BY <1>1, BatchAssumption DEF TypeOK
  <2>3. read \in [Customers -> Rows \cup {None}]
    BY <2>2
  <2>4. found' \in [Requests -> [Customers -> Rows \cup {None}]]
    <3> HIDE DEF read
    <3> QED BY <1>1, <2>3 DEF TypeOK, read
  <2> QED BY <2>1, <2>4, <1>1 DEF TypeOK
<1>3. \A s \in Requests \ {r} : RequestInv(s)' /\ LogInv(s)'
  BY <1>1, OthersKept DEF TypeOK
<1>4. /\ pc[r] = "arrived" /\ pc'[r] = "resumed" /\ seen'[r] = seen[r]
      /\ found'[r] = read
  BY <1>1 DEF TypeOK
<1>5. OneContent(r)'
  <2>1. crm \in seen'[r]
    BY <1>1, <1>4 DEF RequestInv
  <2>2. \A c \in Customers : found'[r][c] # None => found'[r][c] = crm[c]
    BY <1>4
  <2> QED BY <2>1, <2>2 DEF OneContent
<1>6. RequestInv(r)'
  BY <1>4, <1>5 DEF RequestInv, Answered
<1>7. LogInv(r)'
  BY <1>1, <1>4 DEF LogInv
<1> QED BY <1>2, <1>3, <1>6, <1>7 DEF IInv

LEMMA AnswerInv ==
  ASSUME IInv, NEW r \in Requests, NEW costs \in CostFiles, Answer(r, costs)
  PROVE  IInv'
<1> DEFINE rows == Scored(payload[r], found[r], held[r])
           scenario == Policy[held[r].champion]
           calls == IF route[r] = "batch" THEN Contacts(rows, scenario, costs) ELSE {}
           given == [rows |-> rows,
                     errors |-> DOMAIN payload[r] \ Resolved(payload[r], found[r]),
                     contacts |-> calls, costs |-> costs]
<1>1. TypeOK /\ RequestInv(r) /\ LogInv(r)
  BY DEF IInv
<1>2. /\ pc[r] \in {"arrived", "resumed"} /\ pc' = [pc EXCEPT ![r] = "answered"]
      /\ answer' = [answer EXCEPT ![r] = given]
      /\ UNCHANGED <<runtime, swaps, crm, reloads, predictionLog, route, payload, held, found, seen>>
  BY DEF Answer, Accepted, Goto, serverVars
<1>3. /\ payload[r] \in Seq(Items) /\ found[r] \in Bases /\ held[r] \in AnyRuntime
      /\ scenario \in Scenario /\ costs \in CostFile
  BY <1>1, HeldTypes, BatchAssumption DEF CostFile
<1>4. rows \in Seq(ScoredRow)
  BY <1>3, ScoredRows
<1>5. calls \in SUBSET Nat
  <2>1. Contacts(rows, scenario, costs) \subseteq DOMAIN rows
    BY DEF Contacts, Decided
  <2>2. DOMAIN rows \subseteq Nat
    <3> HIDE DEF rows
    <3> QED BY <1>4
  <2> QED BY <2>1, <2>2
<1>6. given \in [rows : Seq(ScoredRow), errors : SUBSET Nat,
                 contacts : SUBSET Nat, costs : CostFiles \cup {None}]
  <2>1. DOMAIN payload[r] \subseteq Nat
    BY <1>3
  <2> HIDE DEF rows, calls
  <2> QED BY <2>1, <1>4, <1>5
<1> HIDE DEF given
<1>7. TypeOK'
  <2>1. pc' \in [Requests -> {"new", "arrived", "resumed", "answered", "logged",
                            "unlogged", "refused"}]
    BY <1>1, <1>2 DEF TypeOK
  <2>2. answer' \in [Requests -> [rows : Seq(ScoredRow), errors : SUBSET Nat,
                      contacts : SUBSET Nat, costs : CostFiles \cup {None}]]
    BY <1>1, <1>2, <1>6 DEF TypeOK
  <2> QED BY <2>1, <2>2, <1>1, <1>2 DEF TypeOK
<1>8. \A s \in Requests \ {r} : RequestInv(s)' /\ LogInv(s)'
  BY <1>1, <1>2, OthersKept DEF TypeOK
<1>9. pc'[r] = "answered" /\ answer'[r] = given
  BY <1>1, <1>2 DEF TypeOK
<1>10. AnswerIsComputed(r)'
  <2>1. /\ given.costs = costs /\ given.rows = rows /\ given.contacts = calls
        /\ given.errors = DOMAIN payload[r] \ Resolved(payload[r], found[r])
    BY DEF given
  <2> QED BY <2>1, <1>2, <1>9 DEF AnswerIsComputed
<1>11. OneContent(r)'
  <2>1. OneContent(r)
    <3>1. CASE pc[r] = "resumed"
      BY <3>1, <1>1 DEF RequestInv
    <3>2. CASE pc[r] = "arrived"
      <4>1. found[r] = NotRead /\ crm \in seen[r]
        BY <3>2, <1>1 DEF RequestInv
      <4>2. \A c \in Customers : found[r][c] = None
        BY <4>1 DEF NotRead
      <4> QED BY <4>1, <4>2 DEF OneContent
    <3> QED BY <1>2, <3>1, <3>2
  <2> QED BY <2>1, <1>2 DEF OneContent
<1>12. RequestInv(r)'
  BY <1>9, <1>10, <1>11 DEF RequestInv, Answered
<1>13. LogInv(r)'
  BY <1>1, <1>2, <1>9 DEF LogInv
<1> QED BY <1>7, <1>8, <1>12, <1>13 DEF IInv

LEMMA WriteLogInv ==
  ASSUME IInv, NEW r \in Requests, WriteLog(r)
  PROVE  IInv'
<1>1. TypeOK /\ RequestInv(r) /\ LogInv(r)
  BY DEF IInv
<1>2. /\ pc[r] = "answered" /\ pc' = [pc EXCEPT ![r] = "logged"]
      /\ predictionLog' = predictionLog \cup LogRows(r)
      /\ UNCHANGED <<runtime, swaps, crm, reloads, route, payload, held, found, answer, seen>>
  BY DEF WriteLog, Goto, serverVars, LogRows
<1>3. answer[r].rows \in Seq(ScoredRow)
  BY <1>1 DEF TypeOK
<1>4. ASSUME NEW k \in DOMAIN answer[r].rows
      PROVE  LogRow(r, k).request = r /\ LogRow(r, k).features \in Rows
  <2>1. answer[r].rows[k] \in ScoredRow
    BY <1>3
  <2>2. answer[r].rows[k].features \in Rows
    BY <2>1 DEF ScoredRow
  <2> QED BY <2>2 DEF LogRow
<1>5. TypeOK'
  <2>1. pc' \in [Requests -> {"new", "arrived", "resumed", "answered", "logged",
                            "unlogged", "refused"}]
    BY <1>1, <1>2 DEF TypeOK
  <2>2. \A row \in predictionLog' : row.request \in Requests /\ row.features \in Rows
    BY <1>1, <1>2, <1>4 DEF TypeOK, LogRows
  <2> QED BY <2>1, <2>2, <1>1, <1>2 DEF TypeOK
<1>6. ASSUME NEW s \in Requests \ {r}
      PROVE  RequestInv(s)' /\ LogInv(s)'
  <2>1. RequestInv(s) /\ LogInv(s) /\ pc'[s] = pc[s]
    BY <1>1, <1>2 DEF IInv, TypeOK
  <2>2. {row \in predictionLog' : row.request = s} = {row \in predictionLog : row.request = s}
    BY <1>2, <1>4 DEF LogRows
  <2>3. pc[s] = "arrived" => crm' \in seen'[s]
    BY <2>1, <1>2 DEF RequestInv
  <2> QED BY <2>1, <2>2, <2>3, <1>2, RequestKept
<1>7. pc'[r] = "logged"
  BY <1>1, <1>2 DEF TypeOK
<1>8. RequestInv(r)'
  <2>1. AnswerIsComputed(r) /\ OneContent(r)
    BY <1>1, <1>2 DEF RequestInv, Answered
  <2>2. AnswerIsComputed(r)'
    BY <2>1, <1>2 DEF AnswerIsComputed
  <2>3. OneContent(r)'
    BY <2>1, <1>2 DEF OneContent
  <2> QED BY <2>2, <2>3, <1>7 DEF RequestInv, Answered
<1>9. LogInv(r)'
  <2>1. {row \in predictionLog : row.request = r} = {}
    BY <1>1, <1>2 DEF LogInv
  <2>2. {row \in predictionLog' : row.request = r} = LogRows(r)
    BY <2>1, <1>2, <1>4 DEF LogRows
  <2>3. LogRows(r)' = LogRows(r)
    BY <1>2 DEF LogRows, LogRow
  <2> QED BY <2>2, <2>3, <1>7 DEF LogInv
<1> QED BY <1>5, <1>6, <1>8, <1>9 DEF IInv

LEMMA LogFailsInv ==
  ASSUME IInv, NEW r \in Requests, LogFails(r)
  PROVE  IInv'
<1> USE DEF LogFails, Goto, serverVars
<1>1. TypeOK /\ RequestInv(r) /\ LogInv(r)
  BY DEF IInv
<1>2. TypeOK'
  <2>1. pc' \in [Requests -> {"new", "arrived", "resumed", "answered", "logged",
                            "unlogged", "refused"}]
    BY <1>1 DEF TypeOK
  <2> QED BY <2>1, <1>1 DEF TypeOK
<1>3. \A s \in Requests \ {r} : RequestInv(s)' /\ LogInv(s)'
  BY <1>1, OthersKept DEF TypeOK
<1>4. pc[r] = "answered" /\ pc'[r] = "unlogged"
  BY <1>1 DEF TypeOK
<1>5. RequestInv(r)'
  <2>1. AnswerIsComputed(r) /\ OneContent(r)
    BY <1>1, <1>4 DEF RequestInv, Answered
  <2>2. AnswerIsComputed(r)'
    BY <2>1 DEF AnswerIsComputed
  <2>3. OneContent(r)'
    BY <2>1 DEF OneContent
  <2> QED BY <2>2, <2>3, <1>4 DEF RequestInv, Answered
<1>6. LogInv(r)'
  BY <1>1, <1>4 DEF LogInv
<1> QED BY <1>2, <1>3, <1>5, <1>6 DEF IInv

LEMMA SwapInv ==
  ASSUME IInv, NEW rt \in Runtimes, Swap(rt)
  PROVE  IInv'
<1> USE DEF Swap, requestVars
<1>1. TypeOK
  BY DEF IInv
<1>2. TypeOK'
  <2>1. swaps' \in 0..MaxSwaps
    BY <1>1, BatchAssumption DEF TypeOK
  <2> QED BY <2>1, <1>1 DEF TypeOK
<1>3. ASSUME NEW s \in Requests PROVE RequestInv(s)' /\ LogInv(s)'
  <2>1. RequestInv(s) /\ LogInv(s)
    BY DEF IInv
  <2>2. pc[s] = "arrived" => crm' \in seen'[s]
    BY <2>1 DEF RequestInv
  <2> QED BY <2>1, <2>2, RequestKept, LogUnwritten
<1> QED BY <1>2, <1>3 DEF IInv

LEMMA ReloadInv ==
  ASSUME IInv, NEW content \in Crms, ReloadCrm(content)
  PROVE  IInv'
<1> USE DEF ReloadCrm, requestVars
<1>1. TypeOK
  BY DEF IInv
<1>2. TypeOK'
  <2>1. reloads' \in 0..MaxReloads
    BY <1>1, BatchAssumption DEF TypeOK
  <2>2. seen' \in [Requests -> SUBSET Crms]
    BY <1>1 DEF TypeOK
  <2> QED BY <2>1, <2>2, <1>1 DEF TypeOK
<1>3. ASSUME NEW s \in Requests PROVE RequestInv(s)' /\ LogInv(s)'
  <2>1. RequestInv(s) /\ LogInv(s)
    BY DEF IInv
  <2>2. seen'[s] = IF pc[s] = "arrived" THEN seen[s] \cup {content} ELSE seen[s]
    OBVIOUS
  <2>3. seen[s] \subseteq seen'[s] /\ (pc[s] = "arrived" => crm' \in seen'[s])
    BY <2>2
  <2> QED BY <2>1, <2>3, RequestKept, LogUnwritten
<1> QED BY <1>2, <1>3 DEF IInv

LEMMA StepInv == IInv /\ [Next]_vars => IInv'
<1> SUFFICES ASSUME IInv, [Next]_vars PROVE IInv'
  OBVIOUS
<1>1. ASSUME NEW rt \in Runtimes, Swap(rt) PROVE IInv'
  BY <1>1, SwapInv
<1>2. ASSUME NEW content \in Crms, ReloadCrm(content) PROVE IInv'
  BY <1>2, ReloadInv
<1>3. ASSUME NEW r \in Requests, NEW p \in Payloads, NEW rte \in {"single", "batch"},
             Arrive(r, p, rte)
      PROVE  IInv'
  BY <1>3, ArriveInv
<1>4. ASSUME NEW r \in Requests, TooLarge(r) \/ LookupFails(r) PROVE IInv'
  BY <1>4, RefusedInv
<1>5. ASSUME NEW r \in Requests, Lookup(r) PROVE IInv'
  BY <1>5, LookupInv
<1>6. ASSUME NEW r \in Requests, NEW costs \in CostFiles, Answer(r, costs) PROVE IInv'
  BY <1>6, AnswerInv
<1>7. ASSUME NEW r \in Requests, WriteLog(r) \/ LogFails(r) PROVE IInv'
  BY <1>7, WriteLogInv, LogFailsInv
<1>8. CASE UNCHANGED vars
  <2> USE <1>8 DEF vars, serverVars, requestVars
  <2>1. TypeOK'
    BY DEF IInv, TypeOK
  <2>2. ASSUME NEW s \in Requests PROVE RequestInv(s)' /\ LogInv(s)'
    <3>1. RequestInv(s) /\ LogInv(s)
      BY DEF IInv
    <3>2. pc[s] = "arrived" => crm' \in seen'[s]
      BY <3>1 DEF RequestInv
    <3> QED BY <3>1, <3>2, RequestKept, LogUnwritten
  <2> QED BY <2>1, <2>2 DEF IInv
<1> QED
  BY <1>1, <1>2, <1>3, <1>4, <1>5, <1>6, <1>7, <1>8 DEF Next

\* Every reachable state satisfies the inductive invariant.
THEOREM Invariance == Spec => []IInv
BY InitInv, StepInv, PTL DEF Spec

\* TypeOK of the batch model: in particular no row reaches a model, or the
\* log, with a required column unset.
THEOREM TypeSafety == Spec => []TypeOK
<1>1. IInv => TypeOK
  BY DEF IInv
<1> QED BY <1>1, Invariance, PTL

---------------------------------------------------------------------------
(* What the invariant says of an answer.                                   *)

\* Every row of an answer is the score of one resolved item.
LEMMA AnsweredRows ==
  ASSUME IInv, NEW r \in Requests, Answered(r)
  PROVE  LET rows == answer[r].rows
             f == RowIndices(payload[r], found[r])
             E == Resolved(payload[r], found[r])
         IN /\ rows \in Seq(ScoredRow) /\ Len(rows) = Cardinality(E)
            /\ f \in Bijection(DOMAIN rows, E)
            /\ \A k \in DOMAIN rows :
                 /\ f[k] \in E
                 /\ rows[k] = Score(f[k], payload[r][f[k]],
                                   Features(payload[r][f[k]], found[r]), held[r])
<1>1. TypeOK /\ AnswerIsComputed(r)
  BY DEF IInv, RequestInv
<1>2. answer[r].rows = Scored(payload[r], found[r], held[r])
  BY <1>1 DEF AnswerIsComputed
<1>3. payload[r] \in Seq(Items) /\ found[r] \in Bases /\ held[r] \in AnyRuntime
  BY <1>1, HeldTypes
<1>4. /\ Cardinality(Resolved(payload[r], found[r])) \in Nat
      /\ RowIndices(payload[r], found[r]) \in
           Bijection(1..Cardinality(Resolved(payload[r], found[r])),
                     Resolved(payload[r], found[r]))
  BY <1>3, IndicesOfRows
<1>5. /\ answer[r].rows \in Seq(ScoredRow)
      /\ Len(answer[r].rows) = Cardinality(Resolved(payload[r], found[r]))
      /\ \A k \in DOMAIN answer[r].rows :
           /\ RowIndices(payload[r], found[r])[k] \in Resolved(payload[r], found[r])
           /\ answer[r].rows[k] =
                Score(RowIndices(payload[r], found[r])[k],
                      payload[r][RowIndices(payload[r], found[r])[k]],
                      Features(payload[r][RowIndices(payload[r], found[r])[k]], found[r]),
                      held[r])
  BY <1>2, <1>3, ScoredRows
<1>6. DOMAIN answer[r].rows = 1..Cardinality(Resolved(payload[r], found[r]))
  BY <1>4, <1>5
<1> QED BY <1>4, <1>5, <1>6

LEMMA ContactsInv == IInv => ContactsAreBest
<1> SUFFICES ASSUME IInv, NEW r \in Requests, Answered(r), route[r] = "batch"
             PROVE  LET rows == answer[r].rows
                        calls == answer[r].contacts
                        costs == answer[r].costs
                        scenario == Policy[held[r].champion]
                        left == {k \in DOMAIN rows : rows[k].probability >= rows[k].threshold} \ calls
                    IN /\ \A k \in calls : rows[k].probability >= rows[k].threshold
                       /\ Cardinality(calls) <= costs.capacity
                       /\ Cardinality(calls) * scenario.cost <= costs.budget
                       /\ left # {} => \/ Cardinality(calls) = costs.capacity
                                       \/ (Cardinality(calls) + 1) * scenario.cost > costs.budget
                       /\ \A j \in left, k \in calls : rows[k].probability * scenario.gain
                                                         >= rows[j].probability * scenario.gain
  BY DEF ContactsAreBest
<1> DEFINE rows == answer[r].rows
           costs == answer[r].costs
           scenario == Policy[held[r].champion]
           calls == Contacts(rows, scenario, costs)
           limit == Limit(scenario, costs)
<1>1. TypeOK /\ AnswerIsComputed(r)
  BY DEF IInv, RequestInv
<1>2. answer[r].contacts = calls
  BY <1>1 DEF AnswerIsComputed
<1>3. rows \in Seq(ScoredRow)
  BY AnsweredRows
<1>4. scenario \in Scenario /\ costs \in CostFile
  BY <1>1, HeldTypes, BatchAssumption DEF AnswerIsComputed, CostFile
<1> HIDE DEF rows, costs, scenario
<1>5. /\ calls \subseteq Decided(rows)
      /\ Cardinality(calls) \in Nat /\ Cardinality(calls) <= limit
      /\ Decided(rows) \ calls # {} => Cardinality(calls) = limit
      /\ \A j \in Decided(rows) \ calls, k \in calls :
           Value(rows[k], scenario) >= Value(rows[j], scenario)
  BY <1>3, <1>4, ContactsOfBatch
<1>6. /\ limit \in Nat /\ limit <= costs.capacity
      /\ limit * scenario.cost <= costs.budget
      /\ limit = costs.capacity \/ (limit + 1) * scenario.cost > costs.budget
  BY <1>4, LimitIsAffordable
<1>7. costs.capacity \in Nat /\ costs.budget \in Nat /\ scenario.cost \in Nat
  BY <1>4 DEF CostFile, Scenario
<1> DEFINE n == Cardinality(calls)  cost == scenario.cost
<1>8. n * cost <= costs.budget
  <2> HIDE DEF limit, n, cost
  <2>1. n \in Nat /\ limit \in Nat /\ n <= limit /\ cost \in Nat /\ costs.budget \in Nat
    BY <1>5, <1>6, <1>7 DEF n, cost
  <2>2. n * cost \in Nat /\ limit * cost \in Nat /\ n * cost <= limit * cost
    BY <2>1
  <2>3. limit * cost <= costs.budget
    BY <1>6 DEF cost
  <2> QED BY <2>1, <2>2, <2>3
<1>9. n <= costs.capacity
  <2> HIDE DEF limit, calls
  <2> QED BY <1>5, <1>6, <1>7
<1>10. Decided(rows) = {k \in DOMAIN rows : rows[k].probability >= rows[k].threshold}
  BY DEF Decided
<1>11. Decided(rows) \ calls # {} => n = costs.capacity \/ (n + 1) * cost > costs.budget
  <2> HIDE DEF limit, calls
  <2> QED BY <1>5, <1>6
<1>12. \A j \in Decided(rows) \ calls, k \in calls :
         rows[k].probability * scenario.gain >= rows[j].probability * scenario.gain
  BY <1>5 DEF Value
<1>13. \A k \in calls : rows[k].probability >= rows[k].threshold
  BY <1>5, <1>10
<1> HIDE DEF calls
<1> QED
  BY <1>2, <1>8, <1>9, <1>10, <1>11, <1>12, <1>13 DEF rows, costs, scenario, n, cost

LEMMA ArmInv == IInv => SameCustomerSameArm
<1> SUFFICES ASSUME IInv, NEW r \in Requests, NEW s \in Requests, Answered(r), Answered(s),
                    held[r].challenger = held[s].challenger,
                    NEW j \in DOMAIN answer[r].rows, NEW k \in DOMAIN answer[s].rows,
                    answer[r].rows[j].customer = answer[s].rows[k].customer
             PROVE  answer[r].rows[j].canary = answer[s].rows[k].canary
  BY DEF SameCustomerSameArm
<1>1. ASSUME NEW q \in Requests, Answered(q), NEW i \in DOMAIN answer[q].rows
      PROVE  answer[q].rows[i].canary = InCanary(answer[q].rows[i].customer, held[q])
  <2> DEFINE f == RowIndices(payload[q], found[q])
  <2>1. answer[q].rows[i] = Score(f[i], payload[q][f[i]], Features(payload[q][f[i]], found[q]), held[q])
    BY <1>1, AnsweredRows
  <2> HIDE DEF f
  <2> QED BY <2>1 DEF Score
<1> QED BY <1>1 DEF InCanary

LEMMA LogRowsInv == IInv => LogExplainsAnswer
<1> SUFFICES ASSUME IInv PROVE LogExplainsAnswer
  OBVIOUS
<1>1. ASSUME NEW r \in Requests, NEW row \in predictionLog, row.request = r
      PROVE  pc[r] = "logged" /\ \E k \in DOMAIN answer[r].rows : row = LogRow(r, k)
  <2>1. LogInv(r)
    BY DEF IInv
  <2> QED BY <1>1, <2>1 DEF LogInv, LogRows
<1>2. ASSUME NEW row \in predictionLog
      PROVE  /\ row.probability = Risk[row.version][row.features]
             /\ row.threshold = Policy[row.version].threshold
  <2> DEFINE r == row.request
  <2>1. r \in Requests
    BY DEF IInv, TypeOK
  <2>2. pc[r] = "logged" /\ \E k \in DOMAIN answer[r].rows : row = LogRow(r, k)
    BY <2>1, <1>1
  <2> HIDE DEF r
  <2>3. PICK k \in DOMAIN answer[r].rows : row = LogRow(r, k)
    BY <2>2
  <2> DEFINE i == RowIndices(payload[r], found[r])[k]
  <2>4. answer[r].rows[k] = Score(i, payload[r][i], Features(payload[r][i], found[r]), held[r])
    BY <2>1, <2>2, AnsweredRows DEF Answered
  <2> HIDE DEF i
  <2> DEFINE sent == answer[r].rows[k]
  <2>5. /\ sent.probability = Risk[sent.version][sent.features]
        /\ sent.threshold = Policy[sent.version].threshold
        /\ sent.version = IF sent.canary THEN held[r].challenger ELSE held[r].champion
    BY <2>4 DEF Score, Serves
  <2> QED BY <2>3, <2>5 DEF LogRow
<1>3. ASSUME NEW r \in Requests, {row \in predictionLog : row.request = r} # {}
      PROVE  {<<row.position, row.customer, row.probability, row.contact>> :
                row \in {row \in predictionLog : row.request = r}} =
             {<<k, answer[r].rows[k].customer, answer[r].rows[k].probability,
                k \in answer[r].contacts>> : k \in DOMAIN answer[r].rows}
  <2>1. {row \in predictionLog : row.request = r} = LogRows(r)
    BY <1>3 DEF IInv, LogInv
  <2>2. \A k : /\ LogRow(r, k).position = k
               /\ LogRow(r, k).customer = answer[r].rows[k].customer
               /\ LogRow(r, k).probability = answer[r].rows[k].probability
               /\ LogRow(r, k).contact = (k \in answer[r].contacts)
    BY DEF LogRow
  <2> QED BY <2>1, <2>2 DEF LogRows
<1> QED BY <1>2, <1>3 DEF LogExplainsAnswer

LEMMA AlignmentInv == IInv => RowsAreTheirOwn
<1> SUFFICES ASSUME IInv, NEW r \in Requests, Answered(r)
             PROVE  LET rows == answer[r].rows
                        indices == {rows[k].index : k \in DOMAIN rows}
                    IN /\ indices \cap answer[r].errors = {}
                       /\ indices \cup answer[r].errors = DOMAIN payload[r]
                       /\ Cardinality(indices) = Len(rows)
                       /\ \E content \in seen[r] : \A k \in DOMAIN rows :
                            LET item == payload[r][rows[k].index] IN
                            /\ item # Malformed /\ rows[k].customer = item.customer
                            /\ IF Complete(item) THEN rows[k].features = item.given
                               ELSE /\ item.customer # None /\ content[item.customer] # None
                                    /\ \A f \in Fields : rows[k].features[f] =
                                         (IF item.given[f] # None THEN item.given[f]
                                          ELSE content[item.customer][f])
  BY DEF RowsAreTheirOwn
<1> DEFINE rows == answer[r].rows
           p == payload[r]
           base == found[r]
           E == Resolved(p, base)
           f == RowIndices(p, base)
           indices == {rows[k].index : k \in DOMAIN rows}
<1>1. TypeOK /\ AnswerIsComputed(r) /\ OneContent(r)
  BY DEF IInv, RequestInv
<1>2. p \in Seq(Items) /\ base \in Bases
  BY <1>1, HeldTypes
<1>3. /\ rows \in Seq(ScoredRow) /\ Len(rows) = Cardinality(E)
      /\ f \in Bijection(DOMAIN rows, E)
      /\ \A k \in DOMAIN rows : f[k] \in E /\ rows[k] = Score(f[k], p[f[k]], Features(p[f[k]], base), held[r])
  BY AnsweredRows
<1>4. answer[r].errors = DOMAIN p \ E /\ E \subseteq DOMAIN p
  BY <1>1 DEF AnswerIsComputed, Resolved
<1> HIDE DEF rows, p, base, E, f
<1>5. \A k \in DOMAIN rows : /\ rows[k].index = f[k] /\ rows[k].customer = p[f[k]].customer
                             /\ rows[k].features = Features(p[f[k]], base)
  BY <1>3 DEF Score
<1>6. indices = E
  <2>1. \A i \in E : \E k \in DOMAIN rows : f[k] = i
    BY <1>3 DEF Bijection, Surjection
  <2> QED BY <2>1, <1>3, <1>5
<1>7. PICK content \in seen[r] : \A c \in Customers : base[c] # None => base[c] = content[c]
  BY <1>1 DEF OneContent, base
<1>8. ASSUME NEW k \in DOMAIN rows
      PROVE  LET item == p[rows[k].index] IN
             /\ item # Malformed /\ rows[k].customer = item.customer
             /\ IF Complete(item) THEN rows[k].features = item.given
                ELSE /\ item.customer # None /\ content[item.customer] # None
                     /\ \A g \in Fields : rows[k].features[g] =
                          (IF item.given[g] # None THEN item.given[g]
                           ELSE content[item.customer][g])
  <2> DEFINE item == p[f[k]]
  <2>1. f[k] \in E /\ rows[k].index = f[k] /\ rows[k].customer = item.customer
        /\ rows[k].features = Features(item, base)
    BY <1>3, <1>5
  <2>2. /\ item # Malformed
        /\ item \in [customer : Customers \cup {None}, given : [Fields -> Values \cup {None}]]
        /\ ~Complete(item) => item.customer \in Customers /\ base[item.customer] \in Rows
    BY <2>1, <1>2, ResolvedItem DEF E
  <2> HIDE DEF item
  <2>3. CASE Complete(item)
    <3>1. item.given \in [Fields -> Values \cup {None}]
      BY <2>2
    <3>2. Features(item, base) = item.given
      BY <3>1, <2>3 DEF Features
    <3> QED BY <3>2, <2>1, <2>2, <2>3 DEF item
  <2>4. CASE ~Complete(item)
    <3>1. item.customer \in Customers /\ base[item.customer] \in Rows
      BY <2>2, <2>4
    <3>2. item.customer # None /\ base[item.customer] # None
      BY <3>1, BatchAssumption
    <3>3. content[item.customer] = base[item.customer]
      BY <3>1, <3>2, <1>7
    <3>4. \A g \in Fields : Features(item, base)[g] =
            (IF item.given[g] # None THEN item.given[g] ELSE base[item.customer][g])
      BY <2>4 DEF Features
    <3> QED BY <3>2, <3>3, <3>4, <2>1, <2>2, <2>4 DEF item
  <2> QED BY <2>3, <2>4
<1>9. Cardinality(indices) = Len(rows)
  BY <1>3, <1>6
<1>10. indices \cap answer[r].errors = {} /\ indices \cup answer[r].errors = DOMAIN p
  BY <1>4, <1>6
<1> HIDE DEF indices
<1>11. \E ct \in seen[r] : \A k \in DOMAIN rows :
         LET item == p[rows[k].index] IN
         /\ item # Malformed /\ rows[k].customer = item.customer
         /\ IF Complete(item) THEN rows[k].features = item.given
            ELSE /\ item.customer # None /\ ct[item.customer] # None
                 /\ \A g \in Fields : rows[k].features[g] =
                      (IF item.given[g] # None THEN item.given[g] ELSE ct[item.customer][g])
  BY <1>7, <1>8
<1> QED
  BY <1>9, <1>10, <1>11 DEF rows, p, indices

---------------------------------------------------------------------------
(* The theorems.                                                           *)

\* Every item of every payload is answered once, under its own index, from one
\* content of customers_crm.
THEOREM Alignment == Spec => []RowsAreTheirOwn
BY AlignmentInv, Invariance, PTL

\* The calls of a batch fit the capacity and the budget, use them up, and are
\* the most valuable.
THEOREM BestContacts == Spec => []ContactsAreBest
BY ContactsInv, Invariance, PTL

\* A challenger's customers stay its customers.
THEOREM StickyArm == Spec => []SameCustomerSameArm
BY ArmInv, Invariance, PTL

\* The log describes the answers, whole requests at a time.
THEOREM TruthfulLog == Spec => []LogExplainsAnswer
BY LogRowsInv, Invariance, PTL

=============================================================================
