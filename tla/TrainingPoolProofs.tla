-------------------------- MODULE TrainingPoolProofs --------------------------
(***************************************************************************)
(* The training pool never mixes its two write paths, never holds a label  *)
(* older than the features it labels nor features older than the last      *)
(* score before the label, and a decision that was logged compared every   *)
(* row of its cohort with one score of the same customer, for any number   *)
(* of customers, predictions, outcomes, appends and splits.                *)
(***************************************************************************)
EXTENDS TrainingPool, FiniteSetTheorems, TLAPS

\* A cardinality says something of finite sets only.
FiniteTables ==
    IsFiniteSet(log) /\ IsFiniteSet(outcomes) /\ IsFiniteSet(pool)
        /\ IsFiniteSet(frame) /\ IsFiniteSet(window)

Backed(r) ==
    /\ r.out \in outcomes /\ r.out.cust = r.cust
    /\ r.snap <= r.out.at
    /\ \E p \in log : p.cust = r.cust /\ p.at = r.snap

\* What a cycle has built and not yet appended is backed by the tables.
FrameIsMatured == \A r \in frame : Backed(r)

\* The clock has passed every prediction.
ClockIsAhead == \A p \in log : p.at <= Now

\* The row is of the last prediction its outcome could have followed when it was
\* built, and nothing can come before that outcome any more.
Settled(r) ==
    /\ r.built <= Now
    /\ r.out.at <= r.built =>
           \A p \in log : p.cust = r.cust /\ p.at <= r.out.at => p.at <= r.snap

RowsAreSettled ==
    /\ \A r \in frame : Settled(r)
    /\ \A r \in pool : r.out # Csv => Settled(r)

\* The inductive invariant.
IInv == /\ TypeOK /\ FiniteTables /\ FrameIsMatured /\ ClockIsAhead /\ RowsAreSettled
        /\ RowsAreMatured /\ SeedIsUnaffected /\ ComparisonIsPaired

-----------------------------------------------------------------------------
(* The join. *)

LEMMA ImageIsFinite ==
    ASSUME NEW S, NEW T, IsFiniteSet(S), NEW f \in [S -> T], \A t \in T : \E s \in S : f[s] = t
    PROVE  IsFiniteSet(T)
BY FS_Surjection DEF Surjection

\* The CHOOSE of the lateral join picks the last earlier prediction of the customer.
LEMMA LatestIsEarlier ==
    ASSUME log \subseteq Prediction, NEW o \in Outcome, Earlier(o) # {}
    PROVE  Latest(o) \in Earlier(o) /\ \A q \in Earlier(o) : q.at <= Latest(o).at
<1> DEFINE Gaps == {o.at - p.at : p \in Earlier(o)}
<1>1. Gaps \subseteq Nat /\ Gaps # {}
  BY DEF Earlier, Prediction, Outcome
<1>2. PICK g \in Gaps : \A h \in Gaps : ~(<<h, g>> \in OpToRel(<, Nat))
  BY <1>1, NatLessThanWellFounded, WFMin
<1>3. PICK p \in Earlier(o) : g = o.at - p.at
  OBVIOUS
<1>4. \A q \in Earlier(o) : q.at <= p.at
  <2> SUFFICES ASSUME NEW q \in Earlier(o) PROVE q.at <= p.at
    OBVIOUS
  <2>1. p.at \in Nat /\ q.at \in Nat /\ o.at \in Nat
    BY DEF Earlier, Prediction, Outcome
  <2>2. o.at - q.at \in Gaps
    OBVIOUS
  <2>3. ~(o.at - q.at < o.at - p.at)
    BY <1>1, <1>2, <1>3, <2>2 DEF OpToRel
  <2> QED BY <2>1, <2>3
<1> QED BY <1>3, <1>4 DEF Latest

\* A match is an outcome on record with a prediction made no later than it.
LEMMA JoinedMatches ==
    ASSUME log \subseteq Prediction, outcomes \subseteq Outcome, NEW ids,
           NEW j \in Joined(ids)
    PROVE  /\ j \in Match
           /\ j.out \in outcomes /\ j.out.cust \in ids
           /\ j.pred \in log /\ j.pred.cust = j.out.cust /\ j.pred.at <= j.out.at
           /\ \A q \in log : q.cust = j.out.cust /\ q.at <= j.out.at => q.at <= j.pred.at
<1>1. PICK o \in {x \in outcomes : x.cust \in ids /\ Earlier(x) # {}} :
          j = [out |-> o, pred |-> Latest(o)]
  BY DEF Joined
<1>2. Latest(o) \in Earlier(o) /\ \A q \in Earlier(o) : q.at <= Latest(o).at
  BY <1>1, LatestIsEarlier
<1> QED BY <1>1, <1>2 DEF Earlier, Match

LEMMA JoinedIsFinite ==
    ASSUME IsFiniteSet(outcomes), NEW ids
    PROVE  IsFiniteSet(Joined(ids))
<1> DEFINE S == {x \in outcomes : x.cust \in ids /\ Earlier(x) # {}}
           f == [o \in S |-> [out |-> o, pred |-> Latest(o)]]
<1>1. IsFiniteSet(S)
  BY FS_Subset
<1>2. f \in [S -> Joined(ids)] /\ \A j \in Joined(ids) : \E o \in S : f[o] = j
  BY DEF Joined
<1> HIDE DEF S, f
<1> QED BY <1>1, <1>2, ImageIsFinite

\* One score for every row of the cohort: the rows of the pool are found by
\* customer, each customer has one at least, and there are as many in all as the
\* cohort has rows.
LEMMA AlignedOneToOne ==
    ASSUME IsFiniteSet(window), IsFiniteSet(pool),
           \A w \in window : \E r \in CohortRows : r.cust = w.out.cust,
           Cardinality(Aligned) = Cardinality(window)
    PROVE  /\ \A w \in window : \E x \in Aligned : x[1] = w
           /\ \A x, y \in Aligned : x[1] = y[1] => x = y
<1> DEFINE f == [x \in Aligned |-> x[1]]
<1>1. IsFiniteSet(Aligned)
  <2>1. IsFiniteSet(CohortRows)
    BY FS_Subset DEF CohortRows
  <2>2. IsFiniteSet(window \X CohortRows)
    BY <2>1, FS_Product
  <2> QED BY <2>2, FS_Subset DEF Aligned
<1>2. \A w \in window : \E x \in Aligned : x[1] = w
  <2> SUFFICES ASSUME NEW w \in window PROVE \E x \in Aligned : x[1] = w
    OBVIOUS
  <2>1. PICK r \in CohortRows : r.cust = w.out.cust
    OBVIOUS
  <2>2. <<w, r>> \in Aligned
    BY <2>1 DEF Aligned
  <2> QED BY <2>2
<1>3. f \in Surjection(Aligned, window)
  BY <1>2 DEF Surjection, Aligned
<1>4. f \in Injection(Aligned, window)
  BY <1>1, <1>3, FS_Surjection
<1> QED BY <1>2, <1>4 DEF Injection, IsInjective

-----------------------------------------------------------------------------
(* Types. *)

LEMMA InitIInv == Init => IInv
<1> SUFFICES ASSUME Init PROVE IInv
  OBVIOUS
<1> USE DEF Init
<1>1. reserve \in [Test -> 0..Months]
  BY PoolAssumption DEF MadeReserves, DisabledReserve
<1>2. TypeOK
  BY <1>1, PoolAssumption DEF TypeOK, NoReport, DisabledReserve
<1>3. FiniteTables
  BY FS_EmptySet DEF FiniteTables
<1> QED
  BY <1>2, <1>3 DEF IInv, FrameIsMatured, ClockIsAhead, RowsAreSettled, RowsAreMatured,
     SeedIsUnaffected, FeatureRows, ComparisonIsPaired, NoReport

LEMMA TypeStep == TypeOK /\ FiniteTables /\ [Next]_vars => TypeOK'
<1> SUFFICES ASSUME TypeOK, FiniteTables, [Next]_vars PROVE TypeOK'
  OBVIOUS
<1> USE DEF TypeOK
<1>1. ASSUME NEW c \in Customers, LogPrediction(c) PROVE TypeOK'
  <2>1. Now + 1 \in Nat
    BY FS_CardinalityType DEF FiniteTables, Now
  <2>2. log' \subseteq Prediction
    BY <1>1, <2>1 DEF LogPrediction, Prediction
  <2> QED BY <1>1, <2>2 DEF LogPrediction, cycleVars
<1>2. ASSUME NEW c \in Customers, NEW t \in 0..MaxPredictions, NEW s \in Sources,
             WriteOutcomes(c, t, s)
      PROVE  TypeOK'
  <2>1. outcomes' \subseteq Outcome
    BY <1>2, PoolAssumption DEF WriteOutcomes, Outcome
  <2> QED BY <1>2, <2>1 DEF WriteOutcomes, cycleVars
<1>3. ASSUME Seed PROVE TypeOK'
  <2>1. \A c \in Customers : SeedRow(c, writes') \in Row
    BY <1>3 DEF Seed, SeedRow, Row
  <2>2. pool' \subseteq Row
    BY <1>3, <2>1 DEF Seed
  <2> QED BY <1>3, <2>2 DEF Seed, cycleVars
<1>4. ASSUME Carve PROVE TypeOK'
  <2>1. reserve' \in [Test -> 0..Months]
    BY <1>4, PoolAssumption DEF Carve, MadeReserves, DisabledReserve
  <2> QED BY <1>4, <2>1 DEF Carve, tables, cycleVars
<1>5. ASSUME NEW ids \in SUBSET Customers, BuildCohort(ids) PROVE TypeOK'
  <2>1. frame' = {[cust |-> j.out.cust, month |-> manifest[j.out.cust], snap |-> j.pred.at,
                   out |-> j.out, built |-> Now] : j \in Joined(ids)}
    BY <1>5 DEF BuildCohort
  <2>2. \A j \in Joined(ids) :
           /\ j.out \in Outcome /\ j.out.cust \in Test /\ j.pred.at \in Nat
           /\ manifest[j.out.cust] \in 0..Months
    <3>1. ids \subseteq Test
      BY <1>5 DEF BuildCohort
    <3> QED BY <3>1, JoinedMatches DEF Match, Outcome, Prediction
  <2>3. Now \in Nat
    BY FS_CardinalityType DEF FiniteTables, Now
  <2>4. frame' \subseteq [cust : Test, month : 0..Months, snap : Nat, out : Outcome, built : Nat]
    BY <2>1, <2>2, <2>3
  <2>5. manifest' \in [Test -> 0..Months]
    BY <1>5, PoolAssumption DEF BuildCohort, DisabledReserve
  <2> QED BY <1>5, <2>4, <2>5 DEF BuildCohort, tables
<1>6. ASSUME NEW m \in 1..Months, StartCheck(m) PROVE TypeOK'
  BY <1>6 DEF StartCheck, tables
<1>7. ASSUME WriteCohort PROVE TypeOK'
  <2>1. \A r \in frame : [cust |-> r.cust, month |-> r.month, snap |-> r.snap, out |-> r.out,
                          built |-> r.built, write |-> writes'] \in Row
    BY <1>7, PoolAssumption DEF WriteCohort, Row, Test
  <2>2. pool' \subseteq Row
    BY <1>7, <2>1 DEF WriteCohort
  <2> QED BY <1>7, <2>2 DEF WriteCohort
<1>8. ASSUME LoadComparisonCohort PROVE TypeOK'
  <2>1. window' \subseteq Match
    BY <1>8, JoinedMatches DEF LoadComparisonCohort
  <2> QED BY <1>8, <2>1 DEF LoadComparisonCohort, tables
<1>9. ASSUME ScoreCandidate PROVE TypeOK'
  <2>1. Aligned \subseteq Match \X Row
    BY DEF Aligned, CohortRows
  <2>2. report' \in [month : 0..Months, cohort : SUBSET Match, scores : SUBSET (Match \X Row)]
    BY <1>9, <2>1 DEF ScoreCandidate
  <2> QED BY <1>9, <2>2 DEF ScoreCandidate, tables
<1>10. ASSUME Abandon PROVE TypeOK'
  BY <1>10, PoolAssumption DEF Abandon, tables, DisabledReserve
<1>11. ASSUME UNCHANGED vars PROVE TypeOK'
  BY <1>11 DEF vars, tables, cycleVars
<1>12. ASSUME ReadReserve PROVE TypeOK'
  BY <1>12 DEF ReadReserve, tables
<1> QED
  BY <1>1, <1>2, <1>3, <1>4, <1>5, <1>6, <1>7, <1>8, <1>9, <1>10, <1>11, <1>12 DEF Next

LEMMA FiniteStep == TypeOK /\ FiniteTables /\ [Next]_vars => FiniteTables'
<1> SUFFICES ASSUME TypeOK, FiniteTables, [Next]_vars PROVE FiniteTables'
  OBVIOUS
<1> USE DEF FiniteTables
<1>1. ASSUME NEW c \in Customers, LogPrediction(c) PROVE FiniteTables'
  BY <1>1, FS_AddElement DEF LogPrediction, cycleVars
<1>2. ASSUME NEW c \in Customers, NEW t \in 0..MaxPredictions, NEW s \in Sources,
             WriteOutcomes(c, t, s)
      PROVE  FiniteTables'
  BY <1>2, FS_AddElement DEF WriteOutcomes, cycleVars
<1>3. ASSUME Seed PROVE FiniteTables'
  <2> DEFINE T == {SeedRow(c, writes + 1) : c \in Customers}
             f == [c \in Customers |-> SeedRow(c, writes + 1)]
             kept == {r \in pool : r.month # 0}
  <2>1. pool' = kept \cup T /\ UNCHANGED <<log, outcomes, frame, window>>
    BY <1>3 DEF Seed, cycleVars
  <2>2. IsFiniteSet(kept)
    BY FS_Subset
  <2>3. IsFiniteSet(T)
    <3>1. f \in [Customers -> T] /\ \A t \in T : \E c \in Customers : f[c] = t
      OBVIOUS
    <3> HIDE DEF T, f
    <3> QED BY <3>1, PoolAssumption, ImageIsFinite
  <2> HIDE DEF T, kept
  <2> QED BY <2>1, <2>2, <2>3, FS_Union
<1>5. ASSUME NEW ids \in SUBSET Customers, BuildCohort(ids) PROVE FiniteTables'
  <2> DEFINE row(j) == [cust |-> j.out.cust, month |-> manifest[j.out.cust],
                        snap |-> j.pred.at, out |-> j.out, built |-> Now]
             f == [j \in Joined(ids) |-> row(j)]
  <2>1. frame' = {row(j) : j \in Joined(ids)} /\ UNCHANGED <<log, outcomes, pool, window>>
    BY <1>5 DEF BuildCohort, tables
  <2>2. IsFiniteSet(Joined(ids))
    BY JoinedIsFinite
  <2>3. f \in [Joined(ids) -> frame'] /\ \A t \in frame' : \E j \in Joined(ids) : f[j] = t
    BY <2>1
  <2> HIDE DEF f
  <2>4. IsFiniteSet(frame')
    BY <2>2, <2>3, ImageIsFinite
  <2> QED BY <2>1, <2>4
<1>7. ASSUME WriteCohort PROVE FiniteTables'
  <2> DEFINE row(r) == [cust |-> r.cust, month |-> r.month, snap |-> r.snap, out |-> r.out,
                        built |-> r.built, write |-> writes + 1]
             T == {row(r) : r \in frame}
             f == [r \in frame |-> row(r)]
  <2>1. pool' = pool \cup T /\ frame' = {} /\ UNCHANGED <<log, outcomes, window>>
    BY <1>7 DEF WriteCohort
  <2>2. IsFiniteSet(T)
    <3>1. f \in [frame -> T] /\ \A t \in T : \E r \in frame : f[r] = t
      OBVIOUS
    <3> HIDE DEF T, f
    <3> QED BY <3>1, ImageIsFinite
  <2> HIDE DEF T
  <2> QED BY <2>1, <2>2, FS_Union, FS_EmptySet
<1>8. ASSUME LoadComparisonCohort PROVE FiniteTables'
  BY <1>8, JoinedIsFinite DEF LoadComparisonCohort, tables
<1>9. CASE ScoreCandidate \/ Abandon
  BY <1>9, FS_EmptySet DEF ScoreCandidate, Abandon, tables
<1>10. CASE Carve \/ (\E m \in 1..Months : StartCheck(m)) \/ ReadReserve \/ UNCHANGED vars
  BY <1>10 DEF Carve, StartCheck, ReadReserve, vars, tables, cycleVars
<1> QED BY <1>1, <1>2, <1>3, <1>5, <1>7, <1>8, <1>9, <1>10 DEF Next

-----------------------------------------------------------------------------
(* Maturity.  The tables a row is backed by only grow. *)

LEMMA BackedStays ==
    ASSUME [Next]_vars, NEW r, Backed(r)
    PROVE  Backed(r)'
<1>1. log \subseteq log' /\ outcomes \subseteq outcomes'
  BY DEF Next, vars, tables, LogPrediction, WriteOutcomes, Seed, Carve, ReadReserve, BuildCohort,
     StartCheck, WriteCohort, LoadComparisonCohort, ScoreCandidate, Abandon
<1> QED BY <1>1 DEF Backed

\* The server's clock only runs forward: what is logged next comes after everything
\* that was built before.
LEMMA ClockStep ==
    ASSUME TypeOK, FiniteTables, ClockIsAhead, [Next]_vars
    PROVE  /\ ClockIsAhead' /\ Now \in Nat /\ Now' \in Nat /\ Now <= Now'
           /\ \A p \in log' : p \in log \/ p.at > Now
<1>1. Now \in Nat
  BY FS_CardinalityType DEF FiniteTables, Now
<1>2. CASE log' = log
  BY <1>1, <1>2 DEF ClockIsAhead, Now
<1>3. ASSUME NEW c \in Customers, LogPrediction(c)
      PROVE  /\ ClockIsAhead' /\ Now' \in Nat /\ Now <= Now'
             /\ \A p \in log' : p \in log \/ p.at > Now
  <2> DEFINE q == [cust |-> c, at |-> Now + 1]
  <2>1. log' = log \cup {q} /\ q.at = Now + 1
    BY <1>3 DEF LogPrediction
  <2>2. q \notin log
    BY <1>1, <2>1 DEF ClockIsAhead
  <2> HIDE DEF q
  <2>3. Now' = Now + 1
    BY <2>1, <2>2, FS_AddElement DEF FiniteTables, Now
  <2>4. \A p \in log : p.at \in Nat /\ p.at <= Now
    BY DEF TypeOK, Prediction, ClockIsAhead
  <2> QED BY <1>1, <2>1, <2>3, <2>4 DEF ClockIsAhead
<1>4. log' = log \/ \E c \in Customers : LogPrediction(c)
  BY DEF Next, vars, tables, WriteOutcomes, Seed, Carve, ReadReserve, BuildCohort, StartCheck,
     WriteCohort, LoadComparisonCohort, ScoreCandidate, Abandon
<1> QED BY <1>1, <1>2, <1>3, <1>4

LEMMA SettledStays ==
    ASSUME TypeOK, FiniteTables, ClockIsAhead, [Next]_vars, NEW r, Settled(r),
           r.built \in Nat, r.out \in Outcome
    PROVE  Settled(r)'
<1>1. r.built <= Now' /\ \A p \in log' : p \in log \/ p.at > Now
  BY ClockStep DEF Settled
<1>2. \A p \in log' : p.at \in Nat
  BY TypeStep DEF TypeOK, Prediction
<1>3. r.out.at \in Nat
  BY DEF Outcome
<1> QED BY <1>1, <1>2, <1>3, ClockStep DEF Settled

\* What a cycle builds is backed, and settled as of now.
LEMMA BuiltRows ==
    ASSUME TypeOK, FiniteTables, NEW ids, BuildCohort(ids), NEW r \in frame'
    PROVE  Backed(r) /\ Settled(r) /\ r.built \in Nat /\ r.out \in Outcome
<1>1. PICK j \in Joined(ids) :
          r = [cust |-> j.out.cust, month |-> manifest[j.out.cust], snap |-> j.pred.at,
               out |-> j.out, built |-> Now]
  BY DEF BuildCohort
<1>2. /\ j \in Match /\ j.out \in outcomes /\ j.pred \in log
      /\ j.pred.cust = j.out.cust /\ j.pred.at <= j.out.at
      /\ \A q \in log : q.cust = j.out.cust /\ q.at <= j.out.at => q.at <= j.pred.at
  BY JoinedMatches DEF TypeOK
<1>3. Now \in Nat
  BY FS_CardinalityType DEF FiniteTables, Now
<1> QED BY <1>1, <1>2, <1>3 DEF Backed, Settled, Match

LEMMA RowsStep ==
    IInv /\ [Next]_vars => FrameIsMatured' /\ RowsAreMatured' /\ ClockIsAhead' /\ RowsAreSettled'
<1> SUFFICES ASSUME IInv, [Next]_vars
             PROVE  FrameIsMatured' /\ RowsAreMatured' /\ ClockIsAhead' /\ RowsAreSettled'
  OBVIOUS
<1> DEFINE Good(r) == Backed(r) /\ Settled(r) /\ r.built \in Nat /\ r.out \in Outcome
<1>1. /\ TypeOK /\ FiniteTables /\ ClockIsAhead
      /\ \A r \in frame : Good(r)
      /\ \A r \in pool : r.out # Csv => Good(r)
  BY DEF IInv, RowsAreMatured, FrameIsMatured, RowsAreSettled, Backed, TypeOK, Row
<1>2. ASSUME NEW r, Good(r) PROVE Backed(r)' /\ Settled(r)'
  BY <1>1, <1>2, BackedStays, SettledStays
<1>3. ASSUME NEW r \in frame' PROVE Good(r)
  <2>1. CASE r \in frame
    BY <1>1, <2>1
  <2>2. ASSUME NEW ids \in SUBSET Customers, BuildCohort(ids) PROVE Good(r)
    BY <1>1, <1>3, <2>2, BuiltRows
  <2>3. frame' \subseteq frame \/ \E ids \in SUBSET Customers : BuildCohort(ids)
    BY DEF Next, vars, tables, cycleVars, LogPrediction, WriteOutcomes, Seed, Carve, ReadReserve,
       StartCheck, WriteCohort, LoadComparisonCohort, ScoreCandidate, Abandon
  <2> QED BY <1>3, <2>1, <2>2, <2>3
<1>4. ASSUME NEW r \in pool', r.out # Csv PROVE Good(r)
  <2>1. CASE r \in pool
    BY <1>1, <1>4, <2>1
  <2>2. CASE Seed
    BY <1>4, <2>1, <2>2 DEF Seed, SeedRow
  <2>3. CASE WriteCohort
    <3>1. ASSUME NEW q \in frame,
                 r = [cust |-> q.cust, month |-> q.month, snap |-> q.snap, out |-> q.out,
                      built |-> q.built, write |-> writes']
          PROVE  Good(r)
      BY <1>1, <3>1 DEF Backed, Settled
    <3> QED BY <1>4, <2>1, <2>3, <3>1 DEF WriteCohort
  <2>4. Seed \/ WriteCohort \/ pool' = pool
    BY DEF Next, vars, tables, cycleVars, LogPrediction, WriteOutcomes, Carve, ReadReserve,
       BuildCohort, StartCheck, LoadComparisonCohort, ScoreCandidate, Abandon
  <2> QED BY <1>4, <2>1, <2>2, <2>3, <2>4
<1> HIDE DEF Good
<1>5. /\ \A r \in frame' : Backed(r)' /\ Settled(r)'
      /\ \A r \in pool' : r.out # Csv => Backed(r)' /\ Settled(r)'
  BY <1>2, <1>3, <1>4
<1> QED BY <1>1, <1>5, ClockStep DEF FrameIsMatured, RowsAreMatured, RowsAreSettled, Backed

-----------------------------------------------------------------------------
(* What each transaction adds to the rows without a month. *)

LEMMA SeedStep == IInv /\ [Next]_vars => SeedIsUnaffected'
<1> SUFFICES ASSUME IInv, [Next]_vars, Strays' = {} PROVE SeedIsUnaffected'
  BY DEF SeedIsUnaffected
<1> DEFINE Seeded == {r \in pool : r.month = 0}
<1>1. FeatureRows({}) = Seeded /\ FeatureRows({})' = Seeded'
  BY DEF FeatureRows
<1>2. TypeOK /\ SeedIsUnaffected
  BY DEF IInv
<1>3. CASE Seeded' = Seeded
  <2>1. Strays = {}
    BY <1>3 DEF Strays
  <2> QED BY <1>1, <1>2, <1>3, <2>1 DEF SeedIsUnaffected
<1>4. CASE Seed
  <2>1. Seeded' = {SeedRow(c, writes') : c \in Customers}
    BY <1>4 DEF Seed, SeedRow
  <2> HIDE DEF Seeded
  <2>2. \A r, s \in Seeded' : r.cust = s.cust => r = s
    BY <2>1 DEF SeedRow
  <2>3. {r.cust : r \in Seeded'} = Customers
    <3>1. \A c \in Customers : SeedRow(c, writes') \in Seeded' /\ SeedRow(c, writes').cust = c
      BY <2>1 DEF SeedRow
    <3>2. \A r \in Seeded' : r.cust \in Customers
      BY <2>1 DEF SeedRow
    <3> QED BY <3>1, <3>2
  <2> QED BY <1>1, <2>2, <2>3 DEF SeedIsUnaffected
<1>5. CASE WriteCohort
  <2>1. pool \subseteq pool' /\ Strays = {}
    BY <1>5 DEF WriteCohort, Strays
  <2>2. ASSUME NEW r \in Seeded' PROVE r \in Seeded
    <3>1. r.out = Csv
      BY <2>2 DEF Strays
    <3>2. CASE r \notin pool
      <4>1. PICK q \in frame :
              r = [cust |-> q.cust, month |-> q.month, snap |-> q.snap, out |-> q.out,
                   built |-> q.built, write |-> writes']
        BY <1>5, <2>2, <3>2 DEF WriteCohort
      <4>2. q.out \in Outcome
        BY <1>2 DEF TypeOK
      <4> QED BY <3>1, <4>1, <4>2, PoolAssumption
    <3> QED BY <2>2, <3>2
  <2> QED BY <1>3, <2>1, <2>2
<1>6. Seed \/ WriteCohort \/ pool' = pool
  BY DEF Next, vars, tables, cycleVars, LogPrediction, WriteOutcomes, Carve, ReadReserve,
     BuildCohort, StartCheck, LoadComparisonCohort, ScoreCandidate, Abandon
<1> QED BY <1>3, <1>4, <1>5, <1>6

-----------------------------------------------------------------------------
(* The comparison. *)

LEMMA PairedStep == IInv /\ [Next]_vars => ComparisonIsPaired'
<1> SUFFICES ASSUME IInv, [Next]_vars PROVE ComparisonIsPaired'
  OBVIOUS
<1>1. ComparisonIsPaired /\ FiniteTables
  BY DEF IInv
<1>2. CASE ScoreCandidate
  <2>1. report' = [month |-> month, cohort |-> window, scores |-> Aligned]
    BY <1>2 DEF ScoreCandidate
  <2>2. /\ \A w \in window : \E x \in Aligned : x[1] = w
        /\ \A x, y \in Aligned : x[1] = y[1] => x = y
    BY <1>1, <1>2, AlignedOneToOne DEF ScoreCandidate, FiniteTables
  <2>3. \A x \in Aligned :
           x[1] \in window /\ x[1].out.cust = x[2].cust /\ x[2].month = month
    BY DEF Aligned, CohortRows
  <2> QED BY <2>1, <2>2, <2>3 DEF ComparisonIsPaired
<1>3. CASE report' = report
  BY <1>1, <1>3 DEF ComparisonIsPaired
<1>4. ScoreCandidate \/ report' = report
  BY DEF Next, vars, LogPrediction, WriteOutcomes, Seed, Carve, ReadReserve, BuildCohort,
     StartCheck, WriteCohort, LoadComparisonCohort, Abandon
<1> QED BY <1>2, <1>3, <1>4

-----------------------------------------------------------------------------
(* The theorems. *)

LEMMA IInvStep == IInv /\ [Next]_vars => IInv'
BY TypeStep, FiniteStep, RowsStep, SeedStep, PairedStep DEF IInv

LEMMA IInvHolds == Spec => []IInv
BY InitIInv, IInvStep, PTL DEF Spec

\* The tables, the manifest and what a cycle carries between its steps keep
\* their types, whoever writes in between.
THEOREM PoolTypes == Spec => []TypeOK
<1>1. IInv => TypeOK
  BY DEF IInv
<1> QED BY <1>1, IInvHolds, PTL

\* No row of a matured cohort is labelled with an outcome observed before its
\* features were, or that nobody recorded (_COHORT_QUERY).
THEOREM NoLabelLeak == Spec => []RowsAreMatured
<1>1. IInv => RowsAreMatured
  BY DEF IInv
<1> QED BY <1>1, IInvHolds, PTL

\* Its features are those of the last prediction before the outcome, and stay so
\* whatever is logged, reported and appended later (_COHORT_QUERY).
THEOREM SnapshotStands == Spec => []SnapshotIsLatest
<1>1. IInv => SnapshotIsLatest
  BY DEF IInv, RowsAreSettled, Settled, SnapshotIsLatest
<1> QED BY <1>1, IInvHolds, PTL

\* The rows a cold start trains on are those ingest seeded, one per customer, unless
\* a cohort was asked for a customer the manifest gives no month.
THEOREM ColdStartRows == Spec => []SeedIsUnaffected
<1>1. IInv => SeedIsUnaffected
  BY DEF IInv
<1> QED BY <1>1, IInvHolds, PTL

\* A logged decision pairs every row of its cohort with one score, of the same
\* customer: alignment by customer and one comparison of lengths are enough.
THEOREM PairedComparison == Spec => []ComparisonIsPaired
<1>1. IInv => ComparisonIsPaired
  BY DEF IInv
<1> QED BY <1>1, IInvHolds, PTL

\* Re-seeding and appending never take a matured row away from one another.
THEOREM CohortsAreKept == Spec => CohortsPersist
<1>1. [Next]_vars => (\A r \in pool : r.month # 0 => r \in pool')
  BY DEF Next, vars, tables, LogPrediction, WriteOutcomes, Seed, Carve, ReadReserve, BuildCohort,
     StartCheck, WriteCohort, LoadComparisonCohort, ScoreCandidate, Abandon
<1>2. [Next]_vars => [\A r \in pool : r.month # 0 => r \in pool']_vars
  BY <1>1
<1> QED BY <1>2, PTL DEF Spec, CohortsPersist
===============================================================================
