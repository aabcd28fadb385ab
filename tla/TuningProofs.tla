----------------------------- MODULE TuningProofs -----------------------------
(***************************************************************************)
(* A study is never charged more trials than were asked of it, mixes the   *)
(* trials of two invocations only when told to, and answers a re-run with  *)
(* the trial it answered before, for any number of studies, trials,        *)
(* invocations and crashes, and whatever the trials measure.               *)
(***************************************************************************)
EXTENDS Tuning, FiniteSetTheorems, TLAPS

\* Of a study: one that does not exist is empty, and its warm start is one trial,
\* the only one that can wait.  A trial that completed has measured something.
StudyIsSound ==
    \A k \in Names :
        /\ ~study[k].exists => study[k].trials = <<>>
        /\ \A i, j \in DOMAIN study[k].trials :
               study[k].trials[i].warm /\ study[k].trials[j].warm => i = j
        /\ \A i \in InState(study[k].trials, "WAITING") : study[k].trials[i].warm
        /\ \A i \in InState(study[k].trials, "COMPLETE") : study[k].trials[i].outcome \in Outcomes

\* No trial was taken up by an invocation yet to come.
TrialsArePast ==
    \A k \in Names : \A i \in Executed(study[k].trials) : study[k].trials[i].by <= count

\* The invocation under way has been counted in asked, and the trials it may still
\* take up fit within it.
RunFits ==
    /\ pc # "idle" => run.n <= asked[run.name]
    /\ pc \in {"optimize", "trial"} =>
           Cardinality(Executed(Trials)) + run.left <= asked[run.name]

\* The study under way has been created.
RunHasStudy == pc \in {"enqueue", "count", "optimize", "trial", "summarize"} => Exists

\* Without resume, trials are taken up only in a study that had none.
RunIsAlone ==
    ~run.resume =>
        /\ pc \in {"create", "enqueue", "count"} => Executed(Trials) = {} \/ Len(Trials) >= run.n
        /\ pc \in {"optimize", "trial"} => \A i \in Executed(Trials) : Trials[i].by = count

\* As long as no more is asked than a result was drawn from, its study is the one
\* it was drawn from, and no trial of it is taken up.
ResultsStand ==
    \A r \in DOMAIN results :
        /\ asked[results[r].name] <= results[r].held =>
               /\ Len(study[results[r].name].trials) >= results[r].held
               /\ SelectBest(Summaries(study[results[r].name].trials), results[r].rule)
                      = results[r].selected
        /\ pc \in {"optimize", "trial"} /\ results[r].name = run.name =>
               results[r].held < asked[run.name]

\* The inductive invariant.
IInv == /\ TypeOK /\ StudyIsSound /\ TrialsArePast /\ RunFits /\ RunHasStudy /\ RunIsAlone
        /\ ResultsStand /\ BudgetIsKept /\ PoolingIsDeliberate /\ RerunAgrees

-----------------------------------------------------------------------------
(* Trials. *)

\* A set of naturals that is not empty has a least member.
LEMMA LeastExists ==
    ASSUME NEW S \in SUBSET Nat, S # {}
    PROVE  \E g \in S : \A h \in S : g <= h
<1>1. PICK g \in S : \A h \in S : ~(<<h, g>> \in OpToRel(<, Nat))
  BY NatLessThanWellFounded, WFMin
<1>2. SUFFICES ASSUME NEW h \in S PROVE g <= h
  OBVIOUS
<1>3. g \in Nat /\ h \in Nat /\ ~(h < g)
  BY <1>1 DEF OpToRel
<1> QED BY <1>3

\* What the completed trials of a study have measured.
LEMMA SummariesOf ==
    ASSUME NEW t \in Seq(Trial), \A i \in InState(t, "COMPLETE") : t[i].outcome \in Outcomes
    PROVE  /\ InState(t, "COMPLETE") \subseteq Nat
           /\ Summaries(t) \in [InState(t, "COMPLETE") -> Outcomes]
BY DEF Summaries, InState

\* The best of the completed trials exists, and lies in its own band.
LEMMA BandIsInhabited ==
    ASSUME NEW D \in SUBSET Nat, D # {}, NEW m \in [D -> Outcomes]
    PROVE  RawBest(m) \in D /\ Band(m) \in SUBSET D /\ Band(m) # {}
<1> DEFINE Gaps == {Scale - m[i].value : i \in D}
           Best == {i \in D : \A j \in D : m[i].value >= m[j].value}
<1>1. \A i \in D : m[i].value \in 0..Scale /\ m[i].se \in Nat
  BY TuningAssumption
<1>2. Gaps \in SUBSET Nat /\ Gaps # {} /\ Scale \in Nat
  <2>1. Scale \in Nat
    BY TuningAssumption
  <2>2. \A v \in 0..Scale : Scale - v \in Nat
    BY <2>1
  <2>3. Gaps \in SUBSET Nat
    BY <1>1, <2>2
  <2> QED BY <2>1, <2>3
<1>3. PICK g \in Gaps : \A h \in Gaps : g <= h
  BY <1>2, LeastExists
<1>4. PICK b \in D : g = Scale - m[b].value
  OBVIOUS
<1>5. b \in Best
  <2> SUFFICES ASSUME NEW j \in D PROVE m[b].value >= m[j].value
    OBVIOUS
  <2>1. Scale - m[b].value <= Scale - m[j].value
    BY <1>3, <1>4
  <2> QED BY <1>1, <1>2, <2>1
<1>6. PICK i \in Best : \A j \in Best : i <= j
  BY <1>5, LeastExists
<1>7. \A j \in D : m[i].value > m[j].value \/ (m[i].value = m[j].value /\ i <= j)
  <2> SUFFICES ASSUME NEW j \in D, ~(m[i].value > m[j].value)
               PROVE  m[i].value = m[j].value /\ i <= j
    OBVIOUS
  <2>1. m[i].value = m[j].value
    <3>1. m[i].value >= m[j].value
      BY <1>6
    <3> QED BY <1>1, <1>2, <3>1
  <2>2. j \in Best
    BY <2>1
  <2> QED BY <1>6, <2>1, <2>2
<1>8. DOMAIN m = D
  OBVIOUS
<1>9. RawBest(m) \in D
  BY <1>7, <1>8 DEF RawBest
<1>10. RawBest(m) \in Band(m)
  <2>1. \A j \in D : m[j].value + m[j].se >= m[j].value
    <3>1. \A j \in D : m[j].value \in Nat /\ m[j].se \in Nat
      BY <1>1, <1>2
    <3> QED BY <3>1
  <2> QED BY <1>8, <1>9, <2>1 DEF Band
<1> QED BY <1>8, <1>9, <1>10 DEF Band

\* select_best_trial returns one of the trials it is given, whatever the rule.
LEMMA SelectBestIsOne ==
    ASSUME NEW D \in SUBSET Nat, D # {}, NEW m \in [D -> Outcomes], NEW rule
    PROVE  SelectBest(m, rule) \in D
<1> DEFINE B == Band(m)
           Sizes == {m[i].size : i \in B}
<1>1. B \in SUBSET D /\ B # {} /\ RawBest(m) \in D
  BY BandIsInhabited
<1>2. \A i \in B : m[i].size \in Nat
  BY <1>1, TuningAssumption
<1> HIDE DEF B
<1>3. PICK g \in Sizes : \A h \in Sizes : g <= h
  <2>1. Sizes \in SUBSET Nat /\ Sizes # {}
    BY <1>1, <1>2
  <2> QED BY <2>1, LeastExists
<1> DEFINE Simple == {i \in B : m[i].size = g}
<1>4. Simple \in SUBSET Nat /\ Simple # {}
  BY <1>1, <1>3
<1>5. PICK i \in Simple : \A j \in Simple : i <= j
  BY <1>4, LeastExists
<1>6. \A j \in B : m[i].size < m[j].size \/ (m[i].size = m[j].size /\ i <= j)
  BY <1>1, <1>2, <1>3, <1>5
<1>7. i \in B
  BY <1>5
<1>8. Simplest(m) \in B
  BY <1>6, <1>7 DEF Simplest, B
<1> QED BY <1>1, <1>8 DEF SelectBest

\* The trials that were taken up are finitely many, and no more than there are.
LEMMA ExecutedIsFinite ==
    ASSUME NEW t \in Seq(Trial)
    PROVE  IsFiniteSet(Executed(t)) /\ Cardinality(Executed(t)) \in Nat
           /\ Cardinality(Executed(t)) <= Len(t)
<1>1. Len(t) \in Nat /\ DOMAIN t = 1..Len(t)
  OBVIOUS
<1>2. IsFiniteSet(1..Len(t)) /\ Cardinality(1..Len(t)) = Len(t)
  BY <1>1, FS_Interval
<1>3. Executed(t) \subseteq 1..Len(t)
  BY <1>1 DEF Executed
<1>4. IsFiniteSet(Executed(t)) /\ Cardinality(Executed(t)) <= Cardinality(1..Len(t))
  BY <1>2, <1>3, FS_Subset
<1> QED BY <1>2, <1>4, FS_CardinalityType

\* Enqueueing the warm start takes nothing up and measures nothing.
LEMMA WaitingAppended ==
    ASSUME NEW t \in Seq(Trial)
    PROVE  LET u == Append(t, Waiting)
           IN  /\ u \in Seq(Trial) /\ Len(u) = Len(t) + 1
               /\ \A i \in DOMAIN t : u[i] = t[i]
               /\ DOMAIN u = DOMAIN t \cup {Len(t) + 1} /\ u[Len(t) + 1] = Waiting
               /\ Executed(u) = Executed(t) /\ Summaries(u) = Summaries(t)
<1> DEFINE u == Append(t, Waiting)
<1>1. Waiting \in Trial /\ Waiting.state = "WAITING"
  BY DEF Waiting, Trial, States
<1>2. u \in Seq(Trial) /\ Len(u) = Len(t) + 1 /\ DOMAIN u = DOMAIN t \cup {Len(t) + 1}
  BY <1>1
<1>3. \A i \in DOMAIN t : u[i] = t[i]
  BY <1>1
<1>4. u[Len(t) + 1] = Waiting
  BY <1>1
<1> HIDE DEF u
<1>5. Executed(u) = Executed(t)
  BY <1>1, <1>2, <1>3, <1>4 DEF Executed, InState
<1>6. InState(u, "COMPLETE") = InState(t, "COMPLETE")
  BY <1>1, <1>2, <1>3, <1>4 DEF InState
<1>7. Summaries(u) = Summaries(t)
  BY <1>3, <1>6 DEF Summaries, InState
<1> QED BY <1>2, <1>3, <1>4, <1>5, <1>7 DEF u

\* A function on 1..n is a sequence.
LEMMA FunctionIsSequence ==
    ASSUME NEW n \in Nat, NEW f, DOMAIN f = 1..n, f = [i \in 1..n |-> f[i]],
           \A i \in 1..n : f[i] \in Trial
    PROVE  f \in Seq(Trial)
OBVIOUS

\* What taking up a trial does to the trials, whether it waited or is new.
TakesUp(t, u, x) ==
    /\ u \in Seq(Trial) /\ DOMAIN t \subseteq DOMAIN u
    /\ \E i \in DOMAIN u :
           /\ i \notin Executed(t) /\ Executed(u) = Executed(t) \cup {i}
           /\ u[i] = x /\ (i \in DOMAIN t => t[i].warm /\ x.warm) /\ (i \notin DOMAIN t => ~x.warm)
           /\ \A j \in DOMAIN u \ {i} : j \in DOMAIN t /\ u[j] = t[j]

\* study.optimize appends a trial when none waits.
LEMMA NewIsTaken ==
    ASSUME NEW t \in Seq(Trial), NEW x \in Trial, x.state = "RUNNING", ~x.warm
    PROVE  TakesUp(t, Append(t, x), x)
<1> DEFINE u == Append(t, x)
           n == Len(t) + 1
<1>1. /\ u \in Seq(Trial) /\ n \in Nat /\ DOMAIN u = DOMAIN t \cup {n} /\ n \notin DOMAIN t
      /\ u[n] = x /\ \A j \in DOMAIN t : u[j] = t[j]
  OBVIOUS
<1> HIDE DEF u, n
<1>2. n \notin Executed(t) /\ Executed(u) = Executed(t) \cup {n}
  BY <1>1 DEF Executed, InState
<1>3. TakesUp(t, u, x)
  BY <1>1, <1>2 DEF TakesUp
<1> QED BY <1>3 DEF u

\* It takes up the trial that waits, which is the warm start.
LEMMA WaitingIsTaken ==
    ASSUME NEW t \in Seq(Trial), NEW x \in Trial, x.state = "RUNNING", x.warm,
           InState(t, "WAITING") # {},
           \A i \in InState(t, "WAITING") : t[i].warm,
           \A i, j \in DOMAIN t : t[i].warm /\ t[j].warm => i = j
    PROVE  TakesUp(t, [i \in DOMAIN t |-> IF t[i].state = "WAITING" THEN x ELSE t[i]], x)
<1> DEFINE u == [i \in DOMAIN t |-> IF t[i].state = "WAITING" THEN x ELSE t[i]]
<1>1. PICK w \in DOMAIN t : t[w].state = "WAITING"
  BY DEF InState
<1>2. \A j \in DOMAIN t : t[j].state = "WAITING" => j = w
  BY <1>1 DEF InState
<1>3. DOMAIN t = 1..Len(t) /\ Len(t) \in Nat /\ \A i \in DOMAIN t : t[i] \in Trial
  OBVIOUS
<1>4. u \in Seq(Trial) /\ DOMAIN u = DOMAIN t
  BY <1>3, FunctionIsSequence
<1>5. u[w] = x /\ \A j \in DOMAIN t \ {w} : u[j] = t[j]
  BY <1>1, <1>2
<1> HIDE DEF u
<1>6. Executed(u) = Executed(t) \cup {w} /\ w \notin Executed(t)
  BY <1>1, <1>2, <1>4, <1>5 DEF Executed, InState
<1>7. t[w].warm
  BY <1>1 DEF InState
<1>8. TakesUp(t, u, x)
  BY <1>1, <1>4, <1>5, <1>6, <1>7 DEF TakesUp
<1> QED BY <1>8 DEF u

\* A trial that ends changes in nothing else.
LEMMA EndedTrial ==
    ASSUME NEW x \in Trial, NEW s \in {"COMPLETE", "PRUNED", "FAIL"}, NEW o \in Outcomes \cup {None}
    PROVE  /\ Ended(x, s, o) \in Trial /\ Ended(x, s, o).state = s /\ Ended(x, s, o).outcome = o
           /\ Ended(x, s, o).by = x.by /\ Ended(x, s, o).resumed = x.resumed
           /\ Ended(x, s, o).warm = x.warm
BY DEF Trial, States, Ended

\* Telling how a trial ended takes nothing up and gives nothing back.
LEMMA ToldIsExecuted ==
    ASSUME NEW t \in Seq(Trial), NEW s \in {"COMPLETE", "PRUNED", "FAIL"},
           NEW o \in Outcomes \cup {None}
    PROVE  LET u == [i \in DOMAIN t |-> IF IsMine(t[i]) THEN Ended(t[i], s, o) ELSE t[i]]
           IN  /\ u \in Seq(Trial) /\ DOMAIN u = DOMAIN t /\ Executed(u) = Executed(t)
               /\ \A i \in DOMAIN t : /\ u[i].by = t[i].by /\ u[i].resumed = t[i].resumed
                                      /\ u[i].warm = t[i].warm
                                      /\ \/ u[i].state = t[i].state /\ u[i].outcome = t[i].outcome
                                         \/ u[i].state = s /\ u[i].outcome = o
               /\ InState(u, "WAITING") = InState(t, "WAITING")
<1> DEFINE u == [i \in DOMAIN t |-> IF IsMine(t[i]) THEN Ended(t[i], s, o) ELSE t[i]]
<1>1. DOMAIN t = 1..Len(t) /\ Len(t) \in Nat /\ \A i \in DOMAIN t : t[i] \in Trial
  OBVIOUS
<1>2. \A i \in DOMAIN t : u[i] \in Trial
  BY <1>1, EndedTrial
<1>3. u \in Seq(Trial) /\ DOMAIN u = DOMAIN t
  BY <1>1, <1>2, FunctionIsSequence
<1>4. \A i \in DOMAIN t :
        /\ u[i].by = t[i].by /\ u[i].resumed = t[i].resumed /\ u[i].warm = t[i].warm
        /\ \/ u[i].state = t[i].state /\ u[i].outcome = t[i].outcome
           \/ u[i].state = s /\ u[i].outcome = o
        /\ (u[i].state = "WAITING") <=> (t[i].state = "WAITING")
  <2> SUFFICES ASSUME NEW i \in DOMAIN t
               PROVE  /\ u[i].by = t[i].by /\ u[i].resumed = t[i].resumed /\ u[i].warm = t[i].warm
                      /\ \/ u[i].state = t[i].state /\ u[i].outcome = t[i].outcome
                         \/ u[i].state = s /\ u[i].outcome = o
                      /\ (u[i].state = "WAITING") <=> (t[i].state = "WAITING")
    OBVIOUS
  <2>1. CASE ~IsMine(t[i])
    BY <2>1
  <2>2. CASE IsMine(t[i])
    <3>1. t[i] \in Trial /\ t[i].state = "RUNNING"
      BY <1>1, <2>2 DEF IsMine
    <3>2. u[i] = Ended(t[i], s, o)
      BY <2>2
    <3>3. /\ u[i].by = t[i].by /\ u[i].resumed = t[i].resumed /\ u[i].warm = t[i].warm
          /\ u[i].state = s /\ u[i].outcome = o
      BY <3>1, <3>2, EndedTrial
    <3> QED BY <3>1, <3>3
  <2> QED BY <2>1, <2>2
<1> HIDE DEF u
<1>5. Executed(u) = Executed(t) /\ InState(u, "WAITING") = InState(t, "WAITING")
  BY <1>3, <1>4 DEF Executed, InState
<1> QED BY <1>3, <1>4, <1>5 DEF u

\* The charge of a trial taken up is one.
LEMMA TakenIsCharged ==
    ASSUME NEW t \in Seq(Trial), NEW u \in Seq(Trial), NEW x, TakesUp(t, u, x)
    PROVE  Cardinality(Executed(u)) = Cardinality(Executed(t)) + 1
BY ExecutedIsFinite, FS_AddElement DEF TakesUp

-----------------------------------------------------------------------------
(* The invariant. *)

\* Writing the trials of one study leaves the others alone.
LEMMA StudyUpdated ==
    ASSUME NEW st \in [Names -> [exists : BOOLEAN, trials : Seq(Trial)]], NEW k \in Names,
           NEW u \in Seq(Trial)
    PROVE  LET su == [st EXCEPT ![k].trials = u]
           IN  /\ su \in [Names -> [exists : BOOLEAN, trials : Seq(Trial)]]
               /\ su[k].trials = u /\ su[k].exists = st[k].exists
               /\ \A l \in Names \ {k} : su[l] = st[l]
OBVIOUS

LEMMA InitIsInvariant == Init => IInv
<1> SUFFICES ASSUME Init PROVE IInv
  OBVIOUS
<1> USE DEF Init, NoStudy, NoRun
<1>1. TypeOK
  BY DEF TypeOK
<1>2. \A k \in Names : Executed(study[k].trials) = {}
  BY DEF Executed, InState
<1>3. StudyIsSound /\ TrialsArePast /\ RunFits /\ RunHasStudy /\ RunIsAlone /\ ResultsStand
  BY <1>2 DEF StudyIsSound, TrialsArePast, RunFits, RunHasStudy, RunIsAlone, ResultsStand, InState
<1>4. BudgetIsKept
  <2> SUFFICES ASSUME NEW k \in Names
               PROVE  Cardinality(Executed(study[k].trials)) <= asked[k]
    BY DEF BudgetIsKept
  <2>1. Cardinality(Executed(study[k].trials)) = 0
    BY <1>2, FS_EmptySet
  <2>2. asked[k] = 0
    OBVIOUS
  <2> QED BY <2>1, <2>2
<1>5. PoolingIsDeliberate /\ RerunAgrees
  BY <1>2 DEF PoolingIsDeliberate, RerunAgrees
<1> QED BY <1>1, <1>3, <1>4, <1>5 DEF IInv

\* What the tables hold, as far as it is counted and compared.
LEMMA TablesAreTyped ==
    ASSUME IInv
    PROVE  /\ \A r \in DOMAIN results : results[r].name \in Names /\ results[r].held \in Nat
           /\ \A k \in Names : \A i \in DOMAIN study[k].trials : study[k].trials[i].by \in Nat
<1>1. TypeOK
  BY DEF IInv
<1>2. \A r \in DOMAIN results : results[r] \in Result
  BY <1>1 DEF TypeOK
<1>3. SUFFICES ASSUME NEW k \in Names, NEW i \in DOMAIN study[k].trials
               PROVE  study[k].trials[i].by \in Nat
  BY <1>2 DEF Result
<1>4. study[k].trials \in Seq(Trial)
  BY <1>1 DEF TypeOK
<1>5. study[k].trials[i] \in Trial
  BY <1>4
<1> QED BY <1>5 DEF Trial

\* A call is counted in asked before it does anything.
LEMMA StartKeeps ==
    ASSUME IInv, NEW k \in Names, NEW n \in Budgets, NEW resume \in BOOLEAN,
           NEW warm \in BOOLEAN, Start(k, n, resume, warm)
    PROVE  IInv'
<1> USE DEF IInv
<1>1. /\ pc = "idle" /\ count' = count + 1 /\ pc' = "discard"
      /\ UNCHANGED <<study, results, crashes>>
      /\ asked' = [asked EXCEPT ![k] = IF n > @ THEN n ELSE @]
      /\ run' = [NoRun EXCEPT !.name = k, !.n = n, !.resume = resume, !.warm = warm]
  BY DEF Start
<1>2. n \in Nat
  BY TuningAssumption
<1>3. /\ run' \in [name : Names \cup {None}, n : Nat, resume : BOOLEAN,
                   warm : BOOLEAN, left : Nat, submitted : Nat]
      /\ run'.name = k /\ run'.n = n
  BY <1>1, <1>2 DEF NoRun
<1>4. /\ asked \in [Names -> Nat] /\ asked' \in [Names -> Nat] /\ count \in Nat
      /\ asked'[k] >= n /\ \A l \in Names : asked'[l] >= asked[l]
  BY <1>1, <1>2 DEF TypeOK
<1>5. TypeOK'
  BY <1>1, <1>3, <1>4 DEF TypeOK
<1>6. StudyIsSound'
  BY <1>1 DEF StudyIsSound
<1>7. TrialsArePast'
  <2>1. \A l \in Names : \A i \in Executed(study[l].trials) : study[l].trials[i].by \in Nat
    BY TablesAreTyped DEF Executed
  <2> QED BY <1>1, <1>4, <2>1 DEF TrialsArePast
<1>8. RunFits'
  BY <1>1, <1>3, <1>4 DEF RunFits
<1>9. RunHasStudy' /\ RunIsAlone'
  BY <1>1 DEF RunHasStudy, RunIsAlone
<1>10. ResultsStand'
  <2> SUFFICES ASSUME NEW r \in DOMAIN results, asked'[results[r].name] <= results[r].held
               PROVE  asked[results[r].name] <= results[r].held
    BY <1>1 DEF ResultsStand
  <2>1. results[r].name \in Names /\ results[r].held \in Nat
    BY TablesAreTyped
  <2>2. asked[results[r].name] <= asked'[results[r].name]
    BY <1>4, <2>1
  <2>3. asked[results[r].name] \in Nat /\ asked'[results[r].name] \in Nat
    BY <1>4, <2>1
  <2> QED BY <2>1, <2>2, <2>3
<1>11. BudgetIsKept'
  <2> SUFFICES ASSUME NEW l \in Names
               PROVE  Cardinality(Executed(study[l].trials)) <= asked'[l]
    BY <1>1 DEF BudgetIsKept
  <2>1. Cardinality(Executed(study[l].trials)) \in Nat
    BY ExecutedIsFinite DEF TypeOK
  <2>2. Cardinality(Executed(study[l].trials)) <= asked[l]
    BY DEF BudgetIsKept
  <2>3. asked[l] \in Nat /\ asked'[l] \in Nat /\ asked[l] <= asked'[l]
    BY <1>4
  <2> QED BY <2>1, <2>2, <2>3
<1>12. PoolingIsDeliberate' /\ RerunAgrees'
  BY <1>1 DEF PoolingIsDeliberate, RerunAgrees
<1> QED BY <1>5, <1>6, <1>7, <1>8, <1>9, <1>10, <1>11, <1>12

\* What every step of an invocation finds.
LEMMA UnderWay ==
    ASSUME IInv, pc # "idle"
    PROVE  /\ run.name \in Names /\ run.n \in Nat /\ run.left \in Nat
           /\ run.resume \in BOOLEAN /\ run.n <= asked[run.name]
           /\ asked \in [Names -> Nat] /\ asked[run.name] \in Nat /\ count \in Nat
           /\ study \in [Names -> [exists : BOOLEAN, trials : Seq(Trial)]]
           /\ Trials \in Seq(Trial) /\ Len(Trials) \in Nat
           /\ \A r \in DOMAIN results : results[r].name \in Names /\ results[r].held \in Nat
<1>1. TypeOK /\ RunFits
  BY DEF IInv
<1>3. \A r \in DOMAIN results : results[r].name \in Names /\ results[r].held \in Nat
  BY TablesAreTyped
<1>4. run.name \in Names
  BY <1>1 DEF TypeOK
<1>5. run.n \in Nat /\ run.left \in Nat /\ run.resume \in BOOLEAN /\ count \in Nat
  BY <1>1 DEF TypeOK
<1>6. /\ asked \in [Names -> Nat] /\ asked[run.name] \in Nat
      /\ study \in [Names -> [exists : BOOLEAN, trials : Seq(Trial)]]
  BY <1>1, <1>4 DEF TypeOK
<1>7. Trials \in Seq(Trial) /\ Len(Trials) \in Nat
  BY <1>4, <1>6 DEF Trials
<1>8. run.n <= asked[run.name]
  BY <1>1 DEF RunFits
<1> QED BY <1>3, <1>4, <1>5, <1>6, <1>7, <1>8

\* A step that leaves the studies alone disturbs nothing said of them alone.
LEMMA StudiesKept ==
    ASSUME IInv, UNCHANGED <<study, asked, count>>
    PROVE  StudyIsSound' /\ TrialsArePast' /\ BudgetIsKept' /\ PoolingIsDeliberate'
BY DEF IInv, StudyIsSound, TrialsArePast, BudgetIsKept, PoolingIsDeliberate

\* Nor does it take a result back, unless it begins to take trials up.
LEMMA ResultsKept ==
    ASSUME IInv, UNCHANGED <<study, asked, results>>,
           pc' \in {"optimize", "trial"} => pc \in {"optimize", "trial"} /\ run'.name = run.name
    PROVE  ResultsStand' /\ RerunAgrees'
BY DEF IInv, ResultsStand, RerunAgrees

\* The trials kept are as many as are asked for, or there were none, or it is told
\* to resume.
LEMMA DiscardKeeps ==
    ASSUME IInv, Discard
    PROVE  IInv'
<1> DEFINE k == run.name
<1>1. /\ pc = "discard" /\ pc' = "create" /\ UNCHANGED <<asked, results, count, crashes, run>>
      /\ study' = IF Kept THEN study ELSE [study EXCEPT ![k] = NoStudy]
  BY DEF Discard, Unchanged
<1>2. /\ k \in Names /\ run.n \in Nat /\ run.n <= asked[k] /\ asked \in [Names -> Nat]
      /\ asked[k] \in Nat /\ run.resume \in BOOLEAN
      /\ study \in [Names -> [exists : BOOLEAN, trials : Seq(Trial)]] /\ Len(Trials) \in Nat
      /\ \A r \in DOMAIN results : results[r].name \in Names /\ results[r].held \in Nat
  BY <1>1, UnderWay
<1>3. TypeOK /\ StudyIsSound /\ TrialsArePast /\ RunFits /\ ResultsStand /\ BudgetIsKept
      /\ PoolingIsDeliberate /\ RerunAgrees
  BY DEF IInv
<1>4. /\ study' \in [Names -> [exists : BOOLEAN, trials : Seq(Trial)]]
      /\ \A l \in Names \ {k} : study'[l] = study[l]
      /\ Kept => study' = study
      /\ ~Kept => study'[k].trials = <<>>
  BY <1>1, <1>2 DEF NoStudy
<1>5. Executed(<<>>) = {} /\ InState(<<>>, "COMPLETE") = {} /\ InState(<<>>, "WAITING") = {}
  BY DEF Executed, InState
<1>6. TypeOK'
  BY <1>1, <1>3, <1>4 DEF TypeOK
<1>7. RunFits' /\ RunHasStudy' /\ RerunAgrees'
  BY <1>1, <1>3 DEF RunFits, RunHasStudy, RerunAgrees
<1>8. CASE Kept
  <2>1. study' = study
    BY <1>4, <1>8
  <2>2. RunIsAlone'
    <3> SUFFICES ASSUME ~run.resume PROVE Executed(Trials) = {} \/ Len(Trials) >= run.n
      BY <1>1, <2>1 DEF RunIsAlone, Trials
    <3>1. CASE ~Exists
      BY <1>2, <1>3, <1>5, <3>1 DEF StudyIsSound, Exists, Trials
    <3>2. CASE Len(Trials) >= run.n
      BY <3>2
    <3> QED BY <1>8, <3>1, <3>2 DEF Kept
  <2> QED BY <1>1, <1>6, <1>7, <2>1, <2>2, StudiesKept, ResultsKept DEF IInv
<1>9. CASE ~Kept
  <2>1. study'[k].trials = <<>>
    BY <1>4, <1>9
  <2>2. StudyIsSound' /\ TrialsArePast' /\ PoolingIsDeliberate'
    BY <1>1, <1>2, <1>3, <1>4, <1>5, <2>1 DEF StudyIsSound, TrialsArePast, PoolingIsDeliberate
  <2>3. BudgetIsKept'
    <3>1. Cardinality(Executed(study'[k].trials)) <= asked[k]
      <4>1. Cardinality(Executed(study'[k].trials)) = 0
        BY <1>5, <2>1, FS_EmptySet
      <4> QED BY <1>2, <4>1
    <3> QED BY <1>1, <1>3, <1>4, <3>1 DEF BudgetIsKept
  <2>4. RunIsAlone'
    BY <1>1, <1>5, <2>1 DEF RunIsAlone, Trials
  <2>5. ResultsStand'
    <3> SUFFICES ASSUME NEW r \in DOMAIN results, asked[results[r].name] <= results[r].held
                 PROVE  results[r].name # k
      BY <1>1, <1>2, <1>3, <1>4 DEF ResultsStand
    <3>1. Len(Trials) < run.n
      BY <1>2, <1>9 DEF Kept
    <3>2. Len(study[results[r].name].trials) >= results[r].held
      BY <1>3 DEF ResultsStand
    <3> SUFFICES ASSUME results[r].name = k PROVE FALSE
      OBVIOUS
    <3>3. Len(Trials) >= results[r].held /\ asked[k] <= results[r].held
      BY <3>2 DEF Trials
    <3> QED BY <1>2, <3>1, <3>3
  <2> QED BY <1>6, <1>7, <2>2, <2>3, <2>4, <2>5 DEF IInv
<1> QED BY <1>8, <1>9

\* Creating the study changes none of its trials.
LEMMA CreateKeeps ==
    ASSUME IInv, Create
    PROVE  IInv'
<1> DEFINE k == run.name
<1>1. /\ pc = "create" /\ pc' = "enqueue" /\ UNCHANGED <<asked, results, count, crashes, run>>
      /\ study' = [study EXCEPT ![k].exists = TRUE]
  BY DEF Create, Unchanged
<1>2. k \in Names /\ study \in [Names -> [exists : BOOLEAN, trials : Seq(Trial)]]
  BY <1>1, UnderWay
<1>3. /\ study' \in [Names -> [exists : BOOLEAN, trials : Seq(Trial)]]
      /\ \A l \in Names : study'[l].trials = study[l].trials
      /\ \A l \in Names : study[l].exists => study'[l].exists
      /\ study'[k].exists
  BY <1>1, <1>2
<1>4. TypeOK' /\ StudyIsSound' /\ TrialsArePast' /\ BudgetIsKept' /\ PoolingIsDeliberate'
  BY <1>1, <1>3 DEF IInv, TypeOK, StudyIsSound, TrialsArePast, BudgetIsKept, PoolingIsDeliberate
<1>5. RunFits' /\ RunHasStudy' /\ RerunAgrees'
  BY <1>1, <1>3 DEF IInv, RunFits, RunHasStudy, RerunAgrees, Exists
<1>6. RunIsAlone'
  BY <1>1, <1>2, <1>3 DEF IInv, RunIsAlone, Trials
<1>7. ResultsStand'
  <2>1. \A r \in DOMAIN results : results[r].name \in Names
    BY <1>1, UnderWay
  <2> QED BY <1>1, <1>3, <2>1 DEF IInv, ResultsStand
<1> QED BY <1>4, <1>5, <1>6, <1>7 DEF IInv

\* Enqueueing appends a trial that nobody has taken up, unless there is one.
LEMMA EnqueueKeeps ==
    ASSUME IInv, Enqueue
    PROVE  IInv'
<1> DEFINE k == run.name
           u == Append(Trials, Waiting)
<1>1. /\ pc = "enqueue" /\ pc' = "count" /\ UNCHANGED <<asked, results, count, crashes, run>>
      /\ \/ study' = study
         \/ /\ \A i \in DOMAIN Trials : ~Trials[i].warm
            /\ study' = [study EXCEPT ![k].trials = u]
  BY DEF Enqueue, Unchanged, Trials
<1>2. /\ k \in Names /\ study \in [Names -> [exists : BOOLEAN, trials : Seq(Trial)]]
      /\ Trials \in Seq(Trial) /\ run.n \in Nat /\ Len(Trials) \in Nat
      /\ \A r \in DOMAIN results : results[r].name \in Names /\ results[r].held \in Nat
  BY <1>1, UnderWay
<1>3. CASE study' = study
  <2>1. TypeOK' /\ RunFits' /\ RunHasStudy' /\ RunIsAlone'
    BY <1>1, <1>3 DEF IInv, TypeOK, RunFits, RunHasStudy, RunIsAlone, Trials, Exists
  <2> QED BY <1>1, <1>3, <2>1, StudiesKept, ResultsKept DEF IInv
<1>4. CASE /\ \A i \in DOMAIN Trials : ~Trials[i].warm
           /\ study' = [study EXCEPT ![k].trials = u]
  <2>1. /\ u \in Seq(Trial) /\ Len(u) = Len(Trials) + 1
        /\ \A i \in DOMAIN Trials : u[i] = Trials[i]
        /\ DOMAIN u = DOMAIN Trials \cup {Len(Trials) + 1} /\ u[Len(Trials) + 1] = Waiting
        /\ Executed(u) = Executed(Trials) /\ Summaries(u) = Summaries(Trials)
    BY <1>2, WaitingAppended
  <2> HIDE DEF u
  <2>2. /\ study' \in [Names -> [exists : BOOLEAN, trials : Seq(Trial)]]
        /\ study'[k].trials = u /\ study'[k].exists = study[k].exists
        /\ \A l \in Names \ {k} : study'[l] = study[l]
    BY <1>2, <1>4, <2>1, StudyUpdated
  <2>3. TypeOK' /\ RunFits' /\ RunHasStudy' /\ RerunAgrees'
    BY <1>1, <2>2 DEF IInv, TypeOK, RunFits, RunHasStudy, RerunAgrees, Exists
  <2>4. StudyIsSound'
    <3>1. study[k].exists
      BY <1>1 DEF IInv, RunHasStudy, Exists
    <3>2. Waiting.warm /\ Waiting.state = "WAITING"
      BY DEF Waiting
    <3>3. \A i, j \in DOMAIN u : u[i].warm /\ u[j].warm => i = j
      BY <1>4, <2>1, <3>2
    <3>4. \A i \in InState(u, "WAITING") : u[i].warm
      <4>1. \A i \in DOMAIN Trials : Trials[i].state = "WAITING" => Trials[i].warm
        BY <1>2 DEF IInv, StudyIsSound, InState, Trials
      <4> QED BY <2>1, <3>2, <4>1 DEF InState
    <3>5. \A i \in InState(u, "COMPLETE") : u[i].outcome \in Outcomes
      <4>1. \A i \in DOMAIN Trials : Trials[i].state = "COMPLETE" => Trials[i].outcome \in Outcomes
        BY <1>2 DEF IInv, StudyIsSound, InState, Trials
      <4> QED BY <2>1, <3>2, <4>1 DEF InState
    <3> QED BY <1>2, <2>2, <3>1, <3>3, <3>4, <3>5 DEF IInv, StudyIsSound
  <2>5. \A l \in Names : /\ Executed(study'[l].trials) = Executed(study[l].trials)
                        /\ Summaries(study'[l].trials) = Summaries(study[l].trials)
                        /\ \A i \in Executed(study[l].trials) :
                               study'[l].trials[i] = study[l].trials[i]
    <3>1. Executed(Trials) \subseteq DOMAIN Trials
      BY DEF Executed
    <3>2. \A i \in Executed(Trials) : u[i] = Trials[i]
      BY <2>1, <3>1
    <3> QED BY <2>1, <2>2, <3>2 DEF Trials
  <2>6. TrialsArePast' /\ BudgetIsKept' /\ PoolingIsDeliberate'
    BY <1>1, <2>5 DEF IInv, TrialsArePast, BudgetIsKept, PoolingIsDeliberate
  <2>7. RunIsAlone'
    <3>1. ~run.resume => Executed(Trials) = {} \/ Len(Trials) >= run.n
      BY <1>1 DEF IInv, RunIsAlone
    <3>2. ~run.resume => Executed(u) = {} \/ Len(u) >= run.n
      BY <1>2, <2>1, <3>1
    <3>3. Trials' = u
      BY <1>1, <2>2 DEF Trials
    <3> QED BY <1>1, <3>2, <3>3 DEF RunIsAlone
  <2>8. ResultsStand'
    <3>1. \A l \in Names : Len(study'[l].trials) \in Nat /\ Len(study[l].trials) \in Nat
                          /\ Len(study'[l].trials) >= Len(study[l].trials)
      <4> SUFFICES ASSUME NEW l \in Names
                   PROVE  Len(study'[l].trials) \in Nat /\ Len(study[l].trials) \in Nat
                          /\ Len(study'[l].trials) >= Len(study[l].trials)
        OBVIOUS
      <4>1. CASE l = k
        BY <1>2, <2>1, <2>2, <4>1 DEF Trials
      <4>2. CASE l # k
        <5>1. study[l].trials \in Seq(Trial) /\ study'[l] = study[l]
          BY <1>2, <2>2, <4>2
        <5> QED BY <5>1
      <4> QED BY <4>1, <4>2
    <3>2. ASSUME NEW r \in DOMAIN results, asked[results[r].name] <= results[r].held
          PROVE  /\ Len(study'[results[r].name].trials) >= results[r].held
                 /\ SelectBest(Summaries(study'[results[r].name].trials), results[r].rule)
                      = results[r].selected
      <4>1. /\ Len(study[results[r].name].trials) >= results[r].held
            /\ SelectBest(Summaries(study[results[r].name].trials), results[r].rule)
                      = results[r].selected
        BY <3>2 DEF IInv, ResultsStand
      <4>2. results[r].name \in Names /\ results[r].held \in Nat
        BY <1>2
      <4>3. Len(study'[results[r].name].trials) >= results[r].held
        BY <3>1, <4>1, <4>2
      <4> QED BY <2>5, <4>1, <4>2, <4>3
    <3> QED BY <1>1, <3>2 DEF ResultsStand
  <2> QED BY <2>3, <2>4, <2>6, <2>7, <2>8 DEF IInv
<1> QED BY <1>1, <1>3, <1>4

\* The trials lacking are charged against what was asked, and there are none when a
\* result was drawn from as many trials as are asked for.
LEMMA CountKeeps ==
    ASSUME IInv, Count
    PROVE  IInv'
<1> DEFINE k == run.name
<1>1. /\ pc = "count" /\ pc' = IF Remaining > 0 THEN "optimize" ELSE "summarize"
      /\ UNCHANGED <<study, asked, results, count, crashes>>
      /\ run' = [run EXCEPT !.left = Remaining, !.submitted = Remaining]
  BY DEF Count, Unchanged
<1>2. /\ k \in Names /\ run.n \in Nat /\ Len(Trials) \in Nat /\ run.n <= asked[k]
      /\ asked[k] \in Nat /\ Trials \in Seq(Trial) /\ run.resume \in BOOLEAN
      /\ \A r \in DOMAIN results : results[r].name \in Names /\ results[r].held \in Nat
  BY <1>1, UnderWay
<1>3. Remaining \in Nat /\ (Remaining > 0 => Remaining + Len(Trials) = run.n)
  BY <1>2 DEF Remaining
<1>4. TypeOK /\ RunFits /\ RunHasStudy /\ RunIsAlone /\ ResultsStand /\ BudgetIsKept
      /\ RerunAgrees
  BY DEF IInv
<1>5. /\ run' \in [name : Names \cup {None}, n : Nat, resume : BOOLEAN,
                   warm : BOOLEAN, left : Nat, submitted : Nat]
      /\ run'.name = k /\ run'.n = run.n /\ run'.resume = run.resume
      /\ run'.left = Remaining
  BY <1>1, <1>3, <1>4 DEF TypeOK
<1>6. TypeOK'
  BY <1>1, <1>4, <1>5 DEF TypeOK
<1>7. Trials' = Trials /\ (Exists <=> Exists')
  BY <1>1, <1>5 DEF Trials, Exists
<1>8. RunFits'
  <2>1. pc' = "optimize" => Cardinality(Executed(Trials)) + Remaining <= asked[k]
    <3> SUFFICES ASSUME Remaining > 0
                 PROVE  Cardinality(Executed(Trials)) + Remaining <= asked[k]
      BY <1>1
    <3>1. Cardinality(Executed(Trials)) \in Nat /\ Cardinality(Executed(Trials)) <= Len(Trials)
      BY <1>2, ExecutedIsFinite
    <3> QED BY <1>2, <1>3, <3>1
  <2>2. pc' \in {"optimize", "summarize"}
    BY <1>1
  <2> QED BY <1>1, <1>2, <1>5, <1>7, <2>1, <2>2 DEF RunFits
<1>9. RunHasStudy'
  BY <1>1, <1>4, <1>7 DEF RunHasStudy
<1>10. RunIsAlone'
  <2>1. ~run.resume => Executed(Trials) = {} \/ Len(Trials) >= run.n
    BY <1>1, <1>4 DEF RunIsAlone
  <2>2. Remaining > 0 => ~(Len(Trials) >= run.n)
    BY <1>2, <1>3
  <2>3. pc' = "optimize" /\ ~run.resume => Executed(Trials) = {}
    BY <1>1, <2>1, <2>2
  <2> QED BY <1>1, <1>5, <1>7, <2>3 DEF RunIsAlone
<1>11. ResultsStand'
  <2>1. ASSUME NEW r \in DOMAIN results, results[r].name = k, Remaining > 0
        PROVE  results[r].held < asked[k]
    <3>1. asked[k] <= results[r].held => Len(Trials) >= results[r].held
      BY <1>4, <2>1 DEF ResultsStand, Trials
    <3> QED BY <1>2, <1>3, <2>1, <3>1
  <2>2. pc' \in {"optimize", "trial"} => Remaining > 0
    BY <1>1
  <2> QED BY <1>1, <1>4, <1>5, <2>1, <2>2 DEF ResultsStand
<1> QED BY <1>1, <1>4, <1>6, <1>8, <1>9, <1>10, <1>11, StudiesKept DEF IInv, RerunAgrees

\* A trial taken up was paid for when the trials lacking were counted, and is of an
\* invocation that was told to resume unless it is among its own.
LEMMA AskKeeps ==
    ASSUME IInv, Ask
    PROVE  IInv'
<1> DEFINE k == run.name
           u == study'[k].trials
<1>1. /\ pc = "optimize" /\ run.left > 0 /\ pc' = "trial"
      /\ UNCHANGED <<asked, results, count, crashes>>
      /\ run' = [run EXCEPT !.left = @ - 1]
  BY DEF Ask, Unchanged
<1>2. /\ k \in Names /\ run.left \in Nat /\ run.resume \in BOOLEAN
      /\ asked[k] \in Nat /\ count \in Nat /\ run.n <= asked[k]
      /\ study \in [Names -> [exists : BOOLEAN, trials : Seq(Trial)]] /\ Trials \in Seq(Trial)
  BY <1>1, UnderWay
<1>3. TypeOK /\ StudyIsSound /\ TrialsArePast /\ RunFits /\ RunHasStudy /\ RunIsAlone
      /\ ResultsStand /\ BudgetIsKept /\ PoolingIsDeliberate /\ RerunAgrees
  BY DEF IInv
<1>4. \A w \in BOOLEAN : /\ Taken(w) \in Trial /\ Taken(w).state = "RUNNING" /\ Taken(w).by = count
                        /\ Taken(w).resumed = run.resume /\ Taken(w).warm = w
  BY <1>2 DEF Taken, Trial, States
<1>5. PICK w \in BOOLEAN :
        /\ TakesUp(Trials, u, Taken(w))
        /\ study' = [study EXCEPT ![k].trials = u]
  <2>1. CASE InState(Trials, "WAITING") = {}
    <3> DEFINE v == Append(Trials, Taken(FALSE))
    <3>1. study' = [study EXCEPT ![k].trials = v]
      BY <2>1 DEF Ask, Trials
    <3>2. TakesUp(Trials, v, Taken(FALSE))
      BY <1>2, <1>4, NewIsTaken
    <3>3. v = u
      BY <1>2, <3>1
    <3> HIDE DEF v, u
    <3> QED BY <3>1, <3>2, <3>3
  <2>2. CASE InState(Trials, "WAITING") # {}
    <3> DEFINE v == [i \in DOMAIN Trials |-> IF Trials[i].state = "WAITING" THEN Taken(TRUE)
                                            ELSE Trials[i]]
    <3>1. study' = [study EXCEPT ![k].trials = v]
      BY <2>2 DEF Ask, Trials
    <3>2. /\ \A i \in InState(Trials, "WAITING") : Trials[i].warm
          /\ \A i, j \in DOMAIN Trials : Trials[i].warm /\ Trials[j].warm => i = j
      BY <1>2, <1>3 DEF StudyIsSound, Trials
    <3>3. TakesUp(Trials, v, Taken(TRUE))
      BY <1>2, <1>4, <2>2, <3>2, WaitingIsTaken
    <3>4. v = u
      BY <1>2, <3>1
    <3> HIDE DEF v, u
    <3> QED BY <3>1, <3>3, <3>4
  <2> QED BY <2>1, <2>2
<1> DEFINE x == Taken(w)
<1>6. /\ x.state = "RUNNING" /\ x.by = count /\ x.resumed = run.resume
  BY <1>4
<1> HIDE DEF x, u
<1>7. TakesUp(Trials, u, x)
  BY <1>5 DEF x
<1>8. u \in Seq(Trial) /\ DOMAIN Trials \subseteq DOMAIN u
  BY <1>7 DEF TakesUp
<1>9. PICK i \in DOMAIN u :
        /\ i \notin Executed(Trials) /\ Executed(u) = Executed(Trials) \cup {i}
        /\ u[i] = x /\ (i \in DOMAIN Trials => Trials[i].warm /\ x.warm)
        /\ (i \notin DOMAIN Trials => ~x.warm)
        /\ \A j \in DOMAIN u \ {i} : j \in DOMAIN Trials /\ u[j] = Trials[j]
  BY <1>7 DEF TakesUp
<1>10. /\ study' \in [Names -> [exists : BOOLEAN, trials : Seq(Trial)]]
       /\ study'[k].trials = u /\ study'[k].exists = study[k].exists
       /\ \A l \in Names \ {k} : study'[l] = study[l]
  <2>1. study'[k].trials = u
    BY DEF u
  <2>2. study' = [study EXCEPT ![k].trials = u]
    BY <1>5
  <2>3. k \in Names /\ study \in [Names -> [exists : BOOLEAN, trials : Seq(Trial)]]
    BY <1>2
  <2> HIDE DEF k
  <2>4. study' \in [Names -> [exists : BOOLEAN, trials : Seq(Trial)]]
    BY <1>8, <2>2, <2>3
  <2>5. study'[k].exists = study[k].exists /\ \A l \in Names \ {k} : study'[l] = study[l]
    BY <2>2, <2>3
  <2> QED BY <2>1, <2>4, <2>5
<1>11. /\ run' \in [name : Names \cup {None}, n : Nat, resume : BOOLEAN,
                    warm : BOOLEAN, left : Nat, submitted : Nat]
       /\ run'.name = k /\ run'.n = run.n /\ run'.resume = run.resume
       /\ run'.left = run.left - 1
  <2>1. run.left - 1 \in Nat
    BY <1>1, <1>2
  <2> QED BY <1>1, <1>3, <2>1 DEF TypeOK
<1>12. Trials' = u /\ (Exists' <=> Exists)
  BY <1>10, <1>11 DEF Trials, Exists
<1>13. \A j \in Executed(u) : j # i => j \in Executed(Trials) /\ u[j] = Trials[j]
  BY <1>9 DEF Executed
<1>14. TypeOK'
  BY <1>1, <1>3, <1>10, <1>11 DEF TypeOK
<1>15. StudyIsSound'
  <2>1. /\ \A j, l \in DOMAIN Trials : Trials[j].warm /\ Trials[l].warm => j = l
        /\ \A j \in DOMAIN Trials : Trials[j].state = "WAITING" => Trials[j].warm
        /\ \A j \in DOMAIN Trials : Trials[j].state = "COMPLETE" => Trials[j].outcome \in Outcomes
    BY <1>2, <1>3 DEF StudyIsSound, Trials, InState
  <2>2. \A j, l \in DOMAIN u : u[j].warm /\ u[l].warm => j = l
    BY <1>9, <2>1
  <2>3. \A j \in InState(u, "WAITING") : u[j].warm
    BY <1>6, <1>9, <2>1 DEF InState
  <2>4. \A j \in InState(u, "COMPLETE") : u[j].outcome \in Outcomes
    BY <1>6, <1>9, <2>1 DEF InState
  <2>5. study[k].exists
    BY <1>1, <1>3 DEF RunHasStudy, Exists
  <2> QED BY <1>3, <1>10, <2>2, <2>3, <2>4, <2>5 DEF StudyIsSound
<1>16. TrialsArePast'
  <2>1. \A j \in Executed(u) : u[j].by <= count
    <3>1. \A j \in Executed(Trials) : Trials[j].by <= count
      BY <1>2, <1>3 DEF TrialsArePast, Trials
    <3> QED BY <1>2, <1>6, <1>9, <1>13, <3>1
  <2> QED BY <1>1, <1>3, <1>10, <2>1 DEF TrialsArePast
<1>17. Cardinality(Executed(u)) + (run.left - 1) <= asked[k] /\ Cardinality(Executed(u)) <= asked[k]
  <2>1. Cardinality(Executed(u)) = Cardinality(Executed(Trials)) + 1
    BY <1>2, <1>7, <1>8, TakenIsCharged
  <2>2. Cardinality(Executed(Trials)) \in Nat
    BY <1>2, ExecutedIsFinite
  <2>3. Cardinality(Executed(Trials)) + run.left <= asked[k]
    BY <1>1, <1>3 DEF RunFits
  <2> QED BY <1>1, <1>2, <2>1, <2>2, <2>3
<1>18. RunFits' /\ RunHasStudy' /\ RerunAgrees'
  BY <1>1, <1>2, <1>3, <1>11, <1>12, <1>17 DEF RunFits, RunHasStudy, RerunAgrees
<1>19. BudgetIsKept'
  BY <1>1, <1>3, <1>10, <1>17 DEF BudgetIsKept
<1>20. RunIsAlone'
  <2>1. ~run.resume => \A j \in Executed(Trials) : Trials[j].by = count
    BY <1>1, <1>3 DEF RunIsAlone
  <2>2. ~run.resume => \A j \in Executed(u) : u[j].by = count
    BY <1>6, <1>9, <1>13, <2>1
  <2> QED BY <1>1, <1>11, <1>12, <2>2 DEF RunIsAlone
<1>21. PoolingIsDeliberate'
  <2>1. ASSUME NEW j \in Executed(u), NEW l \in Executed(u), u[j].by < u[l].by
        PROVE  u[l].resumed
    <3>1. \A h \in Executed(Trials) : Trials[h].by <= count /\ Trials[h].by \in Nat
      BY <1>2, <1>3, TablesAreTyped DEF TrialsArePast, Trials, Executed
    <3>2. CASE l = i
      <4>1. j # i
        BY <1>2, <1>6, <1>9, <2>1, <3>2
      <4>2. Trials[j].by < count /\ j \in Executed(Trials)
        BY <1>6, <1>9, <1>13, <2>1, <3>2, <4>1
      <4>3. Trials[j].by # count
        BY <1>2, <3>1, <4>2
      <4>4. run.resume
        BY <1>1, <1>3, <4>2, <4>3 DEF RunIsAlone
      <4> QED BY <1>6, <1>9, <3>2, <4>4
    <3>3. CASE l # i /\ j = i
      <4>1. l \in Executed(Trials) /\ count < Trials[l].by
        BY <1>6, <1>9, <1>13, <2>1, <3>3
      <4> QED BY <1>2, <3>1, <4>1
    <3>4. CASE l # i /\ j # i
      <4>1. /\ l \in Executed(Trials) /\ j \in Executed(Trials)
            /\ u[l] = Trials[l] /\ u[j] = Trials[j]
        BY <1>13, <3>4
      <4>2. \A a, b \in Executed(Trials) : Trials[a].by < Trials[b].by => Trials[b].resumed
        BY <1>2, <1>3 DEF PoolingIsDeliberate, Trials
      <4> QED BY <2>1, <4>1, <4>2
    <3> QED BY <3>2, <3>3, <3>4
  <2> QED BY <1>3, <1>10, <2>1 DEF PoolingIsDeliberate
<1>22. ResultsStand'
  <2>1. ASSUME NEW r \in DOMAIN results
        PROVE  /\ results[r].name \in Names
               /\ results[r].name = k => ~(asked[results[r].name] <= results[r].held)
               /\ results[r].name = k => results[r].held < asked[k]
    <3>1. results[r].name \in Names /\ results[r].held \in Nat
      BY TablesAreTyped
    <3>2. results[r].name = k => results[r].held < asked[k]
      BY <1>1, <1>3 DEF ResultsStand
    <3> QED BY <1>2, <3>1, <3>2
  <2> QED BY <1>1, <1>3, <1>10, <1>11, <2>1 DEF ResultsStand
<1> HIDE DEF k
<1> QED BY <1>14, <1>15, <1>16, <1>18, <1>19, <1>20, <1>21, <1>22 DEF IInv

\* How a trial ended changes neither whether it was taken up nor by whom.
LEMMA TellKeeps ==
    ASSUME IInv, NEW s \in {"COMPLETE", "PRUNED", "FAIL"}, NEW o \in Outcomes \cup {None},
           s = "COMPLETE" => o \in Outcomes, Tell(s, o)
    PROVE  IInv'
<1> DEFINE k == run.name
           u == [i \in DOMAIN Trials |-> IF IsMine(Trials[i]) THEN Ended(Trials[i], s, o)
                                        ELSE Trials[i]]
<1>1. /\ pc = "trial" /\ pc' = "optimize" /\ UNCHANGED <<asked, results, count, crashes, run>>
      /\ study' = [study EXCEPT ![k].trials = u]
  BY DEF Tell, Unchanged, Trials
<1>2. /\ k \in Names /\ Trials \in Seq(Trial)
      /\ study \in [Names -> [exists : BOOLEAN, trials : Seq(Trial)]]
  BY <1>1, UnderWay
<1>3. TypeOK /\ StudyIsSound /\ TrialsArePast /\ RunFits /\ RunHasStudy /\ RunIsAlone
      /\ ResultsStand /\ BudgetIsKept /\ PoolingIsDeliberate /\ RerunAgrees
  BY DEF IInv
<1>4. /\ u \in Seq(Trial) /\ DOMAIN u = DOMAIN Trials /\ Executed(u) = Executed(Trials)
      /\ \A i \in DOMAIN Trials :
            /\ u[i].by = Trials[i].by /\ u[i].resumed = Trials[i].resumed
            /\ u[i].warm = Trials[i].warm
            /\ \/ u[i].state = Trials[i].state /\ u[i].outcome = Trials[i].outcome
               \/ u[i].state = s /\ u[i].outcome = o
      /\ InState(u, "WAITING") = InState(Trials, "WAITING")
  BY <1>2, ToldIsExecuted
<1> HIDE DEF u
<1>5. /\ study' \in [Names -> [exists : BOOLEAN, trials : Seq(Trial)]]
      /\ study'[k].trials = u /\ study'[k].exists = study[k].exists
      /\ \A l \in Names \ {k} : study'[l] = study[l]
  BY <1>1, <1>2, <1>4, StudyUpdated
<1>6. Trials' = u /\ (Exists' <=> Exists)
  BY <1>1, <1>5 DEF Trials, Exists
<1>7. \A i \in Executed(u) : i \in Executed(Trials) /\ u[i].by = Trials[i].by
                             /\ u[i].resumed = Trials[i].resumed
  BY <1>4 DEF Executed
<1>8. TypeOK' /\ RunHasStudy' /\ RerunAgrees'
  BY <1>1, <1>3, <1>5, <1>6 DEF TypeOK, RunHasStudy, RerunAgrees
<1>9. RunFits' /\ BudgetIsKept'
  BY <1>1, <1>3, <1>4, <1>5, <1>6 DEF RunFits, BudgetIsKept, Trials
<1>10. StudyIsSound'
  <2>1. /\ \A i, j \in DOMAIN Trials : Trials[i].warm /\ Trials[j].warm => i = j
        /\ \A i \in InState(Trials, "WAITING") : Trials[i].warm
        /\ \A i \in InState(Trials, "COMPLETE") : Trials[i].outcome \in Outcomes
    BY <1>2, <1>3 DEF StudyIsSound, Trials
  <2>2. \A i, j \in DOMAIN u : u[i].warm /\ u[j].warm => i = j
    BY <1>4, <2>1
  <2>3. \A i \in InState(u, "WAITING") : u[i].warm
    BY <1>4, <2>1 DEF InState
  <2>4. \A i \in InState(u, "COMPLETE") : u[i].outcome \in Outcomes
    BY <1>4, <2>1 DEF InState
  <2>5. study[k].exists
    BY <1>1, <1>3 DEF RunHasStudy, Exists
  <2> QED BY <1>3, <1>5, <2>2, <2>3, <2>4, <2>5 DEF StudyIsSound
<1>11. TrialsArePast' /\ RunIsAlone' /\ PoolingIsDeliberate'
  <2>1. \A i \in Executed(u) : u[i].by <= count
    BY <1>2, <1>3, <1>7 DEF TrialsArePast, Trials
  <2>2. ~run.resume => \A i \in Executed(u) : u[i].by = count
    BY <1>1, <1>3, <1>7 DEF RunIsAlone
  <2>3. \A i, j \in Executed(u) : u[i].by < u[j].by => u[j].resumed
    BY <1>2, <1>3, <1>7 DEF PoolingIsDeliberate, Trials
  <2>4. TrialsArePast'
    BY <1>1, <1>3, <1>5, <2>1 DEF TrialsArePast
  <2>5. PoolingIsDeliberate'
    BY <1>3, <1>5, <2>3 DEF PoolingIsDeliberate
  <2> QED BY <1>1, <1>6, <2>2, <2>4, <2>5 DEF RunIsAlone
<1>12. ResultsStand'
  <2>1. ASSUME NEW r \in DOMAIN results
        PROVE  /\ results[r].name \in Names
               /\ results[r].name = k => ~(asked[results[r].name] <= results[r].held)
               /\ results[r].name = k => results[r].held < asked[k]
    <3>1. results[r].name \in Names /\ results[r].held \in Nat /\ asked[k] \in Nat
      BY <1>1, TablesAreTyped, UnderWay
    <3>2. results[r].name = k => results[r].held < asked[k]
      BY <1>1, <1>3 DEF ResultsStand
    <3> QED BY <3>1, <3>2
  <2> QED BY <1>1, <1>3, <1>5, <2>1 DEF ResultsStand
<1> QED BY <1>8, <1>9, <1>10, <1>11, <1>12 DEF IInv

\* An invocation that ends leaves nothing that was said of it.
LEMMA EndKeeps ==
    ASSUME IInv, End, UNCHANGED <<study, asked, results, count>>, crashes' \in Nat
    PROVE  IInv'
<1>1. /\ pc' = "idle" /\ run' = NoRun
  BY DEF End
<1>2. TypeOK' /\ RunFits' /\ RunHasStudy' /\ RunIsAlone'
  BY <1>1 DEF IInv, TypeOK, NoRun, RunFits, RunHasStudy, RunIsAlone
<1> QED BY <1>1, <1>2, StudiesKept, ResultsKept DEF IInv

\* The trials being done changes the step that comes next.
LEMMA OptimizedKeeps ==
    ASSUME IInv, Optimized
    PROVE  IInv'
<1>1. UNCHANGED <<study, asked, results, count, crashes>> /\ pc = "optimize"
  BY DEF Optimized
<1>2. CASE End
  BY <1>1, <1>2, EndKeeps DEF IInv, TypeOK
<1>3. CASE pc' = "summarize" /\ UNCHANGED run
  <2>1. TypeOK' /\ RunFits' /\ RunHasStudy' /\ RunIsAlone'
    BY <1>1, <1>3 DEF IInv, TypeOK, RunFits, RunHasStudy, RunIsAlone, Exists
  <2> QED BY <1>1, <1>3, <2>1, StudiesKept, ResultsKept DEF IInv
<1> QED BY <1>2, <1>3 DEF Optimized

\* The process may die anywhere.
LEMMA CrashKeeps ==
    ASSUME IInv, Crash
    PROVE  IInv'
BY EndKeeps DEF Crash, IInv, TypeOK

\* The summary is drawn from the trials of the study as it then is, which are those
\* every earlier result that still stands was drawn from.
LEMMA SummarizeKeeps ==
    ASSUME IInv, Summarize
    PROVE  IInv'
<1> DEFINE k == run.name
<1>1. /\ pc = "summarize" /\ pc' = "idle" /\ run' = NoRun /\ End
      /\ UNCHANGED <<study, asked, count, crashes>>
  BY DEF Summarize, End
<1>2. CASE UNCHANGED results
  BY <1>1, <1>2, EndKeeps DEF IInv, TypeOK
<1>3. ASSUME InState(Trials, "COMPLETE") # {}, NEW rule \in Rules,
             results' = Append(results, Summary(rule))
      PROVE  IInv'
  <2>1. /\ k \in Names /\ asked[k] \in Nat /\ Trials \in Seq(Trial)
        /\ Len(Trials) \in Nat
    BY <1>1, UnderWay
  <2>2. TypeOK /\ StudyIsSound /\ ResultsStand /\ RerunAgrees
    BY DEF IInv
  <2>3. SelectBest(Summaries(Trials), rule) \in Nat
    <3>1. \A i \in InState(Trials, "COMPLETE") : Trials[i].outcome \in Outcomes
      BY <2>1, <2>2 DEF StudyIsSound, Trials
    <3> HIDE DEF k
    <3>2. /\ InState(Trials, "COMPLETE") \in SUBSET Nat
          /\ Summaries(Trials) \in [InState(Trials, "COMPLETE") -> Outcomes]
      BY <2>1, <3>1, SummariesOf
    <3>3. SelectBest(Summaries(Trials), rule) \in InState(Trials, "COMPLETE")
      BY <1>3, <3>2, SelectBestIsOne
    <3> QED BY <3>2, <3>3
  <2>4. Summary(rule) \in Result
    BY <2>1, <2>3 DEF Summary, Result
  <2>5. /\ results \in Seq(Result) /\ results' \in Seq(Result) /\ Len(results) \in Nat
        /\ DOMAIN results' = DOMAIN results \cup {Len(results) + 1}
        /\ results'[Len(results) + 1] = Summary(rule)
        /\ \A r \in DOMAIN results : results'[r] = results[r]
    BY <1>3, <2>2, <2>4 DEF TypeOK
  <2>6. /\ Summary(rule).name = k /\ Summary(rule).rule = rule
        /\ Summary(rule).asked = asked[k] /\ Summary(rule).held = Len(Trials)
        /\ Summary(rule).selected = SelectBest(Summaries(Trials), rule)
    BY DEF Summary
  <2>7. TypeOK' /\ RunFits' /\ RunHasStudy' /\ RunIsAlone'
    BY <1>1, <2>2, <2>5 DEF TypeOK, NoRun, RunFits, RunHasStudy, RunIsAlone
  <2>8. ResultsStand'
    BY <1>1, <2>1, <2>2, <2>5, <2>6 DEF ResultsStand, Trials
  <2>9. RerunAgrees'
    <3> SUFFICES ASSUME NEW i \in DOMAIN results', NEW j \in DOMAIN results',
                        i < j, results'[i].name = results'[j].name,
                        results'[i].rule = results'[j].rule,
                        results'[j].asked <= results'[i].held
                 PROVE  results'[i].selected = results'[j].selected
      BY DEF RerunAgrees
    <3>1. i \in DOMAIN results
      BY <2>5
    <3>2. CASE j \in DOMAIN results
      BY <2>2, <2>5, <3>1, <3>2 DEF RerunAgrees
    <3>3. CASE j = Len(results) + 1
      <4>1. results[i].name = k /\ results[i].rule = rule /\ asked[k] <= results[i].held
        BY <2>5, <2>6, <3>1, <3>3
      <4>2. SelectBest(Summaries(Trials), rule) = results[i].selected
        BY <2>2, <3>1, <4>1 DEF ResultsStand, Trials
      <4> QED BY <2>5, <2>6, <3>1, <3>3, <4>2
    <3> QED BY <2>5, <3>2, <3>3
  <2> QED BY <1>1, <2>7, <2>8, <2>9, StudiesKept DEF IInv
<1> QED BY <1>2, <1>3 DEF Summarize

LEMMA NextKeeps == IInv /\ [Next]_vars => IInv'
<1> SUFFICES ASSUME IInv, [Next]_vars PROVE IInv'
  OBVIOUS
<1>1. CASE UNCHANGED vars
  <2>1. TypeOK' /\ RunFits' /\ RunHasStudy' /\ RunIsAlone'
    BY <1>1 DEF vars, IInv, TypeOK, RunFits, RunHasStudy, RunIsAlone, Exists, Trials
  <2> QED BY <1>1, <2>1, StudiesKept, ResultsKept DEF vars, IInv
<1>2. CASE \E k \in Names, n \in Budgets, resume, warm \in BOOLEAN :
             Start(k, n, resume, warm)
  BY <1>2, StartKeeps
<1>3. CASE Step
  <2>1. CASE \E o \in Outcomes : Tell("COMPLETE", o)
    BY <2>1, TellKeeps
  <2>2. CASE \E s \in {"PRUNED", "FAIL"} : Tell(s, None)
    BY <2>2, TellKeeps
  <2> QED BY <1>3, <2>1, <2>2, DiscardKeeps, CreateKeeps, EnqueueKeeps, CountKeeps, AskKeeps,
             OptimizedKeeps, SummarizeKeeps DEF Step
<1>4. CASE Crash
  BY <1>4, CrashKeeps
<1> QED BY <1>1, <1>2, <1>3, <1>4 DEF Next

-----------------------------------------------------------------------------
(* The theorems. *)

\* The inductive invariant holds throughout.
THEOREM Invariance == Spec => []IInv
<1>1. IInv /\ [Next]_vars => IInv'
  BY NextKeeps
<1> QED BY InitIsInvariant, <1>1, PTL DEF Spec

\* The study database, the summaries and the invocation keep their types: what
\* select_best_trial returns is the number of a trial, however many completed.
THEOREM TypeSafety == Spec => []TypeOK
<1>1. IInv => TypeOK
  BY DEF IInv
<1> QED BY <1>1, Invariance, PTL

\* _run_study_trials counts what the study holds, so that however often train is
\* called, dies and is called again, no more trials run than were asked for.
THEOREM BudgetSafety == Spec => []BudgetIsKept
<1>1. IInv => BudgetIsKept
  BY DEF IInv
<1> QED BY <1>1, Invariance, PTL

\* _discard_incomplete_study_unless_resuming keeps a partial study from pooling
\* with a later invocation's trials unless that invocation was told to resume.
THEOREM PoolingSafety == Spec => []PoolingIsDeliberate
<1>1. IInv => PoolingIsDeliberate
  BY DEF IInv
<1> QED BY <1>1, Invariance, PTL

\* A re-run of train against a study that had its trials selects, by either rule, the
\* trial that rule selected before; under the other rule it may select another.
THEOREM RerunSafety == Spec => []RerunAgrees
<1>1. IInv => RerunAgrees
  BY DEF IInv
<1> QED BY <1>1, Invariance, PTL

---------------------------------------------------------------------------
(* Why an invocation ends, up to fairness: a variant.  What TLC checks of   *)
(* InvocationEnds for one budget rests on these two facts for any.          *)

\* The most steps the invocation under way can still take.
StepsLeft ==
    CASE pc = "discard"   -> 2 * run.n + 6
      [] pc = "create"    -> 2 * run.n + 5
      [] pc = "enqueue"   -> 2 * run.n + 4
      [] pc = "count"     -> 2 * run.n + 3
      [] pc = "trial"     -> 2 * run.left + 3
      [] pc = "optimize"  -> 2 * run.left + 2
      [] pc = "summarize" -> 1
      [] pc = "idle"      -> 0

\* study.optimize has a trial to take up, or has run one and may stop.
OptimizeGoesOn ==
    pc \in {"optimize", "trial"} =>
        run.left <= run.submitted /\ run.submitted > 0
          /\ (pc = "trial" => run.left < run.submitted)

LEMMA GoesOnStep == IInv /\ OptimizeGoesOn /\ [Next]_vars => OptimizeGoesOn'
<1> SUFFICES ASSUME IInv, OptimizeGoesOn, [Next]_vars PROVE OptimizeGoesOn'
  OBVIOUS
<1>0. run.left \in Nat /\ run.submitted \in Nat
  BY DEF IInv, TypeOK
<1>1. CASE pc' \notin {"optimize", "trial"}
  BY <1>1 DEF OptimizeGoesOn
<1>2. CASE Count /\ pc' = "optimize"
  <2>1. Remaining \in Nat /\ Remaining > 0
    BY <1>2, UnderWay DEF Count, Unchanged, Remaining
  <2>2. run' = [run EXCEPT !.left = Remaining, !.submitted = Remaining]
    BY <1>2 DEF Count
  <2>3. run'.left = Remaining /\ run'.submitted = Remaining
    BY <2>2 DEF IInv, TypeOK
  <2> QED BY <1>2, <2>1, <2>3 DEF OptimizeGoesOn
<1>3. CASE Ask
  <2>1. run' = [run EXCEPT !.left = @ - 1] /\ pc = "optimize" /\ run.left > 0
    BY <1>3 DEF Ask
  <2>2. run'.left = run.left - 1 /\ run'.submitted = run.submitted
    BY <2>1 DEF IInv, TypeOK
  <2> QED BY <1>0, <2>1, <2>2 DEF OptimizeGoesOn
<1>4. ASSUME NEW s, NEW o, Tell(s, o) PROVE OptimizeGoesOn'
  BY <1>0, <1>4 DEF Tell, Unchanged, OptimizeGoesOn
<1>5. CASE UNCHANGED vars
  BY <1>5 DEF vars, OptimizeGoesOn
<1>6. CASE \/ \E k \in Names, n \in Budgets, resume, warm \in BOOLEAN : Start(k, n, resume, warm)
           \/ Discard \/ Create \/ Enqueue \/ Optimized \/ Summarize \/ Crash
  BY <1>1, <1>6 DEF Start, Discard, Create, Enqueue, Optimized, Summarize, Crash, End, Unchanged
<1> QED BY <1>1, <1>2, <1>3, <1>4, <1>5, <1>6 DEF Next, Step, Count, Unchanged

LEMMA StepsDescend ==
    ASSUME IInv, pc # "idle", Next
    PROVE  StepsLeft' < StepsLeft
<1>0. run.left \in Nat /\ run.n \in Nat
  BY UnderWay
<1>1. CASE Discard \/ Create \/ Enqueue
  BY <1>0, <1>1 DEF Discard, Create, Enqueue, Unchanged, StepsLeft
<1>2. CASE Count
  <2>1. Remaining \in Nat /\ Remaining <= run.n
    BY UnderWay DEF Remaining
  <2>2. run' = [run EXCEPT !.left = Remaining, !.submitted = Remaining]
    BY <1>2 DEF Count
  <2>3. run'.left = Remaining
    BY <2>2 DEF IInv, TypeOK
  <2>4. pc = "count" /\ pc' \in {"optimize", "summarize"}
    BY <1>2 DEF Count, Unchanged
  <2> QED BY <1>0, <2>1, <2>3, <2>4 DEF StepsLeft
<1>3. CASE Ask
  <2>1. run' = [run EXCEPT !.left = @ - 1] /\ pc = "optimize" /\ run.left > 0 /\ pc' = "trial"
    BY <1>3 DEF Ask, Unchanged
  <2>2. run'.left = run.left - 1
    BY <2>1 DEF IInv, TypeOK
  <2> QED BY <1>0, <2>1, <2>2 DEF StepsLeft
<1>4. ASSUME NEW s, NEW o, Tell(s, o) PROVE StepsLeft' < StepsLeft
  BY <1>0, <1>4 DEF Tell, Unchanged, StepsLeft
<1>5. CASE Optimized
  BY <1>0, <1>5 DEF Optimized, End, StepsLeft
<1>6. CASE Summarize \/ Crash
  BY <1>0, <1>6 DEF Summarize, Crash, End, StepsLeft, IInv, TypeOK
<1>7. ~ \E k \in Names, n \in Budgets, resume, warm \in BOOLEAN : Start(k, n, resume, warm)
  BY DEF Start
<1> QED BY <1>1, <1>2, <1>3, <1>4, <1>5, <1>6, <1>7 DEF Next, Step

\* Whatever the trials do, each step of an invocation (run_tuning_step) brings it
\* nearer to its end, of which it is at most 2 * n_trials + 6 steps away; nothing
\* but a new invocation starts the count again.
THEOREM InvocationIsFinite ==
  Spec => /\ [](StepsLeft \in Nat /\ (pc = "idle" <=> StepsLeft = 0))
          /\ [][pc # "idle" => StepsLeft' < StepsLeft]_vars
<1>1. IInv => StepsLeft \in Nat /\ (pc = "idle" <=> StepsLeft = 0)
  <2> SUFFICES ASSUME IInv PROVE StepsLeft \in Nat /\ (pc = "idle" <=> StepsLeft = 0)
    OBVIOUS
  <2>1. run.left \in Nat /\ run.n \in Nat
    BY DEF IInv, TypeOK
  <2>2. pc \in {"idle", "discard", "create", "enqueue", "count", "optimize", "trial", "summarize"}
    BY DEF IInv, TypeOK
  <2>3. CASE pc \in {"discard", "create", "enqueue", "count"}
    <3>1. 2 * run.n \in Nat
      BY <2>1
    <3> QED BY <2>3, <3>1 DEF StepsLeft
  <2>4. CASE pc \in {"optimize", "trial"}
    <3>1. 2 * run.left \in Nat
      BY <2>1
    <3> QED BY <2>4, <3>1 DEF StepsLeft
  <2>5. CASE pc \in {"summarize", "idle"}
    BY <2>5 DEF StepsLeft
  <2> QED BY <2>2, <2>3, <2>4, <2>5
<1>2. IInv /\ [Next]_vars => [pc # "idle" => StepsLeft' < StepsLeft]_vars
  BY StepsDescend
<1> QED BY <1>1, <1>2, Invariance, PTL DEF Spec

\* It never waits for a trial that is not coming: at study.optimize there is a
\* trial to take up, or one has been run and the optimisation may stop.
THEOREM OptimizeNeverStarves ==
  Spec => [](pc = "optimize" => run.left > 0 \/ run.left < run.submitted)
<1>1. Init => OptimizeGoesOn
  BY DEF Init, OptimizeGoesOn
<1>2. IInv /\ OptimizeGoesOn => (pc = "optimize" => run.left > 0 \/ run.left < run.submitted)
  BY DEF IInv, TypeOK, OptimizeGoesOn
<1> QED BY <1>1, <1>2, GoesOnStep, Invariance, PTL DEF Spec
===============================================================================
