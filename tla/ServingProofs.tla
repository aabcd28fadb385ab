---------------------------- MODULE ServingProofs ----------------------------
(***************************************************************************)
(* What the server keeps true for any set of versions and requests: its    *)
(* champion is an AliasCache of the alias, a refresh is safe, and answers  *)
(* and the prediction log are coherent.                                    *)
(*                                                                         *)
(* The refinement and RefreshIsSafe say something of the step that swaps a *)
(* runtime in, so their proof needs what the worker thread has established *)
(* by each of its steps (WorkerOK); the log and the answers need what a    *)
(* request holds at each of its own (RequestOK).                           *)
(***************************************************************************)
EXTENDS Serving, TLAPS

\* Steps at which the champion half of a resolution has chosen its result.
ChampionChosen == {"challenger", "check_challenger", "build_challenger", "swap"}

\* A bundle that is there names a version.
BundleOK(b) == b # NoBundle => b.version # NoVersion

\* A resolution under way works on a version the alias named since the last
\* swap, or keeps the champion that is served.
WorkerOK ==
    /\ champion \in window
    /\ BundleOK(runtime.champion) /\ BundleOK(runtime.challenger)
    /\ wpc \in {"check_champion", "build_champion"} => target \in window \ {NoVersion}
    /\ wpc = "check_champion" => Loaded
    /\ wpc = "build_champion" /\ Loaded => target \in Compatible
    /\ wpc \in {"check_challenger", "build_challenger"} => target # NoVersion
    /\ wpc \in ChampionChosen =>
          /\ next.champion.version # NoVersion
          /\ next.champion.version \in window \cup {runtime.champion.version}
          /\ Loaded => next.champion.version \in Compatible \cup {runtime.champion.version}
    /\ wpc = "swap" => BundleOK(next.challenger)

\* A request past get_runtime holds a runtime with a champion, a scored one
\* has the numbers of the bundle it was routed to, and only a challenger that
\* is there is routed to or asked. A row is written once its request is done.
RequestOK ==
    /\ \A r \in Requests :
        /\ BundleOK(held[r].champion) /\ BundleOK(held[r].challenger)
        /\ rpc[r] \in {"resolved", "answered", "logged", "unlogged"} =>
              held[r].champion # NoBundle
        /\ rpc[r] \in {"answered", "logged", "unlogged"} =>
              /\ BundleForSource(held[r], scored[r].source) # NoBundle
              /\ scored[r].version = BundleForSource(held[r], scored[r].source).version
              /\ scored[r].policy = BundleForSource(held[r], scored[r].source).policy
              /\ scored[r].asked => held[r].challenger # NoBundle
              /\ scored[r].source = "challenger" => scored[r].asked
    /\ \A row \in predictionLog : rpc[row.request] = "logged"

-----------------------------------------------------------------------------
(* Types. *)

LEMMA BundleTypes ==
  /\ NoBundle \in Bundle /\ Unloaded \in Runtime /\ NoScore \in Score
  /\ TypeOK => \A v \in Versions : BundleOf(v) \in Bundle
  /\ \A b \in Bundle, rt \in Runtime :
        [rt EXCEPT !.champion = b] \in Runtime /\ [rt EXCEPT !.challenger = b] \in Runtime
  BY DEF TypeOK, NoBundle, Bundle, Unloaded, Runtime, NoScore, Score, BundleOf,
         AnyVersion, Policies

\* A worker step keeps the worker's variables well typed.
LEMMA WorkerTypes ==
  ASSUME TypeOK, WorkerOK, Worker \/ ChampionFails \/ ChallengerFails
  PROVE  TypeOK'
<1> USE DEF TypeOK, AfterWorkerStep, registryVars, appVars, requestVars, WorkerGoto,
            ChampionIs, ChallengerIs, WorkerSteps
<1>0. runtime.champion \in Bundle /\ runtime.challenger \in Bundle
  BY DEF Runtime
<1>1. CASE Wake
  BY <1>1 DEF Wake
<1>2. CASE ResolveChampion
  BY <1>0, <1>2, BundleTypes DEF ResolveChampion
<1>3. CASE CheckChampion
  BY <1>0, <1>3, BundleTypes DEF CheckChampion
<1>4. CASE BuildChampion
  <2>1. BundleOf(target) \in Bundle
    BY <1>4, BundleTypes DEF BuildChampion, WorkerOK, AnyVersion
  <2> QED
    BY <1>4, <2>1, BundleTypes DEF BuildChampion
<1>5. CASE ResolveChallenger
  BY <1>0, <1>5, BundleTypes DEF ResolveChallenger
<1>6. CASE CheckChallenger
  BY <1>0, <1>6, BundleTypes DEF CheckChallenger
<1>7. CASE BuildChallenger
  <2>1. BundleOf(target) \in Bundle
    BY <1>7, BundleTypes DEF BuildChallenger, WorkerOK, AnyVersion
  <2> QED
    BY <1>7, <2>1, BundleTypes DEF BuildChallenger
<1>8. CASE Swap
  BY <1>8 DEF Swap
<1>9. CASE ChampionFails
  <2>1. next' \in Runtime /\ wpc' \in WorkerSteps /\ faults' \in Nat
    <3>1. faults' \in Nat
      BY <1>9, ServingAssumption DEF ChampionFails
    <3>2. CASE Loaded
      <4>1. next' = [next EXCEPT !.champion = runtime.champion] /\ wpc' = "challenger"
        BY <1>9, <3>2 DEF ChampionFails
      <4> QED
        BY <1>0, <3>1, <4>1, BundleTypes
    <3>3. CASE ~Loaded
      BY <1>9, <3>1, <3>3 DEF ChampionFails
    <3> QED
      BY <3>2, <3>3
  <2> QED
    BY <1>9, <2>1 DEF ChampionFails
<1>10. CASE ChallengerFails
  <2>1. next' \in Runtime /\ wpc' \in WorkerSteps /\ faults' \in Nat
    <3>1. faults' \in Nat
      BY <1>10, ServingAssumption DEF ChallengerFails
    <3>2. next' = [next EXCEPT !.challenger = runtime.challenger] /\ wpc' = "swap"
      BY <1>10 DEF ChallengerFails
    <3> QED
      BY <1>0, <3>1, <3>2, BundleTypes
  <2> QED
    BY <1>10, <2>1 DEF ChallengerFails
<1> QED
  BY <1>1, <1>2, <1>3, <1>4, <1>5, <1>6, <1>7, <1>8, <1>9, <1>10 DEF Worker

\* A step of a request keeps the request variables well typed.
LEMMA RequestTypes ==
  ASSUME TypeOK, NEW r \in Requests, Handle(r) \/ LookupTimesOut(r) \/ LogFails(r)
  PROVE  TypeOK'
<1> USE DEF TypeOK, AfterRequestStep, registryVars, appVars, workerVars, RequestSteps
<1>1. CASE GetRuntime(r)
  BY <1>1 DEF GetRuntime
<1>2. CASE Answer(r)
  <2>1. PICK routed \in BOOLEAN : scored' = [scored EXCEPT ![r] = ScoredFrom(held[r], routed)]
    BY <1>2 DEF Answer
  <2>2. ScoredFrom(held[r], routed) \in Score
    BY ServingAssumption DEF ScoredFrom, Score, BundleForSource, Runtime, Bundle
  <2> QED
    BY <1>2, <2>1, <2>2 DEF Answer
<1>3. CASE LogPrediction(r)
  <2>1. LogRowOf(r) \in LogRow
    BY DEF LogRowOf, LogRow, BundleForSource, Runtime, Bundle, Score, AnyVersion
  <2> QED
    BY <1>3, <2>1 DEF LogPrediction
<1>4. CASE LookupTimesOut(r)
  BY <1>4 DEF LookupTimesOut
<1>5. CASE LogFails(r)
  BY <1>5 DEF LogFails
<1> QED
  BY <1>1, <1>2, <1>3, <1>4, <1>5 DEF Handle

LEMMA TypeStep ==
  ASSUME TypeOK, WorkerOK, [Next]_vars
  PROVE  TypeOK'
<1>1. CASE Registry
  BY <1>1 DEF TypeOK, Registry, MoveChampion, StageChallenger, RederiveThreshold,
              appVars, workerVars, requestVars, AnyVersion, Policies
<1>2. CASE Worker \/ ChampionFails \/ ChallengerFails
  BY <1>2, WorkerTypes
<1>3. CASE \E r \in Requests : Handle(r) \/ LookupTimesOut(r) \/ LogFails(r)
  BY <1>3, RequestTypes
<1>4. CASE Sigterm \/ Shutdown
  BY <1>4 DEF TypeOK, Sigterm, Shutdown, WorkerGoto, WorkerSteps, registryVars,
              workerVars, requestVars
<1>5. CASE UNCHANGED vars
  BY <1>5 DEF TypeOK, vars, registryVars, appVars, workerVars, requestVars
<1> QED
  BY <1>1, <1>2, <1>3, <1>4, <1>5 DEF Next, Fault

-----------------------------------------------------------------------------
(* The worker thread. *)

LEMMA WorkerStep ==
  ASSUME TypeOK, WorkerOK, [Next]_vars
  PROVE  WorkerOK'
<1> USE DEF WorkerOK, WorkerGoto, Loaded
<1>0. /\ runtime.champion \in Bundle /\ runtime.challenger \in Bundle
      /\ next.champion \in Bundle /\ next.challenger \in Bundle
      /\ \A b : [next EXCEPT !.champion = b].champion = b
      /\ \A b : [next EXCEPT !.challenger = b].challenger = b
      /\ \A b : [next EXCEPT !.challenger = b].champion = next.champion
      /\ \A b : [next EXCEPT !.champion = b].challenger = next.challenger
  BY DEF TypeOK, Runtime
<1>1. CASE Registry
  BY <1>1 DEF Registry, MoveChampion, StageChallenger, RederiveThreshold, appVars,
              workerVars, BundleOK, ChampionChosen
<1> USE DEF AfterWorkerStep, registryVars, appVars, ChampionChosen, ChampionIs, ChallengerIs
<1>2. CASE Wake
  BY <1>2 DEF Wake
<1>3. CASE ResolveChampion
  BY <1>0, <1>3 DEF ResolveChampion, BundleOK
<1>4. CASE CheckChampion
  BY <1>0, <1>4 DEF CheckChampion, IsCompatible, BundleOK
<1>5. CASE BuildChampion
  BY <1>0, <1>5 DEF BuildChampion, BundleOf, BundleOK
<1>6. CASE ResolveChallenger
  <2>1. CASE ChallengerIs(runtime.challenger)
    BY <1>0, <1>6, <2>1 DEF ResolveChallenger, BundleOK
  <2>2. CASE ChallengerIs(NoBundle)
    BY <1>0, <1>6, <2>2 DEF ResolveChallenger, BundleOK
  <2>3. CASE /\ challenger \notin {NoVersion, runtime.challenger.version}
             /\ target' = challenger /\ UNCHANGED next
             /\ WorkerGoto(IF runtime.challenger = NoBundle
                           THEN "build_challenger" ELSE "check_challenger")
    <3>1. wpc = "challenger" /\ wpc' \in {"build_challenger", "check_challenger"}
      BY <1>6, <2>3 DEF ResolveChallenger
    <3> QED
      BY <1>6, <2>3, <3>1 DEF ResolveChallenger
  <2> QED
    BY <1>6, <2>1, <2>2, <2>3 DEF ResolveChallenger
<1>7. CASE CheckChallenger
  <2>1. CASE wpc' = "build_challenger" /\ UNCHANGED next
    BY <1>7, <2>1 DEF CheckChallenger
  <2>2. CASE ChallengerIs(runtime.challenger)
    BY <1>0, <1>7, <2>2 DEF CheckChallenger, BundleOK
  <2> QED
    BY <1>7, <2>1, <2>2 DEF CheckChallenger
<1>8. CASE BuildChallenger
  BY <1>0, <1>8 DEF BuildChallenger, BundleOf, BundleOK
<1>9. CASE Swap
  BY <1>0, <1>9 DEF Swap, BundleOK, NoBundle
<1>10. CASE ChampionFails
  BY <1>0, <1>10 DEF ChampionFails, BundleOK
<1>11. CASE ChallengerFails
  BY <1>0, <1>11 DEF ChallengerFails, BundleOK
<1>12. CASE \E r \in Requests : Handle(r) \/ LookupTimesOut(r) \/ LogFails(r)
  BY <1>12 DEF Handle, GetRuntime, Answer, LogPrediction, LookupTimesOut, LogFails,
               AfterRequestStep, workerVars
<1>13. CASE Sigterm \/ Shutdown
  BY <1>13 DEF Sigterm, Shutdown, workerVars
<1>14. CASE UNCHANGED vars
  BY <1>14 DEF vars, workerVars
<1> QED
  BY <1>1, <1>2, <1>3, <1>4, <1>5, <1>6, <1>7, <1>8, <1>9, <1>10, <1>11, <1>12,
     <1>13, <1>14 DEF Next, Worker, Fault

\* The types and what the worker has established hold throughout.
LEMMA WorkerInvariant == Spec => [](TypeOK /\ WorkerOK)
<1>1. Init => TypeOK /\ WorkerOK
  <2> SUFFICES ASSUME Init PROVE TypeOK /\ WorkerOK
    OBVIOUS
  <2>1. TypeOK
    BY BundleTypes DEF Init, TypeOK, AnyVersion, Policies, WorkerSteps, RequestSteps
  <2>2. runtime.champion = NoBundle /\ runtime.challenger = NoBundle /\ wpc = "champion"
    BY DEF Init, Unloaded
  <2>3. WorkerOK
    BY <2>2 DEF Init, WorkerOK, BundleOK, ChampionChosen
  <2> QED
    BY <2>1, <2>3
<1>2. TypeOK /\ WorkerOK /\ [Next]_vars => (TypeOK /\ WorkerOK)'
  BY TypeStep, WorkerStep
<1> QED
  BY <1>1, <1>2, PTL DEF Spec

\* The state of app.py, predict.py and the registry they read stays well typed.
THEOREM ServingTypes == Spec => []TypeOK
  BY WorkerInvariant, PTL

\* A poll never leaves the server without a champion, and never swaps in one
\* whose packages differ from those installed (resolve_champion_model).
THEOREM RefreshSafety == Spec => RefreshIsSafe
<1> DEFINE Safe == Loaded => /\ runtime'.champion # NoBundle
                             /\ \/ runtime'.champion.version = runtime.champion.version
                                \/ runtime'.champion.version \in Compatible
<1>1. TypeOK /\ WorkerOK /\ [Next]_vars => [Safe]_vars
  <2> SUFFICES ASSUME TypeOK, WorkerOK, Next, Loaded PROVE Safe
    OBVIOUS
  <2>1. CASE Swap
    BY <2>1 DEF Swap, WorkerOK, ChampionChosen, NoBundle
  <2>2. CASE ~Swap
    <3>1. runtime' = runtime
      BY <2>2 DEF Next, Registry, MoveChampion, StageChallenger, RederiveThreshold,
           Worker, Wake, ResolveChampion, CheckChampion, BuildChampion,
           ResolveChallenger, CheckChallenger, BuildChallenger, Fault, ChampionFails,
           ChallengerFails, LookupTimesOut, LogFails, Handle, GetRuntime, Answer,
           LogPrediction, Sigterm, Shutdown, AfterWorkerStep, AfterRequestStep, appVars
    <3> QED
      BY <3>1 DEF Loaded
  <2> QED
    BY <2>1, <2>2
<1> QED
  BY <1>1, WorkerInvariant, PTL DEF Spec, RefreshIsSafe

\* The served champion is an AliasCache of the champion alias: every step of
\* the server and the registry is a move of the alias, a refresh, or a stutter.
THEOREM CacheRefinement == Spec => ImplementsAliasCache
<1>1. Init => Cache!Init
  BY DEF Init, Cache!Init, Unloaded, NoBundle
<1>2. TypeOK /\ WorkerOK /\ [Next]_vars => [Cache!Next]_(Cache!vars)
  <2> SUFFICES ASSUME TypeOK, WorkerOK, [Next]_vars
               PROVE  Cache!Next \/ UNCHANGED Cache!vars
    OBVIOUS
  <2>1. CASE \E v \in AnyVersion : MoveChampion(v)
    BY <2>1 DEF MoveChampion, appVars, Cache!Next, Cache!Move, AnyVersion
  <2>2. CASE Swap
    <3>1. runtime'.champion.version \in
            (window \ {NoVersion}) \cup ({runtime.champion.version} \ {NoVersion})
      BY <2>2 DEF Swap, WorkerOK, ChampionChosen
    <3> QED
      BY <2>2, <3>1 DEF Swap, Cache!Next, Cache!Refresh
  <2>3. CASE ~Swap /\ ~(\E v \in AnyVersion : MoveChampion(v))
    <3>1. UNCHANGED <<champion, window, runtime>>
      BY <2>3 DEF Next, vars, Registry, StageChallenger, RederiveThreshold,
           Worker, Wake, ResolveChampion, CheckChampion, BuildChampion,
           ResolveChallenger, CheckChallenger, BuildChallenger, Fault, ChampionFails,
           ChallengerFails, LookupTimesOut, LogFails, Handle, GetRuntime, Answer,
           LogPrediction, Sigterm, Shutdown, AfterWorkerStep, AfterRequestStep,
           appVars, registryVars
    <3> QED
      BY <3>1 DEF Cache!vars
  <2> QED
    BY <2>1, <2>2, <2>3
<1> QED
  BY <1>1, <1>2, WorkerInvariant, PTL DEF Spec, ImplementsAliasCache, Cache!Spec

-----------------------------------------------------------------------------
(* Requests. *)

LEMMA RequestStep ==
  ASSUME TypeOK, WorkerOK, RequestOK, [Next]_vars
  PROVE  RequestOK'
<1> USE DEF RequestOK
<1>1. CASE ~(\E r \in Requests : Handle(r) \/ LookupTimesOut(r) \/ LogFails(r))
  <2>1. UNCHANGED requestVars
    BY <1>1 DEF Next, vars, Registry, MoveChampion, StageChallenger, RederiveThreshold,
           Worker, Wake, ResolveChampion, CheckChampion, BuildChampion, Swap,
           ResolveChallenger, CheckChallenger, BuildChallenger, Fault, ChampionFails,
           ChallengerFails, Sigterm, Shutdown, AfterWorkerStep, requestVars
  <2> QED
    BY <2>1 DEF requestVars
<1>2. ASSUME NEW r \in Requests, Handle(r) \/ LookupTimesOut(r) \/ LogFails(r)
      PROVE  RequestOK'
  <2>1. CASE GetRuntime(r)
    BY <2>1 DEF GetRuntime, TypeOK, WorkerOK, Loaded, LogRow
  <2>2. CASE Answer(r)
    <3>1. PICK routed \in BOOLEAN :
            /\ routed => held[r].challenger # NoBundle
            /\ scored' = [scored EXCEPT ![r] = ScoredFrom(held[r], routed)]
      BY <2>2 DEF Answer
    <3>2. /\ rpc' = [rpc EXCEPT ![r] = "answered"] /\ held' = held
          /\ predictionLog' = predictionLog /\ rpc[r] = "resolved"
      BY <2>2 DEF Answer
    <3>3. scored'[r] = ScoredFrom(held[r], routed)
      BY <3>1 DEF TypeOK
    <3>4. /\ BundleForSource(held[r], scored'[r].source) # NoBundle
          /\ scored'[r].version = BundleForSource(held[r], scored'[r].source).version
          /\ scored'[r].policy = BundleForSource(held[r], scored'[r].source).policy
          /\ scored'[r].asked => held[r].challenger # NoBundle
          /\ scored'[r].source = "challenger" => scored'[r].asked
      BY <3>1, <3>2, <3>3 DEF ScoredFrom, BundleForSource
    <3> QED
      BY <3>1, <3>2, <3>4 DEF TypeOK, LogRow
  <2>3. CASE LogPrediction(r)
    BY <2>3 DEF LogPrediction, TypeOK, LogRowOf, LogRow
  <2>4. CASE LookupTimesOut(r)
    BY <2>4 DEF LookupTimesOut, TypeOK, LogRow
  <2>5. CASE LogFails(r)
    BY <2>5 DEF LogFails, TypeOK, LogRow
  <2> QED
    BY <1>2, <2>1, <2>2, <2>3, <2>4, <2>5 DEF Handle
<1> QED
  BY <1>1, <1>2

\* What a new row says is what its request was answered with.
LEMMA NewRowMatches ==
  ASSUME TypeOK, RequestOK, NEW r \in Requests, rpc[r] = "answered"
  PROVE  LET row == LogRowOf(r) s == scored[r] IN
         /\ row.request = r
         /\ row.version = s.version /\ row.policy = s.policy
         /\ (row.challenger # NoVersion) = s.asked
         /\ s.source = "challenger" => row.challenger = s.version
<1>1. scored[r].asked \in BOOLEAN /\ held[r].challenger # NoBundle => held[r].challenger.version # NoVersion
  BY DEF RequestOK, BundleOK
<1>2. scored[r].asked \in BOOLEAN
  BY DEF TypeOK, Score
<1>3. scored[r].asked => held[r].challenger.version # NoVersion
  BY <1>1, <1>2 DEF RequestOK
<1> QED
  BY <1>2, <1>3 DEF RequestOK, LogRowOf, BundleForSource

LEMMA LogStep ==
  ASSUME TypeOK, RequestOK, LoggedAsServed, [Next]_vars
  PROVE  LoggedAsServed'
<1>1. CASE \E r \in Requests : LogPrediction(r)
  <2>1. PICK r \in Requests : LogPrediction(r)
    BY <1>1
  <2>2. scored' = scored /\ predictionLog' = predictionLog \cup {LogRowOf(r)} /\ rpc[r] = "answered"
    BY <2>1 DEF LogPrediction
  <2> QED
    BY <2>2, NewRowMatches DEF LoggedAsServed
<1>2. CASE \E r \in Requests : Answer(r)
  <2>1. PICK r \in Requests : Answer(r)
    BY <1>2
  <2>2. predictionLog' = predictionLog
    BY <2>1 DEF Answer
  <2>3. \A row \in predictionLog : scored'[row.request] = scored[row.request]
    BY <2>1 DEF Answer, RequestOK, TypeOK
  <2> QED
    BY <2>2, <2>3 DEF LoggedAsServed
<1>3. CASE ~(\E r \in Requests : LogPrediction(r) \/ Answer(r))
  <2>1. UNCHANGED <<scored, predictionLog>>
    BY <1>3 DEF Next, vars, Registry, MoveChampion, StageChallenger, RederiveThreshold,
           Worker, Wake, ResolveChampion, CheckChampion, BuildChampion, Swap,
           ResolveChallenger, CheckChallenger, BuildChallenger, Fault, ChampionFails,
           ChallengerFails, LookupTimesOut, LogFails, Handle, GetRuntime, Sigterm,
           Shutdown, AfterWorkerStep, requestVars
  <2> QED
    BY <2>1 DEF LoggedAsServed
<1> QED
  BY <1>1, <1>2, <1>3

LEMMA RequestInvariant == Spec => []((TypeOK /\ WorkerOK) /\ RequestOK /\ LoggedAsServed)
<1>1. Init => RequestOK /\ LoggedAsServed
  BY DEF Init, RequestOK, LoggedAsServed, BundleOK, Unloaded
<1>2. (TypeOK /\ WorkerOK) /\ (RequestOK /\ LoggedAsServed) /\ [Next]_vars
        => (RequestOK /\ LoggedAsServed)'
  BY RequestStep, LogStep
<1> QED
  BY <1>1, <1>2, WorkerInvariant, PTL DEF Spec

\* Every row of prediction_log names the model, threshold and challenger its
\* request was answered with, whatever was swapped in between
\* (_log_prediction_background).
THEOREM LogFidelity == Spec => []LoggedAsServed
  BY RequestInvariant, PTL

\* Every answer has score and threshold from one bundle (score_request).
THEOREM AnswerCoherence == Spec => []AnswerIsOneBundle
<1>1. RequestOK => AnswerIsOneBundle
  <2> SUFFICES ASSUME RequestOK, NEW r \in Requests,
                      rpc[r] \in {"answered", "logged", "unlogged"}
               PROVE  \E bundle \in {held[r].champion, held[r].challenger} :
                        bundle # NoBundle /\ bundle.version = scored[r].version
                                          /\ bundle.policy = scored[r].policy
    BY DEF AnswerIsOneBundle
  <2> QED
    BY DEF RequestOK, BundleForSource
<1> QED
  BY <1>1, RequestInvariant, PTL

=============================================================================
