------------------------------- MODULE Serving -------------------------------
(***************************************************************************)
(* The FastAPI server: telco_churn/serving/app.py, predict.py and          *)
(* prediction_log.py. One worker thread resolves the champion and          *)
(* challenger aliases against MLflow, a call at a time, first until a      *)
(* champion has been loaded and then on every poll; the event loop swaps   *)
(* the result in. Requests take the runtime when they arrive, may wait for *)
(* a customer lookup, are scored, and are logged after the response.       *)
(* Promotions, rollbacks, staged challengers and re-derived thresholds     *)
(* happen in the registry meanwhile, and SIGTERM may come at any time.     *)
(***************************************************************************)
EXTENDS Naturals

CONSTANTS
    Versions,     \* registry versions
    NoVersion,    \* an alias that is unset, a bundle that is not there
    Compatible,   \* versions whose logged pins match what is installed here
    Requests,     \* prediction requests
    CanaryOn,     \* cfg.serving.canary.enabled, with a fraction above 0
    ShadowOn,     \* cfg.serving.shadow.enabled
    MaxMoves,     \* registry changes in one behaviour (bound)
    MaxFaults     \* MLflow or Postgres calls that fail in one behaviour (bound)

ASSUME ServingAssumption ==
    /\ NoVersion \notin Versions
    /\ Compatible \subseteq Versions
    /\ CanaryOn \in BOOLEAN /\ ShadowOn \in BOOLEAN
    /\ MaxMoves \in Nat /\ MaxFaults \in Nat

VARIABLES
    \* the registry
    champion, challenger,   \* the aliases
    policy,                 \* per version: which threshold run is tagged
    window,                 \* history: champion values since the last swap
    \* app.state and the process
    runtime, ready,
    signalled,              \* SIGTERM has been delivered
    stopped,                \* lifespan's shutdown half has run
    \* the worker thread
    wpc, target, next,
    \* per request
    rpc, held, scored,
    predictionLog,          \* the prediction_log table
    moves, faults

registryVars == <<champion, challenger, policy, window>>
appVars      == <<runtime, ready, signalled, stopped>>
workerVars   == <<wpc, target, next>>
requestVars  == <<rpc, held, scored, predictionLog>>
vars == <<registryVars, appVars, workerVars, requestVars, moves, faults>>

AnyVersion == Versions \cup {NoVersion}
Policies   == {"training", "rerun"}

\* A ModelBundle: one version with the threshold policy read when it loaded.
Bundle   == [version : AnyVersion, policy : Policies]
NoBundle == [version |-> NoVersion, policy |-> "training"]

\* A ServingRuntime; app.state.runtime = None is the one without a champion.
Runtime  == [champion : Bundle, challenger : Bundle]
Unloaded == [champion |-> NoBundle, challenger |-> NoBundle]
Loaded   == runtime.champion # NoBundle

\* A ScoredBatch row: who served it, under whose threshold, and which
\* challenger, if any, was asked as well.
Score    == [source : {"champion", "challenger"}, version : AnyVersion,
             policy : Policies, asked : BOOLEAN]
NoScore  == [source |-> "champion", version |-> NoVersion, policy |-> "training",
             asked |-> FALSE]
LogRow   == [request : Requests, version : AnyVersion, policy : Policies,
             challenger : AnyVersion]

WorkerSteps  == {"sleep", "champion", "check_champion", "build_champion",
                 "challenger", "check_challenger", "build_challenger", "swap",
                 "cancelled"}
RequestSteps == {"new", "resolved", "answered", "logged", "unlogged", "refused"}

-----------------------------------------------------------------------------
(* The registry, changed by register.py's commands. *)

\* promote_to_alias or rollback_champion: the alias moves or is deleted.
MoveChampion(v) ==
    /\ moves < MaxMoves /\ v # champion
    /\ champion' = v
    /\ window' = window \cup {v}
    /\ moves' = moves + 1
    /\ UNCHANGED <<challenger, policy, appVars, workerVars, requestVars, faults>>

\* register_challenger; no command ever removes the alias.
StageChallenger(v) ==
    /\ moves < MaxMoves /\ v # challenger
    /\ challenger' = v
    /\ moves' = moves + 1
    /\ UNCHANGED <<champion, policy, window, appVars, workerVars, requestVars, faults>>

\* tag_threshold_rerun.
RederiveThreshold(v) ==
    /\ moves < MaxMoves /\ policy[v] = "training"
    /\ policy' = [policy EXCEPT ![v] = "rerun"]
    /\ moves' = moves + 1
    /\ UNCHANGED <<champion, challenger, window, appVars, workerVars, requestVars, faults>>

-----------------------------------------------------------------------------
(* resolve_serving_model, in the worker thread. *)

WorkerGoto(label) == wpc' = label
AfterWorkerStep == UNCHANGED <<registryVars, appVars, requestVars, moves>>

\* The champion half is over: go on to the challenger with this champion.
ChampionIs(bundle) == next' = [next EXCEPT !.champion = bundle] /\ WorkerGoto("challenger")
ChallengerIs(bundle) == next' = [next EXCEPT !.challenger = bundle] /\ WorkerGoto("swap")

\* asyncio.sleep is over: the backoff of the first load, or the poll interval.
Wake ==
    /\ wpc = "sleep"
    /\ WorkerGoto("champion")
    /\ UNCHANGED <<target, next, faults>>
    /\ AfterWorkerStep

\* resolve_champion_version. An unset alias fails the first load and changes
\* nothing later.
ResolveChampion ==
    /\ wpc = "champion"
    /\ \/ /\ ~Loaded /\ champion = NoVersion
          /\ WorkerGoto("sleep")
          /\ UNCHANGED <<target, next>>
       \/ /\ ~Loaded /\ champion # NoVersion
          /\ target' = champion
          /\ WorkerGoto("build_champion")
          /\ UNCHANGED next
       \/ /\ Loaded /\ champion \in {NoVersion, runtime.champion.version}
          /\ ChampionIs(runtime.champion)
          /\ UNCHANGED target
       \/ /\ Loaded /\ champion \notin {NoVersion, runtime.champion.version}
          /\ target' = champion
          /\ WorkerGoto("check_champion")
          /\ UNCHANGED next
    /\ UNCHANGED faults
    /\ AfterWorkerStep

\* _check_hot_reload_compatible.
IsCompatible_Unchecked(v) == TRUE  \* mutant: the diff's mismatches are ignored
IsCompatible(v) == v \in Compatible

CheckChampion ==
    /\ wpc = "check_champion"
    /\ IF IsCompatible(target)
       THEN WorkerGoto("build_champion") /\ UNCHANGED next
       ELSE ChampionIs(runtime.champion)
    /\ UNCHANGED <<target, faults>>
    /\ AfterWorkerStep

\* Mutant: an unset threshold tag is taken as the policy itself.
BundleOf_RawTag(v) ==
    [version |-> v, policy |-> IF policy[v] = "rerun" THEN "rerun" ELSE NoVersion]
\* build_model_bundle: an explicit version, its threshold tag read here.
BundleOf(v) == [version |-> v, policy |-> policy[v]]

BuildChampion ==
    /\ wpc = "build_champion"
    /\ ChampionIs(BundleOf(target))
    /\ UNCHANGED <<target, faults>>
    /\ AfterWorkerStep

\* Mutant: a failed refresh is handled like a failed first load.
ChampionFails_Closed ==
    /\ wpc \in {"champion", "check_champion", "build_champion"}
    /\ faults < MaxFaults
    /\ faults' = faults + 1
    /\ next' = Unloaded
    /\ WorkerGoto("swap")
    /\ UNCHANGED target
    /\ AfterWorkerStep

\* Mutant: the exception escapes and ends the background task.
ChampionFails_Uncaught ==
    /\ wpc \in {"champion", "check_champion", "build_champion"}
    /\ faults < MaxFaults
    /\ faults' = faults + 1
    /\ WorkerGoto("cancelled")
    /\ UNCHANGED <<target, next>>
    /\ AfterWorkerStep

\* An MLflow call of the champion half raises: the first load starts over
\* after a backoff, a refresh keeps the bundle it has.
ChampionFails ==
    /\ wpc \in {"champion", "check_champion", "build_champion"}
    /\ faults < MaxFaults
    /\ faults' = faults + 1
    /\ IF Loaded THEN ChampionIs(runtime.champion) ELSE WorkerGoto("sleep") /\ UNCHANGED next
    /\ UNCHANGED target
    /\ AfterWorkerStep

\* resolve_challenger_version. A challenger is diffed against the installed
\* packages only when another one is already loaded.
ResolveChallenger ==
    /\ wpc = "challenger"
    /\ LET current == runtime.challenger IN
        \/ /\ challenger = current.version
           /\ ChallengerIs(current)
           /\ UNCHANGED target
        \/ /\ challenger = NoVersion /\ challenger # current.version
           /\ ChallengerIs(NoBundle)
           /\ UNCHANGED target
        \/ /\ challenger \notin {NoVersion, current.version}
           /\ target' = challenger
           /\ WorkerGoto(IF current = NoBundle THEN "build_challenger" ELSE "check_challenger")
           /\ UNCHANGED next
    /\ UNCHANGED faults
    /\ AfterWorkerStep

CheckChallenger ==
    /\ wpc = "check_challenger"
    /\ IF IsCompatible(target)
       THEN WorkerGoto("build_challenger") /\ UNCHANGED next
       ELSE ChallengerIs(runtime.challenger)
    /\ UNCHANGED <<target, faults>>
    /\ AfterWorkerStep

BuildChallenger ==
    /\ wpc = "build_challenger"
    /\ ChallengerIs(BundleOf(target))
    /\ UNCHANGED <<target, faults>>
    /\ AfterWorkerStep

\* Any failure of the challenger half keeps the challenger there was.
ChallengerFails ==
    /\ wpc \in {"challenger", "check_challenger", "build_challenger"}
    /\ faults < MaxFaults
    /\ faults' = faults + 1
    /\ ChallengerIs(runtime.challenger)
    /\ UNCHANGED target
    /\ AfterWorkerStep

\* Back on the event loop: the whole runtime is replaced at once, and the
\* first time the server declares itself ready.
Swap ==
    /\ wpc = "swap"
    /\ runtime' = next
    /\ ready' = (ready \/ ~Loaded)
    /\ window' = {champion}
    /\ WorkerGoto("sleep")
    /\ UNCHANGED <<champion, challenger, policy, signalled, stopped, target, next,
                   requestVars, moves, faults>>

-----------------------------------------------------------------------------
(* Requests. *)

AfterRequestStep == UNCHANGED <<registryVars, appVars, workerVars, moves>>

\* get_runtime: what this request uses from here on, or a 503.
GetRuntime(r) ==
    /\ rpc[r] = "new" /\ ~stopped
    /\ rpc' = [rpc EXCEPT ![r] = IF Loaded THEN "resolved" ELSE "refused"]
    /\ held' = [held EXCEPT ![r] = runtime]
    /\ UNCHANGED <<scored, predictionLog, faults>>
    /\ AfterRequestStep

\* _lookup_customers_or_503: the lookup of a batch by id times out.
LookupTimesOut(r) ==
    /\ rpc[r] = "resolved"
    /\ faults < MaxFaults
    /\ faults' = faults + 1
    /\ rpc' = [rpc EXCEPT ![r] = "refused"]
    /\ UNCHANGED <<held, scored, predictionLog>>
    /\ AfterRequestStep

\* What a request routed to one bundle of a runtime is answered from.
BundleForSource(rt, source) == IF source = "challenger" THEN rt.challenger ELSE rt.champion

\* score_request for one row: the champion serves unless canary routes the
\* row; a challenger is asked when shadow is on or the row is routed.
ScoredFrom_FreshThreshold(rt, routed) ==  \* mutant: the threshold is the live champion's
    LET source == IF routed THEN "challenger" ELSE "champion"
    IN [source |-> source, version |-> BundleForSource(rt, source).version,
        policy |-> runtime.champion.policy,
        asked |-> rt.challenger # NoBundle /\ (ShadowOn \/ routed)]
ScoredFrom(rt, routed) ==
    LET source == IF routed THEN "challenger" ELSE "champion"
        served == BundleForSource(rt, source)
    IN [source |-> source, version |-> served.version, policy |-> served.policy,
        asked |-> rt.challenger # NoBundle /\ (ShadowOn \/ routed)]

Answer(r) ==
    /\ rpc[r] = "resolved"
    /\ \E routed \in BOOLEAN :
        /\ routed => CanaryOn /\ held[r].challenger # NoBundle
        /\ scored' = [scored EXCEPT ![r] = ScoredFrom(held[r], routed)]
    /\ rpc' = [rpc EXCEPT ![r] = "answered"]
    /\ UNCHANGED <<held, predictionLog, faults>>
    /\ AfterRequestStep

\* build_log_rows: identity from the runtime, numbers from the scored batch.
LogRowOf_Live(r) ==  \* mutant: the background task reads app.state.runtime
    [request |-> r, version |-> BundleForSource(runtime, scored[r].source).version,
     policy |-> scored[r].policy,
     challenger |-> IF scored[r].asked THEN runtime.challenger.version ELSE NoVersion]
LogRowOf(r) ==
    [request |-> r, version |-> BundleForSource(held[r], scored[r].source).version,
     policy |-> scored[r].policy,
     challenger |-> IF scored[r].asked THEN held[r].challenger.version ELSE NoVersion]

\* _log_prediction_background, after the response has been sent.
LogPrediction(r) ==
    /\ rpc[r] = "answered"
    /\ predictionLog' = predictionLog \cup {LogRowOf(r)}
    /\ rpc' = [rpc EXCEPT ![r] = "logged"]
    /\ UNCHANGED <<held, scored, faults>>
    /\ AfterRequestStep

\* The write fails: counted and swallowed.
LogFails(r) ==
    /\ rpc[r] = "answered"
    /\ faults < MaxFaults
    /\ faults' = faults + 1
    /\ rpc' = [rpc EXCEPT ![r] = "unlogged"]
    /\ UNCHANGED <<held, scored, predictionLog>>
    /\ AfterRequestStep

-----------------------------------------------------------------------------
(* The process. *)

\* _flip_not_ready.
Sigterm ==
    /\ ~signalled /\ ~stopped
    /\ signalled' = TRUE
    /\ ready' = FALSE
    /\ UNCHANGED <<registryVars, runtime, stopped, workerVars, requestVars, moves, faults>>

\* The half of lifespan after its yield, once the server has drained the
\* requests under way: not ready, poll cancelled, engine disposed.
Shutdown ==
    /\ signalled /\ ~stopped
    /\ \A r \in Requests : rpc[r] \notin {"resolved", "answered"}
    /\ stopped' = TRUE
    /\ ready' = FALSE
    /\ WorkerGoto("cancelled")
    /\ UNCHANGED <<registryVars, runtime, signalled, target, next, requestVars, moves, faults>>

Init ==
    /\ champion = NoVersion /\ challenger = NoVersion
    /\ policy = [v \in Versions |-> "training"]
    /\ window = {NoVersion}
    /\ runtime = Unloaded /\ ready = FALSE
    /\ signalled = FALSE /\ stopped = FALSE
    /\ wpc = "champion" /\ target = NoVersion /\ next = Unloaded
    /\ rpc = [r \in Requests |-> "new"]
    /\ held = [r \in Requests |-> Unloaded]
    /\ scored = [r \in Requests |-> NoScore]
    /\ predictionLog = {}
    /\ moves = 0 /\ faults = 0

Registry ==
    \/ \E v \in AnyVersion : MoveChampion(v)
    \/ \E v \in Versions : StageChallenger(v) \/ RederiveThreshold(v)

\* One step of the background task, failures aside.
Worker ==
    \/ Wake \/ ResolveChampion \/ CheckChampion \/ BuildChampion
    \/ ResolveChallenger \/ CheckChallenger \/ BuildChallenger \/ Swap

Handle(r) == GetRuntime(r) \/ Answer(r) \/ LogPrediction(r)

Fault ==
    \/ ChampionFails \/ ChallengerFails
    \/ \E r \in Requests : LookupTimesOut(r) \/ LogFails(r)

Next ==
    \/ Registry \/ Worker \/ Fault \/ Sigterm \/ Shutdown
    \/ \E r \in Requests : Handle(r)

Spec == Init /\ [][Next]_vars

\* The thread pool and the event loop keep running the background task until
\* it is cancelled.
LiveSpec == Spec /\ WF_vars(Worker)

-----------------------------------------------------------------------------
(* Properties. *)

\* Every variable stays within the values the code can give it.
TypeOK ==
    /\ champion \in AnyVersion /\ challenger \in AnyVersion
    /\ policy \in [Versions -> Policies]
    /\ window \subseteq AnyVersion
    /\ runtime \in Runtime /\ ready \in BOOLEAN
    /\ signalled \in BOOLEAN /\ stopped \in BOOLEAN
    /\ wpc \in WorkerSteps /\ target \in AnyVersion /\ next \in Runtime
    /\ rpc \in [Requests -> RequestSteps]
    /\ held \in [Requests -> Runtime] /\ scored \in [Requests -> Score]
    /\ predictionLog \subseteq LogRow
    /\ moves \in Nat /\ faults \in Nat

\* A logged prediction describes the model that answered the request: the row
\* is built after the response, from a runtime the poll may have replaced.
LoggedAsServed ==
    \A row \in predictionLog :
        LET s == scored[row.request] IN
        /\ row.version = s.version /\ row.policy = s.policy
        /\ (row.challenger # NoVersion) = s.asked
        /\ s.source = "challenger" => row.challenger = s.version

\* An answer never pairs one bundle's score with another's threshold, however
\* many swaps happen between the request's arrival and its scoring.
AnswerIsOneBundle ==
    \A r \in Requests :
        rpc[r] \in {"answered", "logged", "unlogged"} =>
            \E bundle \in {held[r].champion, held[r].challenger} :
                bundle # NoBundle /\ bundle.version = scored[r].version
                                  /\ bundle.policy = scored[r].policy

\* Once a champion is served some champion always is, and one that replaces
\* another at run time was built for the packages installed here: no alias
\* deletion, no MLflow failure and no incompatible promotion gets through.
RefreshIsSafe ==
    [][Loaded => /\ runtime'.champion # NoBundle
                 /\ \/ runtime'.champion.version = runtime.champion.version
                    \/ runtime'.champion.version \in Compatible]_vars

\* The cached champion as AliasCache promises it.
Cache == INSTANCE AliasCache WITH
    alias <- champion, served <- runtime.champion.version

\* The server implements AliasCache, however its polls interleave with
\* promotions, rollbacks and failed calls.
ImplementsAliasCache == Cache!Spec

\* When the alias settles on a version that can be loaded here, the server
\* ends up serving it, unless it is shut down first.
FollowsChampion ==
    \A v \in Compatible :
        <>[](champion = v) => <>[](stopped \/ runtime.champion.version = v)

=============================================================================
