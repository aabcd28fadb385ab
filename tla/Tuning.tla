------------------------------- MODULE Tuning -------------------------------
(***************************************************************************)
(* The hyper-parameter search of train: an Optuna study in a database,     *)
(* found again by its name, and the invocations that run its trials one    *)
(* after the other and may die between any two steps.  The name is a hash  *)
(* of the features file and of the search's configuration; how many trials *)
(* are asked for, whether to resume, and by which rule the best trial is   *)
(* picked are not part of it.                                              *)
(***************************************************************************)
EXTENDS Naturals, Sequences, FiniteSets

CONSTANTS
  Names,     \* the names a study may have: features and configuration
  Outcomes,  \* what a completed trial may measure: [value, se, size]
  Scale,     \* the value of a perfect score
  Budgets,   \* the values of n_trials
  None,
  MaxInvocations, MaxCrashes  \* bounds

ASSUME TuningAssumption ==
  /\ Budgets \subseteq Nat /\ MaxInvocations \in Nat /\ MaxCrashes \in Nat
  /\ Scale \in Nat /\ Outcomes \subseteq [value : 0..Scale, se : Nat, size : Nat]
  /\ None \notin Outcomes \cup Names

VARIABLES
  study,    \* study[k]: the trials of the study of that name, or no study
  asked,    \* asked[k]: the most trials an invocation has asked of it
  results,  \* the tuning summaries logged, in order
  count,    \* invocations so far
  crashes,  \* crashes so far
  pc, run   \* the invocation under way: what it does next, what it knows

vars == <<study, asked, results, count, crashes, pc, run>>

---------------------------------------------------------------------------
(* Trials.                                                                 *)

\* A trial that has been taken up says by which invocation.
Waiting == [state |-> "WAITING", by |-> 0, resumed |-> FALSE,
            outcome |-> None, warm |-> TRUE]
Taken(w) == [state |-> "RUNNING", by |-> count, resumed |-> run.resume,
             outcome |-> None, warm |-> w]

InState(t, s) == {i \in DOMAIN t : t[i].state = s}
Executed(t) == DOMAIN t \ InState(t, "WAITING")

\* trial_summaries: what the completed trials measured, by their numbers.
Summaries(t) == [i \in InState(t, "COMPLETE") |-> t[i].outcome]

\* _raw_best_diagnostics: the first of the best.
RawBest(m) ==
  CHOOSE i \in DOMAIN m : \A j \in DOMAIN m :
    m[i].value > m[j].value \/ (m[i].value = m[j].value /\ i <= j)

Band(m) == {i \in DOMAIN m : m[i].value + m[RawBest(m)].se >= m[RawBest(m)].value}

\* The simplest of the band, the first of those.
Simplest(m) ==
  CHOOSE i \in Band(m) : \A j \in Band(m) :
    m[i].size < m[j].size \/ (m[i].size = m[j].size /\ i <= j)

\* What selection_rule may say; the code takes any other word for '1se'.
Rules == {"1se", "argmax"}

\* select_best_trial.
SelectBest(m, rule) == IF rule = "argmax" THEN RawBest(m) ELSE Simplest(m)

---------------------------------------------------------------------------
(* An invocation.                                                          *)

Trials == study[run.name].trials
Exists == study[run.name].exists
Unchanged(l) == pc' = l /\ UNCHANGED <<asked, results, count, crashes>>
NoStudy == [exists |-> FALSE, trials |-> <<>>]
NoRun == [name |-> None, n |-> 0, resume |-> FALSE, warm |-> FALSE, left |-> 0,
          submitted |-> 0]
End == pc' = "idle" /\ run' = NoRun

\* run_tuning_step is called, under whatever configuration there is now.
Start(k, n, resume, warm) ==
  /\ pc = "idle" /\ count < MaxInvocations
  /\ run' = [NoRun EXCEPT !.name = k, !.n = n, !.resume = resume, !.warm = warm]
  /\ asked' = [asked EXCEPT ![k] = IF n > @ THEN n ELSE @]
  /\ count' = count + 1
  /\ pc' = "discard"
  /\ UNCHANGED <<study, results, crashes>>

\* Mutants: what a crash left is taken up again; only a resume keeps anything.
Kept_Always == TRUE
Kept_ResumeOnly == ~Exists \/ run.resume

\* _discard_incomplete_study_unless_resuming.
Kept == ~Exists \/ Len(Trials) >= run.n \/ run.resume

Discard ==
  /\ pc = "discard"
  /\ study' = IF Kept THEN study ELSE [study EXCEPT ![run.name] = NoStudy]
  /\ Unchanged("create") /\ UNCHANGED run

\* create_study, with load_if_exists.
Create ==
  /\ pc = "create"
  /\ study' = [study EXCEPT ![run.name].exists = TRUE]
  /\ Unchanged("enqueue") /\ UNCHANGED run

\* enqueue_trial of the warm start, unless the study has had it.
Enqueue ==
  /\ pc = "enqueue"
  /\ study' = IF run.warm /\ \A i \in DOMAIN Trials : ~Trials[i].warm
              THEN [study EXCEPT ![run.name].trials = Append(@, Waiting)]
              ELSE study
  /\ Unchanged("count") /\ UNCHANGED run

\* Mutants: no floor at zero; the trials there are do not count.
Remaining_NoFloor == run.n - Len(Trials)
Remaining_Whole == run.n

\* _run_study_trials: how many trials the study lacks.
Remaining == IF run.n > Len(Trials) THEN run.n - Len(Trials) ELSE 0

Count ==
  /\ pc = "count"
  /\ run' = [run EXCEPT !.left = Remaining, !.submitted = Remaining]
  /\ Unchanged(IF Remaining > 0 THEN "optimize" ELSE "summarize") /\ UNCHANGED study

\* study.optimize takes up the trial that waits, or a new one.
Ask ==
  /\ pc = "optimize" /\ run.left > 0
  /\ study' = [study EXCEPT ![run.name].trials =
       IF InState(@, "WAITING") = {} THEN Append(@, Taken(FALSE))
       ELSE [i \in DOMAIN @ |-> IF @[i].state = "WAITING" THEN Taken(TRUE) ELSE @[i]]]
  /\ run' = [run EXCEPT !.left = @ - 1]
  /\ Unchanged("trial")

\* The trial this process runs; one that a crash left behind is no one's.
IsMine(t) == t.state = "RUNNING" /\ t.by = count
Ended(t, s, o) == [t EXCEPT !.state = s, !.outcome = o]

\* Mutant: a failed trial is queued again, at no charge.
Tell_Retries(s, o) ==
  /\ pc = "trial"
  /\ s = "PRUNED" => InState(Trials, "COMPLETE") # {}
  /\ study' = [study EXCEPT ![run.name].trials =
       [i \in DOMAIN @ |-> IF ~IsMine(@[i]) THEN @[i] ELSE IF s = "FAIL" THEN Waiting
                           ELSE Ended(@[i], s, o)]]
  /\ run' = [run EXCEPT !.left = IF s = "FAIL" THEN @ + 1 ELSE @]
  /\ Unchanged("optimize")

\* _tuning_objective completes, prunes against the trials completed before, or
\* raises, which fails the trial alone.
Tell(s, o) ==
  /\ pc = "trial"
  /\ s = "PRUNED" => InState(Trials, "COMPLETE") # {}
  /\ study' = [study EXCEPT ![run.name].trials =
       [i \in DOMAIN @ |-> IF IsMine(@[i]) THEN Ended(@[i], s, o) ELSE @[i]]]
  /\ Unchanged("optimize") /\ UNCHANGED run

\* As many failures as trials submitted are taken for a systematic bug.
AllFailed == Cardinality(InState(Trials, "FAIL")) = run.submitted

\* The trials are done, or the timeout has passed, which is looked at between two.
Optimized ==
  /\ pc = "optimize" /\ run.left < run.submitted
  /\ \/ AllFailed /\ End
     \/ ~AllFailed /\ pc' = "summarize" /\ UNCHANGED run
  /\ UNCHANGED <<study, asked, results, count, crashes>>

Summary(rule) ==
  [name |-> run.name, rule |-> rule, asked |-> asked[run.name], held |-> Len(Trials),
   selected |-> SelectBest(Summaries(Trials), rule)]

\* _summarize_completed_trials, the one place that reads selection_rule;
\* select_best_trial refuses an empty list.
Summarize ==
  /\ pc = "summarize"
  /\ \/ /\ InState(Trials, "COMPLETE") = {} /\ UNCHANGED results
     \/ /\ InState(Trials, "COMPLETE") # {}
        /\ \E rule \in Rules : results' = Append(results, Summary(rule))
  /\ End /\ UNCHANGED <<study, asked, count, crashes>>

\* The process dies; the trial it was running stays as it is.
Crash ==
  /\ pc # "idle" /\ crashes < MaxCrashes
  /\ crashes' = crashes + 1
  /\ End /\ UNCHANGED <<study, asked, results, count>>

---------------------------------------------------------------------------
(* Properties.                                                             *)

States == {"WAITING", "RUNNING", "COMPLETE", "PRUNED", "FAIL"}
Trial == [state : States, by : Nat, resumed : BOOLEAN,
          outcome : Outcomes \cup {None}, warm : BOOLEAN]
Result == [name : Names, rule : Rules, asked : Nat, held : Nat, selected : Nat]

TypeOK ==
  /\ study \in [Names -> [exists : BOOLEAN, trials : Seq(Trial)]]
  /\ asked \in [Names -> Nat]
  /\ results \in Seq(Result)
  /\ count \in Nat /\ crashes \in Nat
  /\ pc \in {"idle", "discard", "create", "enqueue", "count", "optimize", "trial", "summarize"}
  /\ run \in [name : Names \cup {None}, n : Nat, resume : BOOLEAN, warm : BOOLEAN, left : Nat,
              submitted : Nat]
  /\ pc # "idle" => run.name \in Names

\* However often train is called, dies and is called again, a study is never
\* charged more trials than the most that has been asked of it.
BudgetIsKept ==
  \A k \in Names : Cardinality(Executed(study[k].trials)) <= asked[k]

\* "Defaulting to discard-and-restart keeps a stale partial study from silently
\* pooling with a later invocation's trials": trials of two invocations are in one
\* study only if the later one was told to resume.
PoolingIsDeliberate ==
  \A k \in Names : \A i, j \in Executed(study[k].trials) :
    study[k].trials[i].by < study[k].trials[j].by => study[k].trials[j].resumed

\* "Idempotent against a study that already reached n_trials": once a result came
\* from such a study, every later one of that name and by that rule selects the same
\* trial, until someone asks for more trials, whatever else was tried in between.
RerunAgrees ==
  \A i, j \in DOMAIN results :
    /\ i < j /\ results[i].name = results[j].name /\ results[i].rule = results[j].rule
    /\ results[j].asked <= results[i].held
    => results[i].selected = results[j].selected

\* An invocation ends: it returns, raises or dies.
InvocationEnds == pc # "idle" ~> pc = "idle"

---------------------------------------------------------------------------
Init ==
  /\ study = [k \in Names |-> NoStudy] /\ asked = [k \in Names |-> 0]
  /\ results = <<>>
  /\ count = 0 /\ crashes = 0
  /\ pc = "idle" /\ run = NoRun

Step == \/ Discard \/ Create \/ Enqueue \/ Count \/ Ask
        \/ \E o \in Outcomes : Tell("COMPLETE", o)
        \/ \E s \in {"PRUNED", "FAIL"} : Tell(s, None)
        \/ Optimized \/ Summarize

Next ==
  \/ \E k \in Names, n \in Budgets, resume, warm \in BOOLEAN :
       Start(k, n, resume, warm)
  \/ Step \/ Crash

Spec == Init /\ [][Next]_vars
LiveSpec == Spec /\ WF_vars(Step)
=============================================================================
