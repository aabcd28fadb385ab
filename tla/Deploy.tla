-------------------------------- MODULE Deploy --------------------------------
(***************************************************************************)
(* Continuous delivery: .github/workflows/cd.yml and the scripts it runs.  *)
(* A job builds the images of a commit, puts its deploy files in S3,       *)
(* points two SSM parameters at the images, has the box converge on them   *)
(* (deploy_on_box.sh) and tests the result; a failure after the parameters *)
(* were touched arms a rollback that runs the same script again.           *)
(*                                                                         *)
(* The script runs on the box, started over SSM and only watched by the    *)
(* job: when the job gives up on it or its runner dies, the script goes on *)
(* by itself, beside whatever is started next. Each of its commands reads  *)
(* what it works from when it begins and replaces what it writes when it   *)
(* ends, which for the compose build is much later: two steps.             *)
(***************************************************************************)
EXTENDS Naturals, Sequences, FiniteSets

CONSTANTS
    MaxCommit,   \* commits pushed to main (bound)
    None,        \* a parameter still ":unset", a run without event.before
    Migrations,  \* commits that add an alembic revision
    Keep,        \* tagged images ECR keeps per repository
    Slots,       \* scripts that can be under way on the box at once (bound)
    MaxRuns,     \* runs of the workflow (bound)
    MaxFaults    \* steps that fail or are given up on, runners that die (bound)

ASSUME DeployAssumption ==
    /\ MaxCommit \in Nat /\ Migrations \subseteq 1..MaxCommit /\ Keep \in Nat \ {0}
    /\ None \notin Nat /\ None \notin Slots
    /\ MaxRuns \in Nat /\ MaxFaults \in Nat

Commits  == 1..MaxCommit
\* Release 0 is the one RUNBOOK.md brings up by hand before the first run.
Releases == 0..MaxCommit
Images  == {"api", "ui"}
\* The deploy files: infra/deploy, and the Dockerfile of the MLflow server.
Parts   == {"config", "mlflow"}

VARIABLES
    \* the repository
    head,                  \* the last commit pushed
    badImages, badFiles,   \* commits whose images or deploy files do not work
    \* AWS
    ecr,                   \* per image: the tags held, in the order pushed
    s3,                    \* per part: the commit whose deploy files S3 holds
    ssm,                   \* per image: the tag its parameter names
    \* GitHub Actions
    pending,               \* the run waiting in the concurrency group
    job, jpc, outcome,     \* the run under way, or the last one
    \* the box
    script,                \* per slot: where a deploy_on_box.sh is
    read,                  \* per slot: what its command under way has read
    boxFiles, env,         \* /opt/telco-churn: the deploy files and .env
    stack,                 \* what docker compose up last started
    applied,               \* alembic revisions in the database
    runs, faults

repoVars  == <<head, badImages, badFiles>>
awsVars   == <<ecr, s3, ssm>>
jobVars   == <<job, jpc, outcome>>
boxVars   == <<script, read, boxFiles, env, stack, applied>>
boundVars == <<runs, faults>>
vars == <<repoVars, awsVars, pending, jobVars, boxVars, boundVars>>

Targets == [Images -> Releases \cup {None}]
Unset   == [i \in Images |-> None]
ByHand  == [i \in Images |-> 0]
FileSets   == [Parts -> Releases]
FilesOf(c) == [p \in Parts |-> c]
Reads      == [env : Targets, files : FileSets]
NothingRead == [env |-> Unset, files |-> FilesOf(0)]
\* clear is history: when the job last started its script, no other script on
\* the box was past its first command.
Job     == [commit : Commits \cup {None}, before : Releases \cup {None},
            prev : Targets, slot : Slots \cup {None}, clear : BOOLEAN]
NoJob   == [commit |-> None, before |-> None, prev |-> Unset, slot |-> None,
            clear |-> TRUE]

ForwardSteps  == {"record", "build_api", "build_ui", "sync_config", "sync_mlflow",
                  "point_api", "point_ui", "send", "wait", "verify", "prune"}
RollbackSteps == {"rb_config", "rb_mlflow", "rb_api", "rb_ui", "rb_send", "rb_wait",
                  "rb_verify"}
ScriptSteps   == {"sync", "env", "write_env", "pull", "migrate", "upgrade", "up",
                  "replace"}
Outcomes      == {"none", "green", "rolled_back", "red", "unrecovered"}

-----------------------------------------------------------------------------
(* Runs. *)

\* A push to main. One run waits at most: a newer one takes its place.
Push ==
    /\ head < MaxCommit
    /\ head' = head + 1
    /\ \/ UNCHANGED <<badImages, badFiles>>
       \/ badImages' = badImages \cup {head'} /\ UNCHANGED badFiles
       \/ badFiles' = badFiles \cup {head'} /\ UNCHANGED badImages
    /\ pending' = head'
    /\ UNCHANGED <<awsVars, jobVars, boxVars, boundVars>>

Begin(commit, before) ==
    /\ jpc = "idle" /\ runs < MaxRuns
    /\ runs' = runs + 1
    /\ job' = [NoJob EXCEPT !.commit = commit, !.before = before]
    /\ jpc' = "record"
    /\ outcome' = "none"
    /\ UNCHANGED <<repoVars, awsVars, boxVars, faults>>

Start ==
    /\ pending # None
    /\ Begin(pending, pending - 1)
    /\ pending' = None

\* workflow_dispatch of main, which has no event.before, or the re-run of an
\* earlier run, which keeps its own.
StartByHand ==
    /\ \/ head # 0 /\ Begin(head, None)
       \/ \E c \in 1..head : Begin(c, c - 1)
    /\ UNCHANGED pending

-----------------------------------------------------------------------------
(* How a step ends. *)

JobGoto(label) == jpc' = label /\ UNCHANGED <<job, outcome>>
End(result) == jpc' = "idle" /\ outcome' = result /\ job' = [job EXCEPT !.slot = None]

\* The rollback step runs when point_* succeeded or failed, and a previous
\* deploy is on record.
Armed_SuccessOnly == jpc \in {"send", "wait", "verify", "prune"}  \* mutant
Armed == jpc \in {"point_api", "point_ui", "send", "wait", "verify", "prune"}
RollbackPossible == \A i \in Images : job.prev[i] # None

\* The step under way has failed.
StepFailed ==
    \/ /\ Armed /\ RollbackPossible
       /\ jpc' = "rb_config"
       /\ job' = [job EXCEPT !.slot = None]
       /\ UNCHANGED outcome
    \/ jpc \in ForwardSteps /\ ~(Armed /\ RollbackPossible) /\ End("red")
    \/ jpc \in RollbackSteps /\ End("unrecovered")

-----------------------------------------------------------------------------
(* The job's steps. *)

AfterJobStep == UNCHANGED <<repoVars, pending, boundVars>>

RecordPrevious ==
    /\ jpc = "record"
    /\ job' = [job EXCEPT !.prev = ssm]
    /\ jpc' = "build_api"
    /\ UNCHANGED <<awsVars, outcome, boxVars>>
    /\ AfterJobStep

Held(i) == {ecr[i][k] : k \in 1..Len(ecr[i])}

\* Tags are immutable: an image that is there already is not pushed again.
BuildAndPush(i) ==
    /\ jpc = (IF i = "api" THEN "build_api" ELSE "build_ui")
    /\ ecr' = IF job.commit \in Held(i) THEN ecr
              ELSE [ecr EXCEPT ![i] = Append(@, job.commit)]
    /\ JobGoto(IF i = "api" THEN "build_ui" ELSE "sync_config")
    /\ UNCHANGED <<s3, ssm, boxVars>>
    /\ AfterJobStep

\* sync_deploy_files.sh uploads the one part, then the other.
SyncFiles(p) ==
    /\ jpc = (IF p = "config" THEN "sync_config" ELSE "sync_mlflow")
    /\ s3' = [s3 EXCEPT ![p] = job.commit]
    /\ JobGoto(IF p = "config" THEN "sync_mlflow" ELSE "point_api")
    /\ UNCHANGED <<ecr, ssm, boxVars>>
    /\ AfterJobStep

Point(i) ==
    /\ jpc = (IF i = "api" THEN "point_api" ELSE "point_ui")
    /\ ssm' = [ssm EXCEPT ![i] = job.commit]
    /\ JobGoto(IF i = "api" THEN "point_ui" ELSE "send")
    /\ UNCHANGED <<ecr, s3, boxVars>>
    /\ AfterJobStep

\* No script but s has read S3, the parameters or the files on the box.
Clear(s) == \A t \in Slots \ {s} : script[t] \in {"idle", "sync"}

\* ssm:SendCommand starts deploy_on_box.sh; which free slot it takes is all one.
Send ==
    /\ jpc \in {"send", "rb_send"}
    /\ \E s \in Slots :
        /\ script[s] = "idle"
        /\ s = CHOOSE t \in Slots : script[t] = "idle"
        /\ script' = [script EXCEPT ![s] = "sync"]
        /\ job' = [job EXCEPT !.slot = s, !.clear = Clear(s)]
    /\ jpc' = IF jpc = "send" THEN "wait" ELSE "rb_wait"
    /\ UNCHANGED <<awsVars, outcome, read, boxFiles, env, stack, applied>>
    /\ AfterJobStep

\* The script has ended, and the job has seen how.
Wait ==
    /\ jpc \in {"wait", "rb_wait"}
    /\ script[job.slot] \in {"ok", "failed"}
    /\ script' = [script EXCEPT ![job.slot] = "idle"]
    /\ \/ /\ script[job.slot] = "ok"
          /\ job' = [job EXCEPT !.slot = None]
          /\ jpc' = IF jpc = "wait" THEN "verify" ELSE "rb_verify"
          /\ UNCHANGED outcome
       \/ /\ script[job.slot] = "failed"
          /\ StepFailed
    /\ UNCHANGED <<awsVars, read, boxFiles, env, stack, applied>>
    /\ AfterJobStep

\* The stack on the box serves.
Healthy ==
    /\ \A i \in Images : stack.images[i] \notin badImages \cup {None}
    /\ \A p \in Parts : stack.files[p] \notin badFiles

\* seed_mlflow_reviewer.sh and smoke_test_deployed.sh.
Verify ==
    /\ \/ jpc = "verify" /\ Healthy /\ JobGoto("prune")
       \/ jpc = "rb_verify" /\ Healthy /\ End("rolled_back")
       \/ jpc \in {"verify", "rb_verify"} /\ ~Healthy /\ StepFailed
    /\ UNCHANGED <<awsVars, boxVars>>
    /\ AfterJobStep

Prune ==
    /\ jpc = "prune"
    /\ End("green")
    /\ UNCHANGED <<awsVars, boxVars>>
    /\ AfterJobStep

RestoreStep(p) == jpc = (IF p = "config" THEN "rb_config" ELSE "rb_mlflow")
AfterRestore(p) ==
    /\ JobGoto(IF p = "config" THEN "rb_mlflow" ELSE "rb_api")
    /\ UNCHANGED <<ecr, ssm, boxVars>>
    /\ AfterJobStep

\* Mutant: what there is to restore is not asked.
RestoreFiles_Unguarded(p) ==
    /\ RestoreStep(p)
    /\ s3' = [s3 EXCEPT ![p] = job.before]
    /\ AfterRestore(p)

\* Mutant: an image-only rollback.
RestoreFiles_ImagesOnly(p) ==
    /\ RestoreStep(p)
    /\ UNCHANGED s3
    /\ AfterRestore(p)

\* The deploy files of the commit before, if the event names one.
RestoreFiles(p) ==
    /\ RestoreStep(p)
    /\ s3' = IF job.before = None THEN s3 ELSE [s3 EXCEPT ![p] = job.before]
    /\ AfterRestore(p)

PointBack(i) ==
    /\ jpc = (IF i = "api" THEN "rb_api" ELSE "rb_ui")
    /\ ssm' = [ssm EXCEPT ![i] = job.prev[i]]
    /\ JobGoto(IF i = "api" THEN "rb_ui" ELSE "rb_send")
    /\ UNCHANGED <<ecr, s3, boxVars>>
    /\ AfterJobStep

-----------------------------------------------------------------------------
(* deploy_on_box.sh. *)

ScriptGoto(s, label) == script' = [script EXCEPT ![s] = label]
\* A script nobody watches any more leaves no result behind.
ScriptEnds(s, result) == ScriptGoto(s, IF s = job.slot THEN result ELSE "idle")
AfterBoxStep == UNCHANGED <<repoVars, awsVars, pending, jobVars, boundVars>>

\* The command under way begins, with what it reads, or ends.
Begins(s, label, what) ==
    /\ ScriptGoto(s, label)
    /\ read' = [read EXCEPT ![s] = what]
Forget(s) == read' = [read EXCEPT ![s] = NothingRead]

\* aws s3 sync fetches and writes one small file after the other.
BoxSync(s) ==
    /\ script[s] = "sync"
    /\ boxFiles' = s3
    /\ ScriptGoto(s, "env")
    /\ UNCHANGED <<read, env, stack, applied>>
    /\ AfterBoxStep

\* refresh-env.sh asks for the parameters, then writes .env.
BoxReadParams(s) ==
    /\ script[s] = "env"
    /\ Begins(s, "write_env", [NothingRead EXCEPT !.env = ssm])
    /\ UNCHANGED <<boxFiles, env, stack, applied>>
    /\ AfterBoxStep

BoxRefreshEnv(s) ==
    /\ script[s] = "write_env"
    /\ env' = read[s].env
    /\ ScriptGoto(s, "pull") /\ Forget(s)
    /\ UNCHANGED <<boxFiles, stack, applied>>
    /\ AfterBoxStep

\* docker compose pull needs both tags in ECR; a compose file that does not
\* work may show already here.
BoxPull(s) ==
    /\ script[s] = "pull"
    /\ \/ (\A i \in Images : env[i] \in Held(i)) /\ ScriptGoto(s, "migrate")
       \/ (\E i \in Images : env[i] \notin Held(i)) /\ ScriptEnds(s, "failed")
       \/ (\E p \in Parts : boxFiles[p] \in badFiles) /\ ScriptEnds(s, "failed")
    /\ UNCHANGED <<read, boxFiles, env, stack, applied>>
    /\ AfterBoxStep

\* docker compose run starts the api image that .env names.
BoxRunApi(s) ==
    /\ script[s] = "migrate"
    /\ Begins(s, "upgrade", [NothingRead EXCEPT !.env = env])
    /\ UNCHANGED <<boxFiles, env, stack, applied>>
    /\ AfterBoxStep

\* The revisions the image of a commit knows.
Known(c) == {m \in Migrations : m <= c}

\* alembic upgrade head in that image: a database at a revision the image does
\* not have cannot be located, and the upgrade fails. So it does in an image
\* that does not work.
BoxMigrate(s) ==
    /\ script[s] = "upgrade"
    /\ \/ /\ applied \subseteq Known(read[s].env["api"])
          /\ applied' = Known(read[s].env["api"])
          /\ ScriptGoto(s, "up")
       \/ /\ \/ ~(applied \subseteq Known(read[s].env["api"]))
             \/ read[s].env["api"] \in badImages
          /\ ScriptEnds(s, "failed")
          /\ UNCHANGED applied
    /\ Forget(s)
    /\ UNCHANGED <<boxFiles, env, stack>>
    /\ AfterBoxStep

\* docker compose up -d --build reads .env and the compose file, and builds
\* the MLflow image from the files it finds.
BoxBuild(s) ==
    /\ script[s] = "up"
    /\ Begins(s, "replace", [env |-> env, files |-> boxFiles])
    /\ UNCHANGED <<boxFiles, env, stack, applied>>
    /\ AfterBoxStep

\* Mutant: the containers are restarted from the files of the previous release.
BoxUp_StaleFiles(s) ==
    /\ script[s] = "replace"
    /\ stack' = [images |-> read[s].env, files |-> stack.files]
    /\ ScriptEnds(s, "ok") /\ Forget(s)
    /\ UNCHANGED <<boxFiles, env, applied>>
    /\ AfterBoxStep

\* Then it replaces the containers.
BoxUp(s) ==
    /\ script[s] = "replace"
    /\ stack' = [images |-> read[s].env, files |-> read[s].files]
    /\ ScriptEnds(s, "ok") /\ Forget(s)
    /\ UNCHANGED <<boxFiles, env, applied>>
    /\ AfterBoxStep

-----------------------------------------------------------------------------
(* Failures and expiry. *)

\* The job looks at its script no more: a result it had is gone.
Unwatched ==
    [s \in Slots |-> IF script[s] \in {"ok", "failed"} THEN "idle" ELSE script[s]]

\* A step of the job fails, or ssm_run.sh gives up polling.
JobFault ==
    /\ jpc # "idle" /\ faults < MaxFaults
    /\ faults' = faults + 1
    /\ StepFailed
    /\ script' = Unwatched
    /\ UNCHANGED <<repoVars, awsVars, pending, read, boxFiles, env, stack, applied, runs>>

\* A command of the script fails; set -e ends it.
BoxFault(s) ==
    /\ script[s] \in ScriptSteps /\ faults < MaxFaults
    /\ faults' = faults + 1
    /\ ScriptEnds(s, "failed") /\ Forget(s)
    /\ UNCHANGED <<repoVars, awsVars, pending, jobVars, boxFiles, env, stack, applied,
                   runs>>

\* The runner dies or the run is cancelled: failure() holds of neither.
Die ==
    /\ jpc # "idle" /\ faults < MaxFaults
    /\ faults' = faults + 1
    /\ End("unrecovered")
    /\ script' = Unwatched
    /\ UNCHANGED <<repoVars, awsVars, pending, read, boxFiles, env, stack, applied, runs>>

\* ECR's lifecycle policy, some time after a push.
Expire(i) ==
    /\ Len(ecr[i]) > Keep
    /\ ecr' = [ecr EXCEPT ![i] = Tail(@)]
    /\ UNCHANGED <<repoVars, s3, ssm, pending, jobVars, boxVars, boundVars>>

-----------------------------------------------------------------------------
Init ==
    /\ head = 0 /\ badImages = {} /\ badFiles = {}
    /\ s3 = FilesOf(0)
    /\ \/ ssm = Unset /\ ecr = [i \in Images |-> <<>>]
       \/ ssm = ByHand /\ ecr = [i \in Images |-> <<0>>]
    /\ pending = None
    /\ job = NoJob /\ jpc = "idle" /\ outcome = "none"
    /\ script = [s \in Slots |-> "idle"]
    /\ read = [s \in Slots |-> NothingRead]
    /\ boxFiles = FilesOf(0) /\ env = ssm
    /\ stack = [images |-> ssm, files |-> FilesOf(0)]
    /\ applied = {}
    /\ runs = 0 /\ faults = 0

JobStep ==
    \/ RecordPrevious \/ Send \/ Wait \/ Verify \/ Prune
    \/ \E i \in Images : BuildAndPush(i) \/ Point(i) \/ PointBack(i)
    \/ \E p \in Parts : SyncFiles(p) \/ RestoreFiles(p)

BoxStep(s) ==
    \/ BoxSync(s) \/ BoxReadParams(s) \/ BoxRefreshEnv(s) \/ BoxPull(s)
    \/ BoxRunApi(s) \/ BoxMigrate(s) \/ BoxBuild(s) \/ BoxUp(s)

Next ==
    \/ Push \/ Start \/ StartByHand
    \/ JobStep
    \/ JobFault \/ Die
    \/ \E s \in Slots : BoxStep(s) \/ BoxFault(s)
    \/ \E i \in Images : Expire(i)

Spec == Init /\ [][Next]_vars

\* GitHub runs the steps of a job, and the box the commands of a script, until
\* they end.
LiveSpec == Spec /\ WF_vars(JobStep) /\ \A s \in Slots : WF_vars(BoxStep(s))

-----------------------------------------------------------------------------
(* Properties. *)

\* Every variable stays within the values the workflow can give it.
TypeOK ==
    /\ head \in Releases /\ badImages \subseteq Commits /\ badFiles \subseteq Commits
    /\ ecr \in [Images -> Seq(Releases)] /\ s3 \in FileSets /\ ssm \in Targets
    /\ pending \in Commits \cup {None}
    /\ job \in Job /\ jpc \in {"idle"} \cup ForwardSteps \cup RollbackSteps
    /\ outcome \in Outcomes
    /\ script \in [Slots -> ScriptSteps \cup {"idle", "ok", "failed"}]
    /\ read \in [Slots -> Reads]
    /\ boxFiles \in FileSets /\ env \in Targets
    /\ stack \in [images : Targets, files : FileSets]
    /\ applied \subseteq Commits
    /\ runs \in Nat /\ faults \in Nat

\* A job that ended green, or said that its rollback worked, leaves a box that
\* serves what the SSM parameters name, and a green one serves the images, the
\* deploy files and the schema of its own commit. Scripts that earlier jobs
\* gave up on or died over may still be under way then, if they had done
\* nothing yet when the job started its own: one that had read the parameters
\* or .env before may put back what it read after the job's report.
ReportIsTrue ==
    jpc = "idle" /\ job.clear =>
        /\ outcome \in {"green", "rolled_back"} => Healthy /\ stack.images = ssm
        /\ outcome = "green" =>
            /\ \A i \in Images : stack.images[i] = job.commit
            /\ stack.files = FilesOf(job.commit)
            /\ Known(job.commit) \subseteq applied

\* A job that ended red without a rollback has not moved the target the next
\* job will record as the one to roll back to, unless there was none.
RedLeavesTarget ==
    jpc = "idle" /\ outcome = "red" /\ RollbackPossible => ssm = job.prev

\* Nothing more will fail, and the previous release can be restored: its images
\* work and stay in ECR, the deploy files the job will restore work, and the
\* failed deploy has added no revision to the database.
Recoverable ==
    /\ faults = MaxFaults
    /\ \A s \in Slots : script[s] = "idle"
    /\ \A i \in Images : Len(ecr[i]) <= Keep
    /\ \A i \in Images : job.prev[i] \in Held(i) \ badImages
    /\ applied \subseteq Known(job.prev["api"])
    /\ \A p \in Parts : (IF job.before = None THEN s3[p] ELSE job.before) \notin badFiles

\* Under those conditions a rollback that has started brings the box back.
RollbackRecovers ==
    jpc = "rb_config" /\ Recoverable ~> jpc = "idle" /\ outcome = "rolled_back"

\* "a rollback re-runs this against the old image, and alembic is already at
\* head, so it is a no-op there".
RollbackMigrationIsNoOp ==
    \A s \in Slots :
        script[s] = "upgrade" /\ jpc = "rb_wait" /\ job.slot = s
            => applied \subseteq Known(read[s].env["api"])

=============================================================================
