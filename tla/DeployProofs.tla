----------------------------- MODULE DeployProofs -----------------------------
(***************************************************************************)
(* What a run of the delivery workflow reports is true of the box, and a   *)
(* run that ends red without a rollback has not moved the rollback target, *)
(* for any number of commits, runs, scripts on the box and failures: the   *)
(* first as long as no older script held what it had read before.          *)
(***************************************************************************)
EXTENDS Deploy, SequenceTheorems, TLAPS

\* Everything that names a commit names one that has been pushed.
Pushed == 0..head

WithinHead ==
    /\ pending \in Pushed \cup {None}
    /\ \A p \in Parts : /\ s3[p] \in Pushed /\ boxFiles[p] \in Pushed
                        /\ stack.files[p] \in Pushed
                        /\ \A s \in Slots : read[s].files[p] \in Pushed
    /\ \A i \in Images : /\ ssm[i] \in Pushed \cup {None}
                         /\ env[i] \in Pushed \cup {None}
                         /\ stack.images[i] \in Pushed \cup {None}
                         /\ job.prev[i] \in Pushed \cup {None}
                         /\ \A s \in Slots : read[s].env[i] \in Pushed \cup {None}
    /\ job.commit \in Pushed \cup {None} /\ job.before \in Pushed \cup {None}

\* The rollback target is what the parameters named before they were touched.
PrevOK ==
    /\ jpc = "record" => job.prev = Unset
    /\ jpc \in {"build_api", "build_ui", "sync_config", "sync_mlflow"} => job.prev = ssm

Green    == jpc = "idle" /\ outcome = "green"
Reported == jpc = "idle" /\ outcome \in {"green", "rolled_back"}
Waiting  == jpc \in {"wait", "rb_wait"}
Deployed == jpc \in {"verify", "prune", "rb_verify"} \/ Reported

\* How far the run has moved S3 and the parameters to its commit.
TargetOK ==
    /\ jpc # "idle" => job.commit \in Commits
    /\ jpc \in {"point_api", "point_ui", "send", "wait", "verify", "prune"} \/ Green
          => s3 = FilesOf(job.commit)
    /\ jpc = "sync_mlflow" => s3["config"] = job.commit
    /\ jpc = "point_ui" => ssm["api"] = job.commit
    /\ jpc \in {"send", "wait", "verify", "prune"} \/ Green
          => \A i \in Images : ssm[i] = job.commit

\* The run has started its script, beside no other that had read anything; a
\* script is then at one of some labels, or known to have ended.
Following == job.clear /\ (Waiting \/ Deployed)
At(s, labels) == script[s] \in labels

\* How far the box has followed. What any script reads since the run's own was
\* started is what the run has set, so none can undo it.
ScriptOK(s) ==
    /\ ~At(s, {"idle", "sync", "failed"}) => boxFiles = s3
    /\ At(s, {"write_env"}) => read[s].env = ssm
    /\ At(s, {"pull", "migrate", "upgrade", "up", "replace", "ok"}) => env = ssm
    /\ At(s, {"upgrade", "replace"}) => read[s].env = ssm
    /\ At(s, {"replace"}) => read[s].files = s3
    /\ At(s, {"ok"}) => stack.images = ssm /\ stack.files = s3
    /\ jpc = "wait" /\ At(s, {"up", "replace", "ok"}) => Known(job.commit) \subseteq applied

\* The box has taken over all that S3 and the parameters name.
BoxFacts == boxFiles = s3 /\ env = ssm /\ stack.images = ssm /\ stack.files = s3

BoxOK ==
    /\ Waiting => job.slot \in Slots
    /\ Following => \A s \in Slots : ScriptOK(s)
    /\ job.clear /\ Deployed => BoxFacts
    /\ job.clear /\ (jpc \in {"verify", "prune"} \/ Green)
          => Known(job.commit) \subseteq applied
    /\ job.clear /\ (jpc = "prune" \/ Reported) => Healthy

\* The inductive invariant.
IInv == TypeOK /\ WithinHead /\ PrevOK /\ RedLeavesTarget /\ TargetOK /\ BoxOK

-----------------------------------------------------------------------------
\* A run starts on a commit that has been pushed.
LEMMA Beginning ==
  ASSUME TypeOK, WithinHead, Start \/ StartByHand
  PROVE  /\ \E c \in 1..head, b \in Pushed \cup {None} :
               /\ job' \in Job
               /\ c \in Commits
               /\ job'.commit = c /\ job'.before = b /\ job'.prev = Unset
         /\ jpc = "idle" /\ jpc' = "record" /\ outcome' = "none"
         /\ runs' \in Nat
         /\ pending' \in {pending, None}
         /\ UNCHANGED <<repoVars, awsVars, boxVars, faults>>
<1> USE DeployAssumption DEF TypeOK, WithinHead, Pushed, Commits, Releases, Begin
<1>1. \E c \in 1..head, b \in Pushed \cup {None} :
        Begin(c, b) /\ pending' \in {pending, None}
  <2>1. CASE Start
    <3>1. pending \in 1..head /\ pending - 1 \in Pushed
      BY <2>1 DEF Start
    <3> QED
      BY <2>1, <3>1 DEF Start
  <2>2. CASE StartByHand
    <3>1. CASE head # 0 /\ Begin(head, None)
      <4>1. head \in 1..head
        BY <3>1
      <4>2. None \in Pushed \cup {None} /\ pending' = pending
        BY <2>2 DEF StartByHand
      <4> QED
        BY <3>1, <4>1, <4>2
    <3>2. CASE \E c \in 1..head : Begin(c, c - 1)
      <4>1. \A c \in 1..head : c - 1 \in Pushed
        OBVIOUS
      <4> QED
        BY <2>2, <3>2, <4>1 DEF StartByHand
    <3> QED
      BY <2>2, <3>1, <3>2 DEF StartByHand
  <2> QED
    BY <2>1, <2>2
<1>2. PICK c \in 1..head, b \in Pushed \cup {None} :
        Begin(c, b) /\ pending' \in {pending, None}
  BY <1>1
<1>3. c \in Commits /\ b \in Releases \cup {None}
  OBVIOUS
<1> HIDE DEF TypeOK, WithinHead
<1>4. Unset \in Targets
  BY DEF Unset, Targets
<1>5. job' \in Job /\ job'.commit = c /\ job'.before = b /\ job'.prev = Unset
  BY <1>2, <1>3, <1>4 DEF Job, NoJob
<1>6. runs' \in Nat
  BY <1>2 DEF TypeOK
<1> QED
  BY <1>2, <1>3, <1>5, <1>6

\* What a command has read is a set of parameters and of files.
LEMMA ReadsTyped ==
  /\ NothingRead \in Reads
  /\ \A e \in Targets : [NothingRead EXCEPT !.env = e] \in Reads
  /\ \A e \in Targets, f \in FileSets : [env |-> e, files |-> f] \in Reads
<1>1. FilesOf(0) \in FileSets
  BY DeployAssumption DEF FilesOf, FileSets, Releases
<1>2. Unset \in Targets
  BY DEF Unset, Targets
<1> QED
  BY <1>1, <1>2 DEF NothingRead, Reads

\* What a job leaves of the scripts it watched is scripts.
LEMMA UnwatchedTyped ==
  ASSUME TypeOK
  PROVE  Unwatched \in [Slots -> ScriptSteps \cup {"idle", "ok", "failed"}]
  BY DEF TypeOK, Unwatched

\* Taking a slot, or giving it back, keeps a job a job.
LEMMA SlotTyped ==
  ASSUME job \in Job, NEW s \in Slots \cup {None}
  PROVE  [job EXCEPT !.slot = s] \in Job
  BY DEF Job

\* Only a new stack, or a commit that breaks something, changes the box's health.
LEMMA HealthyKept ==
  ASSUME UNCHANGED <<stack, badImages, badFiles>>
  PROVE  Healthy => Healthy'
  BY DEF Healthy

-----------------------------------------------------------------------------
(* Every part of IInv is kept by every step: one case per action. *)

LEMMA TypesStep ==
  ASSUME TypeOK, WithinHead, TargetOK, [Next]_vars
  PROVE  TypeOK'
<1> USE DeployAssumption DEF TypeOK, WithinHead, TargetOK, Pushed, Commits, Releases, Targets, FileSets, Reads, FilesOf, NothingRead, Job, NoJob, Unset, Images, ForwardSteps, RollbackSteps, ScriptSteps, Outcomes, AfterJobStep, AfterBoxStep, repoVars, awsVars, jobVars, boxVars, boundVars
<1>1. CASE Push
  <2>1. head' \in Commits /\ badImages' \subseteq Commits /\ badFiles' \subseteq Commits
    <3>1. head' = head + 1 /\ head < MaxCommit
      BY <1>1 DEF Push
    <3>2. head' \in Commits
      BY <3>1
    <3>3. badImages' \in {badImages, badImages \cup {head'}}
      BY <1>1 DEF Push
    <3>4. badFiles' \in {badFiles, badFiles \cup {head'}}
      BY <1>1 DEF Push
    <3> QED
      BY <3>2, <3>3, <3>4
  <2> QED
    BY <1>1, <2>1 DEF Push
<1>2. CASE Start
  BY <1>2, Beginning
<1>3. CASE StartByHand
  BY <1>3, Beginning
<1>4. CASE RecordPrevious
  BY <1>4 DEF RecordPrevious
<1>5. CASE \E p \in Parts : SyncFiles(p)
  BY <1>5 DEF SyncFiles, JobGoto, Parts
<1>6. CASE Send
  <2>1. PICK s \in Slots : /\ script' = [script EXCEPT ![s] = "sync"]
                           /\ job' = [job EXCEPT !.slot = s, !.clear = Clear(s)]
    BY <1>6 DEF Send
  <2>2. Clear(s) \in BOOLEAN
    BY DEF Clear
  <2>3. job' \in Job
    BY <2>1, <2>2
  <2> QED
    BY <1>6, <2>1, <2>3 DEF Send
<1>7. CASE Wait
  BY <1>7 DEF Wait, StepFailed, End
<1>8. CASE Verify
  BY <1>8 DEF Verify, StepFailed, End, JobGoto
<1>9. CASE Prune
  BY <1>9 DEF Prune, End
<1>10. CASE \E p \in Parts : RestoreFiles(p)
  BY <1>10 DEF RestoreFiles, RestoreStep, AfterRestore, JobGoto
<1>11. CASE JobFault
  <2>1. faults' \in Nat
    BY <1>11 DEF JobFault
  <2>2. job' = [job EXCEPT !.slot = None]
    BY <1>11 DEF JobFault, StepFailed, End
  <2>3. job' \in Job
    BY <2>2, SlotTyped
  <2>4. jpc' \in {"idle"} \cup ForwardSteps \cup RollbackSteps /\ outcome' \in Outcomes
    BY <1>11 DEF JobFault, StepFailed, End
  <2> QED
    BY <1>11, <2>1, <2>3, <2>4, UnwatchedTyped DEF JobFault
<1>12. CASE Die
  <2>1. faults' \in Nat
    BY <1>12 DEF Die
  <2>2. job' \in Job
    BY <1>12, SlotTyped DEF Die, End
  <2>3. script' \in [Slots -> ScriptSteps \cup {"idle", "ok", "failed"}]
    BY <1>12, UnwatchedTyped DEF Die
  <2> QED
    BY <1>12, <2>1, <2>2, <2>3 DEF Die, End
<1>13. CASE \E i \in Images : BuildAndPush(i)
  BY <1>13 DEF BuildAndPush, JobGoto
<1>14. CASE \E i \in Images : Point(i)
  BY <1>14 DEF Point, JobGoto
<1>15. CASE \E i \in Images : PointBack(i)
  BY <1>15 DEF PointBack, JobGoto
<1>16. CASE \E i \in Images : Expire(i)
  <2>1. PICK i \in Images : Expire(i)
    BY <1>16
  <2>2. ecr[i] \in Seq(Releases) /\ ecr[i] # <<>>
    BY <2>1 DEF Expire
  <2>3. Tail(ecr[i]) \in Seq(Releases)
    BY <2>2, HeadTailProperties
  <2>4. ecr' \in [Images -> Seq(Releases)]
    BY <2>1, <2>3 DEF Expire
  <2> QED
    BY <2>1, <2>4 DEF Expire
<1>17. CASE \E s \in Slots : BoxStep(s) \/ BoxFault(s)
  <2>1. PICK s \in Slots : BoxStep(s) \/ BoxFault(s)
    BY <1>17
  <2>2. /\ UNCHANGED <<repoVars, awsVars, pending, job, jpc, outcome, runs>>
        /\ faults' \in Nat
    BY <2>1 DEF BoxStep, BoxSync, BoxReadParams, BoxRefreshEnv, BoxPull, BoxRunApi,
                BoxMigrate, BoxBuild, BoxUp, BoxFault
  <2>3. /\ script' \in [Slots -> ScriptSteps \cup {"idle", "ok", "failed"}]
        /\ boxFiles' \in FileSets
    BY <2>1 DEF BoxStep, BoxSync, BoxReadParams, BoxRefreshEnv, BoxPull, BoxRunApi,
                BoxMigrate, BoxBuild, BoxUp, BoxFault, Begins, ScriptGoto, ScriptEnds
  <2>4. /\ NothingRead \in Reads
        /\ [NothingRead EXCEPT !.env = ssm] \in Reads
        /\ [NothingRead EXCEPT !.env = env] \in Reads
        /\ [env |-> env, files |-> boxFiles] \in Reads
    BY ReadsTyped DEF TypeOK
  <2> HIDE DEF NothingRead, Reads, Targets, FileSets
  <2>5. read' \in [Slots -> Reads]
    BY <2>1, <2>4 DEF BoxStep, BoxSync, BoxReadParams, BoxRefreshEnv, BoxPull, BoxRunApi,
                BoxMigrate, BoxBuild, BoxUp, BoxFault, Begins, Forget
  <2>6. env' \in Targets /\ stack' \in [images : Targets, files : FileSets]
    <3>1. read[s].env \in Targets /\ read[s].files \in FileSets
      BY DEF Reads
    <3> QED
      BY <2>1, <3>1 DEF BoxStep, BoxSync, BoxReadParams, BoxRefreshEnv, BoxPull, BoxRunApi,
                BoxMigrate, BoxBuild, BoxUp, BoxFault
  <2>7. applied' \subseteq Commits
    <3>1. \A c : Known(c) \subseteq Commits
      BY DEF Known
    <3> QED
      BY <2>1, <3>1 DEF BoxStep, BoxSync, BoxReadParams, BoxRefreshEnv, BoxPull, BoxRunApi,
                BoxMigrate, BoxBuild, BoxUp, BoxFault
  <2> QED
    BY <2>2, <2>3, <2>5, <2>6, <2>7
<1>23. CASE UNCHANGED vars
  BY <1>23 DEF vars, boundVars, Healthy
<1> QED
  BY <1>1, <1>2, <1>3, <1>4, <1>5, <1>6, <1>7, <1>8, <1>9, <1>10, <1>11, <1>12, <1>13, <1>14, <1>15, <1>16, <1>17, <1>23 DEF Next, JobStep

LEMMA WithinHeadStep ==
  ASSUME TypeOK, WithinHead, TargetOK, [Next]_vars
  PROVE  WithinHead'
<1> USE DeployAssumption DEF TypeOK, WithinHead, TargetOK, Pushed, Commits, Releases, Targets, FileSets, Reads, FilesOf, NothingRead, Job, NoJob, Unset, Images, AfterJobStep, AfterBoxStep, repoVars, awsVars, jobVars, boxVars, boundVars
<1>1. CASE Push
  <2>1. Pushed \subseteq Pushed' /\ head' \in Pushed'
    BY <1>1 DEF Push
  <2> QED
    BY <1>1, <2>1 DEF Push
<1>2. CASE Start \/ StartByHand
  <2>1. /\ job'.commit \in Pushed \cup {None} /\ job'.before \in Pushed \cup {None}
        /\ job'.prev = Unset /\ pending' \in {pending, None}
        /\ UNCHANGED <<repoVars, awsVars, boxVars>>
    <3>1. PICK c \in 1..head, b \in Pushed \cup {None} :
            job'.commit = c /\ job'.before = b /\ job'.prev = Unset
      BY <1>2, Beginning
    <3>2. c \in Pushed
      OBVIOUS
    <3> QED
      BY <1>2, <3>1, <3>2, Beginning
  <2> QED
    BY <2>1
<1>4. CASE RecordPrevious
  BY <1>4 DEF RecordPrevious
<1>5. CASE \E p \in Parts : SyncFiles(p)
  BY <1>5 DEF SyncFiles, JobGoto, Parts
<1>6. CASE Send
  BY <1>6 DEF Send, Clear
<1>7. CASE Wait
  BY <1>7 DEF Wait, StepFailed, End
<1>8. CASE Verify
  BY <1>8 DEF Verify, StepFailed, End, JobGoto
<1>9. CASE Prune
  BY <1>9 DEF Prune, End
<1>10. CASE \E p \in Parts : RestoreFiles(p)
  BY <1>10 DEF RestoreFiles, RestoreStep, AfterRestore, JobGoto
<1>11. CASE JobFault
  BY <1>11 DEF JobFault, StepFailed, End
<1>12. CASE Die
  BY <1>12 DEF Die, End
<1>13. CASE \E i \in Images : BuildAndPush(i)
  BY <1>13 DEF BuildAndPush, JobGoto
<1>14. CASE \E i \in Images : Point(i)
  BY <1>14 DEF Point, JobGoto
<1>15. CASE \E i \in Images : PointBack(i)
  BY <1>15 DEF PointBack, JobGoto
<1>16. CASE \E i \in Images : Expire(i)
  BY <1>16 DEF Expire
<1>17. CASE \E s \in Slots : BoxSync(s)
  BY <1>17 DEF BoxSync, ScriptGoto, ScriptEnds
<1>18. CASE \E s \in Slots : BoxRefreshEnv(s)
  BY <1>18 DEF BoxRefreshEnv, Forget, ScriptGoto, ScriptEnds
<1>19. CASE \E s \in Slots : BoxPull(s)
  BY <1>19 DEF BoxPull, ScriptGoto, ScriptEnds
<1>20. CASE \E s \in Slots : BoxMigrate(s)
  BY <1>20 DEF BoxMigrate, Forget, ScriptGoto, ScriptEnds
<1>21. CASE \E s \in Slots : BoxUp(s)
  BY <1>21 DEF BoxUp, Forget, ScriptGoto, ScriptEnds
<1>22. CASE \E s \in Slots : BoxFault(s)
  BY <1>22 DEF BoxFault, Forget, ScriptGoto, ScriptEnds
<1>24. CASE \E s \in Slots : BoxReadParams(s)
  BY <1>24 DEF BoxReadParams, Begins, ScriptGoto, NothingRead
<1>25. CASE \E s \in Slots : BoxRunApi(s)
  BY <1>25 DEF BoxRunApi, Begins, ScriptGoto, NothingRead
<1>26. CASE \E s \in Slots : BoxBuild(s)
  BY <1>26 DEF BoxBuild, Begins, ScriptGoto, NothingRead
<1>23. CASE UNCHANGED vars
  BY <1>23 DEF vars, boundVars, Healthy
<1> QED
  BY <1>1, <1>2, <1>4, <1>5, <1>6, <1>7, <1>8, <1>9, <1>10, <1>11, <1>12, <1>13, <1>14, <1>15, <1>16, <1>17, <1>18, <1>19, <1>20, <1>21, <1>22, <1>23, <1>24, <1>25, <1>26 DEF Next, JobStep, BoxStep

LEMMA PrevStep ==
  ASSUME TypeOK, WithinHead, PrevOK, RedLeavesTarget, [Next]_vars
  PROVE  (PrevOK /\ RedLeavesTarget)'
<1> USE DeployAssumption DEF TypeOK, PrevOK, RedLeavesTarget, RollbackPossible, Armed, Job, NoJob, Unset, Images, ForwardSteps, RollbackSteps, AfterJobStep, AfterBoxStep, repoVars, awsVars, jobVars, boxVars, boundVars
<1>1. CASE Push
  BY <1>1 DEF Push
<1>2. CASE Start
  BY <1>2, Beginning
<1>3. CASE StartByHand
  BY <1>3, Beginning
<1>4. CASE RecordPrevious
  BY <1>4 DEF RecordPrevious
<1>5. CASE \E p \in Parts : SyncFiles(p)
  <2>1. /\ jpc \in {"sync_config", "sync_mlflow"} /\ jpc' \in {"sync_mlflow", "point_api"}
        /\ UNCHANGED <<job, ssm>>
    BY <1>5 DEF SyncFiles, JobGoto
  <2> QED
    BY <2>1
<1>6. CASE Send
  BY <1>6 DEF Send, Clear
<1>7. CASE Wait
  BY <1>7 DEF Wait, StepFailed, End
<1>8. CASE Verify
  BY <1>8 DEF Verify, StepFailed, End, JobGoto
<1>9. CASE Prune
  BY <1>9 DEF Prune, End
<1>10. CASE \E p \in Parts : RestoreFiles(p)
  BY <1>10 DEF RestoreFiles, RestoreStep, AfterRestore, JobGoto
<1>11. CASE JobFault
  BY <1>11 DEF JobFault, StepFailed, End
<1>12. CASE Die
  BY <1>12 DEF Die, End
<1>13. CASE \E i \in Images : BuildAndPush(i)
  BY <1>13 DEF BuildAndPush, JobGoto
<1>14. CASE \E i \in Images : Point(i)
  BY <1>14 DEF Point, JobGoto
<1>15. CASE \E i \in Images : PointBack(i)
  BY <1>15 DEF PointBack, JobGoto
<1>16. CASE \E i \in Images : Expire(i)
  BY <1>16 DEF Expire
<1>17. CASE \E s \in Slots : BoxSync(s)
  BY <1>17 DEF BoxSync, ScriptGoto, ScriptEnds
<1>18. CASE \E s \in Slots : BoxRefreshEnv(s)
  BY <1>18 DEF BoxRefreshEnv, Forget, ScriptGoto, ScriptEnds
<1>19. CASE \E s \in Slots : BoxPull(s)
  BY <1>19 DEF BoxPull, ScriptGoto, ScriptEnds
<1>20. CASE \E s \in Slots : BoxMigrate(s)
  BY <1>20 DEF BoxMigrate, Forget, ScriptGoto, ScriptEnds
<1>21. CASE \E s \in Slots : BoxUp(s)
  BY <1>21 DEF BoxUp, Forget, ScriptGoto, ScriptEnds
<1>22. CASE \E s \in Slots : BoxFault(s)
  BY <1>22 DEF BoxFault, Forget, ScriptGoto, ScriptEnds
<1>24. CASE \E s \in Slots : BoxReadParams(s)
  BY <1>24 DEF BoxReadParams, Begins, ScriptGoto, NothingRead
<1>25. CASE \E s \in Slots : BoxRunApi(s)
  BY <1>25 DEF BoxRunApi, Begins, ScriptGoto, NothingRead
<1>26. CASE \E s \in Slots : BoxBuild(s)
  BY <1>26 DEF BoxBuild, Begins, ScriptGoto, NothingRead
<1>23. CASE UNCHANGED vars
  BY <1>23 DEF vars, boundVars, Healthy
<1> QED
  BY <1>1, <1>2, <1>3, <1>4, <1>5, <1>6, <1>7, <1>8, <1>9, <1>10, <1>11, <1>12, <1>13, <1>14, <1>15, <1>16, <1>17, <1>18, <1>19, <1>20, <1>21, <1>22, <1>23, <1>24, <1>25, <1>26 DEF Next, JobStep, BoxStep

LEMMA TargetStep ==
  ASSUME TypeOK, WithinHead, TargetOK, [Next]_vars
  PROVE  TargetOK'
<1> USE DeployAssumption DEF TypeOK, TargetOK, Green, Commits, Releases, Targets, FileSets, FilesOf, Parts, Armed, Job, NoJob, Images, ForwardSteps, RollbackSteps, AfterJobStep, AfterBoxStep, repoVars, awsVars, jobVars, boxVars, boundVars
<1>1. CASE Push
  BY <1>1 DEF Push
<1>2. CASE Start
  BY <1>2, Beginning
<1>3. CASE StartByHand
  BY <1>3, Beginning
<1>4. CASE RecordPrevious
  BY <1>4 DEF RecordPrevious
<1>5. CASE \E p \in Parts : SyncFiles(p)
  <2>1. PICK p \in Parts : SyncFiles(p)
    BY <1>5
  <2>2. s3 \in [Parts -> Releases] /\ UNCHANGED <<job, ssm>>
    BY <2>1 DEF SyncFiles, JobGoto
  <2>3. CASE p = "config"
    BY <2>1, <2>2, <2>3 DEF SyncFiles, JobGoto
  <2>4. CASE p = "mlflow"
    <3>1. jpc' = "point_api" /\ s3["config"] = job.commit /\ s3'["mlflow"] = job.commit
          /\ s3'["config"] = s3["config"] /\ s3' \in [Parts -> Releases]
      BY <2>1, <2>2, <2>4 DEF SyncFiles, JobGoto
    <3>2. s3' = FilesOf(job'.commit)
      BY <2>2, <3>1
    <3>3. job'.commit \in Commits
      BY <2>1, <2>2, <2>4 DEF SyncFiles
    <3> QED
      BY <3>1, <3>2, <3>3
  <2> QED
    BY <2>3, <2>4
<1>6. CASE Send
  BY <1>6 DEF Send, Clear
<1>7. CASE Wait
  BY <1>7 DEF Wait, StepFailed, End
<1>8. CASE Verify
  BY <1>8 DEF Verify, StepFailed, End, JobGoto
<1>9. CASE Prune
  BY <1>9 DEF Prune, End
<1>10. CASE \E p \in Parts : RestoreFiles(p)
  BY <1>10 DEF RestoreFiles, RestoreStep, AfterRestore, JobGoto
<1>11. CASE JobFault
  BY <1>11 DEF JobFault, StepFailed, End
<1>12. CASE Die
  BY <1>12 DEF Die, End
<1>13. CASE \E i \in Images : BuildAndPush(i)
  BY <1>13 DEF BuildAndPush, JobGoto
<1>14. CASE \E i \in Images : Point(i)
  BY <1>14 DEF Point, JobGoto
<1>15. CASE \E i \in Images : PointBack(i)
  BY <1>15 DEF PointBack, JobGoto
<1>16. CASE \E i \in Images : Expire(i)
  BY <1>16 DEF Expire
<1>17. CASE \E s \in Slots : BoxSync(s)
  BY <1>17 DEF BoxSync, ScriptGoto, ScriptEnds
<1>18. CASE \E s \in Slots : BoxRefreshEnv(s)
  BY <1>18 DEF BoxRefreshEnv, Forget, ScriptGoto, ScriptEnds
<1>19. CASE \E s \in Slots : BoxPull(s)
  BY <1>19 DEF BoxPull, ScriptGoto, ScriptEnds
<1>20. CASE \E s \in Slots : BoxMigrate(s)
  BY <1>20 DEF BoxMigrate, Forget, ScriptGoto, ScriptEnds
<1>21. CASE \E s \in Slots : BoxUp(s)
  BY <1>21 DEF BoxUp, Forget, ScriptGoto, ScriptEnds
<1>22. CASE \E s \in Slots : BoxFault(s)
  BY <1>22 DEF BoxFault, Forget, ScriptGoto, ScriptEnds
<1>24. CASE \E s \in Slots : BoxReadParams(s)
  BY <1>24 DEF BoxReadParams, Begins, ScriptGoto, NothingRead
<1>25. CASE \E s \in Slots : BoxRunApi(s)
  BY <1>25 DEF BoxRunApi, Begins, ScriptGoto, NothingRead
<1>26. CASE \E s \in Slots : BoxBuild(s)
  BY <1>26 DEF BoxBuild, Begins, ScriptGoto, NothingRead
<1>23. CASE UNCHANGED vars
  BY <1>23 DEF vars, boundVars, Healthy
<1> QED
  BY <1>1, <1>2, <1>3, <1>4, <1>5, <1>6, <1>7, <1>8, <1>9, <1>10, <1>11, <1>12, <1>13, <1>14, <1>15, <1>16, <1>17, <1>18, <1>19, <1>20, <1>21, <1>22, <1>23, <1>24, <1>25, <1>26 DEF Next, JobStep, BoxStep

\* A job that neither watches its script nor has reported claims nothing.
LEMMA Elsewhere ==
  ASSUME ~Waiting', ~Deployed'
  PROVE  BoxOK'
  BY DEF BoxOK, Following, Deployed, Reported, Green

\* A step of a script takes the box nearer to what the run has set, never back.
LEMMA Nearer ==
  ASSUME TypeOK, TargetOK, NEW s \in Slots, ScriptOK(s), BoxStep(s) \/ BoxFault(s)
  PROVE  /\ UNCHANGED <<job, jpc, outcome, s3, ssm, badImages, badFiles>>
         /\ \A t \in Slots \ {s} : script'[t] = script[t] /\ read'[t] = read[t]
         /\ boxFiles = s3 => boxFiles' = s3
         /\ env = ssm => env' = ssm
         /\ boxFiles = s3 /\ env = ssm /\ stack.images = ssm /\ stack.files = s3
               => stack'.images = ssm /\ stack'.files = s3
         /\ applied \subseteq applied'
<1> USE DEF AfterBoxStep, repoVars, awsVars, jobVars, boundVars, TypeOK, ScriptOK, At, ScriptGoto, ScriptEnds, Begins, Forget
<1>1. CASE BoxSync(s)
  BY <1>1 DEF BoxSync
<1>2. CASE BoxReadParams(s)
  BY <1>2 DEF BoxReadParams
<1>3. CASE BoxRefreshEnv(s)
  BY <1>3 DEF BoxRefreshEnv
<1>4. CASE BoxPull(s)
  BY <1>4 DEF BoxPull
<1>5. CASE BoxRunApi(s)
  BY <1>5 DEF BoxRunApi
<1>6. CASE BoxMigrate(s)
  BY <1>6 DEF BoxMigrate
<1>7. CASE BoxBuild(s)
  BY <1>7 DEF BoxBuild
<1>8. CASE BoxUp(s)
  <2>1. read[s].env = ssm /\ read[s].files = s3
    BY <1>8 DEF BoxUp
  <2>2. stack'.images = ssm /\ stack'.files = s3
    BY <1>8, <2>1 DEF BoxUp
  <2> QED
    BY <1>8, <2>2 DEF BoxUp
<1>9. CASE BoxFault(s)
  BY <1>9 DEF BoxFault
<1> QED
  BY <1>1, <1>2, <1>3, <1>4, <1>5, <1>6, <1>7, <1>8, <1>9 DEF BoxStep

\* The script that took the step is as far as its label says.
LEMMA OwnStep ==
  ASSUME TypeOK, TargetOK, NEW s \in Slots, ScriptOK(s), BoxStep(s) \/ BoxFault(s)
  PROVE  ScriptOK(s)'
<1> USE DEF AfterBoxStep, awsVars, jobVars, TypeOK, ScriptOK, At, ScriptGoto, ScriptEnds, Begins, Forget
<1>1. CASE BoxSync(s)
  BY <1>1 DEF BoxSync
<1>2. CASE BoxReadParams(s)
  BY <1>2 DEF BoxReadParams, NothingRead
<1>3. CASE BoxRefreshEnv(s)
  BY <1>3 DEF BoxRefreshEnv
<1>4. CASE BoxPull(s)
  BY <1>4 DEF BoxPull
<1>5. CASE BoxRunApi(s)
  BY <1>5 DEF BoxRunApi, NothingRead
<1>6. CASE BoxMigrate(s)
  BY <1>6 DEF BoxMigrate, TargetOK, Images
<1>7. CASE BoxBuild(s)
  BY <1>7 DEF BoxBuild
<1>8. CASE BoxUp(s)
  BY <1>8 DEF BoxUp
<1>9. CASE BoxFault(s)
  BY <1>9 DEF BoxFault
<1> QED
  BY <1>1, <1>2, <1>3, <1>4, <1>5, <1>6, <1>7, <1>8, <1>9 DEF BoxStep

\* No step on the box takes back what a job has been told, or has reported.
LEMMA ScriptStepOK ==
  ASSUME TypeOK, TargetOK, BoxOK, NEW s \in Slots, BoxStep(s) \/ BoxFault(s)
  PROVE  BoxOK'
<1>1. UNCHANGED <<job, jpc, outcome>>
  BY DEF BoxStep, BoxSync, BoxReadParams, BoxRefreshEnv, BoxPull, BoxRunApi, BoxMigrate,
         BoxBuild, BoxUp, BoxFault, AfterBoxStep, jobVars
<1>2. CASE ~Following
  BY <1>1, <1>2 DEF BoxOK, Following, Waiting, Deployed, Reported, Green
<1>3. CASE Following
  <2>1. \A t \in Slots : ScriptOK(t)
    BY <1>3 DEF BoxOK
  <2>2. /\ UNCHANGED <<job, jpc, outcome, s3, ssm, badImages, badFiles>>
        /\ \A t \in Slots \ {s} : script'[t] = script[t] /\ read'[t] = read[t]
        /\ boxFiles = s3 => boxFiles' = s3
        /\ env = ssm => env' = ssm
        /\ boxFiles = s3 /\ env = ssm /\ stack.images = ssm /\ stack.files = s3
              => stack'.images = ssm /\ stack'.files = s3
        /\ applied \subseteq applied'
    BY <2>1, Nearer
  <2>3. ScriptOK(s)'
    BY <2>1, OwnStep
  <2>4. ASSUME NEW t \in Slots \ {s}
        PROVE  ScriptOK(t)'
    BY <2>1, <2>2 DEF ScriptOK, At
  <2>5. job.clear /\ Deployed => BoxFacts /\ BoxFacts'
    BY <2>2 DEF BoxOK, BoxFacts
  <2>6. BoxFacts /\ BoxFacts' /\ Healthy => Healthy'
    BY <2>2 DEF BoxFacts, Healthy
  <2>7. Deployed' = Deployed /\ Waiting' = Waiting /\ Green' = Green /\ Reported' = Reported
    BY <1>1 DEF Deployed, Waiting, Green, Reported
  <2>8. job.clear /\ (jpc = "prune" \/ Reported) => Healthy'
    BY <2>5, <2>6 DEF BoxOK, Deployed
  <2> QED
    BY <1>1, <2>2, <2>3, <2>4, <2>5, <2>7, <2>8 DEF BoxOK, Following
<1> QED
  BY <1>2, <1>3

LEMMA BoxStepOK ==
  ASSUME TypeOK, WithinHead, TargetOK, BoxOK, [Next]_vars
  PROVE  BoxOK'
<1>1. CASE Push
  <2>1. /\ UNCHANGED <<ssm, s3, jobVars, boxVars>>
        /\ badImages' \subseteq badImages \cup {head + 1}
        /\ badFiles' \subseteq badFiles \cup {head + 1}
    BY <1>1 DEF Push, awsVars
  <2>2. Healthy => Healthy'
    BY <2>1, DeployAssumption DEF Healthy, WithinHead, Pushed, TypeOK, boxVars, Releases
  <2> QED
    BY <2>1, <2>2 DEF BoxOK, BoxFacts, ScriptOK, At, Following, Waiting, Deployed, Reported,
                      Green, jobVars, boxVars
<1>2. CASE Start \/ StartByHand
  BY <1>2, Beginning, Elsewhere DEF Waiting, Deployed, Reported
<1>3. CASE RecordPrevious
  BY <1>3, Elsewhere DEF RecordPrevious, Waiting, Deployed, Reported
<1>4. CASE \E p \in Parts : SyncFiles(p) \/ RestoreFiles(p)
  BY <1>4, Elsewhere DEF SyncFiles, RestoreFiles, AfterRestore, JobGoto, Waiting, Deployed,
                         Reported
<1>5. CASE Send
  <2>1. PICK s \in Slots : /\ script' = [script EXCEPT ![s] = "sync"]
                           /\ job' = [job EXCEPT !.slot = s, !.clear = Clear(s)]
    BY <1>5 DEF Send
  <2>2. Waiting' /\ ~Deployed'
    BY <1>5 DEF Send, Waiting, Deployed, Reported
  <2>3. job'.slot = s /\ (job'.clear => Clear(s))
    BY <2>1 DEF TypeOK, Job
  <2>4. job'.clear => \A t \in Slots : script'[t] \in {"idle", "sync"}
    BY <2>1, <2>3 DEF Clear, TypeOK
  <2>5. job'.clear => \A t \in Slots : ScriptOK(t)'
    BY <2>4 DEF ScriptOK, At
  <2> QED
    BY <2>2, <2>3, <2>5 DEF BoxOK, Following, Deployed, Reported, Green
<1>6. CASE Wait
  <2>1. CASE StepFailed
    BY <2>1, Elsewhere DEF StepFailed, End, Waiting, Deployed, Reported
  <2>2. CASE ~StepFailed
    <3>1. /\ jpc \in {"wait", "rb_wait"} /\ script[job.slot] = "ok"
          /\ script' = [script EXCEPT ![job.slot] = "idle"]
          /\ job' = [job EXCEPT !.slot = None]
          /\ jpc' = IF jpc = "wait" THEN "verify" ELSE "rb_verify"
          /\ UNCHANGED <<outcome, repoVars, awsVars, read, boxFiles, env, stack, applied>>
      BY <1>6, <2>2 DEF Wait, AfterJobStep
    <3>2. job.slot \in Slots /\ job'.clear = job.clear /\ job'.commit = job.commit
      BY <3>1 DEF BoxOK, Waiting, TypeOK, Job
    <3>3. ~Waiting' /\ jpc' # "prune" /\ ~Reported' /\ ~Green'
      BY <3>1 DEF Waiting, Reported, Green
    <3>4. job.clear => \A t \in Slots : ScriptOK(t)
      BY <3>1 DEF BoxOK, Following, Waiting
    <3>5. job.clear => BoxFacts'
      BY <3>1, <3>2, <3>4 DEF ScriptOK, At, BoxFacts, awsVars
    <3>6. job.clear /\ jpc' = "verify" => Known(job.commit) \subseteq applied
      BY <3>1, <3>2, <3>4 DEF ScriptOK, At
    <3>7. ASSUME job.clear, NEW t \in Slots
          PROVE  ScriptOK(t)'
      <4>1. script'[t] = script[t] \/ script'[t] = "idle"
        BY <3>1, <3>2 DEF TypeOK
      <4>2. jpc' # "wait"
        BY <3>1
      <4> QED
        BY <3>1, <3>4, <3>7, <4>1, <4>2 DEF ScriptOK, At, awsVars
    <3> QED
      BY <3>1, <3>2, <3>3, <3>5, <3>6, <3>7 DEF BoxOK, Following
  <2> QED
    BY <2>1, <2>2
<1>7. CASE Verify \/ Prune
  <2>1. CASE StepFailed
    BY <2>1, Elsewhere DEF StepFailed, End, Waiting, Deployed, Reported
  <2>2. CASE ~StepFailed
    <3>1. /\ jpc \in {"verify", "prune", "rb_verify"} /\ ~Waiting'
          /\ UNCHANGED <<s3, ssm, badImages, badFiles, boxVars>>
          /\ job'.clear = job.clear /\ job'.commit = job.commit
      BY <1>7, <2>2 DEF Verify, Prune, AfterJobStep, JobGoto, End, awsVars, repoVars,
                        Waiting, TypeOK, Job
    <3>2. \/ jpc = "verify" /\ Healthy /\ jpc' = "prune"
          \/ jpc = "rb_verify" /\ Healthy /\ jpc' = "idle" /\ outcome' = "rolled_back"
          \/ jpc = "prune" /\ jpc' = "idle" /\ outcome' = "green"
      BY <1>7, <2>2 DEF Verify, Prune, JobGoto, End
    <3>3. Deployed /\ jpc' # "wait" /\ (jpc' = "prune" \/ Green' => jpc # "rb_verify")
      BY <3>1, <3>2 DEF Deployed, Green
    <3>4. job.clear => BoxFacts' /\ \A t \in Slots : ScriptOK(t)'
      <4>1. job.clear => BoxFacts /\ \A t \in Slots : ScriptOK(t)
        BY <3>3 DEF BoxOK, Following
      <4>2. job.clear => BoxFacts'
        BY <3>1, <4>1 DEF BoxFacts, boxVars
      <4>3. ASSUME job.clear, NEW t \in Slots
            PROVE  ScriptOK(t)'
        BY <3>1, <3>3, <4>1, <4>3 DEF ScriptOK, At, boxVars
      <4> QED
        BY <4>2, <4>3
    <3>5. job.clear => Healthy'
      <4>1. Healthy => Healthy'
        BY <3>1, HealthyKept DEF boxVars
      <4> QED
        BY <3>2, <4>1 DEF BoxOK
    <3>6. job.clear /\ (jpc' = "prune" \/ Green') => Known(job.commit) \subseteq applied'
      BY <3>1, <3>2, <3>3 DEF BoxOK, boxVars
    <3>7. jpc' # "verify"
      BY <3>2
    <3> QED
      BY <3>1, <3>4, <3>5, <3>6, <3>7 DEF BoxOK, Following
  <2> QED
    BY <2>1, <2>2
<1>8. CASE JobFault \/ Die
  BY <1>8, Elsewhere DEF JobFault, Die, StepFailed, End, Waiting, Deployed, Reported
<1>9. CASE \E i \in Images : BuildAndPush(i) \/ Point(i) \/ PointBack(i)
  BY <1>9, Elsewhere DEF BuildAndPush, Point, PointBack, JobGoto, Waiting, Deployed, Reported
<1>10. CASE \E s \in Slots : BoxStep(s) \/ BoxFault(s)
  BY <1>10, ScriptStepOK
<1>11. CASE (\E i \in Images : Expire(i)) \/ UNCHANGED vars
  <2>1. UNCHANGED <<ssm, s3, jobVars, boxVars, badImages, badFiles>>
    BY <1>11 DEF Expire, vars, awsVars, repoVars
  <2>2. Healthy => Healthy'
    BY <2>1, HealthyKept DEF boxVars
  <2> QED
    BY <2>1, <2>2 DEF BoxOK, BoxFacts, ScriptOK, At, Following, Waiting, Deployed, Reported,
                      Green, jobVars, boxVars
<1> QED
  BY <1>1, <1>2, <1>3, <1>4, <1>5, <1>6, <1>7, <1>8, <1>9, <1>10, <1>11 DEF Next, JobStep

-----------------------------------------------------------------------------
(* The inductive invariant and what follows from it. *)

\* The first state, with or without a release brought up by hand.
LEMMA Initially == Init => IInv
<1> SUFFICES ASSUME Init PROVE IInv
  OBVIOUS
<1> USE DeployAssumption DEF Init, Images, NoJob, Unset, ByHand, FilesOf
<1>1. TypeOK
  <2>1. ecr \in [Images -> Seq(Releases)]
    <3>1. <<>> \in Seq(Releases) /\ 0 \in Releases
      BY DEF Releases
    <3>2. <<0>> \in Seq(Releases)
      BY <3>1
    <3> QED
      BY <3>1, <3>2
  <2>2. ssm \in Targets /\ job \in Job /\ s3 \in FileSets
    BY DEF Targets, Releases, Job, Commits, FileSets
  <2>3. read \in [Slots -> Reads]
    BY ReadsTyped
  <2> QED
    BY <2>1, <2>2, <2>3 DEF TypeOK, Releases, Commits, ForwardSteps, RollbackSteps, Outcomes,
                      ScriptSteps
<1>2. WithinHead
  BY DEF WithinHead, Pushed, NothingRead
<1>3. PrevOK /\ RedLeavesTarget /\ TargetOK
  BY DEF PrevOK, RedLeavesTarget, TargetOK, Green
<1>4. BoxOK
  BY DEF BoxOK, Following, Waiting, Deployed, Reported, Green
<1> QED
  BY <1>1, <1>2, <1>3, <1>4 DEF IInv

\* Every step keeps the invariant.
LEMMA Inductive == IInv /\ [Next]_vars => IInv'
  BY TypesStep, WithinHeadStep, PrevStep, TargetStep, BoxStepOK DEF IInv

\* Where a run has reported, the box is as far as BoxOK says.
LEMMA Truthful == IInv => ReportIsTrue
<1> SUFFICES ASSUME IInv, Reported, job.clear PROVE ReportIsTrue
  BY DEF ReportIsTrue, Reported
<1>1. BoxFacts /\ Healthy
  BY DEF IInv, BoxOK, Deployed
<1>2. Green => /\ s3 = FilesOf(job.commit) /\ Known(job.commit) \subseteq applied
               /\ \A i \in Images : ssm[i] = job.commit
  BY DEF IInv, TargetOK, BoxOK
<1> QED
  BY <1>1, <1>2 DEF ReportIsTrue, BoxFacts, Green

\* Every state of the delivery model is well typed: no step, however a run was
\* interrupted, leaves a variable with a value the code could not give it.
THEOREM DeployTypes == Spec => []TypeOK
<1>1. IInv => TypeOK
  BY DEF IInv
<1> QED
  BY Initially, Inductive, <1>1, PTL DEF Spec

\* A green run, and a rollback that said it worked, left the box serving what
\* the parameters name, if no older script was past its first command when the
\* run started its own; older ones that were not may go on at any pace.
THEOREM ReportSafety == Spec => []ReportIsTrue
  BY Initially, Inductive, Truthful, PTL DEF Spec

\* A run that ends red without a rollback has not touched the rollback target.
THEOREM TargetSafety == Spec => []RedLeavesTarget
<1>1. IInv => RedLeavesTarget
  BY DEF IInv
<1> QED
  BY Initially, Inductive, <1>1, PTL DEF Spec

===============================================================================
