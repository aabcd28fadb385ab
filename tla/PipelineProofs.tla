--------------------------- MODULE PipelineProofs ---------------------------
(***************************************************************************)
(* What is proved of Pipeline for every set of customers, every sequence   *)
(* of CSVs and seeds and every bound: its types, that what a repro         *)
(* evaluates is unseen, and that what DVC calls clean is current.          *)
(*                                                                         *)
(* DVC knows a stage by what it recorded when the stage last succeeded, so *)
(* the invariant is about those records.  Each entry of the cache says     *)
(* what the stage computes from what it declares (Locked); that the        *)
(* declaration names all the stage reads is what has to be shown, and it   *)
(* needs what the stages before it in the same repro have established      *)
(* (ReproInv) and what the command has written so far (Progress).          *)
(***************************************************************************)
EXTENDS Pipeline, FiniteSetTheorems, SequenceTheorems, TLAPS

\* The steps of each stage.
StepsOf == [ingest |-> {"merge", "seed", "ingest_receipt"}, validate |-> {"validate"},
            split |-> {"split"}, features |-> {"features"},
            train |-> {"train", "train_receipt"},
            calibrate |-> {"evidence", "log_model", "calibrate_receipt"},
            threshold |-> {"screen", "policy"},
            evaluate |-> {"score", "eval_receipt", "mirror"},
            error_analysis |-> {"analyse"}]

\* Which stage a command is at, and how far a repro has come.
Running == pc \notin {"idle", "next"}

Control ==
  /\ goal \in 0..9 /\ at \in 0..(goal + 1)
  /\ pc = "idle" => at = 0
  /\ pc = "next" => at > 0
  /\ Running => /\ pc \in StepsOf[cmd.stage]
                /\ cmd.dvc => /\ at \in 1..goal /\ cmd.stage = Stages[at]
                              /\ cmd.run = None /\ cmd.version = None
                /\ ~cmd.dvc => at = 0

\* The tables never have a customer the CSV in place has not: a CSV is replaced by
\* a larger one only.
InPlace ==
  /\ inp.csv \in DOMAIN Csvs /\ inp.seed \in DOMAIN TestOf
  /\ raw \subseteq Csv /\ pool \subseteq Csv

\* No later version of a run comes before it.
FirstOfRun(v) ==
  \A u \in DOMAIN versions : fits[versions[u]].run = fits[versions[v]].run => v <= u

\* Version v is the one that was minted from run r when r had only one.
Resolved(v, r) ==
  v \in DOMAIN versions /\ fits[versions[v]].run = r /\ FirstOfRun(v)

\* What the command that is running has written so far.
Progress ==
  /\ pc = "seed" => raw = Csv
  /\ pc = "ingest_receipt" => raw = Csv /\ pool = Csv
  /\ pc = "train_receipt" =>
       Partitioned /\ Len(runs) > 0 /\ runs[Len(runs)] = [dev |-> Dev, tuning |-> inp.tuning]
  /\ pc = "log_model" => Partitioned /\ CalibrationRun # None
  /\ pc = "calibrate_receipt" =>
       /\ Partitioned /\ CalibrationRun # None
       /\ ev[CalibrationRun].tag \in DOMAIN fits
       /\ fits[ev[CalibrationRun].tag] = Fit(CalibrationRun)
  /\ pc \in {"eval_receipt", "mirror"} =>
       /\ Partitioned /\ Len(evals) > 0
       /\ evals[Len(evals)].policy = file.policy
       /\ evals[Len(evals)].feats = file.feats
       /\ evals[Len(evals)].sealed = Sealed
       /\ cmd.dvc => Resolved(evals[Len(evals)].version, file.cal.run)
  /\ pc = "mirror" => file.eval = Len(evals)

\* A run of a stage that succeeded wrote what follows from its declared deps D and
\* parameters P alone.
LockedIngest(P, O) == /\ P.csv \in DOMAIN Csvs /\ O.ingest = Csvs[P.csv]
                      /\ O.ingest \subseteq raw /\ O.ingest \subseteq pool
LockedSplit(D, P, O) == O.split = [test |-> TestOf[P.seed][D.valid],
                                   dev |-> D.valid \ TestOf[P.seed][D.valid]]
LockedTrain(D, P, O) ==
  /\ O.train \in DOMAIN runs
  /\ runs[O.train] = [dev |-> D.feats \cap D.split.dev, tuning |-> P.tuning]
LockedCalibrate(D, P, O) ==
  /\ O.cal.run = D.train /\ O.cal.model \in DOMAIN fits
  /\ fits[O.cal.model] =
       [run |-> D.train, dev |-> D.feats \cap D.split.dev, calib |-> P.calib]
LockedEvaluate(D, O) ==
  /\ O.eval \in DOMAIN evals
  /\ evals[O.eval].policy = D.policy /\ evals[O.eval].feats = D.feats
  /\ evals[O.eval].sealed = D.feats \cap D.split.test
  /\ Resolved(evals[O.eval].version, D.cal.run)

Locked(s, D, P, O) ==
  /\ s = "ingest" => LockedIngest(P, O)
  /\ s = "validate" => O.valid = D.ingest
  /\ s = "split" => LockedSplit(D, P, O)
  /\ s = "features" => O.feats = D.valid
  /\ s = "train" => LockedTrain(D, P, O)
  /\ s = "calibrate" => LockedCalibrate(D, P, O)
  /\ s = "threshold" => O.policy = P.costs
  /\ s = "evaluate" => LockedEvaluate(D, O)
  /\ s = "error_analysis" => Resolved(O.ea.version, D.cal.run)

CacheInv == \A c \in cache : Locked(c.stage, c.sig.files, c.sig.params, c.outs)

\* What the stages a repro is past have established.
ReproInv ==
  /\ at > 1 => file.ingest = raw /\ pool = raw
  /\ at > 2 => file.valid = raw
  /\ at > 5 => file.train \in DOMAIN runs /\ runs[file.train].dev = Dev
  /\ at > 6 => file.cal.run = file.train

SplitInv == file.split # None => file.split.dev \cap file.split.test = {}

\* The champion's evaluation is of the champion, and what was compared with it was
\* scored on the same rows.
ChampInv ==
  champ.version # None =>
    champ.eval \in DOMAIN evals /\ evals[champ.eval].version = champ.version
AgainstInv ==
  \A e \in DOMAIN evals : evals[e].against.version # None =>
    /\ evals[e].against.eval \in DOMAIN evals
    /\ evals[evals[e].against.eval].version = evals[e].against.version
    /\ evals[evals[e].against.eval].sealed = evals[e].sealed

Inv == /\ TypeOK /\ Control /\ InPlace /\ Progress /\ CacheInv /\ ReproInv /\ SplitInv
       /\ ChampInv /\ AgainstInv /\ DvcSealedIsUnseen


---------------------------------------------------------------------------
(* The types, by the parts of the state.                                   *)

TypeInputs == inp \in [Inputs -> Nat] /\ raw \subseteq Customers /\ pool \subseteq Customers
TypeFiles == DOMAIN file = Files /\ \A f \in Files : file[f] \in Opt(Content[f])
TypeCache == \A c \in cache : /\ c.stage \in DOMAIN OutsOf
                              /\ \A f \in OutsOf[c.stage] : c.outs[f] \in Opt(Content[f])
TypeRuns == runs \in Seq([dev : SUBSET Customers, tuning : Nat])
TypeEv == ev \in [DOMAIN runs ->
            [fit : Opt(Fitted), tag : Opt(DOMAIN fits),
             screen : Opt([model : DOMAIN fits, of : Fitted, passed : BOOLEAN])]]
TypeFits == fits \in Seq(Fitted)
TypeVersions == versions \in Seq(DOMAIN fits)
TypeEvals == evals \in Seq(Evaluation)
TypeChamp == champ \in [version : Opt(DOMAIN versions), eval : Opt(DOMAIN evals)]
TypeCommand ==
  /\ pc \in {"idle", "next", "merge", "seed", "ingest_receipt", "validate", "split",
             "features", "train", "train_receipt", "evidence", "log_model",
             "calibrate_receipt", "screen", "policy", "score", "eval_receipt",
             "mirror", "analyse"}
  /\ cmd \in [stage : DOMAIN OutsOf, dvc : BOOLEAN, run : Opt(DOMAIN runs),
              version : Opt(DOMAIN versions)]
  /\ goal \in 0..9 /\ at \in 0..10 /\ used \in Nat

TypeStore == TypeRuns /\ TypeEv /\ TypeFits /\ TypeVersions /\ TypeEvals /\ TypeChamp

LEMMA TypeParts ==
  TypeOK <=> TypeInputs /\ TypeFiles /\ TypeCache /\ TypeStore /\ TypeCommand
BY DEF TypeOK, TypeInputs, TypeFiles, TypeCache, TypeStore, TypeCommand, TypeRuns, TypeEv,
       TypeFits, TypeVersions, TypeEvals, TypeChamp

\* The files, the stages and what a stage writes.
LEMMA StageFacts ==
  /\ DOMAIN OutsOf = {"ingest", "validate", "split", "features", "train", "calibrate",
                      "threshold", "evaluate", "error_analysis"}
  /\ \A i \in 1..9 : Stages[i] \in DOMAIN OutsOf
  /\ \A s \in DOMAIN OutsOf : OutsOf[s] \subseteq Files
<1>1. DOMAIN OutsOf = {"ingest", "validate", "split", "features", "train", "calibrate",
                       "threshold", "evaluate", "error_analysis"}
  BY DEF OutsOf
<1>2. \A i \in 1..9 : Stages[i] \in DOMAIN OutsOf
  BY <1>1 DEF Stages
<1>3. \A s \in DOMAIN OutsOf : OutsOf[s] \subseteq Files
  BY DEF Files
<1> QED BY <1>1, <1>2, <1>3

LEMMA StageAt ==
  /\ Stages[1] = "ingest" /\ Stages[2] = "validate" /\ Stages[3] = "split"
  /\ Stages[4] = "features" /\ Stages[5] = "train" /\ Stages[6] = "calibrate"
  /\ Stages[7] = "threshold" /\ Stages[8] = "evaluate" /\ Stages[9] = "error_analysis"
BY DEF Stages

LEMMA OutsFacts ==
  /\ OutsOf["ingest"] = {"ingest"} /\ OutsOf["validate"] = {"valid"}
  /\ OutsOf["split"] = {"split"} /\ OutsOf["features"] = {"feats"}
  /\ OutsOf["train"] = {"train"} /\ OutsOf["calibrate"] = {"cal"}
  /\ OutsOf["threshold"] = {"policy"} /\ OutsOf["evaluate"] = {"eval", "pred"}
  /\ OutsOf["error_analysis"] = {"ea"}
BY DEF OutsOf

LEMMA FileNames ==
  Files = {"ingest", "valid", "split", "feats", "train", "cal", "policy", "eval", "pred", "ea"}
<1>1. ASSUME NEW f \in Files
      PROVE  f \in {"ingest", "valid", "split", "feats", "train", "cal", "policy", "eval",
                    "pred", "ea"}
  <2>1. PICK s \in DOMAIN OutsOf : f \in OutsOf[s]
    BY <1>1 DEF Files
  <2> QED BY <2>1, StageFacts, OutsFacts
<1>2. {"ingest", "valid", "split", "feats", "train", "cal", "policy", "eval", "pred", "ea"}
        \subseteq Files
  BY StageFacts, OutsFacts
<1> QED BY <1>1, <1>2

LEMMA ContentFacts ==
  /\ Content["ingest"] = SUBSET Customers /\ Content["valid"] = SUBSET Customers
  /\ Content["split"] = [test : SUBSET Customers, dev : SUBSET Customers]
  /\ Content["feats"] = SUBSET Customers /\ Content["train"] = DOMAIN runs
  /\ Content["cal"] = [run : DOMAIN runs, model : DOMAIN fits]
  /\ Content["policy"] = Nat /\ Content["eval"] = DOMAIN evals
  /\ Content["pred"] = DOMAIN fits
  /\ Content["ea"] = [version : DOMAIN versions, of : DOMAIN fits]
BY DEF Content

\* What a file says, if it is there.
LEMMA FileFacts ==
  ASSUME TypeFiles
  PROVE  /\ file.ingest \in Opt(SUBSET Customers) /\ file.valid \in Opt(SUBSET Customers)
         /\ file.split \in Opt([test : SUBSET Customers, dev : SUBSET Customers])
         /\ file.feats \in Opt(SUBSET Customers) /\ file.train \in Opt(DOMAIN runs)
         /\ file.cal \in Opt([run : DOMAIN runs, model : DOMAIN fits])
         /\ file.policy \in Opt(Nat) /\ file.eval \in Opt(DOMAIN evals)
         /\ file.pred \in Opt(DOMAIN fits)
         /\ file.ea \in Opt([version : DOMAIN versions, of : DOMAIN fits])
BY FileNames, ContentFacts DEF TypeFiles


---------------------------------------------------------------------------
(* Runs, models, versions and evaluations are only added to, and what was   *)
(* said of them stays true.                                                *)

Extends(s, t) == \A i \in DOMAIN s : i \in DOMAIN t /\ t[i] = s[i]

Grows ==
  /\ Extends(runs, runs') /\ Extends(fits, fits') /\ Extends(evals, evals')
  /\ Extends(versions, versions')
  /\ \A u \in DOMAIN versions' : u \in DOMAIN versions \/ \A v \in DOMAIN versions : v <= u

LEMMA SameGrows == UNCHANGED <<runs, fits, versions, evals>> => Grows
BY DEF Grows, Extends

LEMMA AppendExtends ==
  ASSUME NEW S, NEW s \in Seq(S), NEW x
  PROVE  /\ Extends(s, Append(s, x)) /\ DOMAIN Append(s, x) = DOMAIN s \cup {Len(s) + 1}
         /\ Append(s, x)[Len(s) + 1] = x /\ \A i \in DOMAIN s : i <= Len(s) + 1
         /\ Len(Append(s, x)) = Len(s) + 1
BY DEF Extends

LEMMA ContentGrows ==
  ASSUME Grows
  PROVE  /\ \A f \in Files : Content[f] \subseteq Content'[f]
         /\ Fitted \subseteq Fitted' /\ Evaluation \subseteq Evaluation'
         /\ DOMAIN runs \subseteq DOMAIN runs' /\ DOMAIN fits \subseteq DOMAIN fits'
         /\ DOMAIN versions \subseteq DOMAIN versions' /\ DOMAIN evals \subseteq DOMAIN evals'
<1>1. /\ DOMAIN runs \subseteq DOMAIN runs' /\ DOMAIN fits \subseteq DOMAIN fits'
      /\ DOMAIN versions \subseteq DOMAIN versions' /\ DOMAIN evals \subseteq DOMAIN evals'
  BY DEF Grows, Extends
<1>2. Fitted \subseteq Fitted'
  BY <1>1 DEF Fitted
<1>3. Evaluation \subseteq Evaluation'
  <2> SUFFICES ASSUME NEW e \in Evaluation PROVE e \in Evaluation'
    OBVIOUS
  <2>1. e.against \in [version : Opt(DOMAIN versions'), eval : Opt(DOMAIN evals')]
    BY <1>1 DEF Evaluation, Opt
  <2> QED BY <1>1, <1>2, <2>1 DEF Evaluation
<1>4. \A f \in Files : Content[f] \subseteq Content'[f]
  <2> SUFFICES ASSUME NEW f \in Files PROVE Content[f] \subseteq Content'[f]
    OBVIOUS
  <2>1. /\ Content'["ingest"] = SUBSET Customers /\ Content'["valid"] = SUBSET Customers
        /\ Content'["split"] = [test : SUBSET Customers, dev : SUBSET Customers]
        /\ Content'["feats"] = SUBSET Customers /\ Content'["train"] = DOMAIN runs'
        /\ Content'["cal"] = [run : DOMAIN runs', model : DOMAIN fits']
        /\ Content'["policy"] = Nat /\ Content'["eval"] = DOMAIN evals'
        /\ Content'["pred"] = DOMAIN fits'
        /\ Content'["ea"] = [version : DOMAIN versions', of : DOMAIN fits']
    BY DEF Content
  <2>2. [run : DOMAIN runs, model : DOMAIN fits] \subseteq [run : DOMAIN runs', model : DOMAIN fits']
    BY <1>1
  <2>3. [version : DOMAIN versions, of : DOMAIN fits]
          \subseteq [version : DOMAIN versions', of : DOMAIN fits']
    BY <1>1
  <2> QED BY <1>1, <2>1, <2>2, <2>3, FileNames, ContentFacts
<1> QED BY <1>1, <1>2, <1>3, <1>4

LEMMA FilesKept ==
  ASSUME TypeFiles, Grows, UNCHANGED file
  PROVE  TypeFiles'
BY ContentGrows DEF TypeFiles, Opt

LEMMA ResolvedKept ==
  ASSUME TypeStore, Grows, NEW v, NEW r, Resolved(v, r)
  PROVE  Resolved(v, r)'
<1>1. \A u \in DOMAIN versions : /\ u \in DOMAIN versions' /\ versions'[u] = versions[u]
                                 /\ fits'[versions'[u]] = fits[versions[u]]
  BY DEF Grows, Extends, TypeStore, TypeVersions
<1>2. v \in DOMAIN versions' /\ fits'[versions'[v]].run = r
  BY <1>1 DEF Resolved
<1>3. ASSUME NEW u \in DOMAIN versions', fits'[versions'[u]].run = fits'[versions'[v]].run
      PROVE  v <= u
  <2>1. CASE u \in DOMAIN versions
    BY <1>1, <1>3, <2>1 DEF Resolved, FirstOfRun
  <2>2. CASE u \notin DOMAIN versions
    BY <2>2 DEF Grows, Resolved
  <2> QED BY <2>1, <2>2
<1> QED BY <1>2, <1>3 DEF Resolved, FirstOfRun

LEMMA LockedKept ==
  ASSUME TypeStore, Grows, raw \subseteq raw', pool \subseteq pool',
         NEW s, NEW D, NEW P, NEW O, Locked(s, D, P, O)
  PROVE  Locked(s, D, P, O)'
<1>1. s = "ingest" => LockedIngest(P, O)'
  BY DEF Locked, LockedIngest
<1>2. s = "train" => LockedTrain(D, P, O)'
  BY DEF Locked, LockedTrain, Grows, Extends
<1>3. s = "calibrate" => LockedCalibrate(D, P, O)'
  BY DEF Locked, LockedCalibrate, Grows, Extends
<1>4. s = "evaluate" => LockedEvaluate(D, O)'
  <2> HAVE s = "evaluate"
  <2>1. LockedEvaluate(D, O)
    BY DEF Locked
  <2>2. O.eval \in DOMAIN evals' /\ evals'[O.eval] = evals[O.eval]
    BY <2>1 DEF LockedEvaluate, Grows, Extends
  <2> DEFINE v == evals[O.eval].version
  <2>3. Resolved(v, D.cal.run)
    BY <2>1 DEF LockedEvaluate
  <2> HIDE DEF v
  <2>4. PICK w : w = v
    OBVIOUS
  <2>5. Resolved(w, D.cal.run)'
    BY <2>3, <2>4, ResolvedKept
  <2>6. evals'[O.eval].version = w
    BY <2>2, <2>4 DEF v
  <2> QED BY <2>1, <2>2, <2>5, <2>6 DEF LockedEvaluate, Resolved, FirstOfRun
<1>5. s = "error_analysis" => Resolved(O.ea.version, D.cal.run)'
  BY ResolvedKept DEF Locked
<1> QED BY <1>1, <1>2, <1>3, <1>4, <1>5 DEF Locked, LockedSplit

LEMMA CacheKept ==
  ASSUME TypeStore, TypeCache, CacheInv, Grows, UNCHANGED cache,
         raw \subseteq raw', pool \subseteq pool'
  PROVE  TypeCache' /\ CacheInv'
<1>1. TypeCache'
  BY ContentGrows, StageFacts DEF TypeCache, Opt
<1>2. CacheInv'
  BY LockedKept DEF CacheInv
<1> QED BY <1>1, <1>2


---------------------------------------------------------------------------
(* What leaving the state alone, writing a file, and ending a command keep. *)

LEMMA StoreKept ==
  ASSUME TypeStore, ChampInv, AgainstInv, DvcSealedIsUnseen,
         UNCHANGED <<runs, ev, fits, versions, evals, champ>>
  PROVE  TypeStore' /\ ChampInv' /\ AgainstInv' /\ DvcSealedIsUnseen'
<1>1. TypeStore'
  BY DEF TypeStore, TypeRuns, TypeEv, TypeFits, TypeVersions, TypeEvals, TypeChamp, Fitted,
         Evaluation, Opt
<1>2. ChampInv' /\ AgainstInv' /\ DvcSealedIsUnseen'
  BY DEF ChampInv, AgainstInv, DvcSealedIsUnseen, TrainedOn
<1> QED BY <1>1, <1>2

LEMMA InputsKept ==
  ASSUME TypeInputs, InPlace, UNCHANGED <<inp, raw, pool>>
  PROVE  TypeInputs' /\ InPlace'
BY DEF TypeInputs, InPlace, Csv

LEMMA WriteKept ==
  ASSUME TypeFiles, Grows, NEW f \in Files, NEW x, x \in Content'[f], Write(f, x)
  PROVE  /\ TypeFiles'
         /\ \A g \in Files : file'[g] = IF g = f THEN x ELSE file[g]
<1>1. \A g \in Files : file'[g] = IF g = f THEN x ELSE file[g]
  BY DEF Write, TypeFiles
<1>2. DOMAIN file' = Files
  BY DEF Write, TypeFiles
<1>3. \A g \in Files : file'[g] \in Opt(Content'[g])
  BY <1>1, ContentGrows DEF TypeFiles, Opt
<1> QED BY <1>1, <1>2, <1>3 DEF TypeFiles

LEMMA SplitKept ==
  ASSUME SplitInv, file'["split"] = file["split"]
  PROVE  SplitInv'
BY DEF SplitInv

LEMMA IdleKept ==
  ASSUME Idle, used' \in Nat
  PROVE  TypeCommand' /\ Control' /\ Progress' /\ ReproInv'
<1>1. TypeCommand'
  BY StageFacts DEF Idle, NoCmd, TypeCommand, Opt
<1>2. Control' /\ Progress' /\ ReproInv'
  BY DEF Idle, Control, Running, Progress, ReproInv
<1> QED BY <1>1, <1>2

LEMMA GotoKept ==
  ASSUME TypeCommand, Control, Running, Grows, ReproInv,
         NEW l \in StepsOf[cmd.stage], Goto(l), UNCHANGED <<raw, pool>>,
         at > 1 => file'["ingest"] = file["ingest"],
         at > 2 => file'["valid"] = file["valid"],
         at > 5 => /\ file'["train"] = file["train"] /\ file'["feats"] = file["feats"]
                   /\ file'["split"] = file["split"],
         at > 6 => file'["cal"] = file["cal"]
  PROVE  TypeCommand' /\ Control' /\ ReproInv'
<1>1. l \in {"merge", "seed", "ingest_receipt", "validate", "split", "features", "train",
             "train_receipt", "evidence", "log_model", "calibrate_receipt", "screen",
             "policy", "score", "eval_receipt", "mirror", "analyse"}
  BY StageFacts DEF StepsOf, TypeCommand
<1>2. TypeCommand'
  BY <1>1, ContentGrows DEF TypeCommand, Goto, Opt
<1>3. Control'
  BY <1>1 DEF Control, Running, Goto
<1>4. ReproInv'
  <2>1. at \in 0..10 /\ at' = at
    BY DEF TypeCommand, Goto
  <2> QED BY <2>1 DEF ReproInv, Dev, Grows, Extends
<1> QED BY <1>2, <1>3, <1>4

LEMMA FinishKept ==
  ASSUME TypeStore, TypeCache, CacheInv, TypeCommand, Control, Running, Finish, TypeFiles',
         UNCHANGED <<raw, pool, runs, fits, versions, evals>>,
         cmd.dvc => /\ Locked(cmd.stage, Sig(cmd.stage).files, Sig(cmd.stage).params,
                              [f \in OutsOf[cmd.stage] |-> file'[f]])
                    /\ at' = at + 1 => ReproInv'
  PROVE  TypeCache' /\ CacheInv' /\ TypeCommand' /\ Control' /\ Progress' /\ ReproInv'
<1>g. Grows
  BY SameGrows
<1>1. CASE ~cmd.dvc
  <2>1. Idle /\ UNCHANGED <<cache, used>>
    BY <1>1 DEF Finish
  <2>2. used' \in Nat
    BY <2>1 DEF TypeCommand
  <2> QED BY <2>1, <2>2, IdleKept, CacheKept, <1>g
<1>2. CASE cmd.dvc
  <2> DEFINE entry == [stage |-> cmd.stage, sig |-> Sig(cmd.stage),
                       outs |-> [f \in OutsOf[cmd.stage] |-> file'[f]]]
  <2>1. /\ cache' = cache \cup {entry} /\ at' = at + 1 /\ pc' = "next"
        /\ UNCHANGED <<cmd, goal, used>>
    BY <1>2 DEF Finish
  <2>2. TypeCache'
    <3>1. \A f \in OutsOf[entry.stage] : entry.outs[f] \in Opt(Content'[f])
      BY StageFacts DEF TypeCommand, TypeFiles
    <3>2. \A c \in cache : \A f \in OutsOf[c.stage] : c.outs[f] \in Opt(Content'[f])
      BY ContentGrows, StageFacts, <1>g DEF TypeCache, Opt
    <3> HIDE DEF entry
    <3>3. entry.stage \in DOMAIN OutsOf
      BY DEF TypeCommand, entry
    <3> QED BY <2>1, <3>1, <3>2, <3>3 DEF TypeCache
  <2>3. CacheInv'
    <3>1. \A c \in cache : Locked(c.stage, c.sig.files, c.sig.params, c.outs)'
      BY LockedKept, <1>g DEF CacheInv
    <3>2. Locked(entry.stage, entry.sig.files, entry.sig.params, entry.outs)
      BY <1>2
    <3>3. PICK c : c = entry
      OBVIOUS
    <3> HIDE DEF entry
    <3>4. Locked(c.stage, c.sig.files, c.sig.params, c.outs)'
      BY <3>2, <3>3, LockedKept, <1>g
    <3> QED BY <2>1, <3>1, <3>3, <3>4 DEF CacheInv
  <2>4. TypeCommand'
    BY <2>1, <1>2, <1>g, ContentGrows DEF TypeCommand, Control, Running, Opt
  <2>5. Control'
    BY <2>1, <1>2 DEF Control, Running
  <2>6. Progress'
    BY <2>1 DEF Progress
  <2> QED BY <1>2, <2>1, <2>2, <2>3, <2>4, <2>5, <2>6
<1> QED BY <1>1, <1>2

LEMMA SigFacts ==
  /\ Sig("ingest").params.csv = inp.csv
  /\ Sig("validate").files.ingest = file.ingest
  /\ Sig("split").files.valid = file.valid /\ Sig("split").params.seed = inp.seed
  /\ Sig("features").files.valid = file.valid
  /\ Sig("train").files.feats = file.feats /\ Sig("train").files.split = file.split
  /\ Sig("train").params.tuning = inp.tuning
  /\ Sig("calibrate").files.feats = file.feats /\ Sig("calibrate").files.split = file.split
  /\ Sig("calibrate").files.train = file.train /\ Sig("calibrate").params.calib = inp.calib
  /\ Sig("threshold").params.costs = inp.costs
  /\ Sig("evaluate").files.feats = file.feats /\ Sig("evaluate").files.split = file.split
  /\ Sig("evaluate").files.cal = file.cal /\ Sig("evaluate").files.policy = file.policy
  /\ Sig("error_analysis").files.cal = file.cal
BY DEF Sig, DepsOf, ParamsOf


LEMMA BetweenKept ==
  ASSUME TypeCommand, Control, ReproInv, Grows, used' \in Nat, pc \in {"idle", "next"},
         UNCHANGED <<pc, cmd, goal, at, file, raw, pool>>
  PROVE  TypeCommand' /\ Control' /\ Progress' /\ ReproInv'
<1>1. TypeCommand'
  BY ContentGrows DEF TypeCommand, Opt
<1>2. Control' /\ Progress'
  BY DEF Control, Running, Progress
<1>3. ReproInv'
  BY DEF ReproInv, Dev, Grows, Extends
<1> QED BY <1>1, <1>2, <1>3

LEMMA InvNow ==
  Inv <=> /\ TypeInputs /\ TypeFiles /\ TypeCache /\ TypeStore /\ TypeCommand
          /\ Control /\ InPlace /\ Progress /\ CacheInv /\ ReproInv /\ SplitInv
          /\ ChampInv /\ AgainstInv /\ DvcSealedIsUnseen
BY TypeParts DEF Inv

LEMMA InvNext ==
  ASSUME TypeInputs', TypeFiles', TypeCache', TypeStore', TypeCommand',
         Control', InPlace', Progress', CacheInv', ReproInv', SplitInv',
         ChampInv', AgainstInv', DvcSealedIsUnseen'
  PROVE  Inv'
<1>1. TypeOK'
  BY DEF TypeOK, TypeInputs, TypeFiles, TypeCache, TypeStore, TypeCommand, TypeRuns, TypeEv,
         TypeFits, TypeVersions, TypeEvals, TypeChamp
<1> QED BY <1>1 DEF Inv

---------------------------------------------------------------------------
(* The operator, and DVC between two stages.                               *)

LEMMA EditKeeps ==
  ASSUME Inv, NEW k \in Inputs, NEW n \in 1..LastInput[k], Edit(k, n)
  PROVE  Inv'
<1>1. /\ UNCHANGED <<raw, pool, file, cache, runs, ev, fits, versions, evals, champ, pc, cmd,
                     goal, at>>
      /\ used' \in Nat /\ pc \in {"idle", "next"}
  BY InvNow DEF Edit, data, tracking, registry, repro, TypeCommand
<1>2. Grows
  BY <1>1, SameGrows
<1>3. TypeInputs'
  <2>1. n \in Nat
    OBVIOUS
  <2> QED BY <1>1, <2>1, InvNow DEF Edit, TypeInputs
<1>4. InPlace'
  <2>1. inp \in [Inputs -> Nat] /\ inp.csv \in DOMAIN Csvs /\ inp.seed \in DOMAIN TestOf
        /\ raw \subseteq Csvs[inp.csv] /\ pool \subseteq Csvs[inp.csv]
    BY InvNow DEF TypeInputs, InPlace, Csv
  <2>2. CASE k = "csv"
    <3>1. n \in DOMAIN Csvs /\ Csvs[inp.csv] \subseteq Csvs[n]
      BY <2>2, PipelineAssumption DEF Edit, LastInput
    <3>2. inp'["csv"] = n /\ inp'["seed"] = inp["seed"]
      BY <2>1, <2>2 DEF Edit, Inputs
    <3> QED BY <1>1, <2>1, <3>1, <3>2 DEF InPlace, Csv
  <2>3. CASE k = "seed"
    <3>1. n \in DOMAIN TestOf
      BY <2>3, PipelineAssumption DEF LastInput
    <3>2. inp'["seed"] = n /\ inp'["csv"] = inp["csv"]
      BY <2>1, <2>3 DEF Edit, Inputs
    <3> QED BY <1>1, <2>1, <3>1, <3>2 DEF InPlace, Csv
  <2>4. CASE k \notin {"csv", "seed"}
    <3>1. inp'["seed"] = inp["seed"] /\ inp'["csv"] = inp["csv"]
      BY <2>1, <2>4 DEF Edit, Inputs
    <3> QED BY <1>1, <2>1, <3>1 DEF InPlace, Csv
  <2> QED BY <2>2, <2>3, <2>4
<1>5. SplitInv'
  BY <1>1, InvNow DEF SplitInv
<1> QED BY <1>1, <1>2, <1>3, <1>4, <1>5, InvNow, InvNext, BetweenKept, StoreKept, CacheKept,
           FilesKept

LEMMA ReproKeeps ==
  ASSUME Inv, NEW g \in Goals, Repro(g)
  PROVE  Inv'
<1>1. UNCHANGED <<inp, raw, pool, file, cache, runs, ev, fits, versions, evals, champ, cmd, used>>
      /\ pc' = "next" /\ goal' = g /\ at' = 1
  BY DEF Repro, data, tracking, registry
<1>2. Grows
  BY <1>1, SameGrows
<1>3. TypeCommand' /\ Control' /\ Progress' /\ ReproInv'
  <2>1. TypeCommand'
    BY <1>1, InvNow DEF TypeCommand, Goals, Opt
  <2>2. Control' /\ Progress' /\ ReproInv'
    BY <1>1 DEF Control, Running, Progress, ReproInv, Goals
  <2> QED BY <2>1, <2>2
<1>4. SplitInv'
  BY <1>1, InvNow DEF SplitInv
<1> QED BY <1>1, <1>2, <1>3, <1>4, InvNow, InvNext, StoreKept, CacheKept, FilesKept, InputsKept

LEMMA ReproDoneKeeps ==
  ASSUME Inv, ReproDone
  PROVE  Inv'
<1>1. UNCHANGED <<inp, raw, pool, file, cache, runs, ev, fits, versions, evals, champ, used>> /\ Idle
  BY DEF ReproDone, data, tracking, registry
<1>2. Grows /\ used' \in Nat
  BY <1>1, SameGrows, InvNow DEF TypeCommand
<1>4. SplitInv'
  BY <1>1, InvNow DEF SplitInv
<1> QED BY <1>1, <1>2, <1>4, InvNow, InvNext, IdleKept, StoreKept, CacheKept, FilesKept, InputsKept

LEMMA FirstStep == \A s \in DOMAIN OutsOf : First[s] \in StepsOf[s]
BY StageFacts DEF First, StepsOf

LEMMA StepNames ==
  \A s \in DOMAIN OutsOf : StepsOf[s] \subseteq
    {"merge", "seed", "ingest_receipt", "validate", "split", "features", "train",
     "train_receipt", "evidence", "log_model", "calibrate_receipt", "screen",
     "policy", "score", "eval_receipt", "mirror", "analyse"}
BY StageFacts DEF StepsOf

\* The first step of a stage has nothing written before it.
LEMMA FirstNames ==
  \A s \in DOMAIN OutsOf :
    First[s] \in {"merge", "validate", "split", "features", "train", "evidence", "screen",
                  "score", "analyse"}
BY StageFacts DEF First

LEMMA ByHandKeeps ==
  ASSUME Inv, NEW s \in DOMAIN OutsOf, NEW r \in Opt(DOMAIN runs), NEW v \in Opt(DOMAIN versions),
         ByHand(s, r, v)
  PROVE  Inv'
<1>1. UNCHANGED <<inp, raw, pool, file, cache, runs, ev, fits, versions, evals, champ, goal, at>>
      /\ pc = "idle" /\ pc' = First[s] /\ used' = used + 1
      /\ cmd' = [stage |-> s, dvc |-> FALSE, run |-> r, version |-> v]
  BY DEF ByHand, data, tracking, registry, repro
<1>2. Grows
  BY <1>1, SameGrows
<1>3. TypeCommand'
  BY <1>1, InvNow, FirstStep, StepNames DEF TypeCommand
<1>4. Control' /\ ReproInv'
  BY <1>1, InvNow, FirstStep, FirstNames DEF TypeCommand, Control, Running, ReproInv
<1>5. Progress'
  BY <1>1, FirstNames DEF Progress
<1>6. SplitInv'
  BY <1>1, InvNow DEF SplitInv
<1> QED BY <1>1, <1>2, <1>3, <1>4, <1>5, <1>6, InvNow, InvNext, StoreKept, CacheKept, FilesKept,
           InputsKept

\* A command that dies, or refuses, leaves everything but itself as it is.
LEMMA StopKeeps ==
  ASSUME Inv, Stop, used' \in Nat, UNCHANGED <<file, tracking, evals>>
  PROVE  Inv'
<1>1. UNCHANGED <<inp, raw, pool, file, cache, runs, ev, fits, versions, evals, champ>> /\ Idle
  BY DEF Stop, data, tracking, registry
<1>2. Grows
  BY <1>1, SameGrows
<1>4. SplitInv'
  BY <1>1, InvNow DEF SplitInv
<1> QED BY <1>1, <1>2, <1>4, InvNow, InvNext, IdleKept, StoreKept, CacheKept, FilesKept, InputsKept

LEMMA FailKeeps ==
  ASSUME Inv, Fail
  PROVE  Inv'
BY StopKeeps, InvNow DEF Fail, TypeCommand

LEMMA RefuseKeeps ==
  ASSUME Inv, NEW ok, Refuse(ok)
  PROVE  Inv'
<1>1. used' \in Nat /\ Stop /\ UNCHANGED <<file, tracking, evals>>
  BY InvNow DEF Refuse, TypeCommand
<1> QED BY <1>1, StopKeeps


LEMMA RunStageKeeps ==
  ASSUME Inv, RunStage
  PROVE  Inv'
<1>1. /\ UNCHANGED <<inp, raw, pool, cache, runs, ev, fits, versions, evals, champ, goal, at, used>>
      /\ pc = "next" /\ at <= goal /\ pc' = First[Stages[at]]
      /\ file' = [f \in Files |-> IF f \in OutsOf[Stages[at]] THEN None ELSE file[f]]
      /\ cmd' = [stage |-> Stages[at], dvc |-> TRUE, run |-> None, version |-> None]
  BY DEF RunStage, data, tracking, registry, repro
<1>2. Grows
  BY <1>1, SameGrows
<1>3. at \in 1..9 /\ at \in 1..goal
  BY <1>1, InvNow DEF Control
<1>4. Stages[at] \in DOMAIN OutsOf
  BY <1>3, StageFacts
<1>5. TypeCommand'
  BY <1>1, <1>4, InvNow, FirstStep, StepNames DEF TypeCommand, Opt
<1>6. Control'
  BY <1>1, <1>3, <1>4, InvNow, FirstStep, FirstNames DEF Control, Running
<1>7. Progress'
  BY <1>1, <1>4, FirstNames DEF Progress
<1>8. TypeFiles'
  BY <1>1, InvNow, ContentGrows, <1>2 DEF TypeFiles, Opt
<1>9. /\ at > 1 => file'["ingest"] = file["ingest"]
      /\ at > 2 => file'["valid"] = file["valid"]
      /\ at > 5 => /\ file'["train"] = file["train"] /\ file'["feats"] = file["feats"]
                   /\ file'["split"] = file["split"]
      /\ at > 6 => file'["cal"] = file["cal"]
      /\ file'["split"] \in {None, file["split"]}
  BY <1>1, <1>3, FileNames, StageAt, OutsFacts
<1>10. ReproInv'
  BY <1>1, <1>3, <1>9, InvNow DEF ReproInv, Dev
<1>11. SplitInv'
  BY <1>9, InvNow DEF SplitInv
<1> QED BY <1>1, <1>2, <1>5, <1>6, <1>7, <1>8, <1>10, <1>11, InvNow, InvNext, StoreKept,
           CacheKept, InputsKept

\* A stage that is skipped leaves what its entry says: what it would have written.
LEMMA SkipStageKeeps ==
  ASSUME Inv, SkipStage
  PROVE  Inv'
<1>1. /\ UNCHANGED <<inp, raw, pool, cache, runs, ev, fits, versions, evals, champ, pc, cmd, goal,
                     used>>
      /\ pc = "next" /\ at <= goal /\ at' = at + 1
  BY DEF SkipStage, data, tracking, registry
<1>2. PICK c \in Known(Stages[at]) :
        file' = [f \in Files |-> IF f \in OutsOf[Stages[at]] THEN c.outs[f] ELSE file[f]]
  BY DEF SkipStage
<1>3. Grows
  BY <1>1, SameGrows
<1>4. at \in 1..9 /\ at \in 1..goal
  BY <1>1, InvNow DEF Control
<1>5. /\ c \in cache /\ c.stage = Stages[at] /\ c.sig = Sig(Stages[at])
      /\ Stages[at] \in DOMAIN OutsOf
  BY <1>2, <1>4, StageFacts DEF Known
<1>6. TypeFiles'
  <2>1. \A f \in OutsOf[Stages[at]] : c.outs[f] \in Opt(Content[f])
    BY <1>5, InvNow DEF TypeCache
  <2> QED BY <1>2, <2>1, InvNow, ContentGrows, <1>3 DEF TypeFiles, Opt
<1>7. TypeCommand' /\ Control' /\ Progress'
  <2>1. TypeCommand'
    BY <1>1, <1>4, InvNow DEF TypeCommand
  <2>2. Control' /\ Progress'
    BY <1>1, <1>4, InvNow DEF Control, Running, Progress
  <2> QED BY <2>1, <2>2
<1>8. Locked(Stages[at], Sig(Stages[at]).files, Sig(Stages[at]).params, c.outs)
  BY <1>5, InvNow DEF CacheInv
<1>9. /\ at # 1 => file'["ingest"] = file["ingest"]
      /\ at # 2 => file'["valid"] = file["valid"]
      /\ at # 3 => file'["split"] = file["split"]
      /\ at # 4 => file'["feats"] = file["feats"]
      /\ at # 5 => file'["train"] = file["train"]
      /\ at # 6 => file'["cal"] = file["cal"]
      /\ at = 1 => file'["ingest"] = c.outs["ingest"]
      /\ at = 2 => file'["valid"] = c.outs["valid"]
      /\ at = 3 => file'["split"] = c.outs["split"]
      /\ at = 5 => file'["train"] = c.outs["train"]
      /\ at = 6 => file'["cal"] = c.outs["cal"]
  BY <1>2, <1>4, FileNames, StageAt, OutsFacts
<1>10. ReproInv'
  <2>1. CASE at = 1
    <3>1. LockedIngest(Sig("ingest").params, c.outs)
      BY <1>8, <2>1, StageAt DEF Locked
    <3>2. c.outs.ingest = Csv /\ Csv \subseteq raw /\ Csv \subseteq pool
      BY <3>1, SigFacts DEF LockedIngest, Csv
    <3>3. raw = Csv /\ pool = Csv
      BY <3>2, InvNow DEF InPlace
    <3> QED BY <1>1, <1>9, <2>1, <3>2, <3>3 DEF ReproInv
  <2>2. CASE at = 2
    <3>1. c.outs.valid = file.ingest
      BY <1>8, <2>2, StageAt, SigFacts DEF Locked
    <3> QED BY <1>1, <1>9, <2>2, <3>1, InvNow DEF ReproInv
  <2>3. CASE at \in {3, 4}
    BY <1>1, <1>9, <2>3, InvNow DEF ReproInv
  <2>4. CASE at = 5
    <3>1. LockedTrain(Sig("train").files, Sig("train").params, c.outs)
      BY <1>8, <2>4, StageAt DEF Locked
    <3>2. c.outs.train \in DOMAIN runs /\ runs[c.outs.train].dev = Dev
      BY <3>1, SigFacts DEF LockedTrain, Dev
    <3> QED BY <1>1, <1>9, <2>4, <3>2, InvNow DEF ReproInv, Dev
  <2>5. CASE at = 6
    <3>1. LockedCalibrate(Sig("calibrate").files, Sig("calibrate").params, c.outs)
      BY <1>8, <2>5, StageAt DEF Locked
    <3>2. c.outs.cal.run = file.train
      BY <3>1, SigFacts DEF LockedCalibrate
    <3> QED BY <1>1, <1>9, <2>5, <3>2, InvNow DEF ReproInv, Dev
  <2>6. CASE at \in 7..9
    BY <1>1, <1>9, <2>6, InvNow DEF ReproInv, Dev
  <2> QED BY <1>4, <2>1, <2>2, <2>3, <2>4, <2>5, <2>6
<1>11. SplitInv'
  <2>1. CASE at = 3
    <3>1. LockedSplit(Sig("split").files, Sig("split").params, c.outs)
      BY <1>8, <2>1, StageAt DEF Locked
    <3> QED BY <1>9, <2>1, <3>1 DEF LockedSplit, SplitInv
  <2>2. CASE at # 3
    BY <1>9, <2>2, InvNow DEF SplitInv
  <2> QED BY <2>1, <2>2
<1> QED BY <1>1, <1>3, <1>6, <1>7, <1>10, <1>11, InvNow, InvNext, StoreKept, CacheKept, InputsKept

---------------------------------------------------------------------------
(* ingest, validate, split, features.                                      *)

\* A step of a stage, seen from the stage.
LEMMA AtStage ==
  ASSUME Inv, Running
  PROVE  /\ pc \in StepsOf[cmd.stage] /\ cmd.stage \in DOMAIN OutsOf /\ at \in 0..9
         /\ cmd.dvc => at \in 1..goal /\ cmd.stage = Stages[at] /\ cmd.run = None /\ cmd.version = None
         /\ ~cmd.dvc => at = 0
         /\ pc \in {"merge", "seed", "ingest_receipt"} => cmd.stage = "ingest"
         /\ pc = "validate" => cmd.stage = "validate"
         /\ pc = "split" => cmd.stage = "split"
         /\ pc = "features" => cmd.stage = "features"
         /\ pc \in {"train", "train_receipt"} => cmd.stage = "train"
         /\ pc \in {"evidence", "log_model", "calibrate_receipt"} => cmd.stage = "calibrate"
         /\ pc \in {"screen", "policy"} => cmd.stage = "threshold"
         /\ pc \in {"score", "eval_receipt", "mirror"} => cmd.stage = "evaluate"
         /\ pc = "analyse" => cmd.stage = "error_analysis"
<1>1. /\ pc \in StepsOf[cmd.stage] /\ cmd.stage \in DOMAIN OutsOf
      /\ cmd.dvc => at \in 1..goal /\ cmd.stage = Stages[at] /\ cmd.run = None /\ cmd.version = None
      /\ ~cmd.dvc => at = 0
      /\ goal \in 0..9
  BY InvNow DEF Control, TypeCommand
<1>2. at \in 0..9
  BY <1>1, InvNow DEF TypeCommand
<1>3. /\ pc \in {"merge", "seed", "ingest_receipt"} => cmd.stage = "ingest"
      /\ pc = "validate" => cmd.stage = "validate"
      /\ pc = "split" => cmd.stage = "split"
      /\ pc = "features" => cmd.stage = "features"
  BY <1>1, StageFacts DEF StepsOf
<1>4. /\ pc \in {"train", "train_receipt"} => cmd.stage = "train"
      /\ pc \in {"evidence", "log_model", "calibrate_receipt"} => cmd.stage = "calibrate"
      /\ pc \in {"screen", "policy"} => cmd.stage = "threshold"
      /\ pc \in {"score", "eval_receipt", "mirror"} => cmd.stage = "evaluate"
      /\ pc = "analyse" => cmd.stage = "error_analysis"
  BY <1>1, StageFacts DEF StepsOf
<1> QED BY <1>1, <1>2, <1>3, <1>4

\* Which number a stage of a repro has.
LEMMA AtNumber ==
  ASSUME Inv, Running, cmd.dvc
  PROVE  /\ (cmd.stage = "ingest" => at = 1) /\ (cmd.stage = "validate" => at = 2)
         /\ (cmd.stage = "split" => at = 3) /\ (cmd.stage = "features" => at = 4)
         /\ (cmd.stage = "train" => at = 5) /\ (cmd.stage = "calibrate" => at = 6)
         /\ (cmd.stage = "threshold" => at = 7) /\ (cmd.stage = "evaluate" => at = 8)
         /\ (cmd.stage = "error_analysis" => at = 9)
BY AtStage, StageAt


\* The last output of a stage, and the end of the command.
LEMMA LastWrite ==
  ASSUME Inv, Running, NEW f \in OutsOf[cmd.stage], NEW x, x \in Content[f], Write(f, x), Finish,
         UNCHANGED <<inp, data, tracking, registry, evals>>,
         f = "split" => x.dev \cap x.test = {},
         cmd.dvc => /\ Locked(cmd.stage, Sig(cmd.stage).files, Sig(cmd.stage).params,
                              [g \in OutsOf[cmd.stage] |-> file'[g]])
                    /\ at' = at + 1 => ReproInv'
  PROVE  Inv'
<1>1. UNCHANGED <<inp, raw, pool, runs, ev, fits, versions, evals, champ>>
  BY DEF data, tracking, registry
<1>2. Grows
  BY <1>1, SameGrows
<1>3. f \in Files
  BY AtStage, StageFacts
<1>4. x \in Content'[f]
  BY <1>2, <1>3, ContentGrows
<1>5. TypeFiles' /\ \A g \in Files : file'[g] = IF g = f THEN x ELSE file[g]
  BY <1>2, <1>3, <1>4, WriteKept, InvNow
<1>6. SplitInv'
  <2>1. file'["split"] = IF f = "split" THEN x ELSE file["split"]
    BY <1>5, FileNames
  <2> QED BY <2>1, InvNow DEF SplitInv
<1>7. TypeCache' /\ CacheInv' /\ TypeCommand' /\ Control' /\ Progress' /\ ReproInv'
  BY <1>1, <1>5, FinishKept, InvNow
<1> QED BY <1>1, <1>5, <1>6, <1>7, InvNow, InvNext, StoreKept, InputsKept

\* A step that is not the stage's last, and writes no file.
LEMMA MidStep ==
  ASSUME Inv, Running, NEW l \in StepsOf[cmd.stage], Goto(l), Progress',
         UNCHANGED <<inp, data, file, tracking, registry, evals>>
  PROVE  Inv'
<1>1. UNCHANGED <<inp, raw, pool, file, cache, runs, ev, fits, versions, evals, champ>>
  BY DEF data, tracking, registry, Goto
<1>2. Grows
  BY <1>1, SameGrows
<1>3. TypeCommand' /\ Control' /\ ReproInv'
  BY <1>1, <1>2, GotoKept, InvNow
<1>4. SplitInv'
  BY <1>1, InvNow DEF SplitInv
<1> QED BY <1>1, <1>2, <1>3, <1>4, InvNow, InvNext, StoreKept, CacheKept, FilesKept, InputsKept

LEMMA CsvFacts ==
  ASSUME Inv
  PROVE  Csv \subseteq Customers /\ raw \subseteq Csv /\ pool \subseteq Csv
BY InvNow, PipelineAssumption DEF InPlace, Csv

LEMMA MergeKeeps ==
  ASSUME Inv, Merge
  PROVE  Inv'
<1>1. /\ UNCHANGED <<inp, pool, file, cache, runs, ev, fits, versions, evals, champ>>
      /\ raw' = Csv /\ Goto("seed") /\ pc = "merge"
  BY CsvFacts DEF Merge, tracking, registry, Goto
<1>2. Grows /\ Running
  BY <1>1, SameGrows DEF Running
<1>3. cmd.stage = "ingest" /\ at \in {0, 1}
  BY <1>1, <1>2, AtStage, AtNumber
<1>4. TypeInputs' /\ InPlace'
  BY <1>1, CsvFacts, InvNow DEF TypeInputs, InPlace, Csv
<1>5. TypeCommand' /\ Control' /\ ReproInv'
  <2>1. TypeCommand'
    BY <1>1, InvNow DEF Goto, TypeCommand, Opt
  <2>2. Control'
    BY <1>1, <1>2, <1>3, InvNow DEF Goto, Control, Running, StepsOf
  <2>3. ReproInv'
    BY <1>1, <1>3 DEF Goto, ReproInv
  <2> QED BY <2>1, <2>2, <2>3
<1>6. Progress'
  BY <1>1 DEF Goto, Progress, Csv
<1>7. SplitInv'
  BY <1>1, InvNow DEF SplitInv
<1>8. TypeCache' /\ CacheInv'
  <2>1. raw \subseteq raw' /\ pool \subseteq pool'
    BY <1>1, CsvFacts
  <2> QED BY <1>1, <1>2, <2>1, CacheKept, InvNow
<1> QED BY <1>1, <1>2, <1>4, <1>5, <1>6, <1>7, <1>8, InvNow, InvNext, StoreKept, FilesKept

LEMMA SeedPoolKeeps ==
  ASSUME Inv, SeedPool
  PROVE  Inv'
<1>1. /\ UNCHANGED <<inp, raw, file, cache, runs, ev, fits, versions, evals, champ>>
      /\ pool' = Csv /\ Goto("ingest_receipt") /\ pc = "seed"
  BY DEF SeedPool, tracking, registry, Goto
<1>2. Grows /\ Running
  BY <1>1, SameGrows DEF Running
<1>3. cmd.stage = "ingest" /\ at \in {0, 1}
  BY <1>1, <1>2, AtStage, AtNumber
<1>4. TypeInputs' /\ InPlace'
  BY <1>1, CsvFacts, InvNow DEF TypeInputs, InPlace, Csv
<1>5. TypeCommand' /\ Control' /\ ReproInv'
  <2>1. TypeCommand'
    BY <1>1, InvNow DEF Goto, TypeCommand, Opt
  <2>2. Control'
    BY <1>1, <1>2, <1>3, InvNow DEF Goto, Control, Running, StepsOf
  <2>3. ReproInv'
    BY <1>1, <1>3 DEF Goto, ReproInv
  <2> QED BY <2>1, <2>2, <2>3
<1>6. Progress'
  BY <1>1, InvNow DEF Goto, Progress, Csv
<1>7. SplitInv'
  BY <1>1, InvNow DEF SplitInv
<1>8. TypeCache' /\ CacheInv'
  <2>1. raw \subseteq raw' /\ pool \subseteq pool'
    BY <1>1, CsvFacts
  <2> QED BY <1>1, <1>2, <2>1, CacheKept, InvNow
<1> QED BY <1>1, <1>2, <1>4, <1>5, <1>6, <1>7, <1>8, InvNow, InvNext, StoreKept, FilesKept

\* What a file that is written becomes, and that the others stay.
LEMMA Written ==
  ASSUME TypeFiles, NEW f \in Files, NEW x, Write(f, x)
  PROVE  \A g \in Files : file'[g] = IF g = f THEN x ELSE file[g]
BY DEF Write, TypeFiles

LEMMA IngestReceiptKeeps ==
  ASSUME Inv, IngestReceipt
  PROVE  Inv'
<1>1. pc = "ingest_receipt" /\ Write("ingest", Csv) /\ Finish
      /\ UNCHANGED <<inp, data, tracking, registry, evals>>
  BY DEF IngestReceipt
<1>2. Running
  BY <1>1 DEF Running
<1>3. cmd.stage = "ingest" /\ (cmd.dvc => at = 1)
  BY <1>1, <1>2, AtStage, AtNumber
<1>4. raw = Csv /\ pool = Csv
  BY <1>1, InvNow DEF Progress
<1>5. Csv \in Content["ingest"] /\ "ingest" \in OutsOf[cmd.stage] /\ "ingest" \in Files
  BY <1>3, CsvFacts, ContentFacts, OutsFacts, FileNames
<1>6. file'["ingest"] = Csv
  BY <1>1, <1>5, Written, InvNow
<1>7. Locked(cmd.stage, Sig(cmd.stage).files, Sig(cmd.stage).params,
             [g \in OutsOf[cmd.stage] |-> file'[g]])
  BY <1>3, <1>4, <1>5, <1>6, SigFacts, InvNow DEF Locked, LockedIngest, InPlace, Csv
<1>8. cmd.dvc /\ at' = at + 1 => ReproInv'
  BY <1>1, <1>3, <1>4, <1>6 DEF ReproInv, data
<1> QED BY <1>1, <1>2, <1>5, <1>7, <1>8, LastWrite

LEMMA ValidateKeeps ==
  ASSUME Inv, Validate
  PROVE  Inv'
<1>1. pc = "validate" /\ Write("valid", raw) /\ Finish
      /\ UNCHANGED <<inp, data, tracking, registry, evals>>
  BY DEF Validate
<1>2. Running
  BY <1>1 DEF Running
<1>3. cmd.stage = "validate" /\ (cmd.dvc => at = 2)
  BY <1>1, <1>2, AtStage, AtNumber
<1>4. raw \in Content["valid"] /\ "valid" \in OutsOf[cmd.stage]
      /\ "valid" \in Files /\ "ingest" \in Files
  BY <1>3, InvNow, ContentFacts, OutsFacts, FileNames DEF TypeInputs
<1>5. file'["valid"] = raw /\ file'["ingest"] = file["ingest"]
  BY <1>1, <1>4, Written, InvNow
<1>6. cmd.dvc => file.ingest = raw /\ pool = raw
  BY <1>3, InvNow DEF ReproInv
<1>7. cmd.dvc => Locked(cmd.stage, Sig(cmd.stage).files, Sig(cmd.stage).params,
                        [g \in OutsOf[cmd.stage] |-> file'[g]])
  BY <1>3, <1>4, <1>5, <1>6, SigFacts DEF Locked
<1>8. cmd.dvc /\ at' = at + 1 => ReproInv'
  BY <1>1, <1>3, <1>5, <1>6 DEF ReproInv, data
<1> QED BY <1>1, <1>2, <1>4, <1>7, <1>8, LastWrite

LEMMA SplitKeeps ==
  ASSUME Inv, Split
  PROVE  Inv'
<1> DEFINE T == TestOf[inp.seed][raw]
           x == [test |-> T, dev |-> raw \ T]
<1>1. pc = "split" /\ Write("split", x) /\ Finish
      /\ UNCHANGED <<inp, data, tracking, registry, evals>>
  BY DEF Split
<1>2. Running
  BY <1>1 DEF Running
<1>3. cmd.stage = "split" /\ (cmd.dvc => at = 3)
  BY <1>1, <1>2, AtStage, AtNumber
<1>4. x \in Content["split"] /\ "split" \in OutsOf[cmd.stage]
      /\ "split" \in Files /\ "ingest" \in Files /\ "valid" \in Files
  <2>1. T \in SUBSET Customers /\ raw \in SUBSET Customers
    BY InvNow, PipelineAssumption DEF InPlace, TypeInputs
  <2> QED BY <1>3, <2>1, ContentFacts, OutsFacts, FileNames
<1>5. file'["split"] = x /\ file'["ingest"] = file["ingest"] /\ file'["valid"] = file["valid"]
  BY <1>1, <1>4, Written, InvNow
<1>6. cmd.dvc => file.ingest = raw /\ pool = raw /\ file.valid = raw
  BY <1>3, InvNow DEF ReproInv
<1>7. cmd.dvc => Locked(cmd.stage, Sig(cmd.stage).files, Sig(cmd.stage).params,
                        [g \in OutsOf[cmd.stage] |-> file'[g]])
  BY <1>3, <1>4, <1>5, <1>6, SigFacts DEF Locked, LockedSplit
<1>8. cmd.dvc /\ at' = at + 1 => ReproInv'
  BY <1>1, <1>3, <1>5, <1>6 DEF ReproInv, data
<1>9. x.dev \cap x.test = {}
  OBVIOUS
<1> HIDE DEF x
<1> QED BY <1>1, <1>2, <1>4, <1>7, <1>8, <1>9, LastWrite

LEMMA FeaturesKeeps ==
  ASSUME Inv, Features
  PROVE  Inv'
<1>1. pc = "features" /\ Write("feats", pool) /\ Finish
      /\ UNCHANGED <<inp, data, tracking, registry, evals>>
  BY DEF Features
<1>2. Running
  BY <1>1 DEF Running
<1>3. cmd.stage = "features" /\ (cmd.dvc => at = 4)
  BY <1>1, <1>2, AtStage, AtNumber
<1>4. pool \in Content["feats"] /\ "feats" \in OutsOf[cmd.stage]
      /\ "feats" \in Files /\ "ingest" \in Files /\ "valid" \in Files
  BY <1>3, InvNow, ContentFacts, OutsFacts, FileNames DEF TypeInputs
<1>5. file'["feats"] = pool /\ file'["ingest"] = file["ingest"] /\ file'["valid"] = file["valid"]
  BY <1>1, <1>4, Written, InvNow
<1>6. cmd.dvc => file.ingest = raw /\ pool = raw /\ file.valid = raw
  BY <1>3, InvNow DEF ReproInv
<1>7. cmd.dvc => Locked(cmd.stage, Sig(cmd.stage).files, Sig(cmd.stage).params,
                        [g \in OutsOf[cmd.stage] |-> file'[g]])
  BY <1>3, <1>4, <1>5, <1>6, SigFacts DEF Locked
<1>8. cmd.dvc /\ at' = at + 1 => ReproInv'
  BY <1>1, <1>3, <1>5, <1>6 DEF ReproInv, data
<1> QED BY <1>1, <1>2, <1>4, <1>7, <1>8, LastWrite


---------------------------------------------------------------------------
(* train and calibrate.                                                    *)

\* What the records of MLflow refer to exists.
LEMMA StoreFacts ==
  ASSUME TypeStore
  PROVE  /\ \A i \in DOMAIN fits : fits[i] \in Fitted /\ fits[i].run \in DOMAIN runs
         /\ \A v \in DOMAIN versions : versions[v] \in DOMAIN fits
         /\ \A e \in DOMAIN evals : /\ evals[e] \in Evaluation
                                   /\ evals[e].version \in DOMAIN versions
<1>1. \A i \in DOMAIN fits : fits[i] \in Fitted
  BY DEF TypeStore, TypeFits
<1>2. \A x \in Fitted : x.run \in DOMAIN runs
  BY DEF Fitted
<1>3. \A e \in DOMAIN evals : evals[e] \in Evaluation
  BY DEF TypeStore, TypeEvals
<1>4. \A x \in Evaluation : x.version \in DOMAIN versions
  BY DEF Evaluation
<1>5. \A v \in DOMAIN versions : versions[v] \in DOMAIN fits
  BY DEF TypeStore, TypeVersions
<1> QED BY <1>1, <1>2, <1>3, <1>4, <1>5

LEMMA TrainedKept ==
  ASSUME TypeStore, Grows
  PROVE  \A v \in DOMAIN versions :
           /\ v \in DOMAIN versions' /\ versions'[v] = versions[v] /\ versions[v] \in DOMAIN fits
           /\ fits'[versions[v]] = fits[versions[v]]
           /\ runs'[fits[versions[v]].run] = runs[fits[versions[v]].run]
<1> SUFFICES ASSUME NEW v \in DOMAIN versions
             PROVE  /\ v \in DOMAIN versions' /\ versions'[v] = versions[v]
                    /\ versions[v] \in DOMAIN fits
                    /\ fits'[versions[v]] = fits[versions[v]]
                    /\ runs'[fits[versions[v]].run] = runs[fits[versions[v]].run]
  OBVIOUS
<1>1. versions[v] \in DOMAIN fits
  BY DEF TypeStore, TypeVersions
<1>2. fits[versions[v]].run \in DOMAIN runs
  BY <1>1, StoreFacts
<1> QED BY <1>1, <1>2 DEF Grows, Extends

LEMMA EvalsKept ==
  ASSUME TypeStore, Grows, UNCHANGED <<evals, champ>>, ChampInv, AgainstInv, DvcSealedIsUnseen
  PROVE  ChampInv' /\ AgainstInv' /\ DvcSealedIsUnseen'
<1>1. ChampInv' /\ AgainstInv'
  BY DEF ChampInv, AgainstInv
<1>2. DvcSealedIsUnseen'
  <2> SUFFICES ASSUME NEW e \in DOMAIN evals, evals[e].dvc
               PROVE  evals[e].sealed \cap TrainedOn(evals[e].version)' = {}
    BY DEF DvcSealedIsUnseen, TrainedOn
  <2>1. evals[e].version \in DOMAIN versions
    BY StoreFacts
  <2> QED BY <2>1, TrainedKept DEF DvcSealedIsUnseen, TrainedOn
<1> QED BY <1>1, <1>2

\* A step of a stage that writes to MLflow.
LEMMA LogStep ==
  ASSUME Inv, Running, NEW l \in StepsOf[cmd.stage], Goto(l), Grows, Progress', TypeStore',
         ChampInv', AgainstInv', DvcSealedIsUnseen', UNCHANGED <<inp, data, file>>
  PROVE  Inv'
<1>1. UNCHANGED <<inp, raw, pool, file, cache>>
  BY DEF data, Goto
<1>2. TypeCommand' /\ Control' /\ ReproInv'
  BY <1>1, GotoKept, InvNow
<1>3. SplitInv'
  BY <1>1, InvNow DEF SplitInv
<1> QED BY <1>1, <1>2, <1>3, InvNow, InvNext, CacheKept, FilesKept, InputsKept

LEMMA PartitionFacts ==
  ASSUME Inv, Partitioned
  PROVE  /\ file.feats \subseteq Customers /\ Dev \subseteq Customers /\ Sealed \subseteq Customers
         /\ Dev \cap Sealed = {}
BY InvNow, FileFacts DEF Partitioned, Dev, Sealed, Opt, SplitInv

LEMMA RunIn ==
  ASSUME Inv, CalibrationRun # None
  PROVE  CalibrationRun \in DOMAIN runs
BY InvNow, FileFacts DEF CalibrationRun, TypeCommand, Opt

LEMMA FitIn ==
  ASSUME Inv, Partitioned, CalibrationRun # None
  PROVE  Fit(CalibrationRun) \in Fitted
<1>1. inp.calib \in Nat
  BY InvNow DEF TypeInputs, Inputs
<1> QED BY <1>1, RunIn, PartitionFacts DEF Fit, Fitted

LEMMA TrainKeeps ==
  ASSUME Inv, Train
  PROVE  Inv'
<1>1. CASE Refuse(Partitioned)
  BY <1>1, RefuseKeeps
<1>2. CASE /\ Partitioned
           /\ runs' = Append(runs, [dev |-> Dev, tuning |-> inp.tuning])
           /\ ev' = Append(ev, [fit |-> None, tag |-> None, screen |-> None])
           /\ Goto("train_receipt")
           /\ UNCHANGED <<inp, data, file, fits, registry, evals>>
  <2>1. pc = "train" /\ Running /\ UNCHANGED <<fits, versions, champ, evals>>
    BY <1>2 DEF Train, Running, registry
  <2> DEFINE R == [dev |-> Dev, tuning |-> inp.tuning]
             E == [fit |-> None, tag |-> None, screen |-> None]
  <2>2. R \in [dev : SUBSET Customers, tuning : Nat]
    BY <1>2, PartitionFacts, InvNow DEF TypeInputs, Inputs
  <2>3. runs \in Seq([dev : SUBSET Customers, tuning : Nat])
    BY InvNow DEF TypeStore, TypeRuns
  <2> HIDE DEF R
  <2>4. /\ runs' = Append(runs, R) /\ runs' \in Seq([dev : SUBSET Customers, tuning : Nat])
        /\ Extends(runs, runs') /\ DOMAIN runs' = 1..(Len(runs) + 1)
        /\ Len(runs') = Len(runs) + 1 /\ runs'[Len(runs')] = R /\ Len(runs') > 0
        /\ DOMAIN runs = 1..Len(runs) /\ Len(runs) \in Nat
    <3>1. runs' = Append(runs, R)
      BY <1>2 DEF R
    <3>2. runs' \in Seq([dev : SUBSET Customers, tuning : Nat]) /\ Len(runs') = Len(runs) + 1
          /\ DOMAIN runs = 1..Len(runs) /\ Len(runs) \in Nat
      BY <2>2, <2>3, <3>1
    <3> QED BY <2>3, <3>1, <3>2, AppendExtends
  <2>5. Grows
    <3>1. Extends(fits, fits) /\ Extends(evals, evals) /\ Extends(versions, versions)
      BY DEF Extends
    <3> QED BY <2>1, <2>4, <3>1 DEF Grows
  <2>6. TypeEv'
    <3> DEFINE Y == [fit : Opt(Fitted), tag : Opt(DOMAIN fits),
                     screen : Opt([model : DOMAIN fits, of : Fitted, passed : BOOLEAN])]
               Z == [fit : Opt(Fitted'), tag : Opt(DOMAIN fits),
                     screen : Opt([model : DOMAIN fits, of : Fitted', passed : BOOLEAN])]
    <3>1. ev \in [1..Len(runs) -> Y]
      BY <2>4, InvNow DEF TypeStore, TypeEv
    <3>2. Y \subseteq Z /\ E \in Z
      <4>1. Fitted \subseteq Fitted'
        BY <2>5, ContentGrows
      <4>2. [model : DOMAIN fits, of : Fitted, passed : BOOLEAN]
              \subseteq [model : DOMAIN fits, of : Fitted', passed : BOOLEAN]
        BY <4>1
      <4> QED BY <4>1, <4>2 DEF Opt
    <3> HIDE DEF Y, Z, E
    <3>3. ev \in Seq(Z) /\ Len(ev) = Len(runs)
      BY <2>4, <3>1, <3>2
    <3>4. ev' \in [1..(Len(runs) + 1) -> Z]
      <4>1. ev' = Append(ev, E)
        BY <1>2 DEF E
      <4>2. ev' \in Seq(Z) /\ Len(ev') = Len(runs) + 1
        BY <3>2, <3>3, <4>1
      <4> QED BY <4>2
    <3> QED BY <2>1, <2>4, <3>4 DEF TypeEv, Z
  <2>7. TypeStore'
    <3>1. TypeFits'
      BY <2>1, <2>5, ContentGrows, InvNow DEF TypeStore, TypeFits
    <3>2. TypeEvals'
      BY <2>1, <2>5, ContentGrows, InvNow DEF TypeStore, TypeEvals
    <3> QED BY <2>1, <2>4, <2>6, <3>1, <3>2, InvNow DEF TypeStore, TypeRuns, TypeVersions,
                                                       TypeChamp, Opt
  <2>8. Progress'
    BY <1>2, <2>4 DEF Progress, Goto, Partitioned, Dev, R
  <2>9. "train_receipt" \in StepsOf[cmd.stage]
    BY <2>1, AtStage DEF StepsOf
  <2>10. ChampInv' /\ AgainstInv' /\ DvcSealedIsUnseen'
    BY <2>1, <2>5, EvalsKept, InvNow
  <2> QED BY <1>2, <2>1, <2>5, <2>7, <2>8, <2>9, <2>10, LogStep
<1> QED BY <1>1, <1>2 DEF Train

LEMMA TrainReceiptKeeps ==
  ASSUME Inv, TrainReceipt
  PROVE  Inv'
<1>1. pc = "train_receipt" /\ Write("train", Len(runs)) /\ Finish
      /\ UNCHANGED <<inp, data, tracking, registry, evals>>
  BY DEF TrainReceipt
<1>2. Running
  BY <1>1 DEF Running
<1>3. cmd.stage = "train" /\ (cmd.dvc => at = 5)
  BY <1>1, <1>2, AtStage, AtNumber
<1>4. Len(runs) \in DOMAIN runs /\ runs[Len(runs)] = [dev |-> Dev, tuning |-> inp.tuning]
  <2>1. runs \in Seq([dev : SUBSET Customers, tuning : Nat]) /\ Len(runs) > 0
    BY <1>1, InvNow DEF TypeStore, TypeRuns, Progress
  <2>2. Len(runs) \in DOMAIN runs
    BY <2>1
  <2> QED BY <1>1, <2>2, InvNow DEF Progress
<1>5. Len(runs) \in Content["train"] /\ "train" \in OutsOf[cmd.stage]
      /\ {"train", "ingest", "valid", "split", "feats"} \subseteq Files
  BY <1>3, <1>4, ContentFacts, OutsFacts, FileNames
<1>6. /\ file'["train"] = Len(runs) /\ file'["ingest"] = file["ingest"]
      /\ file'["valid"] = file["valid"] /\ file'["split"] = file["split"]
      /\ file'["feats"] = file["feats"]
  BY <1>1, <1>5, Written, InvNow
<1>7. cmd.dvc => Locked(cmd.stage, Sig(cmd.stage).files, Sig(cmd.stage).params,
                        [g \in OutsOf[cmd.stage] |-> file'[g]])
  BY <1>3, <1>4, <1>5, <1>6, SigFacts DEF Locked, LockedTrain, Dev
<1>8. cmd.dvc /\ at' = at + 1 => ReproInv'
  BY <1>1, <1>3, <1>4, <1>6, InvNow DEF ReproInv, data, tracking, Dev
<1> QED BY <1>1, <1>2, <1>5, <1>7, <1>8, LastWrite


LEMMA FitsKept ==
  ASSUME TypeStore, Grows, UNCHANGED <<runs, versions, evals, champ>>
  PROVE  TypeRuns' /\ TypeVersions' /\ TypeEvals' /\ TypeChamp'
<1>1. DOMAIN fits \subseteq DOMAIN fits'
  BY ContentGrows
<1>2. versions \in Seq(DOMAIN fits')
  BY <1>1 DEF TypeStore, TypeVersions
<1>3. TypeEvals'
  BY DEF TypeStore, TypeEvals, Evaluation, Fitted, Opt
<1> QED BY <1>2, <1>3 DEF TypeStore, TypeRuns, TypeVersions, TypeChamp, Opt

LEMMA LogEvidenceKeeps ==
  ASSUME Inv, LogEvidence
  PROVE  Inv'
<1> DEFINE ok == CalibrationRun # None /\ Partitioned
<1>1. CASE Refuse(ok)
  BY <1>1, RefuseKeeps
<1>2. CASE /\ ok
           /\ ev' = [ev EXCEPT ![CalibrationRun].fit = Fit(CalibrationRun)]
           /\ Goto("log_model")
           /\ UNCHANGED <<inp, data, file, runs, fits, registry, evals>>
  <2>1. pc = "evidence" /\ Running /\ UNCHANGED <<runs, fits, versions, champ, evals>>
    BY <1>2 DEF LogEvidence, Running, registry
  <2>2. Grows
    BY <2>1, SameGrows
  <2>3. CalibrationRun \in DOMAIN runs /\ Fit(CalibrationRun) \in Fitted
    BY <1>2, RunIn, FitIn
  <2>4. TypeEv'
    <3> DEFINE r == CalibrationRun
               F == Fit(CalibrationRun)
               Y == [fit : Opt(Fitted), tag : Opt(DOMAIN fits),
                     screen : Opt([model : DOMAIN fits, of : Fitted, passed : BOOLEAN])]
    <3>1. ev \in [DOMAIN runs -> Y] /\ r \in DOMAIN runs /\ F \in Opt(Fitted)
      BY <2>3, InvNow DEF TypeStore, TypeEv, Opt
    <3>2. ev' = [ev EXCEPT ![r].fit = F]
      BY <1>2
    <3>3. [ev[r] EXCEPT !.fit = F] \in Y
      BY <3>1
    <3> HIDE DEF r, F, Y
    <3>4. ev' \in [DOMAIN runs -> Y]
      BY <3>1, <3>2, <3>3
    <3> QED BY <2>1, <3>4 DEF TypeEv, Y, Fitted
  <2>5. TypeStore'
    BY <2>1, <2>2, <2>4, FitsKept, InvNow DEF TypeStore, TypeFits, Fitted
  <2>6. Progress'
    BY <1>2 DEF Progress, Goto, Partitioned, CalibrationRun
  <2>7. "log_model" \in StepsOf[cmd.stage]
    BY <2>1, AtStage DEF StepsOf
  <2>8. ChampInv' /\ AgainstInv' /\ DvcSealedIsUnseen'
    BY <2>1, <2>2, EvalsKept, InvNow
  <2> QED BY <1>2, <2>1, <2>2, <2>5, <2>6, <2>7, <2>8, LogStep
<1> QED BY <1>1, <1>2 DEF LogEvidence

LEMMA LogModelKeeps ==
  ASSUME Inv, LogModel
  PROVE  Inv'
<1> DEFINE r == CalibrationRun
           F == Fit(CalibrationRun)
<1>1. /\ pc = "log_model" /\ Running /\ Goto("calibrate_receipt")
      /\ fits' = Append(fits, F) /\ ev' = [ev EXCEPT ![r].tag = Len(fits) + 1]
      /\ UNCHANGED <<inp, data, file>>
      /\ UNCHANGED <<runs, versions, champ, evals>>
  BY DEF LogModel, Running, registry
<1>2. Partitioned /\ CalibrationRun # None
  BY <1>1, InvNow DEF Progress
<1>3. r \in DOMAIN runs /\ F \in Fitted
  BY <1>2, RunIn, FitIn
<1>4. r' = r /\ F' = F /\ Partitioned' /\ Fitted' = Fitted
  BY <1>1, <1>2 DEF CalibrationRun, Fit, Dev, Partitioned, Goto, Fitted
<1> HIDE DEF r, F
<1>5. /\ fits' \in Seq(Fitted) /\ Extends(fits, fits') /\ Len(fits) + 1 \in DOMAIN fits'
      /\ fits'[Len(fits) + 1] = F
  <2>1. fits \in Seq(Fitted)
    BY InvNow DEF TypeStore, TypeFits
  <2> QED BY <1>1, <1>3, <2>1, AppendExtends
<1>6. Grows
  <2>1. Extends(runs, runs) /\ Extends(evals, evals) /\ Extends(versions, versions)
    BY DEF Extends
  <2> QED BY <1>1, <1>5, <2>1 DEF Grows
<1>7. TypeEv' /\ ev'[r].tag = Len(fits) + 1
  <2> DEFINE Y == [fit : Opt(Fitted), tag : Opt(DOMAIN fits),
                   screen : Opt([model : DOMAIN fits, of : Fitted, passed : BOOLEAN])]
             Z == [fit : Opt(Fitted), tag : Opt(DOMAIN fits'),
                   screen : Opt([model : DOMAIN fits', of : Fitted, passed : BOOLEAN])]
  <2>1. ev \in [DOMAIN runs -> Y]
    BY InvNow DEF TypeStore, TypeEv
  <2>2. Y \subseteq Z
    <3>1. DOMAIN fits \subseteq DOMAIN fits'
      BY <1>6, ContentGrows
    <3>2. [model : DOMAIN fits, of : Fitted, passed : BOOLEAN]
            \subseteq [model : DOMAIN fits', of : Fitted, passed : BOOLEAN]
      BY <3>1
    <3> QED BY <3>1, <3>2 DEF Opt
  <2>3. ev[r] \in Z
    BY <1>3, <2>1, <2>2
  <2>4. [ev[r] EXCEPT !.tag = Len(fits) + 1] \in Z /\ [ev[r] EXCEPT !.tag = Len(fits) + 1].tag = Len(fits) + 1
    BY <1>5, <2>3 DEF Opt
  <2> HIDE DEF Y, Z
  <2>5. ev' \in [DOMAIN runs -> Z] /\ ev'[r].tag = Len(fits) + 1
    BY <1>1, <1>3, <2>1, <2>2, <2>4
  <2> QED BY <1>1, <1>4, <2>5 DEF TypeEv, Z
<1>8. TypeStore'
  BY <1>1, <1>4, <1>5, <1>6, <1>7, FitsKept, InvNow DEF TypeStore, TypeFits
<1>9. Progress'
  <2>1. CalibrationRun' = r /\ Fit(CalibrationRun)' = F
    BY <1>4 DEF r, F
  <2>2. CalibrationRun' # None
    BY <1>2, <2>1 DEF r
  <2> QED BY <1>1, <1>4, <1>5, <1>7, <2>1, <2>2 DEF Progress, Goto
<1>10. "calibrate_receipt" \in StepsOf[cmd.stage]
  BY <1>1, AtStage DEF StepsOf
<1>11. ChampInv' /\ AgainstInv' /\ DvcSealedIsUnseen'
  BY <1>1, <1>6, EvalsKept, InvNow
<1> QED BY <1>1, <1>6, <1>8, <1>9, <1>10, <1>11, LogStep

LEMMA CalibrateReceiptKeeps ==
  ASSUME Inv, CalibrateReceipt
  PROVE  Inv'
<1> DEFINE x == [run |-> CalibrationRun, model |-> ev[CalibrationRun].tag]
<1>1. pc = "calibrate_receipt" /\ Write("cal", x) /\ Finish
      /\ UNCHANGED <<inp, data, tracking, registry, evals>>
  BY DEF CalibrateReceipt
<1>2. Running
  BY <1>1 DEF Running
<1>3. cmd.stage = "calibrate" /\ (cmd.dvc => at = 6 /\ cmd.run = None)
  BY <1>1, <1>2, AtStage, AtNumber
<1>4. /\ CalibrationRun # None /\ ev[CalibrationRun].tag \in DOMAIN fits
      /\ fits[ev[CalibrationRun].tag] = Fit(CalibrationRun)
  BY <1>1, InvNow DEF Progress
<1>5. x \in Content["cal"] /\ "cal" \in OutsOf[cmd.stage]
      /\ {"cal", "train", "ingest", "valid", "split", "feats"} \subseteq Files
  BY <1>3, <1>4, RunIn, ContentFacts, OutsFacts, FileNames
<1>6. /\ file'["cal"] = x /\ file'["ingest"] = file["ingest"]
      /\ file'["valid"] = file["valid"] /\ file'["split"] = file["split"]
      /\ file'["feats"] = file["feats"] /\ file'["train"] = file["train"]
  BY <1>1, <1>5, Written, InvNow
<1>7. cmd.dvc => CalibrationRun = file.train
  BY <1>3 DEF CalibrationRun
<1>8. cmd.dvc => Locked(cmd.stage, Sig(cmd.stage).files, Sig(cmd.stage).params,
                        [g \in OutsOf[cmd.stage] |-> file'[g]])
  <2> SUFFICES ASSUME cmd.dvc
               PROVE  LockedCalibrate(Sig("calibrate").files, Sig("calibrate").params,
                                      [g \in OutsOf[cmd.stage] |-> file'[g]])
    BY <1>3 DEF Locked
  <2> DEFINE O == [g \in OutsOf[cmd.stage] |-> file'[g]]
  <2>1. O.cal = x
    BY <1>5, <1>6
  <2>2. x.run = file.train /\ x.model \in DOMAIN fits
        /\ fits[x.model] = [run |-> file.train, dev |-> Dev, calib |-> inp.calib]
    BY <1>4, <1>7 DEF Fit
  <2> HIDE DEF O, x
  <2> QED BY <2>1, <2>2, SigFacts DEF LockedCalibrate, Dev, O
<1>9. cmd.dvc /\ at' = at + 1 => ReproInv'
  BY <1>1, <1>3, <1>6, <1>7, InvNow DEF ReproInv, data, tracking, Dev
<1> HIDE DEF x
<1> QED BY <1>1, <1>2, <1>3, <1>5, <1>8, <1>9, LastWrite

---------------------------------------------------------------------------
(* threshold, evaluate, error_analysis.                                    *)

\* The version that was resolved by way of the receipt is the only one of its run.
LEMMA OneVersion ==
  ASSUME TypeStore, NEW r, VersionOfRun(r) # None
  PROVE  Resolved(VersionOfRun(r), r)
<1>1. Cardinality(VersionsOf(r)) = 1 /\ VersionOfRun(r) = Min(VersionsOf(r))
  BY DEF VersionOfRun
<1>2. IsFiniteSet(VersionsOf(r)) /\ VersionsOf(r) \subseteq Nat
  <2>1. DOMAIN versions = 1..Len(versions) /\ Len(versions) \in Nat
    BY DEF TypeStore, TypeVersions
  <2>2. IsFiniteSet(DOMAIN versions)
    BY <2>1, FS_Interval
  <2>3. VersionsOf(r) \subseteq DOMAIN versions
    BY DEF VersionsOf
  <2> QED BY <2>1, <2>2, <2>3, FS_Subset
<1>3. PICK v : VersionsOf(r) = {v}
  BY <1>1, <1>2, FS_Singleton
<1>4. Min({v}) = v
  BY <1>2, <1>3 DEF Min
<1>5. v \in VersionsOf(r) /\ \A u \in VersionsOf(r) : u = v
  BY <1>3
<1>6. VersionOfRun(r) = v
  BY <1>1, <1>3, <1>4
<1>7. v \in Nat
  BY <1>2, <1>3
<1> HIDE DEF VersionOfRun
<1>8. Resolved(v, r)
  BY <1>5, <1>7 DEF Resolved, FirstOfRun, VersionsOf
<1> QED BY <1>6, <1>8

LEMMA VersionFacts ==
  ASSUME Inv, Version # None
  PROVE  /\ Version \in DOMAIN versions /\ versions[Version] \in DOMAIN fits
         /\ Run \in DOMAIN runs
         /\ cmd.version = None => file.cal # None /\ Resolved(Version, file.cal.run)
<1>1. CASE cmd.version # None
  <2>1. Version \in DOMAIN versions
    BY <1>1, InvNow DEF Version, TypeCommand, Opt
  <2> QED BY <1>1, <2>1, StoreFacts, InvNow DEF Run
<1>2. CASE cmd.version = None
  <2>1. file.cal # None /\ Version = VersionOfRun(file.cal.run)
    BY <1>2 DEF Version
  <2>2. Resolved(Version, file.cal.run)
    BY <2>1, OneVersion, InvNow
  <2>3. Version \in DOMAIN versions
    BY <2>2 DEF Resolved
  <2> QED BY <2>1, <2>2, <2>3, StoreFacts, InvNow DEF Run
<1> QED BY <1>1, <1>2


LEMMA ScreenKeeps ==
  ASSUME Inv, NEW passed \in BOOLEAN, Screen(passed)
  PROVE  Inv'
<1> DEFINE ok == /\ Version # None /\ Partitioned
                 /\ Evidence.fit # None /\ Dev \subseteq Evidence.fit.dev
           S == [model |-> versions[Version], of |-> Evidence.fit, passed |-> passed]
<1>1. CASE Refuse(ok)
  BY <1>1, RefuseKeeps
<1>2. CASE /\ ok /\ ev' = [ev EXCEPT ![Run].screen = S] /\ Goto("policy")
           /\ UNCHANGED <<inp, data, file, runs, fits, registry, evals>>
  <2>1. pc = "screen" /\ Running /\ UNCHANGED <<runs, fits, versions, champ, evals>>
    BY <1>2 DEF Screen, Running, registry
  <2>2. Grows
    BY <2>1, SameGrows
  <2>3. TypeEv'
    <3> DEFINE r == Run
               W == [model : DOMAIN fits, of : Fitted, passed : BOOLEAN]
               Y == [fit : Opt(Fitted), tag : Opt(DOMAIN fits), screen : Opt(W)]
    <3>1. ev \in [DOMAIN runs -> Y] /\ r \in DOMAIN runs
      BY <1>2, VersionFacts, InvNow DEF TypeStore, TypeEv
    <3>2. Evidence.fit \in Fitted
      BY <1>2, <3>1 DEF Evidence, Opt
    <3>3. S \in W
      BY <1>2, <3>2, VersionFacts
    <3>4. ev' = [ev EXCEPT ![r].screen = S]
      BY <1>2
    <3> HIDE DEF r, S, W
    <3>5. [ev[r] EXCEPT !.screen = S] \in Y
      BY <3>1, <3>3 DEF Opt
    <3> HIDE DEF Y
    <3>6. ev' \in [DOMAIN runs -> Y]
      BY <3>1, <3>4, <3>5
    <3> QED BY <2>1, <3>6 DEF TypeEv, Y, W, Fitted
  <2>4. TypeStore'
    BY <2>1, <2>2, <2>3, FitsKept, InvNow DEF TypeStore, TypeFits, Fitted
  <2>5. Progress'
    BY <1>2 DEF Progress, Goto
  <2>6. "policy" \in StepsOf[cmd.stage]
    BY <2>1, AtStage DEF StepsOf
  <2>7. ChampInv' /\ AgainstInv' /\ DvcSealedIsUnseen'
    BY <2>1, <2>2, EvalsKept, InvNow
  <2> QED BY <1>2, <2>1, <2>2, <2>4, <2>5, <2>6, <2>7, LogStep
<1> QED BY <1>1, <1>2 DEF Screen

\* The policy file is written, whoever wrote it and whatever comes of it.
LEMMA PolicyWritten ==
  ASSUME Inv, Write("policy", inp.costs), Grows
  PROVE  /\ inp.costs \in Content["policy"] /\ TypeFiles' /\ SplitInv'
         /\ file'["policy"] = inp.costs
         /\ \A g \in Files \ {"policy"} : file'[g] = file[g]
<1>1. inp.costs \in Content["policy"]
  BY InvNow, ContentFacts DEF TypeInputs, Inputs
<1>2. "policy" \in Files /\ "split" \in Files
  BY FileNames
<1>3. inp.costs \in Content'["policy"]
  BY <1>1, <1>2, ContentGrows
<1>4. TypeFiles' /\ \A g \in Files : file'[g] = IF g = "policy" THEN inp.costs ELSE file[g]
  BY <1>2, <1>3, WriteKept, InvNow
<1>5. file'["split"] = file["split"]
  BY <1>2, <1>4
<1> QED BY <1>1, <1>2, <1>4, <1>5, SplitKept, InvNow

LEMMA PolicyKeeps ==
  ASSUME Inv, Policy
  PROVE  Inv'
<1>1. pc = "policy" /\ Write("policy", inp.costs) /\ Running
  BY DEF Policy, Running
<1>2. cmd.stage = "threshold" /\ (cmd.dvc => at = 7)
  BY <1>1, AtStage, AtNumber
<1>3. CASE Finish /\ UNCHANGED <<inp, data, tracking, registry, evals>>
  <2>1. Grows
    BY <1>3, SameGrows DEF tracking, registry
  <2>2. /\ inp.costs \in Content["policy"] /\ file'["policy"] = inp.costs
        /\ "policy" \in OutsOf[cmd.stage]
        /\ \A g \in Files \ {"policy"} : file'[g] = file[g]
    BY <1>1, <1>2, <2>1, PolicyWritten, OutsFacts
  <2>3. Locked(cmd.stage, Sig(cmd.stage).files, Sig(cmd.stage).params,
               [g \in OutsOf[cmd.stage] |-> file'[g]])
    BY <1>2, <2>2, SigFacts DEF Locked
  <2>4. cmd.dvc /\ at' = at + 1 => ReproInv'
    <3>1. /\ file'["ingest"] = file["ingest"] /\ file'["valid"] = file["valid"]
          /\ file'["train"] = file["train"] /\ file'["feats"] = file["feats"]
          /\ file'["split"] = file["split"] /\ file'["cal"] = file["cal"]
      BY <2>2, FileNames
    <3> QED BY <1>2, <1>3, <3>1, InvNow DEF ReproInv, data, tracking, Dev
  <2> QED BY <1>1, <1>3, <2>2, <2>3, <2>4, LastWrite
<1>4. CASE Stop /\ UNCHANGED <<tracking, evals, used>>
  <2>1. UNCHANGED <<inp, raw, pool, cache, runs, ev, fits, versions, evals, champ, used>> /\ Idle
    BY <1>4 DEF Stop, data, tracking, registry
  <2>2. Grows /\ used' \in Nat
    BY <2>1, SameGrows, InvNow DEF TypeCommand
  <2>3. TypeFiles' /\ SplitInv'
    BY <1>1, <2>2, PolicyWritten
  <2> QED BY <2>1, <2>2, <2>3, InvNow, InvNext, IdleKept, StoreKept, CacheKept, InputsKept
<1> QED BY <1>3, <1>4 DEF Policy

LEMMA RerunKeeps ==
  ASSUME Inv, Rerun
  PROVE  Inv'
<1>1. UNCHANGED <<inp, raw, pool, cache, runs, ev, fits, versions, evals, champ, pc, cmd, goal, at>>
      /\ pc = "idle" /\ used' = used + 1 /\ Write("policy", inp.costs)
  BY DEF Rerun, data, tracking, registry, repro
<1>2. Grows /\ used' \in Nat
  BY <1>1, SameGrows, InvNow DEF TypeCommand
<1>3. TypeFiles' /\ SplitInv'
  BY <1>1, <1>2, PolicyWritten
<1>4. TypeCommand' /\ Control' /\ Progress' /\ ReproInv'
  <2>1. TypeCommand'
    BY <1>1, <1>2, InvNow DEF TypeCommand, Opt
  <2>2. Control' /\ Progress' /\ ReproInv'
    BY <1>1, InvNow DEF Control, Running, Progress, ReproInv
  <2> QED BY <2>1, <2>2
<1> QED BY <1>1, <1>2, <1>3, <1>4, InvNow, InvNext, StoreKept, CacheKept, InputsKept

\* What a repro evaluates: the version of the run it has trained on the dev rows.
LEMMA ReproEvaluates ==
  ASSUME Inv, pc = "score", cmd.dvc, Version # None, Partitioned
  PROVE  Resolved(Version, file.cal.run) /\ Sealed \cap TrainedOn(Version) = {}
<1>1. Running
  BY DEF Running
<1>2. at = 8 /\ cmd.version = None
  BY <1>1, AtStage, AtNumber
<1>3. Resolved(Version, file.cal.run)
  BY <1>2, VersionFacts
<1>4. file.cal.run = file.train /\ runs[file.train].dev = Dev
  BY <1>2, InvNow DEF ReproInv
<1>5. TrainedOn(Version) = Dev
  BY <1>3, <1>4 DEF TrainedOn, Resolved
<1> QED BY <1>3, <1>5, PartitionFacts

LEMMA ScoreKeeps ==
  ASSUME Inv, Score
  PROVE  Inv'
<1>0. PICK c \in Incumbents :
        LET ok == /\ Version # None /\ Partitioned /\ ScreenHolds
                  /\ file.policy # None /\ Comparable(c) IN
        \/ Refuse(ok)
        \/ /\ ok /\ Len(evals) < Max.evals
           /\ evals' = Append(evals,
                 [version |-> Version, feats |-> file.feats, sealed |-> Sealed,
                  screen |-> Evidence.screen.of, policy |-> file.policy,
                  against |-> c, dvc |-> cmd.dvc])
           /\ Goto("eval_receipt")
           /\ UNCHANGED <<inp, data, file, tracking, registry>>
  BY DEF Score
<1>3. c \in {champ, NoChampion}
  BY DEF Incumbents
<1> DEFINE ok == /\ Version # None /\ Partitioned /\ ScreenHolds
                 /\ file.policy # None /\ Comparable(c)
           v == Version
           E == [version |-> v, feats |-> file.feats, sealed |-> Sealed,
                 screen |-> Evidence.screen.of, policy |-> file.policy,
                 against |-> c, dvc |-> cmd.dvc]
<1>1. CASE Refuse(ok)
  BY <1>1, RefuseKeeps
<1>2. CASE /\ ok /\ evals' = Append(evals, E) /\ Goto("eval_receipt")
           /\ UNCHANGED <<inp, data, file, tracking, registry>>
  <2>1. pc = "score" /\ Running /\ UNCHANGED <<runs, ev, fits, versions, champ>>
    BY <1>2 DEF Score, Running, tracking, registry
  <2>2. v \in DOMAIN versions /\ Run \in DOMAIN runs
    BY <1>2, VersionFacts
  <2>3. E \in Evaluation
    <3>1. Evidence.screen.of \in Fitted
      <4> DEFINE W == [model : DOMAIN fits, of : Fitted, passed : BOOLEAN]
      <4>1. ev[Run].screen \in Opt(W)
        BY <2>2, InvNow DEF TypeStore, TypeEv
      <4>2. ev[Run].screen # None
        BY <1>2 DEF ScreenHolds, Evidence
      <4>3. ev[Run].screen \in W
        BY <4>1, <4>2 DEF Opt
      <4> QED BY <4>3 DEF Evidence
    <3>2. file.policy \in Nat /\ file.feats \in SUBSET Customers /\ Sealed \in SUBSET Customers
      BY <1>2, PartitionFacts, FileFacts, InvNow DEF Opt
    <3>3. c \in [version : Opt(DOMAIN versions), eval : Opt(DOMAIN evals)] /\ cmd.dvc \in BOOLEAN
      BY <1>3, InvNow DEF TypeStore, TypeChamp, TypeCommand, NoChampion, Opt
    <3> QED BY <2>2, <3>1, <3>2, <3>3 DEF Evaluation
  <2>4. /\ E.version = v /\ E.sealed = Sealed /\ E.against = c /\ E.dvc = cmd.dvc
        /\ E.feats = file.feats /\ E.policy = file.policy
    OBVIOUS
  <2>5. cmd.dvc => Resolved(v, file.cal.run) /\ Sealed \cap TrainedOn(v) = {}
    BY <1>2, <2>1, ReproEvaluates
  <2> DEFINE n == Len(evals) + 1
  <2>6. E \in Evaluation /\ evals' = Append(evals, E) /\ evals \in Seq(Evaluation)
    BY <1>2, <2>3, InvNow DEF TypeStore, TypeEvals
  <2>7. c.version # None => evals[c.eval].sealed = Sealed
    BY <1>2 DEF Comparable
  <2> HIDE DEF E, v
  <2>8. /\ evals' \in Seq(Evaluation) /\ Extends(evals, evals') /\ n \in DOMAIN evals'
        /\ evals'[n] = E /\ Len(evals') = n /\ n > 0 /\ DOMAIN evals' = DOMAIN evals \cup {n}
    BY <2>6, AppendExtends
  <2> HIDE DEF n
  <2>9. Grows
    <3>1. Extends(fits, fits) /\ Extends(runs, runs) /\ Extends(versions, versions)
      BY DEF Extends
    <3> QED BY <2>1, <2>8, <3>1 DEF Grows
  <2>10. TypeStore'
    <3>1. TypeEvals'
      BY <2>8, <2>9, ContentGrows DEF TypeEvals
    <3>2. TypeChamp'
      BY <2>1, <2>9, ContentGrows, InvNow DEF TypeStore, TypeChamp, Opt
    <3> QED BY <2>1, <3>1, <3>2, InvNow DEF TypeStore, TypeRuns, TypeEv, TypeFits, TypeVersions,
                                            Fitted
  <2>11. ChampInv'
    BY <2>1, <2>8, InvNow DEF ChampInv, Extends
  <2>12. AgainstInv'
    <3> SUFFICES ASSUME NEW e \in DOMAIN evals', evals'[e].against.version # None
                 PROVE  /\ evals'[e].against.eval \in DOMAIN evals'
                        /\ evals'[evals'[e].against.eval].version = evals'[e].against.version
                        /\ evals'[evals'[e].against.eval].sealed = evals'[e].sealed
      BY DEF AgainstInv
    <3>1. CASE e \in DOMAIN evals
      BY <2>8, <3>1, InvNow DEF AgainstInv, Extends
    <3>2. CASE e = n
      BY <1>3, <2>4, <2>7, <2>8, <3>2, InvNow DEF ChampInv, Extends, NoChampion
    <3> QED BY <2>8, <3>1, <3>2
  <2>13. DvcSealedIsUnseen'
    <3> SUFFICES ASSUME NEW e \in DOMAIN evals', evals'[e].dvc
                 PROVE  evals'[e].sealed
                          \cap runs'[fits'[versions'[evals'[e].version]].run].dev = {}
      BY DEF DvcSealedIsUnseen, TrainedOn
    <3>1. CASE e \in DOMAIN evals
      BY <2>1, <2>8, <3>1, InvNow DEF DvcSealedIsUnseen, TrainedOn, Extends
    <3>2. CASE e = n
      BY <2>1, <2>4, <2>5, <2>8, <3>2 DEF TrainedOn
    <3> QED BY <2>8, <3>1, <3>2
  <2>14. Progress'
    <3>1. UNCHANGED <<file, cmd>> /\ pc' = "eval_receipt"
      BY <1>2 DEF Goto
    <3>2. Sealed' = Sealed /\ Partitioned'
      BY <1>2, <3>1 DEF Sealed, Partitioned
    <3>3. /\ evals'[Len(evals')].policy = file'.policy /\ evals'[Len(evals')].feats = file'.feats
          /\ evals'[Len(evals')].sealed = Sealed' /\ Len(evals') > 0
      BY <2>4, <2>8, <3>1, <3>2
    <3>4. cmd'.dvc => Resolved(evals[Len(evals)].version, file.cal.run)'
      <4>1. evals'[Len(evals')].version = v
        BY <2>4, <2>8
      <4> QED BY <2>1, <2>5, <3>1, <4>1 DEF Resolved, FirstOfRun
    <3> QED BY <3>1, <3>2, <3>3, <3>4 DEF Progress
  <2>15. "eval_receipt" \in StepsOf[cmd.stage]
    BY <2>1, AtStage DEF StepsOf
  <2> QED BY <1>2, <2>1, <2>9, <2>10, <2>11, <2>12, <2>13, <2>14, <2>15, LogStep
<1> QED BY <1>0, <1>1, <1>2


LEMMA EvalReceiptKeeps ==
  ASSUME Inv, EvalReceipt
  PROVE  Inv'
<1>1. /\ pc = "eval_receipt" /\ Running /\ Write("eval", Len(evals)) /\ Goto("mirror")
      /\ UNCHANGED <<inp, raw, pool, cache, runs, ev, fits, versions, evals, champ>>
  BY DEF EvalReceipt, Running, data, tracking, registry, Goto
<1>2. Grows
  BY <1>1, SameGrows
<1>3. Len(evals) \in DOMAIN evals
  <2>1. evals \in Seq(Evaluation) /\ Len(evals) > 0
    BY <1>1, InvNow DEF Progress, TypeStore, TypeEvals
  <2> QED BY <2>1
<1>4. /\ Len(evals) \in Content'["eval"]
      /\ {"eval", "ingest", "valid", "split", "feats", "train", "cal", "policy"} \subseteq Files
  BY <1>1, <1>3, FileNames DEF Content
<1>5. /\ TypeFiles' /\ file'["eval"] = Len(evals) /\ file'["ingest"] = file["ingest"]
      /\ file'["valid"] = file["valid"] /\ file'["split"] = file["split"]
      /\ file'["feats"] = file["feats"] /\ file'["train"] = file["train"]
      /\ file'["cal"] = file["cal"] /\ file'["policy"] = file["policy"]
  <2>1. TypeFiles' /\ \A g \in Files : file'[g] = IF g = "eval" THEN Len(evals) ELSE file[g]
    BY <1>1, <1>2, <1>4, WriteKept, InvNow
  <2> QED BY <2>1, <1>4
<1>6. "mirror" \in StepsOf[cmd.stage]
  BY <1>1, AtStage DEF StepsOf
<1>7. TypeCommand' /\ Control' /\ ReproInv'
  BY <1>1, <1>2, <1>5, <1>6, GotoKept, InvNow
<1>8. SplitInv'
  BY <1>5, SplitKept, InvNow
<1>9. Progress'
  <2>1. pc' = "mirror" /\ cmd' = cmd /\ evals' = evals
    BY <1>1 DEF Goto
  <2>2. /\ Partitioned /\ Len(evals) > 0
        /\ evals[Len(evals)].policy = file.policy /\ evals[Len(evals)].feats = file.feats
        /\ evals[Len(evals)].sealed = Sealed
        /\ cmd.dvc => Resolved(evals[Len(evals)].version, file.cal.run)
    BY <1>1, InvNow DEF Progress
  <2>3. Partitioned' /\ Sealed' = Sealed
    BY <1>5, <2>2 DEF Partitioned, Sealed
  <2>4. cmd.dvc => Resolved(evals[Len(evals)].version, file.cal.run)'
    BY <1>1, <1>5, <2>2 DEF Resolved, FirstOfRun
  <2> QED BY <1>5, <2>1, <2>2, <2>3, <2>4 DEF Progress
<1> QED BY <1>1, <1>2, <1>5, <1>7, <1>8, <1>9, InvNow, InvNext, StoreKept, CacheKept, InputsKept

LEMMA MirrorKeeps ==
  ASSUME Inv, Mirror
  PROVE  Inv'
<1> DEFINE n == Len(evals)
           x == versions[evals[n].version]
<1>1. pc = "mirror" /\ Write("pred", x) /\ Finish
      /\ UNCHANGED <<inp, data, tracking, registry, evals>>
  BY DEF Mirror
<1>2. Running
  BY <1>1 DEF Running
<1>3. cmd.stage = "evaluate" /\ (cmd.dvc => at = 8)
  BY <1>1, <1>2, AtStage, AtNumber
<1>4. /\ n \in DOMAIN evals /\ file.eval = n
      /\ evals[n].policy = file.policy /\ evals[n].feats = file.feats /\ evals[n].sealed = Sealed
      /\ cmd.dvc => Resolved(evals[n].version, file.cal.run)
  <2>1. evals \in Seq(Evaluation) /\ Len(evals) > 0
    BY <1>1, InvNow DEF Progress, TypeStore, TypeEvals
  <2>2. n \in DOMAIN evals
    BY <2>1
  <2> QED BY <1>1, <2>2, InvNow DEF Progress
<1>5. x \in Content["pred"] /\ "pred" \in OutsOf[cmd.stage] /\ "eval" \in OutsOf[cmd.stage]
      /\ {"pred", "eval", "ingest", "valid", "split", "feats", "train", "cal"} \subseteq Files
  BY <1>3, <1>4, StoreFacts, InvNow, ContentFacts, OutsFacts, FileNames
<1>6. /\ file'["eval"] = file["eval"] /\ file'["ingest"] = file["ingest"]
      /\ file'["valid"] = file["valid"] /\ file'["split"] = file["split"]
      /\ file'["feats"] = file["feats"] /\ file'["train"] = file["train"]
      /\ file'["cal"] = file["cal"]
  BY <1>1, <1>5, Written, InvNow
<1> HIDE DEF n, x
<1>7. cmd.dvc => Locked(cmd.stage, Sig(cmd.stage).files, Sig(cmd.stage).params,
                        [g \in OutsOf[cmd.stage] |-> file'[g]])
  <2> SUFFICES ASSUME cmd.dvc
               PROVE  LockedEvaluate(Sig("evaluate").files, [g \in OutsOf[cmd.stage] |-> file'[g]])
    BY <1>3 DEF Locked
  <2> DEFINE O == [g \in OutsOf[cmd.stage] |-> file'[g]]
  <2>1. O.eval = n
    BY <1>4, <1>5, <1>6
  <2> HIDE DEF O
  <2>2. LockedEvaluate(Sig("evaluate").files, O)
    BY <1>4, <2>1, SigFacts DEF LockedEvaluate, Sealed
  <2> QED BY <2>2 DEF O
<1>8. cmd.dvc /\ at' = at + 1 => ReproInv'
  BY <1>1, <1>3, <1>6, InvNow DEF ReproInv, data, tracking, Dev
<1> QED BY <1>1, <1>2, <1>3, <1>5, <1>7, <1>8, LastWrite

LEMMA AnalyseKeeps ==
  ASSUME Inv, Analyse
  PROVE  Inv'
<1> DEFINE ok == /\ Version # None /\ ScreenHolds /\ file.pred = versions[Version]
                 /\ file.policy # None /\ file.feats # None
           x == [version |-> Version, of |-> file.pred]
<1>1. CASE Refuse(ok)
  BY <1>1, RefuseKeeps
<1>2. CASE ok /\ Write("ea", x) /\ Finish /\ UNCHANGED <<inp, data, tracking, registry, evals>>
  <2>1. pc = "analyse" /\ Running
    BY DEF Analyse, Running
  <2>2. cmd.stage = "error_analysis" /\ (cmd.dvc => at = 9 /\ cmd.version = None)
    BY <2>1, AtStage, AtNumber
  <2>3. /\ Version \in DOMAIN versions /\ file.pred \in DOMAIN fits
        /\ cmd.dvc => Resolved(Version, file.cal.run)
    BY <1>2, <2>2, VersionFacts
  <2>4. x \in Content["ea"] /\ "ea" \in OutsOf[cmd.stage]
        /\ {"ea", "ingest", "valid", "split", "feats", "train", "cal"} \subseteq Files
    BY <2>2, <2>3, ContentFacts, OutsFacts, FileNames
  <2>5. /\ file'["ea"] = x /\ file'["ingest"] = file["ingest"]
        /\ file'["valid"] = file["valid"] /\ file'["split"] = file["split"]
        /\ file'["feats"] = file["feats"] /\ file'["train"] = file["train"]
        /\ file'["cal"] = file["cal"]
    BY <1>2, <2>4, Written, InvNow
  <2>6. x.version = Version
    OBVIOUS
  <2> HIDE DEF x
  <2>7. cmd.dvc => Locked(cmd.stage, Sig(cmd.stage).files, Sig(cmd.stage).params,
                          [g \in OutsOf[cmd.stage] |-> file'[g]])
    <3> SUFFICES ASSUME cmd.dvc
                 PROVE  Resolved([g \in OutsOf[cmd.stage] |-> file'[g]].ea.version,
                                 Sig("error_analysis").files.cal.run)
      BY <2>2 DEF Locked
    <3>1. [g \in OutsOf[cmd.stage] |-> file'[g]].ea.version = Version
      BY <2>4, <2>5, <2>6
    <3> QED BY <2>3, <3>1, SigFacts
  <2>8. cmd.dvc /\ at' = at + 1 => ReproInv'
    BY <1>2, <2>2, <2>5, InvNow DEF ReproInv, data, tracking, Dev
  <2> QED BY <1>2, <2>1, <2>2, <2>4, <2>7, <2>8, LastWrite
<1> QED BY <1>1, <1>2 DEF Analyse

---------------------------------------------------------------------------
(* The mint and the promotion.                                             *)

LEMMA MintKeeps ==
  ASSUME Inv, NEW r \in Opt(DOMAIN runs), Mint(r)
  PROVE  Inv'
<1> DEFINE m == IF r # None THEN ev[r].tag
                ELSE IF file.cal # None THEN file.cal.model ELSE None
<1>1. /\ pc \in {"idle", "next"} /\ m # None /\ versions' = Append(versions, m)
      /\ UNCHANGED <<inp, raw, pool, file, cache, runs, ev, fits, evals, champ, pc, cmd, goal, at,
                     used>>
  BY DEF Mint, data, tracking, repro
<1>2. m \in DOMAIN fits
  <2>1. CASE r # None
    <3>1. ev[r].tag \in Opt(DOMAIN fits)
      BY <2>1, InvNow DEF TypeStore, TypeEv, Opt
    <3> QED BY <1>1, <2>1, <3>1 DEF Opt
  <2>2. CASE r = None
    BY <1>1, <2>2, FileFacts, InvNow DEF Opt
  <2> QED BY <2>1, <2>2
<1> HIDE DEF m
<1>3. /\ versions' \in Seq(DOMAIN fits) /\ Extends(versions, versions')
      /\ \A u \in DOMAIN versions' : u \in DOMAIN versions \/ \A v \in DOMAIN versions : v <= u
  <2>1. versions \in Seq(DOMAIN fits)
    BY InvNow DEF TypeStore, TypeVersions
  <2>2. /\ Extends(versions, versions') /\ DOMAIN versions' = DOMAIN versions \cup {Len(versions) + 1}
        /\ \A i \in DOMAIN versions : i <= Len(versions) + 1
    BY <1>1, <1>2, <2>1, AppendExtends
  <2> QED BY <1>1, <1>2, <2>1, <2>2
<1>4. Grows
  <2>1. Extends(runs, runs) /\ Extends(fits, fits) /\ Extends(evals, evals)
    BY DEF Extends
  <2> QED BY <1>1, <1>3, <2>1 DEF Grows
<1>5. TypeStore'
  <2>1. TypeEvals'
    BY <1>1, <1>4, ContentGrows, InvNow DEF TypeStore, TypeEvals
  <2>2. TypeChamp'
    BY <1>1, <1>4, ContentGrows, InvNow DEF TypeStore, TypeChamp, Opt
  <2> QED BY <1>1, <1>3, <2>1, <2>2, InvNow DEF TypeStore, TypeRuns, TypeEv, TypeFits, TypeVersions,
                                          Fitted
<1>6. ChampInv' /\ AgainstInv' /\ DvcSealedIsUnseen'
  BY <1>1, <1>4, EvalsKept, InvNow
<1>7. used' \in Nat
  BY <1>1, InvNow DEF TypeCommand
<1>8. SplitInv'
  BY <1>1, InvNow DEF SplitInv
<1> QED BY <1>1, <1>4, <1>5, <1>6, <1>7, <1>8, BetweenKept, CacheKept, FilesKept, InputsKept, InvNow,
           InvNext

LEMMA PromoteKeeps ==
  ASSUME Inv, NEW v \in DOMAIN versions, Promote(v)
  PROVE  Inv'
<1>1. /\ pc \in {"idle", "next"} /\ file.eval # None /\ evals[file.eval].version = v
      /\ champ' = [version |-> v, eval |-> file.eval]
      /\ UNCHANGED <<inp, raw, pool, file, cache, runs, ev, fits, versions, evals, pc, cmd, goal, at,
                     used>>
  BY DEF Promote, data, tracking, repro
<1>2. file.eval \in DOMAIN evals
  BY <1>1, FileFacts, InvNow DEF Opt
<1>3. Grows /\ used' \in Nat
  BY <1>1, SameGrows, InvNow DEF TypeCommand
<1>4. TypeStore'
  <2>1. TypeChamp'
    BY <1>1, <1>2 DEF TypeChamp, Opt
  <2> QED BY <1>1, <2>1, InvNow DEF TypeStore, TypeRuns, TypeEv, TypeFits, TypeVersions, TypeEvals,
                                    Fitted, Evaluation, Opt
<1>5. ChampInv' /\ AgainstInv' /\ DvcSealedIsUnseen'
  BY <1>1, <1>2, InvNow DEF ChampInv, AgainstInv, DvcSealedIsUnseen, TrainedOn
<1>6. SplitInv'
  BY <1>1, InvNow DEF SplitInv
<1> QED BY <1>1, <1>3, <1>4, <1>5, <1>6, BetweenKept, CacheKept, FilesKept, InputsKept, InvNow, InvNext

LEMMA RefreshKeeps ==
  ASSUME Inv, Refresh
  PROVE  Inv'
<1>1. /\ pc \in {"idle", "next"} /\ file.eval # None /\ evals[file.eval].version = champ.version
      /\ champ' = [champ EXCEPT !.eval = file.eval]
      /\ UNCHANGED <<inp, raw, pool, file, cache, runs, ev, fits, versions, evals, pc, cmd, goal, at,
                     used>>
  BY DEF Refresh, data, tracking, repro
<1>2. file.eval \in DOMAIN evals
  BY <1>1, FileFacts, InvNow DEF Opt
<1>3. Grows /\ used' \in Nat
  BY <1>1, SameGrows, InvNow DEF TypeCommand
<1>4. TypeStore'
  <2>1. TypeChamp'
    BY <1>1, <1>2, InvNow DEF TypeStore, TypeChamp, Opt
  <2> QED BY <1>1, <2>1, InvNow DEF TypeStore, TypeRuns, TypeEv, TypeFits, TypeVersions, TypeEvals,
                                    Fitted, Evaluation, Opt
<1>5. ChampInv' /\ AgainstInv' /\ DvcSealedIsUnseen'
  BY <1>1, <1>2, InvNow DEF ChampInv, AgainstInv, DvcSealedIsUnseen, TrainedOn
<1>6. SplitInv'
  BY <1>1, InvNow DEF SplitInv
<1> QED BY <1>1, <1>3, <1>4, <1>5, <1>6, BetweenKept, CacheKept, FilesKept, InputsKept, InvNow, InvNext


---------------------------------------------------------------------------
(* The invariant, and what follows from it.                                *)

LEMMA InvInit == Init => Inv
<1> SUFFICES ASSUME Init PROVE Inv
  OBVIOUS
<1>1. TypeInputs /\ InPlace
  BY PipelineAssumption DEF Init, TypeInputs, InPlace, Inputs
<1>2. TypeFiles /\ SplitInv
  BY FileNames DEF Init, TypeFiles, SplitInv, Opt
<1>3. TypeCache /\ CacheInv
  BY DEF Init, TypeCache, CacheInv
<1>4. TypeStore
  BY DEF Init, NoChampion, TypeStore, TypeRuns, TypeEv, TypeFits, TypeVersions, TypeEvals, TypeChamp, Opt
<1>5. TypeCommand
  BY StageFacts DEF Init, NoCmd, TypeCommand, Opt
<1>6. Control /\ Progress /\ ReproInv
  BY DEF Init, Control, Running, Progress, ReproInv
<1>7. ChampInv /\ AgainstInv /\ DvcSealedIsUnseen
  BY DEF Init, NoChampion, ChampInv, AgainstInv, DvcSealedIsUnseen
<1> QED BY <1>1, <1>2, <1>3, <1>4, <1>5, <1>6, <1>7, InvNow

LEMMA InvStep == Inv /\ [Next]_vars => Inv'
<1> SUFFICES ASSUME Inv, [Next]_vars PROVE Inv'
  OBVIOUS
<1>1. CASE StageStep
  BY <1>1, MergeKeeps, SeedPoolKeeps, IngestReceiptKeeps, ValidateKeeps, SplitKeeps, FeaturesKeeps,
     TrainKeeps, TrainReceiptKeeps, LogEvidenceKeeps, LogModelKeeps, CalibrateReceiptKeeps,
     ScreenKeeps, PolicyKeeps, ScoreKeeps, EvalReceiptKeeps, MirrorKeeps, AnalyseKeeps
     DEF StageStep, IngestStep, TrainStep, CalibrateStep, ThresholdStep, EvaluateStep
<1>2. CASE ReproStep
  BY <1>2, SkipStageKeeps, RunStageKeeps, ReproDoneKeeps DEF ReproStep
<1>3. CASE Operator
  <2>1. ASSUME NEW k \in Inputs, NEW n \in 1..LastInput[k], Edit(k, n) PROVE Inv'
    BY <2>1, EditKeeps
  <2>2. ASSUME NEW g \in Goals, Repro(g) PROVE Inv'
    BY <2>2, ReproKeeps
  <2>3. ASSUME NEW r \in DOMAIN runs \cup {None}, ByHand("calibrate", r, None) \/ Mint(r) PROVE Inv'
    <3>1. r \in Opt(DOMAIN runs) /\ None \in Opt(DOMAIN versions) /\ "calibrate" \in DOMAIN OutsOf
      BY StageFacts DEF Opt
    <3> QED BY <2>3, <3>1, ByHandKeeps, MintKeeps
  <2>4. ASSUME NEW s \in {"threshold", "evaluate", "error_analysis"},
               NEW v \in DOMAIN versions \cup {None}, ByHand(s, None, v)
        PROVE  Inv'
    <3>1. v \in Opt(DOMAIN versions) /\ None \in Opt(DOMAIN runs) /\ s \in DOMAIN OutsOf
      BY StageFacts DEF Opt
    <3> QED BY <2>4, <3>1, ByHandKeeps
  <2>5. ASSUME NEW v \in DOMAIN versions, Promote(v) PROVE Inv'
    BY <2>5, PromoteKeeps
  <2> QED BY <1>3, <2>1, <2>2, <2>3, <2>4, <2>5, RerunKeeps, RefreshKeeps DEF Operator
<1>4. CASE Fail
  BY <1>4, FailKeeps
<1>5. CASE UNCHANGED vars
  <2>1. UNCHANGED <<inp, raw, pool, file, cache, runs, ev, fits, versions, evals, champ, pc, cmd,
                    goal, at, used>>
    BY <1>5 DEF vars
  <2>2. Grows
    BY <2>1, SameGrows
  <2>3. TypeCommand' /\ Control' /\ Progress' /\ ReproInv' /\ SplitInv'
    BY <2>1, InvNow DEF TypeCommand, Control, Running, Progress, ReproInv, SplitInv, Opt, Csv, Dev,
                        Sealed, Partitioned, CalibrationRun, Fit, Resolved, FirstOfRun
  <2> QED BY <2>1, <2>2, <2>3, InvNow, InvNext, StoreKept, CacheKept, FilesKept, InputsKept
<1> QED BY <1>1, <1>2, <1>3, <1>4, <1>5 DEF Next

\* Every reachable state satisfies the invariant: what DVC has recorded of a stage
\* follows from what dvc.yaml declares of it, in spite of edits, commands by hand and
\* crashes.
THEOREM Invariance == Spec => []Inv
BY InvInit, InvStep, PTL DEF Spec

\* Whatever a file, a tag, a receipt or a record of MLflow or the registry refers to
\* exists (utils/mlflow.py's receipts, calibrate's tag, register's mint).
THEOREM TypeSafety == Spec => []TypeOK
<1>1. Inv => TypeOK
  BY DEF Inv
<1> QED BY <1>1, Invariance, PTL

\* What a `dvc repro` evaluates was trained on none of the rows it is scored on, for
\* any customers, CSVs, seeds and any number of edits, commands by hand and crashes.
THEOREM SealedSafety == Spec => []DvcSealedIsUnseen
<1>1. Inv => DvcSealedIsUnseen
  BY DEF Inv
<1> QED BY <1>1, Invariance, PTL

\* Nor was the champion it is compared with (evaluate's load_incumbent_proba): its
\* evaluation was scored on the same rows.
THEOREM ComparisonSafety == Spec => []ComparisonIsUnseenByBoth
<1>1. Inv => ComparisonIsUnseenByBoth
  <2> SUFFICES ASSUME Inv, NEW e \in DOMAIN evals, evals[e].against.version # None,
                      evals[evals[e].against.eval].dvc
               PROVE  evals[e].sealed \cap TrainedOn(evals[e].against.version) = {}
    BY DEF ComparisonIsUnseenByBoth
  <2> DEFINE i == evals[e].against.eval
  <2>1. /\ i \in DOMAIN evals /\ evals[i].version = evals[e].against.version
        /\ evals[i].sealed = evals[e].sealed
    BY InvNow DEF AgainstInv
  <2>2. evals[i].sealed \cap TrainedOn(evals[i].version) = {}
    BY <2>1, InvNow DEF DvcSealedIsUnseen
  <2> QED BY <2>1, <2>2
<1> QED BY <1>1, Invariance, PTL

\* What a stage that DVC finds up to date says of its outputs.
LEMMA CleanStage ==
  ASSUME Inv, NEW s \in DOMAIN OutsOf, Clean(s)
  PROVE  \E O : /\ Locked(s, Sig(s).files, Sig(s).params, O)
                /\ \A f \in OutsOf[s] : file[f] = O[f]
<1>1. PICK c \in Known(s) : \A f \in OutsOf[s] : file[f] = c.outs[f]
  BY DEF Clean
<1>2. Locked(s, Sig(s).files, Sig(s).params, c.outs)
  BY <1>1, InvNow DEF Known, CacheInv
<1> QED BY <1>1, <1>2

\* When `dvc repro` would run nothing, every file is what the stages compute from the
\* CSV, the tables and the configuration in place (dvc.yaml's deps and params are
\* all that the stages read).
THEOREM CleanSafety == Spec => []CleanIsCurrent
<1>1. Inv => CleanIsCurrent
  <2> SUFFICES ASSUME Inv, \A s \in DOMAIN OutsOf : Clean(s)
               PROVE  /\ file.feats = Csv
                      /\ file.split.dev \cup file.split.test = raw
                      /\ runs[file.train] = [dev |-> Dev, tuning |-> inp.tuning]
                      /\ fits[file.cal.model] = Fit(file.train)
                      /\ file.policy = inp.costs
                      /\ evals[file.eval].policy = inp.costs
                      /\ evals[file.eval].feats = file.feats
                      /\ evals[file.eval].sealed = Csv \cap TestOf[inp.seed][raw]
                      /\ file.ea.version = evals[file.eval].version
    BY DEF CleanIsCurrent
  <2>1. file.ingest = Csv /\ raw = Csv
    <3>1. PICK O : /\ Locked("ingest", Sig("ingest").files, Sig("ingest").params, O)
                   /\ \A f \in OutsOf["ingest"] : file[f] = O[f]
      BY CleanStage, StageFacts
    <3>2. file.ingest = O.ingest /\ LockedIngest(Sig("ingest").params, O)
      BY <3>1, OutsFacts DEF Locked
    <3> QED BY <3>2, SigFacts, InvNow DEF LockedIngest, InPlace, Csv
  <2>2. file.valid = Csv
    <3>1. PICK O : /\ Locked("validate", Sig("validate").files, Sig("validate").params, O)
                   /\ \A f \in OutsOf["validate"] : file[f] = O[f]
      BY CleanStage, StageFacts
    <3> QED BY <2>1, <3>1, SigFacts, OutsFacts DEF Locked
  <2>3. file.split = [test |-> TestOf[inp.seed][raw], dev |-> raw \ TestOf[inp.seed][raw]]
    <3>1. PICK O : /\ Locked("split", Sig("split").files, Sig("split").params, O)
                   /\ \A f \in OutsOf["split"] : file[f] = O[f]
      BY CleanStage, StageFacts
    <3>2. LockedSplit(Sig("split").files, Sig("split").params, O) /\ file.split = O.split
      BY <3>1, OutsFacts DEF Locked
    <3> QED BY <2>1, <2>2, <3>2, SigFacts DEF LockedSplit
  <2>4. file.feats = Csv
    <3>1. PICK O : /\ Locked("features", Sig("features").files, Sig("features").params, O)
                   /\ \A f \in OutsOf["features"] : file[f] = O[f]
      BY CleanStage, StageFacts
    <3> QED BY <2>2, <3>1, SigFacts, OutsFacts DEF Locked
  <2>5. runs[file.train] = [dev |-> Dev, tuning |-> inp.tuning]
    <3>1. PICK O : /\ Locked("train", Sig("train").files, Sig("train").params, O)
                   /\ \A f \in OutsOf["train"] : file[f] = O[f]
      BY CleanStage, StageFacts
    <3>2. LockedTrain(Sig("train").files, Sig("train").params, O) /\ file.train = O.train
      BY <3>1, OutsFacts DEF Locked
    <3> QED BY <3>2, SigFacts DEF LockedTrain, Dev
  <2>6. fits[file.cal.model] = Fit(file.train)
    <3>1. PICK O : /\ Locked("calibrate", Sig("calibrate").files, Sig("calibrate").params, O)
                   /\ \A f \in OutsOf["calibrate"] : file[f] = O[f]
      BY CleanStage, StageFacts
    <3>2. LockedCalibrate(Sig("calibrate").files, Sig("calibrate").params, O) /\ file.cal = O.cal
      BY <3>1, OutsFacts DEF Locked
    <3> QED BY <3>2, SigFacts DEF LockedCalibrate, Dev, Fit
  <2>7. file.policy = inp.costs
    <3>1. PICK O : /\ Locked("threshold", Sig("threshold").files, Sig("threshold").params, O)
                   /\ \A f \in OutsOf["threshold"] : file[f] = O[f]
      BY CleanStage, StageFacts
    <3> QED BY <3>1, SigFacts, OutsFacts DEF Locked
  <2>8. /\ evals[file.eval].policy = file.policy /\ evals[file.eval].feats = file.feats
        /\ evals[file.eval].sealed = Sealed
        /\ Resolved(evals[file.eval].version, file.cal.run)
    <3>1. PICK O : /\ Locked("evaluate", Sig("evaluate").files, Sig("evaluate").params, O)
                   /\ \A f \in OutsOf["evaluate"] : file[f] = O[f]
      BY CleanStage, StageFacts
    <3>2. LockedEvaluate(Sig("evaluate").files, O) /\ file.eval = O.eval
      BY <3>1, OutsFacts DEF Locked
    <3> QED BY <3>2, SigFacts DEF LockedEvaluate, Sealed
  <2>9. Resolved(file.ea.version, file.cal.run)
    <3>1. PICK O : /\ Locked("error_analysis", Sig("error_analysis").files,
                             Sig("error_analysis").params, O)
                   /\ \A f \in OutsOf["error_analysis"] : file[f] = O[f]
      BY CleanStage, StageFacts
    <3>2. Resolved(O.ea.version, Sig("error_analysis").files.cal.run) /\ file.ea = O.ea
      BY <3>1, OutsFacts DEF Locked
    <3> QED BY <3>2, SigFacts
  <2>10. TestOf[inp.seed][raw] \subseteq raw
    BY InvNow, PipelineAssumption DEF InPlace, TypeInputs
  <2>11. file.split.dev \cup file.split.test = raw
    BY <2>3, <2>10
  <2>12. Sealed = Csv \cap TestOf[inp.seed][raw]
    BY <2>3, <2>4 DEF Sealed
  <2>13. file.ea.version = evals[file.eval].version
    <3> DEFINE v == evals[file.eval].version
               w == file.ea.version
    <3>1. v \in DOMAIN versions /\ w \in DOMAIN versions /\ v <= w /\ w <= v
      BY <2>8, <2>9 DEF Resolved, FirstOfRun
    <3>2. DOMAIN versions \subseteq Nat
      BY InvNow DEF TypeStore, TypeVersions
    <3>3. v \in Nat /\ w \in Nat
      BY <3>1, <3>2
    <3> HIDE DEF v, w
    <3>4. v = w
      BY <3>1, <3>3
    <3> QED BY <3>4 DEF v, w
  <2> QED BY <2>4, <2>5, <2>6, <2>7, <2>8, <2>11, <2>12, <2>13
<1> QED BY <1>1, Invariance, PTL

---------------------------------------------------------------------------
(* From the run a version comes of to the model itself.                    *)

\* No calibration is made by hand, with RUN_ID, under another split than the one
\* its run was trained under.  A repro never makes one.
HandCalibratesOwnRows == pc = "log_model" /\ ~cmd.dvc => runs[CalibrationRun].dev = Dev

\* What every model was fitted on is what its run was trained on.
FitsOwnRows == \A m \in DOMAIN fits : fits[m].dev = runs[fits[m].run].dev

\* No model that a repro evaluates was fitted on a row it is scored on.
ModelIsUnseen ==
  \A e \in DOMAIN evals :
    evals[e].dvc => evals[e].sealed \cap fits[versions[evals[e].version]].dev = {}

LEMMA ReproCalibratesOwnRows ==
  ASSUME Inv, pc = "log_model", cmd.dvc
  PROVE  runs[CalibrationRun].dev = Dev
<1>1. Running /\ cmd.stage = "calibrate"
  BY AtStage, StepNames DEF Running, StepsOf
<1>2. at = 6 /\ cmd.run = None
  BY <1>1, AtNumber, InvNow DEF Control
<1> QED BY <1>2, InvNow DEF ReproInv, CalibrationRun

\* Only calibrate adds a model, and a run is never changed.
LEMMA ModelsKept ==
  ASSUME Inv, [Next]_vars, ~LogModel
  PROVE  fits' = fits /\ Extends(runs, runs')
<1>1. CASE Train
  <2>1. runs \in Seq([dev : SUBSET Customers, tuning : Nat])
    BY InvNow DEF TypeStore, TypeRuns
  <2>2. Extends(runs, runs)
    BY DEF Extends
  <2> QED BY <1>1, <2>1, <2>2, AppendExtends DEF Train, Refuse, tracking
<1>2. CASE ~Train
  <2>1. UNCHANGED <<runs, fits>>
    <3>1. CASE StageStep
      BY <1>2, <3>1 DEF StageStep, IngestStep, TrainStep, CalibrateStep, ThresholdStep,
         EvaluateStep, Merge, SeedPool, IngestReceipt, Validate, Split, Features, TrainReceipt,
         LogEvidence, CalibrateReceipt, Screen, Policy, Score, EvalReceipt, Mirror, Analyse,
         Refuse, tracking
    <3>2. CASE ReproStep \/ Operator \/ Fail
      BY <3>2 DEF ReproStep, SkipStage, RunStage, ReproDone, Operator, Edit, Repro, ByHand,
         Mint, Rerun, Promote, Refresh, Fail, tracking
    <3>3. CASE UNCHANGED vars
      BY <3>3 DEF vars
    <3> QED BY <3>1, <3>2, <3>3 DEF Next
  <2> QED BY <2>1 DEF Extends
<1> QED BY <1>1, <1>2

LEMMA FitsStep ==
  ASSUME Inv, HandCalibratesOwnRows, FitsOwnRows, [Next]_vars
  PROVE  FitsOwnRows'
<1>1. CASE ~LogModel
  BY <1>1, ModelsKept, StoreFacts, InvNow DEF FitsOwnRows, Extends
<1>2. CASE LogModel
  <2> DEFINE F == Fit(CalibrationRun)
  <2>1. fits' = Append(fits, F) /\ runs' = runs
    BY <1>2 DEF LogModel
  <2>2. Partitioned /\ CalibrationRun # None /\ pc = "log_model"
    BY <1>2, InvNow DEF LogModel, Progress
  <2>3. fits \in Seq(Fitted) /\ F \in Fitted
    BY <2>2, FitIn, InvNow DEF TypeStore, TypeFits
  <2>4. F.dev = runs[F.run].dev
    BY <2>2, ReproCalibratesOwnRows, InvNow
       DEF HandCalibratesOwnRows, Fit
  <2> HIDE DEF F
  <2>5. \A m \in DOMAIN fits' : (m \in DOMAIN fits /\ fits'[m] = fits[m]) \/ fits'[m] = F
    BY <2>1, <2>3, AppendExtends DEF Extends
  <2> QED BY <2>1, <2>4, <2>5 DEF FitsOwnRows
<1> QED BY <1>1, <1>2

\* Unless a calibration by hand was made under another split than its run's, which
\* no stage checks, no model that a repro evaluates (evaluate's run_evaluation_step)
\* was fitted on any of the rows it is scored on.
THEOREM ModelSafety == Spec /\ []HandCalibratesOwnRows => []ModelIsUnseen
<1>1. Init => FitsOwnRows
  BY DEF Init, FitsOwnRows
<1>2. Inv /\ HandCalibratesOwnRows /\ FitsOwnRows /\ [Next]_vars => FitsOwnRows'
  BY FitsStep
<1>3. Inv /\ FitsOwnRows => ModelIsUnseen
  BY InvNow, StoreFacts DEF FitsOwnRows, ModelIsUnseen, DvcSealedIsUnseen, TrainedOn
<1> QED BY <1>1, <1>2, <1>3, Invariance, PTL DEF Spec
===============================================================================
