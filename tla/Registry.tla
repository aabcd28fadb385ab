------------------------------- MODULE Registry -------------------------------
(***************************************************************************)
(* The model-registry lifecycle of telco_churn/models/register.py: minting *)
(* a version, promoting or rejecting it, rolling the champion alias back,  *)
(* and refreshing a promoted version's reference tags, together with the   *)
(* stages that produce the evidence it acts on (threshold, evaluate,       *)
(* error_analysis, review).                                                *)
(*                                                                         *)
(* Every command is a process of its own that talks to the MLflow server   *)
(* one call at a time, with no lock and no transaction, so one action here *)
(* is one such call (or a run of reads and local checks that ends in one). *)
(* Between two of them the process can crash, the call can raise, and the  *)
(* commands other people run can take their own steps.                     *)
(*                                                                         *)
(* Data is reduced to what the control flow branches on: a gate verdict, a *)
(* review verdict, a screen outcome, which version a run or file is for.   *)
(***************************************************************************)
EXTENDS Naturals, Sequences

CONSTANTS
    Procs,          \* the operating-system processes that may run a command
    MaxVersion,     \* registry versions that can be minted (bound)
    MaxEvals,       \* evaluation runs that can be logged (bound)
    MaxReviews,     \* entries in one promotion_review.json (bound)
    MaxLog,         \* promotion_log length at which manual commands stop (bound)
    MaxCrashes,     \* process crashes in one behaviour (bound)
    MaxFaults,      \* MLflow calls that raise in one behaviour (bound)
    RequireReview,  \* cfg.register.require_review
    Pins,           \* versions passed as evaluate.champion_version
    Reruns,         \* versions whose threshold is re-derived after a cost change
    Rescreens,      \* versions whose threshold stage is run again once it has run
    ScreenRejects   \* versions tag_pre_seal_screen_rejected is called for

Versions   == 1..MaxVersion
NoVersion  == 0
EvalRuns   == 1..MaxEvals
NoEval     == 0

ASSUME RegistryAssumption ==
    /\ MaxVersion \in Nat /\ MaxEvals \in Nat
    /\ MaxReviews \in Nat /\ MaxLog \in Nat
    /\ MaxCrashes \in Nat /\ MaxFaults \in Nat
    /\ RequireReview \in BOOLEAN
    /\ Pins \subseteq Versions /\ Reruns \subseteq Versions
    /\ Rescreens \subseteq Versions /\ ScreenRejects \subseteq Versions

VARIABLES
    \* the MLflow registry
    status,        \* per version: "minted" until it has a promotion_status, then that
    modelTag,      \* per version: is logged_model_id tagged
    champion,      \* the champion alias
    challenger,    \* the challenger alias
    evalTag,       \* per version: the eval_run_id tag
    critTag,       \* per version: the run its gate-criteria tags were copied from
    eaTag,         \* per version: is error_analysis_run_id tagged
    thrTag,        \* per version: is threshold_run_id tagged
    log,           \* the promotion_log tag of the registered model
    \* runs and files
    evals,         \* per evaluation run: promotion_decision.json and metrics.json
    reviews,       \* per evaluation run: promotion_review.json's entries
    screen,        \* per version: threshold_validation.json's pre-seal screen
    evalReceipt,   \* reports/eval_receipt.json
    eaReceipt,     \* reports/error_analysis_receipt.json
    rerunReceipt,  \* reports/threshold_rerun_receipt.json
    approvals,     \* history: evaluation runs on which an approval was ever logged
    vetted,        \* history: versions a promotion of which found the screen passing
    \* the commands under way
    pc, loc,
    crashes, faults

registryVars == <<status, modelTag, champion, challenger, evalTag, critTag, eaTag,
                  thrTag, log>>
evidenceVars == <<evals, reviews, screen, evalReceipt, eaReceipt, rerunReceipt,
                  approvals, vetted>>
faultVars    == <<crashes, faults>>
vars == <<registryVars, evidenceVars, pc, loc, faultVars>>

Statuses == {"unminted", "minted", "pending", "promoted", "rejected"}
Verdicts == {"approved", "rejected"}
AnyVersion == Versions \cup {NoVersion}
AnyEval    == EvalRuns \cup {NoEval}

\* What an evaluation run records; an unused run records no version.
Evaluation == [version : AnyVersion, champ : AnyVersion, gate : {"pass", "fail"}]
\* An entry of promotion_log.
Event == [action : {"promoted", "rolled_back", "refreshed"},
          version : AnyVersion, from : AnyVersion]

\* Why a rollback runs: by hand, or to undo a flip, and what follows it.
Returns == {"manual", "abort", "reject"}
\* A command's local variables.
Local == [ver : AnyVersion, ev : AnyEval, inc : AnyVersion, ea : BOOLEAN,
          seen : SUBSET Versions, tgt : AnyVersion, cur : AnyVersion,
          ret : Returns, hist : Seq(Event), doc : Seq(Verdicts)]
Blank == [ver |-> NoVersion, ev |-> NoEval, inc |-> NoVersion, ea |-> FALSE,
          seen |-> {}, tgt |-> NoVersion, cur |-> NoVersion,
          ret |-> "manual", hist |-> <<>>, doc |-> <<>>]

MintSteps     == {"m_model", "m_pending", "m_verify"}
EvidenceSteps == {"e_log", "e_receipt", "v_log"}
CheckSteps    == {"p_eval", "p_criteria", "p_review", "p_evidence", "p_smoke",
                  "p_reverify", "p_flip"}
LiveSteps     == {"p_confirm", "p_tag", "p_logread", "p_logwrite"}
RollbackSteps == {"r_scan", "r_resolve", "r_alias", "r_logread", "r_logwrite"}
RefreshSteps  == {"f_eval", "f_criteria", "f_logread", "f_logwrite"}
Labels == {"idle", "p_reject"} \cup MintSteps \cup EvidenceSteps \cup CheckSteps
            \cup LiveSteps \cup RollbackSteps \cup RefreshSteps

\* The steps of _complete_promotion's try block.
FinalizeSteps == {"p_tag", "p_logread", "p_logwrite"}

-----------------------------------------------------------------------------
(* Control of one command. *)

Goto(p, label) == pc' = [pc EXCEPT ![p] = label] /\ UNCHANGED loc
Enter(p, label, l) == pc' = [pc EXCEPT ![p] = label] /\ loc' = [loc EXCEPT ![p] = l]
Return(p) == Enter(p, "idle", Blank)

SetTag(tags, v, value) == [tags EXCEPT ![v] = value]

-----------------------------------------------------------------------------
(* Mint: register_challenger. *)

\* mlflow.register_model: the version exists from here on, with no tag.
MintVersion(p) ==
    /\ pc[p] = "idle"
    /\ \E v \in Versions :
        /\ status[v] = "unminted"
        /\ \A w \in Versions : w < v => status[w] # "unminted"
        /\ status' = SetTag(status, v, "minted")
        /\ Enter(p, "m_model", [Blank EXCEPT !.ver = v])
    /\ UNCHANGED <<modelTag, champion, challenger, evalTag, critTag, eaTag,
                   thrTag, log, evidenceVars, faultVars>>

\* The descriptions, training_data_scope, then logged_model_id.
MintTagModel(p) ==
    /\ pc[p] = "m_model"
    /\ modelTag' = SetTag(modelTag, loc[p].ver, TRUE)
    /\ Goto(p, "m_pending")
    /\ UNCHANGED <<status, champion, challenger, evalTag, critTag, eaTag,
                   thrTag, log, evidenceVars, faultVars>>

\* Mutant: the mint-time promotion_status is forgotten.
MintTagPending_Forgotten(p) ==
    /\ pc[p] = "m_pending"
    /\ Goto(p, "m_verify")
    /\ UNCHANGED <<registryVars, evidenceVars, faultVars>>

\* tuned_hyperparameters from the training manifest, then promotion_status.
MintTagPending(p) ==
    /\ pc[p] = "m_pending"
    /\ status' = SetTag(status, loc[p].ver, "pending")
    /\ Goto(p, "m_verify")
    /\ UNCHANGED <<modelTag, champion, challenger, evalTag, critTag, eaTag,
                   thrTag, log, evidenceVars, faultVars>>

\* Reload parity, and only if it holds the challenger alias; otherwise the
\* AssertionError leaves the version pending and unaliased.
MintVerify(p) ==
    /\ pc[p] = "m_verify"
    /\ challenger' \in {loc[p].ver, challenger}
    /\ Return(p)
    /\ UNCHANGED <<status, modelTag, champion, evalTag, critTag, eaTag, thrTag,
                   log, evidenceVars, faultVars>>

-----------------------------------------------------------------------------
(* The stages that produce evidence. *)

\* resolve_logged_model_id refuses a version without the tag.
HasLoggedModel(v) == modelTag[v]

\* run_threshold_step, which may be run again at any time: the screen of the
\* fitted model under the costs of the day is logged over the last one, passed
\* or failed, before a failure raises.
Threshold(v) ==
    /\ HasLoggedModel(v)
    /\ screen[v] = "none" \/ v \in Rescreens
    /\ \E outcome \in {"pass", "fail"} : screen' = [screen EXCEPT ![v] = outcome]
    /\ UNCHANGED <<registryVars, evals, reviews, evalReceipt, eaReceipt,
                   rerunReceipt, approvals, vetted, pc, loc, faultVars>>

\* tag_pre_seal_screen_rejected reads nothing: it tags whatever version it is
\* given, a promoted one and the champion included.
PreSealReject(v) ==
    /\ v \in ScreenRejects
    /\ status[v] # "unminted"
    /\ status' = SetTag(status, v, "rejected")
    /\ UNCHANGED <<modelTag, champion, challenger, evalTag, critTag, eaTag,
                   thrTag, log, evidenceVars, pc, loc, faultVars>>

\* The incumbents resolve_evaluation_champion can return: the live alias, no
\* champion (a live alias that is unset, or the "none" override), or a pin.
Incumbents == {champion, NoVersion} \cup Pins

\* resolve_incumbent_summary refuses an incumbent without these tags.
ComparableIncumbent(c) ==
    c # NoVersion => evalTag[c] # NoEval /\ critTag[c] # NoEval

\* The first half of run_evaluation_step: refuse a version without a
\* logged_model_id or with a failed screen, score it, fix the incumbent.
EvaluateStart(p, v) ==
    /\ pc[p] = "idle"
    /\ HasLoggedModel(v)
    /\ screen[v] = "pass"
    /\ \E e \in EvalRuns : evals[e].version = NoVersion
    /\ \E c \in Incumbents :
        /\ ComparableIncumbent(c)
        /\ Enter(p, "e_log", [Blank EXCEPT !.ver = v, !.inc = c])
    /\ UNCHANGED <<registryVars, evidenceVars, faultVars>>

\* The second half: log the evaluation run with the gate's verdict ...
EvaluateLog(p) ==
    /\ pc[p] = "e_log"
    /\ \E e \in EvalRuns, g \in {"pass", "fail"} :
        /\ evals[e].version = NoVersion
        /\ \A d \in EvalRuns : d < e => evals[d].version # NoVersion
        /\ evals' = [evals EXCEPT ![e] = [version |-> loc[p].ver,
                                          champ |-> loc[p].inc, gate |-> g]]
        /\ Enter(p, "e_receipt", [loc[p] EXCEPT !.ev = e])
    /\ UNCHANGED <<registryVars, reviews, screen, evalReceipt, eaReceipt,
                   rerunReceipt, approvals, vetted, faultVars>>

\* ... and then leave its receipt, over one a later run may have left meanwhile.
EvaluateReceipt(p) ==
    /\ pc[p] = "e_receipt"
    /\ evalReceipt' = loc[p].ev
    /\ Return(p)
    /\ UNCHANGED <<registryVars, evals, reviews, screen, eaReceipt, rerunReceipt,
                   approvals, vetted, faultVars>>

\* The receipt exists and was written by an evaluation of v.
ReceiptIsFor_Trusted(v) == evalReceipt # NoEval  \* mutant: whose receipt is not asked
ReceiptIsFor(v) == evalReceipt # NoEval /\ evals[evalReceipt].version = v

\* run_error_analysis_step: refuses a failed screen, and a mirror of
\* test_predictions.parquet that another version's evaluation wrote last.
ErrorAnalysis(v) ==
    /\ screen[v] = "pass"
    /\ ReceiptIsFor(v)
    /\ eaReceipt' = v
    /\ UNCHANGED <<registryVars, evals, reviews, screen, evalReceipt,
                   rerunReceipt, approvals, vetted, pc, loc, faultVars>>

\* run_review_step reads the whole document from the evaluation run ...
ReviewRead(p, e) ==
    /\ pc[p] = "idle"
    /\ evals[e].version # NoVersion
    /\ Len(reviews[e]) < MaxReviews
    /\ Enter(p, "v_log", [Blank EXCEPT !.ev = e, !.doc = reviews[e]])
    /\ UNCHANGED <<registryVars, evidenceVars, faultVars>>

\* ... and logs what it read plus one entry in its place.
ReviewLog(p) ==
    /\ pc[p] = "v_log"
    /\ \E verdict \in Verdicts :
        /\ reviews' = [reviews EXCEPT ![loc[p].ev] = Append(loc[p].doc, verdict)]
        /\ approvals' = IF verdict = "approved" THEN approvals \cup {loc[p].ev}
                                                ELSE approvals
    /\ Return(p)
    /\ UNCHANGED <<registryVars, evals, screen, evalReceipt, eaReceipt,
                   rerunReceipt, vetted, faultVars>>

\* run_threshold_rerun_step leaves its receipt.
ThresholdRerun(v) ==
    /\ v \in Reruns
    /\ HasLoggedModel(v)
    /\ rerunReceipt' = v
    /\ UNCHANGED <<registryVars, evals, reviews, screen, evalReceipt, eaReceipt,
                   approvals, vetted, pc, loc, faultVars>>

\* tag_threshold_rerun: only a promoted version, only from its own receipt.
TagThresholdRerun(v) ==
    /\ status[v] = "promoted"
    /\ rerunReceipt = v
    /\ thrTag' = SetTag(thrTag, v, TRUE)
    /\ UNCHANGED <<status, modelTag, champion, challenger, evalTag, critTag,
                   eaTag, log, evidenceVars, pc, loc, faultVars>>

-----------------------------------------------------------------------------
(* Promote or reject: run_registration_step. *)

\* _check_already_decided.
AlreadyDecided(v) == status[v] \in {"promoted", "rejected"}

\* One read of the version's tags; a decided version is a no-op.
PromoteStart(p, v) ==
    /\ pc[p] = "idle"
    /\ status[v] # "unminted" /\ ~AlreadyDecided(v)
    /\ Enter(p, "p_eval", [Blank EXCEPT !.ver = v, !.ev = evalTag[v], !.ea = eaTag[v]])
    /\ UNCHANGED <<registryVars, evidenceVars, faultVars>>

\* _resolve_and_tag_eval_run_id: the tag read at the start, else the receipt.
PromoteResolveEval(p) ==
    /\ pc[p] = "p_eval"
    /\ \/ /\ loc[p].ev # NoEval
          /\ Goto(p, "p_criteria")
          /\ UNCHANGED evalTag
       \/ /\ loc[p].ev = NoEval
          /\ ReceiptIsFor(loc[p].ver)
          /\ evalTag' = SetTag(evalTag, loc[p].ver, evalReceipt)
          /\ Enter(p, "p_criteria", [loc[p] EXCEPT !.ev = evalReceipt])
       \/ /\ loc[p].ev = NoEval
          /\ ~ReceiptIsFor(loc[p].ver)
          /\ Return(p)
          /\ UNCHANGED evalTag
    /\ UNCHANGED <<status, modelTag, champion, challenger, critTag, eaTag,
                   thrTag, log, evidenceVars, faultVars>>

\* A failed gate vetoes, whatever a reviewer may say.
GateFails_Ignored(e) == FALSE  \* mutant: the gate's verdict is not consulted
GateFails(e) == evals[e].gate = "fail"

\* The decision must be for this version; its criteria become tags, and a
\* failed gate rejects before any review is looked at.
PromoteCriteria(p) ==
    /\ pc[p] = "p_criteria"
    /\ \/ /\ evals[loc[p].ev].version = loc[p].ver
          /\ critTag' = SetTag(critTag, loc[p].ver, loc[p].ev)
          /\ Goto(p, IF GateFails(loc[p].ev) THEN "p_reject" ELSE "p_review")
       \/ /\ evals[loc[p].ev].version # loc[p].ver
          /\ Return(p)
          /\ UNCHANGED critTag
    /\ UNCHANGED <<status, modelTag, champion, challenger, evalTag, eaTag,
                   thrTag, log, evidenceVars, faultVars>>

\* _resolve_review_verdict: the latest entry decides, "none" blocks.
ReviewVerdict(e) ==
    IF reviews[e] = <<>> THEN "none" ELSE reviews[e][Len(reviews[e])]

PromoteReview(p) ==
    /\ pc[p] = "p_review"
    /\ \/ /\ RequireReview => ReviewVerdict(loc[p].ev) = "approved"
          /\ Goto(p, "p_evidence")
       \/ /\ RequireReview /\ ReviewVerdict(loc[p].ev) = "rejected"
          /\ Goto(p, "p_reject")
       \/ /\ RequireReview /\ ReviewVerdict(loc[p].ev) = "none"
          /\ Return(p)
    /\ UNCHANGED <<registryVars, evidenceVars, faultVars>>

\* Mutant: the screen is not checked again, evaluate having checked it once.
ScreenHolds_Trusted(v) == screen[v] # "none"
\* check_threshold_screen_passed, on the screen as it is now.
ScreenHolds(v) == screen[v] = "pass"

\* The screen is checked again, then error_analysis_run_id is resolved from
\* the tag read at the start or from a receipt for this version, and tagged.
PromoteEvidence(p) ==
    /\ pc[p] = "p_evidence"
    /\ LET v == loc[p].ver IN
        \/ /\ ScreenHolds(v)
           /\ loc[p].ea \/ eaReceipt = v
           /\ eaTag' = IF loc[p].ea THEN eaTag ELSE SetTag(eaTag, v, TRUE)
           /\ vetted' = IF screen[v] = "pass" THEN vetted \cup {v} ELSE vetted
           /\ Goto(p, "p_smoke")
        \/ /\ ~ScreenHolds(v) \/ (~loc[p].ea /\ eaReceipt # v)
           /\ Return(p)
           /\ UNCHANGED <<eaTag, vetted>>
    /\ UNCHANGED <<status, modelTag, champion, challenger, evalTag, critTag, thrTag,
                   log, evals, reviews, screen, evalReceipt, eaReceipt, rerunReceipt,
                   approvals, faultVars>>

\* _run_pre_flip_checks: an AssertionError rejects, an environment mismatch
\* only raises.
PromoteSmoke(p) ==
    /\ pc[p] = "p_smoke"
    /\ \/ Goto(p, "p_reverify")
       \/ Goto(p, "p_reject")
       \/ Return(p)
    /\ UNCHANGED <<registryVars, evidenceVars, faultVars>>

\* _reverify_incumbent: asked only when the evaluation recorded an incumbent.
IncumbentHolds_Unchecked(recorded) == TRUE  \* mutant: no re-verification
IncumbentHolds(recorded) == recorded \in {NoVersion, champion}

PromoteReverify(p) ==
    /\ pc[p] = "p_reverify"
    /\ IF IncumbentHolds(evals[loc[p].ev].champ) THEN Goto(p, "p_flip") ELSE Return(p)
    /\ UNCHANGED <<registryVars, evidenceVars, faultVars>>

\* promote_to_alias: from here the candidate is what every reader loads.
PromoteFlip(p) ==
    /\ pc[p] = "p_flip"
    /\ champion' = loc[p].ver
    /\ Goto(p, "p_confirm")
    /\ UNCHANGED <<status, modelTag, challenger, evalTag, critTag, eaTag,
                   thrTag, log, evidenceVars, faultVars>>

\* Mutant: a parity mismatch rejects the version and leaves it serving.
PromoteConfirm_NoRollback(p) ==
    /\ pc[p] = "p_confirm"
    /\ Goto(p, "p_tag") \/ Goto(p, "p_reject")
    /\ UNCHANGED <<registryVars, evidenceVars, faultVars>>

\* Reload through the alias and compare; a mismatch rolls back, then rejects.
PromoteConfirm(p) ==
    /\ pc[p] = "p_confirm"
    /\ \/ Goto(p, "p_tag")
       \/ Enter(p, "r_scan", [loc[p] EXCEPT !.ret = "reject"])
    /\ UNCHANGED <<registryVars, evidenceVars, faultVars>>

\* The drift reference and the model card, then promotion_status: promoted.
PromoteTag(p) ==
    /\ pc[p] = "p_tag"
    /\ status' = SetTag(status, loc[p].ver, "promoted")
    /\ Goto(p, "p_logread")
    /\ UNCHANGED <<modelTag, champion, challenger, evalTag, critTag, eaTag,
                   thrTag, log, evidenceVars, faultVars>>

\* _tag_rejected.
PromoteReject(p) ==
    /\ pc[p] = "p_reject"
    /\ status' = SetTag(status, loc[p].ver, "rejected")
    /\ Return(p)
    /\ UNCHANGED <<modelTag, champion, challenger, evalTag, critTag, eaTag,
                   thrTag, log, evidenceVars, faultVars>>

-----------------------------------------------------------------------------
(* Roll back: rollback_champion, by hand or from a failed flip. *)

\* Called by hand, with an explicit target_version or with none.
RollbackStart(p) ==
    /\ pc[p] = "idle"
    /\ Len(log) < MaxLog
    /\ \E t \in AnyVersion : Enter(p, "r_scan", [Blank EXCEPT !.tgt = t])
    /\ UNCHANGED <<registryVars, evidenceVars, faultVars>>

\* search_model_versions: the versions tagged promoted at this moment.
TaggedPromoted_AnyStatus == {v \in Versions : status[v] # "unminted"}  \* mutant
TaggedPromoted == {v \in Versions : status[v] = "promoted"}

RollbackScan(p) ==
    /\ pc[p] = "r_scan"
    /\ Enter(p, "r_resolve", [loc[p] EXCEPT !.seen = TaggedPromoted])
    /\ UNCHANGED <<registryVars, evidenceVars, faultVars>>

\* max(candidates, key=int) as a singleton, or nothing to restore.
Highest(candidates) ==
    IF candidates = {} THEN {NoVersion}
    ELSE {v \in candidates : \A w \in candidates : w <= v}

\* What an automatic rollback restores: the highest version seen promoted
\* other than the current champion.
Restorable_KeepsCurrent(seen, current) == Highest(seen)  \* mutant: no exclusion
Restorable(seen, current) == Highest(seen \ {current})

\* Read the alias, then choose; an explicit target not seen promoted raises.
RollbackResolve(p) ==
    /\ pc[p] = "r_resolve"
    /\ LET l == loc[p] IN
        \/ /\ l.tgt = NoVersion
           /\ \E t \in Restorable(l.seen, champion) :
                Enter(p, "r_alias", [l EXCEPT !.cur = champion, !.tgt = t])
        \/ /\ l.tgt \in l.seen
           /\ Enter(p, "r_alias", [l EXCEPT !.cur = champion])
        \/ /\ l.tgt # NoVersion /\ l.tgt \notin l.seen
           /\ Return(p)
    /\ UNCHANGED <<registryVars, evidenceVars, faultVars>>

\* Re-point the alias; with nothing to restore, delete it if it was set.
RollbackAlias(p) ==
    /\ pc[p] = "r_alias"
    /\ champion' = IF loc[p].tgt = NoVersion /\ loc[p].cur = NoVersion
                   THEN champion ELSE loc[p].tgt
    /\ Goto(p, "r_logread")
    /\ UNCHANGED <<status, modelTag, challenger, evalTag, critTag, eaTag,
                   thrTag, log, evidenceVars, faultVars>>

-----------------------------------------------------------------------------
(* refresh_champion_reference. *)

\* A promoted version, and a receipt for its own cold-start re-evaluation.
RefreshStart(p, v) ==
    /\ pc[p] = "idle"
    /\ Len(log) < MaxLog
    /\ status[v] = "promoted"
    /\ ReceiptIsFor(v) /\ evals[evalReceipt].champ = NoVersion
    /\ Enter(p, "f_eval", [Blank EXCEPT !.ver = v, !.ev = evalReceipt])
    /\ UNCHANGED <<registryVars, evidenceVars, faultVars>>

RefreshTagEval(p) ==
    /\ pc[p] = "f_eval"
    /\ evalTag' = SetTag(evalTag, loc[p].ver, loc[p].ev)
    /\ Goto(p, "f_criteria")
    /\ UNCHANGED <<status, modelTag, champion, challenger, critTag, eaTag,
                   thrTag, log, evidenceVars, faultVars>>

\* Mutant: the refresh re-points eval_run_id and leaves the old criteria.
RefreshTagCriteria_Skipped(p) ==
    /\ pc[p] = "f_criteria"
    /\ Goto(p, "f_logread")
    /\ UNCHANGED <<registryVars, evidenceVars, faultVars>>

RefreshTagCriteria(p) ==
    /\ pc[p] = "f_criteria"
    /\ critTag' = SetTag(critTag, loc[p].ver, loc[p].ev)
    /\ Goto(p, "f_logread")
    /\ UNCHANGED <<status, modelTag, champion, challenger, evalTag, eaTag,
                   thrTag, log, evidenceVars, faultVars>>

-----------------------------------------------------------------------------
(* _append_promotion_event: read the whole log, then write it back longer. *)

AppendEventRead(p) ==
    /\ \/ pc[p] = "p_logread" /\ Enter(p, "p_logwrite", [loc[p] EXCEPT !.hist = log])
       \/ pc[p] = "r_logread" /\ Enter(p, "r_logwrite", [loc[p] EXCEPT !.hist = log])
       \/ pc[p] = "f_logread" /\ Enter(p, "f_logwrite", [loc[p] EXCEPT !.hist = log])
    /\ UNCHANGED <<registryVars, evidenceVars, faultVars>>

\* Mutant: a rollback's entry names the version it left as the one restored.
EventOf_Swapped(p) ==
    CASE pc[p] = "p_logwrite" -> [action |-> "promoted", version |-> loc[p].ver,
                                  from |-> evals[loc[p].ev].champ]
      [] pc[p] = "r_logwrite" -> [action |-> "rolled_back", version |-> loc[p].cur,
                                  from |-> loc[p].tgt]
      [] OTHER -> [action |-> "refreshed", version |-> loc[p].ver, from |-> NoVersion]

\* The entry each caller appends. A promotion names the incumbent its
\* evaluation recorded, a rollback the champion it read.
EventOf(p) ==
    CASE pc[p] = "p_logwrite" -> [action |-> "promoted", version |-> loc[p].ver,
                                  from |-> evals[loc[p].ev].champ]
      [] pc[p] = "r_logwrite" -> [action |-> "rolled_back", version |-> loc[p].tgt,
                                  from |-> loc[p].cur]
      [] OTHER -> [action |-> "refreshed", version |-> loc[p].ver, from |-> NoVersion]

\* history.append(event).
Extended_NoReload(history, event) == <<history, event>>  \* mutant: nested, not appended
Extended(history, event) == Append(history, event)

\* After the write, a rollback inside _flip_and_confirm goes on to reject;
\* every other caller is done (an aborted promotion re-raises).
AppendEventWrite(p) ==
    /\ pc[p] \in {"p_logwrite", "r_logwrite", "f_logwrite"}
    /\ log' = Extended(loc[p].hist, EventOf(p))
    /\ IF pc[p] = "r_logwrite" /\ loc[p].ret = "reject"
       THEN Goto(p, "p_reject")
       ELSE Return(p)
    /\ UNCHANGED <<status, modelTag, champion, challenger, evalTag, critTag,
                   eaTag, thrTag, evidenceVars, faultVars>>

-----------------------------------------------------------------------------
(* Failures. *)

\* The next call of the command raises. In _complete_promotion's try block
\* that rolls back and re-raises; anywhere else the command ends.
Raise(p) ==
    /\ pc[p] # "idle"
    /\ faults < MaxFaults
    /\ faults' = faults + 1
    /\ IF pc[p] \in FinalizeSteps
       THEN Enter(p, "r_scan", [loc[p] EXCEPT !.ret = "abort"])
       ELSE Return(p)
    /\ UNCHANGED <<registryVars, evidenceVars, crashes>>

\* The process dies: nothing of it remains but what the server stored.
Crash(p) ==
    /\ pc[p] # "idle"
    /\ crashes < MaxCrashes
    /\ crashes' = crashes + 1
    /\ Return(p)
    /\ UNCHANGED <<registryVars, evidenceVars, faults>>

-----------------------------------------------------------------------------
Init ==
    /\ status = [v \in Versions |-> "unminted"]
    /\ modelTag = [v \in Versions |-> FALSE]
    /\ champion = NoVersion /\ challenger = NoVersion
    /\ evalTag = [v \in Versions |-> NoEval]
    /\ critTag = [v \in Versions |-> NoEval]
    /\ eaTag = [v \in Versions |-> FALSE]
    /\ thrTag = [v \in Versions |-> FALSE]
    /\ log = <<>>
    /\ evals = [e \in EvalRuns |-> [version |-> NoVersion, champ |-> NoVersion,
                                    gate |-> "fail"]]
    /\ reviews = [e \in EvalRuns |-> <<>>]
    /\ screen = [v \in Versions |-> "none"]
    /\ evalReceipt = NoEval /\ eaReceipt = NoVersion /\ rerunReceipt = NoVersion
    /\ approvals = {} /\ vetted = {}
    /\ pc = [p \in Procs |-> "idle"]
    /\ loc = [p \in Procs |-> Blank]
    /\ crashes = 0 /\ faults = 0

\* The steps of a promotion once it has been started.
Promote(p) ==
    \/ PromoteResolveEval(p) \/ PromoteCriteria(p) \/ PromoteReview(p)
    \/ PromoteEvidence(p) \/ PromoteSmoke(p) \/ PromoteReverify(p)
    \/ PromoteFlip(p) \/ PromoteConfirm(p) \/ PromoteTag(p) \/ PromoteReject(p)

Rollback(p) == RollbackScan(p) \/ RollbackResolve(p) \/ RollbackAlias(p)
Refresh(p)  == RefreshTagEval(p) \/ RefreshTagCriteria(p)
AppendEvent(p) == AppendEventRead(p) \/ AppendEventWrite(p)

\* A command a person or a pipeline starts.
Command(p) ==
    \/ MintVersion(p) \/ RollbackStart(p)
    \/ \E v \in Versions : EvaluateStart(p, v) \/ PromoteStart(p, v) \/ RefreshStart(p, v)
    \/ \E e \in EvalRuns : ReviewRead(p, e)

\* A step of a command under way; scheduled until the command returns.
Step(p) ==
    \/ MintTagModel(p) \/ MintTagPending(p) \/ MintVerify(p)
    \/ EvaluateLog(p) \/ EvaluateReceipt(p) \/ ReviewLog(p)
    \/ Promote(p) \/ Rollback(p) \/ Refresh(p) \/ AppendEvent(p)

\* A command that is one call: some process is free to run it.
Batch(v) ==
    /\ \E p \in Procs : pc[p] = "idle"
    /\ \/ Threshold(v) \/ PreSealReject(v) \/ ErrorAnalysis(v)
       \/ ThresholdRerun(v) \/ TagThresholdRerun(v)

Next ==
    \/ \E p \in Procs : Command(p) \/ Step(p) \/ Raise(p) \/ Crash(p)
    \/ \E v \in Versions : Batch(v)

Spec == Init /\ [][Next]_vars

\* A command that has started is run by the operating system until it ends.
LiveSpec == Spec /\ \A p \in Procs : WF_vars(Step(p))

-----------------------------------------------------------------------------
(* Properties. *)

\* Every variable stays within the values the code can give it.
TypeOK ==
    /\ status \in [Versions -> Statuses] /\ modelTag \in [Versions -> BOOLEAN]
    /\ champion \in AnyVersion /\ challenger \in AnyVersion
    /\ evalTag \in [Versions -> AnyEval] /\ critTag \in [Versions -> AnyEval]
    /\ eaTag \in [Versions -> BOOLEAN] /\ thrTag \in [Versions -> BOOLEAN]
    /\ log \in Seq(Event)
    /\ evals \in [EvalRuns -> Evaluation]
    /\ reviews \in [EvalRuns -> Seq(Verdicts)]
    /\ screen \in [Versions -> {"none", "pass", "fail"}]
    /\ evalReceipt \in AnyEval
    /\ eaReceipt \in AnyVersion /\ rerunReceipt \in AnyVersion
    /\ approvals \in SUBSET EvalRuns /\ vetted \in SUBSET Versions
    /\ pc \in [Procs -> Labels] /\ loc \in [Procs -> Local]
    /\ crashes \in Nat /\ faults \in Nat

\* Some evaluation of this very version passed the gate, and a reviewer approved
\* that evaluation (when review is required).  Neither is ever taken back.
Endorsed(v) ==
    \E e \in EvalRuns :
        /\ evals[e].version = v /\ evals[e].gate = "pass"
        /\ RequireReview => e \in approvals

\* Endorsed, and its pre-seal screen passes at this moment.
Cleared(v) == Endorsed(v) /\ screen[v] = "pass"

\* Endorsed, and its screen passed when its own promotion looked at it, whatever
\* a later run of the threshold stage has logged over that.
WasCleared(v) == Endorsed(v) /\ v \in vetted

\* Whatever is served or carries promotion_status: promoted was cleared by
\* evidence of its own when it was promoted, under any interleaving of commands,
\* crashes and failed calls: no rollback brings back a version that was never
\* validated, a receipt another evaluation overwrote never lends its verdict to
\* this version, and a screen that failed after the evaluation, but before the
\* promotion's own check of it, keeps the version out.
ServedIsCleared ==
    /\ champion # NoVersion => WasCleared(champion)
    /\ \A v \in Versions : status[v] = "promoted" => WasCleared(v)

\* The eval_run_id and gate-criteria tags of a version always point at
\* evaluations of that version, whichever evaluation wrote the shared receipt
\* last (_resolve_and_tag_eval_run_id, refresh_champion_reference).
EvidenceMatches ==
    \A v \in Versions :
        /\ evalTag[v] # NoEval => evals[evalTag[v]].version = v
        /\ critTag[v] # NoEval => evals[critTag[v]].version = v

AllIdle == \A p \in Procs : pc[p] = "idle"

\* The promotion log names v as champion: v is in the last entry that moved the
\* alias (a reference refresh does not), or is no version if nothing moved it.
LogNames(v) ==
    LET moves == {i \in DOMAIN log : log[i].action # "refreshed"}
    IN \/ moves = {} /\ v = NoVersion
       \/ \E i \in moves : v = log[i].version /\ \A j \in moves : j <= i

\* Between commands, champion_history() and the alias agree on who is champion,
\* through promotions, failed flips, rollbacks and refreshes.
LogMatchesChampion == AllIdle => LogNames(champion)

Flips(p) == pc[p] = "p_flip" /\ pc'[p] = "p_confirm"

\* A flip backed by a comparison happens only while the incumbent it was
\* compared with is still champion.
ComparativeFlipIsFresh ==
    [][\A p \in Procs : Flips(p) =>
         evals[loc[p].ev].champ \in {NoVersion, champion}]_vars

MovesBack(p) == pc[p] = "r_alias" /\ pc'[p] = "r_logread"

\* A rollback, by hand or automatic, leaves the alias unset or on a version
\* that carries promotion_status: promoted, never on one that was only minted,
\* rejected or half-way through its own promotion.
RollbackRestoresPromoted ==
    [][\A p \in Procs : MovesBack(p) =>
         champion' = NoVersion \/ status[champion'] = "promoted"]_vars

\* Undoing a failed flip always takes the failed candidate out of service, even
\* when it had already been tagged promoted when the failure struck.
AbortUnseatsCandidate ==
    [][\A p \in Procs : MovesBack(p) /\ loc[p].ret \in {"abort", "reject"} =>
         champion' # loc[p].ver]_vars

\* While a failed promotion is undone its version is not tagged promoted.
AbortLeavesPending ==
    \A p \in Procs :
        pc[p] \in RollbackSteps /\ loc[p].ret = "abort" =>
            status[loc[p].ver] # "promoted"

\* A promoted version's criteria tags and its eval_run_id tag describe the same
\* evaluation whenever no refresh is between its two writes; an evaluation
\* compares a candidate with the numbers of one and the predictions of the other.
ReferenceIsCoherent ==
    \A v \in Versions :
        status[v] = "promoted"
          /\ (\A p \in Procs : ~(pc[p] = "f_criteria" /\ loc[p].ver = v))
        => critTag[v] = evalTag[v]

\* The challenger alias only ever names a version whose mint completed its tags.
ChallengerIsTagged ==
    challenger # NoVersion =>
        modelTag[challenger] /\ status[challenger] \notin {"unminted", "minted"}

\* The promises of PromotionPolicy, read off the registry: a decision is open
\* until promotion_status is promoted or rejected.
Policy == INSTANCE PromotionPolicy WITH
    decision <- [v \in Versions |-> IF status[v] \in {"promoted", "rejected"}
                                    THEN status[v] ELSE "open"],
    cleared  <- {v \in Versions : Cleared(v)}

\* One command at a time and with no failed call, the registry implements the
\* promotion policy, liveness included: every trial of a candidate on the live
\* alias ends.
ImplementsPolicy == Policy!PolicySpec

=============================================================================
