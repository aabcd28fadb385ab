---------------------------- MODULE RegistryProofs ----------------------------
(***************************************************************************)
(* Proofs about Registry that hold for any number of processes, versions   *)
(* and evaluation runs, with any interleaving, crash or failed call: the   *)
(* variables are well typed, whatever is served or tagged promoted was     *)
(* cleared by evidence of its own, and the evidence tags of a version      *)
(* point at evaluations of that version.                                   *)
(*                                                                         *)
(* Neither safety property is inductive.  ServedIsCleared needs to know    *)
(* what each command has established by the step it stands at              *)
(* (CommandBacked), that this stays true while others run (evaluations,    *)
(* approvals and the record of passed screens only grow, although a screen *)
(* itself may be run again and fail: EvidenceGrows), and that an approval  *)
(* seen by a promotion was really logged (ApprovalsRecorded).              *)
(***************************************************************************)
EXTENDS Registry, TLAPS

\* Steps at which a command's version, or its evaluation run, is fixed.
NeedsVersion == MintSteps \cup CheckSteps \cup LiveSteps \cup RefreshSteps
                  \cup {"e_log", "p_reject"}
NeedsEval == (CheckSteps \ {"p_eval"}) \cup LiveSteps \cup RefreshSteps
               \cup {"e_receipt", "v_log"}

LocalOK(p) ==
    /\ pc[p] \in NeedsVersion => loc[p].ver \in Versions
    /\ pc[p] \in RollbackSteps /\ loc[p].ret = "reject" => loc[p].ver \in Versions
    /\ pc[p] \in NeedsEval => loc[p].ev \in EvalRuns

\* The evaluation a command acts on is one of its own version.
OwnEval(p) == evals[loc[p].ev].version = loc[p].ver

\* What a command has established by the step it stands at.
CommandBacked(p) ==
    /\ pc[p] \in {"p_review", "p_evidence"} => OwnEval(p) /\ evals[loc[p].ev].gate = "pass"
    /\ pc[p] = "p_evidence" /\ RequireReview => loc[p].ev \in approvals
    /\ pc[p] \in {"p_smoke", "p_reverify", "p_flip"} \cup LiveSteps => WasCleared(loc[p].ver)
    /\ pc[p] \in {"f_eval", "f_criteria"} => OwnEval(p)
    /\ pc[p] = "r_resolve" => \A v \in loc[p].seen : WasCleared(v)
    /\ pc[p] = "r_alias" /\ loc[p].tgt # NoVersion => WasCleared(loc[p].tgt)

\* An approval that is the latest entry of a review was logged.
ApprovalsRecorded ==
    \A e \in EvalRuns :
        reviews[e] # <<>> /\ reviews[e][Len(reviews[e])] = "approved" => e \in approvals

IInv ==
    /\ TypeOK
    /\ \A p \in Procs : LocalOK(p) /\ CommandBacked(p)
    /\ ApprovalsRecorded
    /\ ServedIsCleared
    /\ EvidenceMatches

\* Evidence is never taken back.
EvidenceGrows ==
    /\ \A e \in EvalRuns : evals[e].version # NoVersion => evals'[e] = evals[e]
    /\ approvals \subseteq approvals'
    /\ vetted \subseteq vetted'

-----------------------------------------------------------------------------
(* Types. *)

\* The blank local state is one.
LEMMA BlankType == Blank \in Local
  BY DEF Blank, Local, AnyVersion, AnyEval, Returns

\* What Enter and Goto leave of the control state is well typed.
LEMMA EnterType ==
  ASSUME TypeOK, NEW p \in Procs, NEW label \in Labels, NEW l \in Local,
         Enter(p, label, l)
  PROVE  pc' \in [Procs -> Labels] /\ loc' \in [Procs -> Local]
  BY DEF TypeOK, Enter

LEMMA GotoType ==
  ASSUME TypeOK, NEW p \in Procs, NEW label \in Labels, Goto(p, label)
  PROVE  pc' \in [Procs -> Labels] /\ loc' \in [Procs -> Local]
  BY DEF TypeOK, Goto

LEMMA ReturnType ==
  ASSUME TypeOK, NEW p \in Procs, Return(p)
  PROVE  pc' \in [Procs -> Labels] /\ loc' \in [Procs -> Local]
  BY BlankType, EnterType DEF Return, Labels

\* An automatic rollback restores nothing or a version it saw promoted.
LEMMA RestorableChoice ==
  ASSUME NEW S \in SUBSET Versions, NEW c, NEW t \in Restorable(S, c)
  PROVE  t = NoVersion \/ t \in S
  BY DEF Restorable, Highest

\* The entry about to be appended is well typed.
LEMMA EventType ==
  ASSUME TypeOK, NEW p \in Procs, LocalOK(p),
         pc[p] \in {"p_logwrite", "r_logwrite", "f_logwrite"}
  PROVE  EventOf(p) \in Event
<1>1. loc[p] \in Local
  BY DEF TypeOK
<1>2. loc[p].ver \in AnyVersion /\ loc[p].tgt \in AnyVersion /\ loc[p].cur \in AnyVersion
  BY <1>1 DEF Local
<1>3. CASE pc[p] = "p_logwrite"
  <2>1. loc[p].ev \in EvalRuns
    BY <1>3 DEF LocalOK, NeedsEval, LiveSteps
  <2>2. evals[loc[p].ev].champ \in AnyVersion
    BY <2>1 DEF TypeOK, Evaluation
  <2> QED
    BY <1>2, <1>3, <2>2 DEF EventOf, Event
<1>4. CASE pc[p] = "r_logwrite"
  BY <1>2, <1>4 DEF EventOf, Event
<1>5. CASE pc[p] = "f_logwrite"
  BY <1>2, <1>5 DEF EventOf, Event, AnyVersion
<1> QED
  BY <1>3, <1>4, <1>5

-----------------------------------------------------------------------------
(* Types are preserved, one step per action. *)

LEMMA CommandTypes ==
  ASSUME TypeOK, NEW p \in Procs, LocalOK(p), Command(p)
  PROVE  TypeOK'
<1>1. CASE MintVersion(p)
  <2>1. PICK v \in Versions :
            /\ status' = SetTag(status, v, "minted")
            /\ Enter(p, "m_model", [Blank EXCEPT !.ver = v])
    BY <1>1 DEF MintVersion
  <2>2. [Blank EXCEPT !.ver = v] \in Local
    BY BlankType DEF Local, AnyVersion
  <2>3. pc' \in [Procs -> Labels] /\ loc' \in [Procs -> Local]
    BY <2>1, <2>2, EnterType DEF Labels, MintSteps
  <2> QED
    BY <1>1, <2>1, <2>3 DEF MintVersion, TypeOK, SetTag, Statuses, evidenceVars, faultVars
<1>2. CASE RollbackStart(p)
  <2>1. PICK t \in AnyVersion : Enter(p, "r_scan", [Blank EXCEPT !.tgt = t])
    BY <1>2 DEF RollbackStart
  <2>2. [Blank EXCEPT !.tgt = t] \in Local
    BY BlankType DEF Local
  <2>3. pc' \in [Procs -> Labels] /\ loc' \in [Procs -> Local]
    BY <2>1, <2>2, EnterType DEF Labels, RollbackSteps
  <2> QED
    BY <1>2, <2>3 DEF RollbackStart, TypeOK, registryVars, evidenceVars, faultVars
<1>3. ASSUME NEW v \in Versions, EvaluateStart(p, v) PROVE TypeOK'
  <2>1. PICK c \in Incumbents : Enter(p, "e_log", [Blank EXCEPT !.ver = v, !.inc = c])
    BY <1>3 DEF EvaluateStart
  <2>2. c \in AnyVersion
    BY RegistryAssumption DEF Incumbents, TypeOK, AnyVersion
  <2>3. [Blank EXCEPT !.ver = v, !.inc = c] \in Local
    BY <2>2, BlankType DEF Local, AnyVersion
  <2>4. pc' \in [Procs -> Labels] /\ loc' \in [Procs -> Local]
    BY <2>1, <2>3, EnterType DEF Labels, EvidenceSteps
  <2> QED
    BY <1>3, <2>4 DEF EvaluateStart, TypeOK, registryVars, evidenceVars, faultVars
<1>4. ASSUME NEW v \in Versions, PromoteStart(p, v) PROVE TypeOK'
  <2>1. [Blank EXCEPT !.ver = v, !.ev = evalTag[v], !.ea = eaTag[v]] \in Local
    BY BlankType DEF Local, AnyVersion, TypeOK
  <2>2. pc' \in [Procs -> Labels] /\ loc' \in [Procs -> Local]
    BY <1>4, <2>1, EnterType DEF PromoteStart, Labels, CheckSteps
  <2> QED
    BY <1>4, <2>2 DEF PromoteStart, TypeOK, registryVars, evidenceVars, faultVars
<1>5. ASSUME NEW v \in Versions, RefreshStart(p, v) PROVE TypeOK'
  <2>1. [Blank EXCEPT !.ver = v, !.ev = evalReceipt] \in Local
    BY BlankType DEF Local, AnyVersion, TypeOK
  <2>2. pc' \in [Procs -> Labels] /\ loc' \in [Procs -> Local]
    BY <1>5, <2>1, EnterType DEF RefreshStart, Labels, RefreshSteps
  <2> QED
    BY <1>5, <2>2 DEF RefreshStart, TypeOK, registryVars, evidenceVars, faultVars
<1>6. ASSUME NEW e \in EvalRuns, ReviewRead(p, e) PROVE TypeOK'
  <2>1. [Blank EXCEPT !.ev = e, !.doc = reviews[e]] \in Local
    BY BlankType DEF Local, AnyEval, TypeOK
  <2>2. pc' \in [Procs -> Labels] /\ loc' \in [Procs -> Local]
    BY <1>6, <2>1, EnterType DEF ReviewRead, Labels, EvidenceSteps
  <2> QED
    BY <1>6, <2>2 DEF ReviewRead, TypeOK, registryVars, evidenceVars, faultVars
<1> QED
  BY <1>1, <1>2, <1>3, <1>4, <1>5, <1>6 DEF Command

LEMMA MintAndEvidenceTypes ==
  ASSUME TypeOK, NEW p \in Procs, LocalOK(p),
         \/ MintTagModel(p) \/ MintTagPending(p) \/ MintVerify(p)
         \/ EvaluateLog(p) \/ EvaluateReceipt(p) \/ ReviewLog(p)
  PROVE  TypeOK'
<1> USE DEF registryVars, evidenceVars, faultVars
<1>1. CASE MintTagModel(p)
  <2>1. pc' \in [Procs -> Labels] /\ loc' \in [Procs -> Local]
    BY <1>1, GotoType DEF MintTagModel, Labels, MintSteps
  <2> QED
    BY <1>1, <2>1 DEF MintTagModel, TypeOK, SetTag, Statuses
<1>2. CASE MintTagPending(p)
  <2>1. pc' \in [Procs -> Labels] /\ loc' \in [Procs -> Local]
    BY <1>2, GotoType DEF MintTagPending, Labels, MintSteps
  <2> QED
    BY <1>2, <2>1 DEF MintTagPending, TypeOK, SetTag, Statuses
<1>3. CASE MintVerify(p)
  <2>1. loc[p].ver \in AnyVersion
    BY <1>3 DEF MintVerify, LocalOK, NeedsVersion, MintSteps, AnyVersion
  <2>2. pc' \in [Procs -> Labels] /\ loc' \in [Procs -> Local]
    BY <1>3, ReturnType DEF MintVerify
  <2> QED
    BY <1>3, <2>1, <2>2 DEF MintVerify, TypeOK
<1>4. CASE EvaluateLog(p)
  <2>1. PICK e \in EvalRuns, g \in {"pass", "fail"} :
            /\ evals' = [evals EXCEPT ![e] = [version |-> loc[p].ver,
                                              champ |-> loc[p].inc, gate |-> g]]
            /\ Enter(p, "e_receipt", [loc[p] EXCEPT !.ev = e])
    BY <1>4 DEF EvaluateLog
  <2>2. [version |-> loc[p].ver, champ |-> loc[p].inc, gate |-> g] \in Evaluation
    BY DEF TypeOK, Local, Evaluation
  <2>3. evals' \in [EvalRuns -> Evaluation]
    BY <2>1, <2>2 DEF TypeOK
  <2>4. [loc[p] EXCEPT !.ev = e] \in Local
    BY DEF TypeOK, Local, AnyEval
  <2>5. pc' \in [Procs -> Labels] /\ loc' \in [Procs -> Local]
    BY <2>1, <2>4, EnterType DEF Labels, EvidenceSteps
  <2> QED
    BY <1>4, <2>3, <2>5 DEF EvaluateLog, TypeOK
<1>5. CASE ReviewLog(p)
  <2>1. PICK verdict \in Verdicts :
            /\ reviews' = [reviews EXCEPT ![loc[p].ev] = Append(loc[p].doc, verdict)]
            /\ approvals' = IF verdict = "approved" THEN approvals \cup {loc[p].ev}
                                                    ELSE approvals
    BY <1>5 DEF ReviewLog
  <2>2. loc[p].ev \in EvalRuns
    BY <1>5 DEF ReviewLog, LocalOK, NeedsEval
  <2>3. loc[p].doc \in Seq(Verdicts)
    BY DEF TypeOK, Local
  <2>4. Append(loc[p].doc, verdict) \in Seq(Verdicts)
    BY <2>3
  <2>5. reviews' \in [EvalRuns -> Seq(Verdicts)] /\ approvals' \in SUBSET EvalRuns
    BY <2>1, <2>2, <2>4 DEF TypeOK
  <2>6. pc' \in [Procs -> Labels] /\ loc' \in [Procs -> Local]
    BY <1>5, ReturnType DEF ReviewLog
  <2> QED
    BY <1>5, <2>5, <2>6 DEF ReviewLog, TypeOK
<1>6. CASE EvaluateReceipt(p)
  <2>1. evalReceipt' \in AnyEval
    BY <1>6 DEF EvaluateReceipt, TypeOK, Local
  <2>2. pc' \in [Procs -> Labels] /\ loc' \in [Procs -> Local]
    BY <1>6, ReturnType DEF EvaluateReceipt
  <2> QED
    BY <1>6, <2>1, <2>2 DEF EvaluateReceipt, TypeOK
<1> QED
  BY <1>1, <1>2, <1>3, <1>4, <1>5, <1>6

LEMMA PromoteTypes ==
  ASSUME TypeOK, NEW p \in Procs, LocalOK(p), Promote(p)
  PROVE  TypeOK'
<1> USE DEF registryVars, evidenceVars, faultVars
<1>0. loc[p] \in Local
  BY DEF TypeOK
<1>1. CASE PromoteResolveEval(p)
  <2>1. [loc[p] EXCEPT !.ev = evalReceipt] \in Local
    BY <1>0 DEF Local, TypeOK
  <2>2. pc' \in [Procs -> Labels] /\ loc' \in [Procs -> Local]
    BY <1>1, <2>1, GotoType, EnterType, ReturnType
       DEF PromoteResolveEval, Labels, CheckSteps
  <2>3. evalTag' \in [Versions -> AnyEval]
    BY <1>1 DEF PromoteResolveEval, TypeOK, SetTag
  <2> QED
    BY <1>1, <2>2, <2>3 DEF PromoteResolveEval, TypeOK
<1>2. CASE PromoteCriteria(p)
  <2>1. pc' \in [Procs -> Labels] /\ loc' \in [Procs -> Local]
    <3>1. "p_reject" \in Labels /\ "p_review" \in Labels
      BY DEF Labels, CheckSteps
    <3> QED
      BY <1>2, <3>1, GotoType, ReturnType DEF PromoteCriteria
  <2>2. critTag' \in [Versions -> AnyEval]
    BY <1>0, <1>2 DEF PromoteCriteria, TypeOK, SetTag, Local
  <2> QED
    BY <1>2, <2>1, <2>2 DEF PromoteCriteria, TypeOK
<1>3. CASE PromoteReview(p)
  <2>1. pc' \in [Procs -> Labels] /\ loc' \in [Procs -> Local]
    BY <1>3, GotoType, ReturnType DEF PromoteReview, Labels, CheckSteps
  <2> QED
    BY <1>3, <2>1 DEF PromoteReview, TypeOK
<1>4. CASE PromoteEvidence(p)
  <2>1. pc' \in [Procs -> Labels] /\ loc' \in [Procs -> Local]
    BY <1>4, GotoType, ReturnType DEF PromoteEvidence, Labels, CheckSteps
  <2>2. eaTag' \in [Versions -> BOOLEAN] /\ vetted' \in SUBSET Versions
    <3>1. loc[p].ver \in Versions
      BY <1>4 DEF PromoteEvidence, LocalOK, NeedsVersion, CheckSteps
    <3> QED
      BY <1>4, <3>1 DEF PromoteEvidence, TypeOK, SetTag
  <2> QED
    BY <1>4, <2>1, <2>2 DEF PromoteEvidence, TypeOK
<1>5. CASE PromoteSmoke(p)
  <2>1. pc' \in [Procs -> Labels] /\ loc' \in [Procs -> Local]
    BY <1>5, GotoType, ReturnType DEF PromoteSmoke, Labels, CheckSteps
  <2> QED
    BY <1>5, <2>1 DEF PromoteSmoke, TypeOK
<1>6. CASE PromoteReverify(p)
  <2>1. pc' \in [Procs -> Labels] /\ loc' \in [Procs -> Local]
    BY <1>6, GotoType, ReturnType DEF PromoteReverify, Labels, CheckSteps
  <2> QED
    BY <1>6, <2>1 DEF PromoteReverify, TypeOK
<1>7. CASE PromoteFlip(p)
  <2>1. pc' \in [Procs -> Labels] /\ loc' \in [Procs -> Local]
    BY <1>7, GotoType DEF PromoteFlip, Labels, LiveSteps
  <2> QED
    BY <1>0, <1>7, <2>1 DEF PromoteFlip, TypeOK, Local
<1>8. CASE PromoteConfirm(p)
  <2>1. [loc[p] EXCEPT !.ret = "reject"] \in Local
    BY <1>0 DEF Local, Returns
  <2>2. pc' \in [Procs -> Labels] /\ loc' \in [Procs -> Local]
    BY <1>8, <2>1, GotoType, EnterType DEF PromoteConfirm, Labels, LiveSteps, RollbackSteps
  <2> QED
    BY <1>8, <2>2 DEF PromoteConfirm, TypeOK
<1>9. CASE PromoteTag(p)
  <2>1. pc' \in [Procs -> Labels] /\ loc' \in [Procs -> Local]
    BY <1>9, GotoType DEF PromoteTag, Labels, LiveSteps
  <2> QED
    BY <1>9, <2>1 DEF PromoteTag, TypeOK, SetTag, Statuses
<1>10. CASE PromoteReject(p)
  <2>1. pc' \in [Procs -> Labels] /\ loc' \in [Procs -> Local]
    BY <1>10, ReturnType DEF PromoteReject
  <2> QED
    BY <1>10, <2>1 DEF PromoteReject, TypeOK, SetTag, Statuses
<1> QED
  BY <1>1, <1>2, <1>3, <1>4, <1>5, <1>6, <1>7, <1>8, <1>9, <1>10 DEF Promote

LEMMA RollbackTypes ==
  ASSUME TypeOK, NEW p \in Procs, LocalOK(p),
         Rollback(p) \/ Refresh(p) \/ AppendEvent(p)
  PROVE  TypeOK'
<1> USE DEF registryVars, evidenceVars, faultVars
<1>0. loc[p] \in Local
  BY DEF TypeOK
<1>1. CASE RollbackScan(p)
  <2>1. [loc[p] EXCEPT !.seen = TaggedPromoted] \in Local
    BY <1>0 DEF Local, TaggedPromoted
  <2>2. pc' \in [Procs -> Labels] /\ loc' \in [Procs -> Local]
    BY <1>1, <2>1, EnterType DEF RollbackScan, Labels, RollbackSteps
  <2> QED
    BY <1>1, <2>2 DEF RollbackScan, TypeOK
<1>2. CASE RollbackResolve(p)
  <2>1. "r_alias" \in Labels
    BY DEF Labels, RollbackSteps
  <2>2. ASSUME NEW t \in Restorable(loc[p].seen, champion)
        PROVE  [loc[p] EXCEPT !.cur = champion, !.tgt = t] \in Local
    <3>1. t \in AnyVersion
      BY <1>0, RestorableChoice DEF Local, AnyVersion
    <3> QED
      BY <1>0, <3>1 DEF Local, TypeOK
  <2>3. [loc[p] EXCEPT !.cur = champion] \in Local
    BY <1>0 DEF Local, TypeOK
  <2>4. pc' \in [Procs -> Labels] /\ loc' \in [Procs -> Local]
    BY <1>2, <2>1, <2>2, <2>3, EnterType, ReturnType DEF RollbackResolve
  <2> QED
    BY <1>2, <2>4 DEF RollbackResolve, TypeOK
<1>3. CASE RollbackAlias(p)
  <2>1. pc' \in [Procs -> Labels] /\ loc' \in [Procs -> Local]
    BY <1>3, GotoType DEF RollbackAlias, Labels, RollbackSteps
  <2> QED
    BY <1>0, <1>3, <2>1 DEF RollbackAlias, TypeOK, Local
<1>4. CASE RefreshTagEval(p)
  <2>1. pc' \in [Procs -> Labels] /\ loc' \in [Procs -> Local]
    BY <1>4, GotoType DEF RefreshTagEval, Labels, RefreshSteps
  <2> QED
    BY <1>0, <1>4, <2>1 DEF RefreshTagEval, TypeOK, SetTag, Local
<1>5. CASE RefreshTagCriteria(p)
  <2>1. pc' \in [Procs -> Labels] /\ loc' \in [Procs -> Local]
    BY <1>5, GotoType DEF RefreshTagCriteria, Labels, RefreshSteps
  <2> QED
    BY <1>0, <1>5, <2>1 DEF RefreshTagCriteria, TypeOK, SetTag, Local
<1>6. CASE AppendEventRead(p)
  <2>1. [loc[p] EXCEPT !.hist = log] \in Local
    BY <1>0 DEF Local, TypeOK
  <2>2. pc' \in [Procs -> Labels] /\ loc' \in [Procs -> Local]
    BY <1>6, <2>1, EnterType
       DEF AppendEventRead, Labels, LiveSteps, RollbackSteps, RefreshSteps
  <2> QED
    BY <1>6, <2>2 DEF AppendEventRead, TypeOK
<1>7. CASE AppendEventWrite(p)
  <2>1. EventOf(p) \in Event
    BY <1>7, EventType DEF AppendEventWrite
  <2>2. loc[p].hist \in Seq(Event)
    BY <1>0 DEF Local
  <2>3. log' \in Seq(Event)
    BY <1>7, <2>1, <2>2 DEF AppendEventWrite, Extended
  <2>4. pc' \in [Procs -> Labels] /\ loc' \in [Procs -> Local]
    BY <1>7, GotoType, ReturnType DEF AppendEventWrite, Labels
  <2> QED
    BY <1>7, <2>3, <2>4 DEF AppendEventWrite, TypeOK
<1> QED
  BY <1>1, <1>2, <1>3, <1>4, <1>5, <1>6, <1>7 DEF Rollback, Refresh, AppendEvent

LEMMA FailureTypes ==
  ASSUME TypeOK, NEW p \in Procs, Raise(p) \/ Crash(p)
  PROVE  TypeOK'
<1> USE DEF registryVars, evidenceVars
<1>1. CASE Raise(p)
  <2>1. [loc[p] EXCEPT !.ret = "abort"] \in Local
    BY DEF TypeOK, Local, Returns
  <2>2. pc' \in [Procs -> Labels] /\ loc' \in [Procs -> Local]
    BY <1>1, <2>1, EnterType, ReturnType DEF Raise, Labels, RollbackSteps
  <2> QED
    BY <1>1, <2>2 DEF Raise, TypeOK
<1>2. CASE Crash(p)
  <2>1. pc' \in [Procs -> Labels] /\ loc' \in [Procs -> Local]
    BY <1>2, ReturnType DEF Crash
  <2> QED
    BY <1>2, <2>1 DEF Crash, TypeOK
<1> QED
  BY <1>1, <1>2

LEMMA BatchTypes ==
  ASSUME TypeOK, NEW v \in Versions, Batch(v)
  PROVE  TypeOK'
<1> USE DEF registryVars, evidenceVars, faultVars
<1>1. CASE Threshold(v)
  BY <1>1 DEF Threshold, TypeOK
<1>2. CASE PreSealReject(v)
  BY <1>2 DEF PreSealReject, TypeOK, SetTag, Statuses
<1>3. CASE ErrorAnalysis(v)
  BY <1>3 DEF ErrorAnalysis, TypeOK, AnyVersion
<1>4. CASE ThresholdRerun(v)
  BY <1>4 DEF ThresholdRerun, TypeOK, AnyVersion
<1>5. CASE TagThresholdRerun(v)
  BY <1>5 DEF TagThresholdRerun, TypeOK, SetTag
<1> QED
  BY <1>1, <1>2, <1>3, <1>4, <1>5 DEF Batch

-----------------------------------------------------------------------------
(* Evidence only grows, and what a command established stays true while    *)
(* other commands run.                                                     *)

LEMMA EvidenceStep ==
  ASSUME TypeOK, [Next]_vars
  PROVE  EvidenceGrows
<1> USE DEF evidenceVars, EvidenceGrows
<1>1. ASSUME NEW p \in Procs, Command(p) PROVE EvidenceGrows
  BY <1>1 DEF Command, MintVersion, RollbackStart, EvaluateStart, PromoteStart,
              RefreshStart, ReviewRead
<1>2. ASSUME NEW p \in Procs, EvaluateLog(p) PROVE EvidenceGrows
  BY <1>2 DEF EvaluateLog, TypeOK
<1>3. ASSUME NEW p \in Procs, ReviewLog(p) PROVE EvidenceGrows
  BY <1>3 DEF ReviewLog
<1>4. ASSUME NEW p \in Procs, Step(p), ~EvaluateLog(p), ~ReviewLog(p)
      PROVE  EvidenceGrows
  BY <1>4 DEF Step, MintTagModel, MintTagPending, MintVerify, EvaluateReceipt, Promote,
       PromoteResolveEval, PromoteCriteria, PromoteReview, PromoteEvidence,
       PromoteSmoke, PromoteReverify, PromoteFlip, PromoteConfirm, PromoteTag,
       PromoteReject, Rollback, RollbackScan, RollbackResolve, RollbackAlias,
       Refresh, RefreshTagEval, RefreshTagCriteria, AppendEvent,
       AppendEventRead, AppendEventWrite
<1>5. ASSUME NEW p \in Procs, Raise(p) \/ Crash(p) PROVE EvidenceGrows
  BY <1>5 DEF Raise, Crash
<1>6. ASSUME NEW v \in Versions, Batch(v) PROVE EvidenceGrows
  BY <1>6 DEF Batch, Threshold, PreSealReject, ErrorAnalysis, ThresholdRerun,
              TagThresholdRerun, TypeOK
<1>7. CASE UNCHANGED vars
  BY <1>7 DEF vars
<1> QED
  BY <1>1, <1>2, <1>3, <1>4, <1>5, <1>6, <1>7 DEF Next

\* A version that was cleared stays so, whatever its screen says now.
LEMMA WasClearedStays ==
  ASSUME EvidenceGrows, NEW v \in Versions, WasCleared(v)
  PROVE  WasCleared(v)'
BY DEF EvidenceGrows, WasCleared, Endorsed, Versions, NoVersion

\* A command that did not move keeps what it had established.
LEMMA OthersStay ==
  ASSUME TypeOK, EvidenceGrows, NEW q \in Procs, LocalOK(q), CommandBacked(q),
         pc'[q] = pc[q], loc'[q] = loc[q]
  PROVE  LocalOK(q)' /\ CommandBacked(q)'
<1>1. LocalOK(q)'
  BY DEF LocalOK
<1>2. loc[q] \in Local
  BY DEF TypeOK
<1>3. ASSUME pc[q] \in {"p_review", "p_evidence", "f_eval", "f_criteria"}, OwnEval(q)
      PROVE  evals'[loc[q].ev] = evals[loc[q].ev]
  <2>1. loc[q].ev \in EvalRuns /\ loc[q].ver \in Versions
    BY <1>3 DEF LocalOK, NeedsEval, NeedsVersion, CheckSteps, RefreshSteps
  <2>2. loc[q].ver # NoVersion
    BY <2>1 DEF Versions, NoVersion
  <2> QED
    BY <1>3, <2>1, <2>2 DEF EvidenceGrows, OwnEval
<1>4. pc[q] \in {"p_review", "p_evidence"} => (OwnEval(q) /\ evals[loc[q].ev].gate = "pass")'
  BY <1>3 DEF CommandBacked, OwnEval
<1>5. pc[q] \in {"f_eval", "f_criteria"} => OwnEval(q)'
  BY <1>3 DEF CommandBacked, OwnEval
<1>6. pc[q] = "p_evidence" /\ RequireReview => (loc[q].ev \in approvals)'
  BY DEF CommandBacked, EvidenceGrows
<1>7. pc[q] \in {"p_smoke", "p_reverify", "p_flip"} \cup LiveSteps => WasCleared(loc[q].ver)'
  <2>1. SUFFICES ASSUME pc[q] \in {"p_smoke", "p_reverify", "p_flip"} \cup LiveSteps
                 PROVE  WasCleared(loc[q].ver)'
    OBVIOUS
  <2>2. loc[q].ver \in Versions /\ WasCleared(loc[q].ver)
    BY <2>1 DEF LocalOK, NeedsVersion, CheckSteps, CommandBacked
  <2>3. loc'[q].ver = loc[q].ver
    OBVIOUS
  <2> QED
    BY <2>2, <2>3 DEF WasCleared, Endorsed, EvidenceGrows, Versions, NoVersion
<1>8. pc[q] = "r_resolve" => (\A v \in loc[q].seen : WasCleared(v))'
  <2>1. loc[q].seen \subseteq Versions
    BY <1>2 DEF Local
  <2> QED
    BY <2>1, WasClearedStays DEF CommandBacked
<1>9. pc[q] = "r_alias" /\ loc[q].tgt # NoVersion => WasCleared(loc[q].tgt)'
  <2>1. loc[q].tgt # NoVersion => loc[q].tgt \in Versions
    BY <1>2 DEF Local, AnyVersion
  <2> QED
    BY <2>1 DEF CommandBacked, WasCleared, Endorsed, EvidenceGrows, Versions, NoVersion
<1>10. CommandBacked(q)'
  BY <1>4, <1>5, <1>6, <1>7, <1>8, <1>9 DEF CommandBacked
<1> QED
  BY <1>1, <1>10

\* An idle command has established nothing.
LEMMA IdleBacked ==
  ASSUME NEW p \in Procs, pc'[p] = "idle"
  PROVE  LocalOK(p)' /\ CommandBacked(p)'
BY DEF LocalOK, CommandBacked, NeedsVersion, NeedsEval, MintSteps, CheckSteps,
       LiveSteps, RefreshSteps, RollbackSteps

\* The command that moved has established what its next step relies on.
LEMMA StartBacked ==
  ASSUME TypeOK, NEW p \in Procs, Command(p)
  PROVE  LocalOK(p)' /\ CommandBacked(p)'
<1> USE DEF LocalOK, CommandBacked, OwnEval, NeedsVersion, NeedsEval, MintSteps,
            CheckSteps, LiveSteps, RefreshSteps, RollbackSteps, Enter
<1>0. pc \in [Procs -> Labels] /\ loc \in [Procs -> Local]
  BY DEF TypeOK
<1>1. CASE MintVersion(p)
  BY <1>0, <1>1 DEF MintVersion, Blank
<1>2. CASE RollbackStart(p)
  BY <1>0, <1>2 DEF RollbackStart, Blank
<1>3. ASSUME NEW v \in Versions, EvaluateStart(p, v) PROVE LocalOK(p)' /\ CommandBacked(p)'
  BY <1>0, <1>3 DEF EvaluateStart, Blank
<1>4. ASSUME NEW v \in Versions, PromoteStart(p, v) PROVE LocalOK(p)' /\ CommandBacked(p)'
  BY <1>0, <1>4 DEF PromoteStart, Blank
<1>5. ASSUME NEW v \in Versions, RefreshStart(p, v) PROVE LocalOK(p)' /\ CommandBacked(p)'
  <2>1. evalReceipt \in EvalRuns /\ evals[evalReceipt].version = v
    BY <1>5 DEF RefreshStart, ReceiptIsFor, TypeOK, AnyEval
  <2>2. evals' = evals
    BY <1>5 DEF RefreshStart, evidenceVars
  <2> QED
    BY <1>0, <1>5, <2>1, <2>2 DEF RefreshStart, Blank
<1>6. ASSUME NEW e \in EvalRuns, ReviewRead(p, e) PROVE LocalOK(p)' /\ CommandBacked(p)'
  BY <1>0, <1>6 DEF ReviewRead, Blank
<1> QED
  BY <1>1, <1>2, <1>3, <1>4, <1>5, <1>6 DEF Command

LEMMA PromoteBacked ==
  ASSUME IInv, NEW p \in Procs, Promote(p), EvidenceGrows
  PROVE  LocalOK(p)' /\ CommandBacked(p)'
<1> USE DEF NeedsVersion, NeedsEval, MintSteps, CheckSteps, LiveSteps,
            RefreshSteps, RollbackSteps, Goto, Enter, Return
<1>0. /\ TypeOK /\ LocalOK(p) /\ CommandBacked(p)
      /\ pc \in [Procs -> Labels] /\ loc \in [Procs -> Local] /\ loc[p] \in Local
  BY DEF IInv, TypeOK
<1>1. CASE PromoteResolveEval(p)
  <2>1. loc[p].ver \in Versions
    BY <1>0, <1>1 DEF PromoteResolveEval, LocalOK
  <2>2. loc[p].ev \in AnyEval /\ evalReceipt \in AnyEval
    BY <1>0 DEF Local, TypeOK
  <2>3. \/ pc'[p] = "idle"
        \/ pc'[p] = "p_criteria" /\ loc'[p].ver \in Versions /\ loc'[p].ev \in EvalRuns
    BY <1>0, <1>1, <2>1, <2>2 DEF PromoteResolveEval, ReceiptIsFor, AnyEval, Local
  <2> QED
    BY <2>3, IdleBacked DEF LocalOK, CommandBacked
<1>2. CASE PromoteCriteria(p)
  <2>1. loc[p].ver \in Versions /\ loc[p].ev \in EvalRuns
    BY <1>0, <1>2 DEF PromoteCriteria, LocalOK
  <2>2. evals[loc[p].ev].gate \in {"pass", "fail"}
    BY <1>0, <2>1 DEF TypeOK, Evaluation
  <2>3. evals' = evals
    BY <1>2 DEF PromoteCriteria, evidenceVars
  <2> QED
    BY <1>0, <1>2, <2>1, <2>2, <2>3
       DEF PromoteCriteria, GateFails, LocalOK, CommandBacked, OwnEval
<1>3. CASE PromoteReview(p)
  <2>1. loc[p].ver \in Versions /\ loc[p].ev \in EvalRuns
    BY <1>0, <1>3 DEF PromoteReview, LocalOK
  <2>2. evals' = evals /\ approvals' = approvals
    BY <1>3 DEF PromoteReview, evidenceVars
  <2>3. OwnEval(p) /\ evals[loc[p].ev].gate = "pass"
    BY <1>0, <1>3 DEF PromoteReview, CommandBacked
  <2>4. ReviewVerdict(loc[p].ev) = "approved" => loc[p].ev \in approvals
    BY <2>1 DEF IInv, ApprovalsRecorded, ReviewVerdict
  <2> QED
    BY <1>0, <1>3, <2>1, <2>2, <2>3, <2>4
       DEF PromoteReview, LocalOK, CommandBacked, OwnEval
<1>4. CASE PromoteEvidence(p)
  <2>1. loc[p].ver \in Versions /\ loc[p].ev \in EvalRuns
    BY <1>0, <1>4 DEF PromoteEvidence, LocalOK
  <2>2. evals' = evals /\ approvals' = approvals
    BY <1>4 DEF PromoteEvidence
  <2>3. Endorsed(loc[p].ver)
    BY <1>0, <1>4, <2>1 DEF PromoteEvidence, CommandBacked, OwnEval, Endorsed
  <2>4. \/ pc'[p] = "idle"
        \/ pc'[p] = "p_smoke" /\ loc' = loc /\ loc[p].ver \in vetted'
    BY <1>0, <1>4 DEF PromoteEvidence, ScreenHolds
  <2>5. CASE pc'[p] = "p_smoke" /\ loc' = loc /\ loc[p].ver \in vetted'
    <3>1. WasCleared(loc[p].ver)'
      BY <2>2, <2>3, <2>5 DEF WasCleared, Endorsed
    <3> QED
      BY <2>1, <2>5, <3>1 DEF LocalOK, CommandBacked
  <2> QED
    BY <2>4, <2>5, IdleBacked
<1>5. CASE PromoteSmoke(p) \/ PromoteReverify(p) \/ PromoteFlip(p) \/ PromoteConfirm(p)
             \/ PromoteTag(p)
  <2>1. loc[p].ver \in Versions /\ loc[p].ev \in EvalRuns /\ WasCleared(loc[p].ver)
    BY <1>0, <1>5 DEF LocalOK, CommandBacked, PromoteSmoke, PromoteReverify,
                      PromoteFlip, PromoteConfirm, PromoteTag
  <2>2. evals' = evals /\ approvals' = approvals /\ vetted' = vetted
    BY <1>5 DEF PromoteSmoke, PromoteReverify, PromoteFlip, PromoteConfirm,
                PromoteTag, evidenceVars
  <2>3. pc'[p] \in {"p_reverify", "p_reject", "idle", "p_flip", "p_confirm", "p_tag",
                    "p_logread", "r_scan"}
    BY <1>0, <1>5 DEF PromoteSmoke, PromoteReverify, PromoteFlip, PromoteConfirm, PromoteTag
  <2>4. pc'[p] # "idle" => loc'[p].ver = loc[p].ver /\ loc'[p].ev = loc[p].ev
    BY <1>0, <1>5 DEF PromoteSmoke, PromoteReverify, PromoteFlip, PromoteConfirm,
                      PromoteTag, Local
  <2> QED
    BY <2>1, <2>2, <2>3, <2>4 DEF LocalOK, CommandBacked, WasCleared, Endorsed
<1>6. CASE PromoteReject(p)
  BY <1>0, <1>6, IdleBacked DEF PromoteReject
<1> QED
  BY <1>1, <1>2, <1>3, <1>4, <1>5, <1>6 DEF Promote

LEMMA OtherStepsBacked ==
  ASSUME IInv, NEW p \in Procs, EvidenceGrows,
         \/ MintTagModel(p) \/ MintTagPending(p) \/ MintVerify(p)
         \/ EvaluateLog(p) \/ EvaluateReceipt(p) \/ ReviewLog(p)
         \/ Rollback(p) \/ Refresh(p) \/ AppendEvent(p) \/ Raise(p) \/ Crash(p)
  PROVE  LocalOK(p)' /\ CommandBacked(p)'
<1> USE DEF NeedsVersion, NeedsEval, MintSteps, CheckSteps, LiveSteps,
            RefreshSteps, RollbackSteps, Goto, Enter, Return
<1>0. /\ TypeOK /\ LocalOK(p) /\ CommandBacked(p)
      /\ pc \in [Procs -> Labels] /\ loc \in [Procs -> Local] /\ loc[p] \in Local
  BY DEF IInv, TypeOK
<1>1. CASE MintTagModel(p) \/ MintTagPending(p)
  <2>1. pc'[p] \in {"m_pending", "m_verify"} /\ loc' = loc /\ loc[p].ver \in Versions
    BY <1>0, <1>1 DEF MintTagModel, MintTagPending, LocalOK
  <2> QED
    BY <2>1 DEF LocalOK, CommandBacked
<1>2. CASE MintVerify(p) \/ EvaluateReceipt(p) \/ ReviewLog(p) \/ Crash(p)
  <2>1. pc'[p] = "idle"
    BY <1>0, <1>2 DEF MintVerify, EvaluateReceipt, ReviewLog, Crash
  <2> QED
    BY <2>1, IdleBacked
<1>3. CASE RollbackScan(p)
  <2>1. /\ pc'[p] = "r_resolve"
        /\ loc'[p] = [loc[p] EXCEPT !.seen = TaggedPromoted]
    BY <1>0, <1>3 DEF RollbackScan
  <2>2. loc'[p].ver = loc[p].ver /\ loc'[p].ret = loc[p].ret /\ loc'[p].seen = TaggedPromoted
    BY <1>0, <2>1 DEF Local
  <2>3. loc'[p].ret = "reject" => loc'[p].ver \in Versions
    BY <1>0, <1>3, <2>2 DEF LocalOK, RollbackScan
  <2>4. \A v \in TaggedPromoted : WasCleared(v)'
    BY WasClearedStays DEF IInv, ServedIsCleared, TaggedPromoted
  <2>5. (\A v \in loc[p].seen : WasCleared(v))'
    BY <2>2, <2>4
  <2> QED
    BY <2>1, <2>3, <2>5 DEF LocalOK, CommandBacked
<1>4. CASE RollbackResolve(p)
  <2>1. \A v \in loc[p].seen : WasCleared(v)'
    BY <1>0, <1>4, WasClearedStays DEF RollbackResolve, CommandBacked, Local
  <2>2. loc[p].ret = "reject" => loc[p].ver \in Versions
    BY <1>0, <1>4 DEF RollbackResolve, LocalOK
  <2>3. \/ pc'[p] = "idle"
        \/ /\ pc'[p] = "r_alias"
           /\ loc'[p].ver = loc[p].ver /\ loc'[p].ret = loc[p].ret
           /\ loc'[p].tgt = NoVersion \/ loc'[p].tgt \in loc[p].seen
    <3>1. CASE \E t \in Restorable(loc[p].seen, champion) :
                 Enter(p, "r_alias", [loc[p] EXCEPT !.cur = champion, !.tgt = t])
      <4>1. PICK t \in Restorable(loc[p].seen, champion) :
                 Enter(p, "r_alias", [loc[p] EXCEPT !.cur = champion, !.tgt = t])
        BY <3>1
      <4>2. t = NoVersion \/ t \in loc[p].seen
        BY <1>0, RestorableChoice DEF Local
      <4> QED
        BY <1>0, <4>1, <4>2 DEF Local
    <3>2. CASE loc[p].tgt \in loc[p].seen
                 /\ Enter(p, "r_alias", [loc[p] EXCEPT !.cur = champion])
      BY <1>0, <3>2 DEF Local
    <3>3. CASE Return(p)
      BY <1>0, <3>3
    <3> QED
      BY <1>4, <3>1, <3>2, <3>3 DEF RollbackResolve
  <2>4. CASE pc'[p] = "r_alias" /\ loc'[p].ver = loc[p].ver /\ loc'[p].ret = loc[p].ret
             /\ (loc'[p].tgt = NoVersion \/ loc'[p].tgt \in loc[p].seen)
    <3>1. loc'[p].tgt # NoVersion => WasCleared(loc[p].tgt)'
      BY <2>1, <2>4 DEF WasCleared, Endorsed
    <3> QED
      BY <2>2, <2>4, <3>1 DEF LocalOK, CommandBacked
  <2> QED
    BY <2>3, <2>4, IdleBacked
<1>5. CASE RollbackAlias(p)
  <2>1. pc'[p] = "r_logread" /\ loc' = loc /\ pc[p] = "r_alias"
    BY <1>0, <1>5 DEF RollbackAlias
  <2> QED
    BY <1>0, <2>1 DEF LocalOK, CommandBacked
<1>6. CASE RefreshTagEval(p) \/ RefreshTagCriteria(p)
  <2>1. /\ pc'[p] \in {"f_criteria", "f_logread"} /\ loc' = loc
        /\ pc[p] \in {"f_eval", "f_criteria"} /\ evals' = evals
    BY <1>0, <1>6 DEF RefreshTagEval, RefreshTagCriteria, evidenceVars
  <2> QED
    BY <1>0, <2>1 DEF LocalOK, CommandBacked, OwnEval
<1>7. CASE AppendEventRead(p)
  <2>1. /\ loc'[p].ver = loc[p].ver /\ loc'[p].ev = loc[p].ev /\ loc'[p].ret = loc[p].ret
        /\ \/ pc[p] = "p_logread" /\ pc'[p] = "p_logwrite"
           \/ pc[p] = "r_logread" /\ pc'[p] = "r_logwrite"
           \/ pc[p] = "f_logread" /\ pc'[p] = "f_logwrite"
    BY <1>0, <1>7 DEF AppendEventRead, Local
  <2>2. evals' = evals /\ approvals' = approvals /\ vetted' = vetted
    BY <1>7 DEF AppendEventRead, evidenceVars
  <2>3. pc[p] = "p_logread" => WasCleared(loc[p].ver)'
    BY <1>0, <2>1, <2>2 DEF CommandBacked, WasCleared, Endorsed
  <2> QED
    BY <1>0, <2>1, <2>3 DEF LocalOK, CommandBacked
<1>8. CASE AppendEventWrite(p)
  <2>1. \/ pc'[p] = "idle"
        \/ pc'[p] = "p_reject" /\ loc' = loc /\ loc[p].ver \in Versions
    BY <1>0, <1>8 DEF AppendEventWrite, LocalOK
  <2> QED
    BY <2>1, IdleBacked DEF LocalOK, CommandBacked
<1>9. CASE Raise(p)
  <2>1. \/ pc'[p] = "idle"
        \/ pc'[p] = "r_scan" /\ loc'[p] = [loc[p] EXCEPT !.ret = "abort"]
    BY <1>0, <1>9 DEF Raise
  <2>2. loc'[p] = [loc[p] EXCEPT !.ret = "abort"] => loc'[p].ret # "reject"
    BY <1>0 DEF Local
  <2> QED
    BY <2>1, <2>2, IdleBacked DEF LocalOK, CommandBacked
<1>10. CASE EvaluateLog(p)
  <2>1. pc'[p] = "e_receipt" /\ loc'[p].ev \in EvalRuns
    BY <1>0, <1>10 DEF EvaluateLog, Local
  <2> QED
    BY <2>1 DEF LocalOK, CommandBacked
<1> QED
  BY <1>1, <1>2, <1>3, <1>4, <1>5, <1>6, <1>7, <1>8, <1>9, <1>10
     DEF Rollback, Refresh, AppendEvent

-----------------------------------------------------------------------------
(* The safety invariants are preserved. *)

\* Only PromoteFlip and RollbackAlias move the champion, and only PromoteTag
\* tags a version promoted; each acts on a version already cleared.
LEMMA ServedStep ==
  ASSUME IInv, [Next]_vars, EvidenceGrows
  PROVE  ServedIsCleared'
<1>0. TypeOK /\ champion \in AnyVersion /\ status \in [Versions -> Statuses]
  BY DEF IInv, TypeOK
<1>1. SUFFICES /\ champion' # NoVersion => champion' \in Versions /\ WasCleared(champion')
               /\ \A v \in Versions : status'[v] = "promoted" => WasCleared(v)
  BY WasClearedStays
     DEF ServedIsCleared, WasCleared, Endorsed, EvidenceGrows, Versions, NoVersion
<1>2. /\ champion # NoVersion => champion \in Versions /\ WasCleared(champion)
      /\ \A v \in Versions : status[v] = "promoted" => WasCleared(v)
  BY <1>0 DEF IInv, ServedIsCleared, AnyVersion
<1>3. ASSUME NEW p \in Procs, PromoteFlip(p)
      PROVE  champion' \in Versions /\ WasCleared(champion')
  BY <1>3 DEF PromoteFlip, IInv, CommandBacked, LocalOK, NeedsVersion, CheckSteps
<1>4. ASSUME NEW p \in Procs, RollbackAlias(p)
      PROVE  champion' # NoVersion => champion' \in Versions /\ WasCleared(champion')
  <2>1. loc[p].tgt # NoVersion => loc[p].tgt \in Versions /\ WasCleared(loc[p].tgt)
    BY <1>0, <1>4 DEF RollbackAlias, IInv, CommandBacked, TypeOK, Local, AnyVersion
  <2> QED
    BY <1>2, <1>4, <2>1 DEF RollbackAlias
<1>5. ASSUME NEW p \in Procs, PromoteTag(p)
      PROVE  \A v \in Versions : status'[v] = "promoted" => WasCleared(v)
  <2>1. WasCleared(loc[p].ver)
    BY <1>5 DEF PromoteTag, IInv, CommandBacked, LiveSteps
  <2> QED
    BY <1>0, <1>2, <1>5, <2>1 DEF PromoteTag, SetTag
<1>6. CASE \E p \in Procs : PromoteFlip(p)
  BY <1>2, <1>3, <1>6 DEF PromoteFlip
<1>7. CASE \E p \in Procs : RollbackAlias(p)
  BY <1>2, <1>4, <1>7 DEF RollbackAlias
<1>8. CASE \E p \in Procs : PromoteTag(p)
  BY <1>2, <1>5, <1>8 DEF PromoteTag
<1>9. CASE ~\E p \in Procs : PromoteFlip(p) \/ RollbackAlias(p) \/ PromoteTag(p)
  <2>1. /\ champion' = champion
        /\ \A v \in Versions : status'[v] = "promoted" => status[v] = "promoted"
    <3>1. ASSUME NEW p \in Procs, Command(p)
          PROVE  /\ champion' = champion
                 /\ \A v \in Versions : status'[v] = "promoted" => status[v] = "promoted"
      BY <1>0, <3>1 DEF Command, MintVersion, RollbackStart, EvaluateStart, PromoteStart,
            RefreshStart, ReviewRead, registryVars, SetTag
    <3>2. ASSUME NEW p \in Procs, Step(p)
          PROVE  /\ champion' = champion
                 /\ \A v \in Versions : status'[v] = "promoted" => status[v] = "promoted"
      BY <1>0, <1>9, <3>2 DEF Step, MintTagModel, MintTagPending, MintVerify,
            EvaluateLog, EvaluateReceipt, ReviewLog, Promote, PromoteResolveEval,
            PromoteCriteria, PromoteReview, PromoteEvidence, PromoteSmoke, PromoteReverify,
            PromoteConfirm, PromoteReject, Rollback, RollbackScan, RollbackResolve,
            Refresh, RefreshTagEval, RefreshTagCriteria, AppendEvent,
            AppendEventRead, AppendEventWrite, registryVars, SetTag
    <3>3. ASSUME NEW p \in Procs, Raise(p) \/ Crash(p)
          PROVE  champion' = champion /\ status' = status
      BY <3>3 DEF Raise, Crash, registryVars
    <3>4. ASSUME NEW v \in Versions, Batch(v)
          PROVE  /\ champion' = champion
                 /\ \A w \in Versions : status'[w] = "promoted" => status[w] = "promoted"
      BY <1>0, <3>4 DEF Batch, Threshold, PreSealReject, ErrorAnalysis, ThresholdRerun,
            TagThresholdRerun, registryVars, SetTag
    <3>5. CASE UNCHANGED vars
      BY <3>5 DEF vars, registryVars
    <3> QED
      BY <3>1, <3>2, <3>3, <3>4, <3>5 DEF Next
  <2> QED
    BY <1>2, <2>1
<1> QED
  BY <1>6, <1>7, <1>8, <1>9

\* An evaluation run is tagged onto a version only when it is that version's
\* own, and a logged run never changes.
LEMMA EvidenceMatchesStep ==
  ASSUME IInv, [Next]_vars, EvidenceGrows
  PROVE  EvidenceMatches'
<1>0. /\ TypeOK /\ evalTag \in [Versions -> AnyEval] /\ critTag \in [Versions -> AnyEval]
      /\ loc \in [Procs -> Local]
  BY DEF IInv, TypeOK
<1>1. ASSUME NEW v \in Versions, NEW e \in AnyEval, e # NoEval, evals[e].version = v
      PROVE  evals'[e].version = v
  BY <1>1 DEF EvidenceGrows, AnyEval, Versions, NoVersion
<1>2. SUFFICES
        \A v \in Versions :
           /\ evalTag'[v] # NoEval => evalTag'[v] \in AnyEval /\ evals[evalTag'[v]].version = v
           /\ critTag'[v] # NoEval => critTag'[v] \in AnyEval /\ evals[critTag'[v]].version = v
  BY <1>1 DEF EvidenceMatches
<1>3. \A v \in Versions :
         /\ evalTag[v] # NoEval => evalTag[v] \in AnyEval /\ evals[evalTag[v]].version = v
         /\ critTag[v] # NoEval => critTag[v] \in AnyEval /\ evals[critTag[v]].version = v
  BY <1>0 DEF IInv, EvidenceMatches
<1>4. CASE \E p \in Procs : PromoteResolveEval(p)
  <2>1. PICK p \in Procs : PromoteResolveEval(p)
    BY <1>4
  <2>2. /\ critTag' = critTag
        /\ \/ evalTag' = evalTag
           \/ /\ evalReceipt \in AnyEval /\ evals[evalReceipt].version = loc[p].ver
              /\ evalTag' = [evalTag EXCEPT ![loc[p].ver] = evalReceipt]
    BY <1>0, <2>1 DEF PromoteResolveEval, ReceiptIsFor, SetTag, TypeOK
  <2> QED
    BY <1>0, <1>3, <2>2
<1>5. CASE \E p \in Procs : PromoteCriteria(p)
  <2>1. PICK p \in Procs : PromoteCriteria(p)
    BY <1>5
  <2>2. /\ evalTag' = evalTag
        /\ \/ critTag' = critTag
           \/ /\ loc[p].ev \in AnyEval /\ evals[loc[p].ev].version = loc[p].ver
              /\ critTag' = [critTag EXCEPT ![loc[p].ver] = loc[p].ev]
    BY <1>0, <2>1 DEF PromoteCriteria, SetTag, Local
  <2> QED
    BY <1>0, <1>3, <2>2
<1>6. CASE \E p \in Procs : RefreshTagEval(p) \/ RefreshTagCriteria(p)
  <2>1. PICK p \in Procs : RefreshTagEval(p) \/ RefreshTagCriteria(p)
    BY <1>6
  <2>2. loc[p].ev \in AnyEval /\ evals[loc[p].ev].version = loc[p].ver
    BY <1>0, <2>1 DEF RefreshTagEval, RefreshTagCriteria, IInv, CommandBacked, OwnEval, Local
  <2>3. \/ /\ evalTag' = [evalTag EXCEPT ![loc[p].ver] = loc[p].ev]
           /\ critTag' = critTag
        \/ /\ critTag' = [critTag EXCEPT ![loc[p].ver] = loc[p].ev]
           /\ evalTag' = evalTag
    BY <2>1 DEF RefreshTagEval, RefreshTagCriteria, SetTag
  <2> QED
    BY <1>0, <1>3, <2>2, <2>3
<1>7. CASE ~\E p \in Procs : PromoteResolveEval(p) \/ PromoteCriteria(p)
                               \/ RefreshTagEval(p) \/ RefreshTagCriteria(p)
  <2>1. evalTag' = evalTag /\ critTag' = critTag
    <3>1. ASSUME NEW p \in Procs, Command(p)
          PROVE  evalTag' = evalTag /\ critTag' = critTag
      BY <3>1 DEF Command, MintVersion, RollbackStart, EvaluateStart, PromoteStart,
            RefreshStart, ReviewRead, registryVars
    <3>2. ASSUME NEW p \in Procs, Step(p)
          PROVE  evalTag' = evalTag /\ critTag' = critTag
      BY <1>7, <3>2 DEF Step, MintTagModel, MintTagPending, MintVerify,
            EvaluateLog, EvaluateReceipt, ReviewLog, Promote, PromoteReview, PromoteEvidence,
            PromoteSmoke, PromoteReverify, PromoteFlip, PromoteTag,
            PromoteConfirm, PromoteReject, Rollback, RollbackScan, RollbackResolve,
            RollbackAlias, Refresh, AppendEvent,
            AppendEventRead, AppendEventWrite, registryVars
    <3>3. ASSUME NEW p \in Procs, Raise(p) \/ Crash(p)
          PROVE  evalTag' = evalTag /\ critTag' = critTag
      BY <3>3 DEF Raise, Crash, registryVars
    <3>4. ASSUME NEW v \in Versions, Batch(v)
          PROVE  evalTag' = evalTag /\ critTag' = critTag
      BY <3>4 DEF Batch, Threshold, PreSealReject, ErrorAnalysis, ThresholdRerun,
            TagThresholdRerun, registryVars
    <3>5. CASE UNCHANGED vars
      BY <3>5 DEF vars, registryVars
    <3> QED
      BY <3>1, <3>2, <3>3, <3>4, <3>5 DEF Next
  <2> QED
    BY <1>3, <2>1
<1> QED
  BY <1>4, <1>5, <1>6, <1>7

\* The latest entry of a review is the one ReviewLog appended.
LEMMA ApprovalsStep ==
  ASSUME IInv, [Next]_vars
  PROVE  ApprovalsRecorded'
<1>0. /\ TypeOK /\ reviews \in [EvalRuns -> Seq(Verdicts)] /\ loc \in [Procs -> Local]
      /\ ApprovalsRecorded
  BY DEF IInv, TypeOK
<1>1. ASSUME NEW p \in Procs, ReviewLog(p) PROVE ApprovalsRecorded'
  <2>1. PICK verdict \in Verdicts :
            /\ reviews' = [reviews EXCEPT ![loc[p].ev] = Append(loc[p].doc, verdict)]
            /\ approvals' = IF verdict = "approved" THEN approvals \cup {loc[p].ev}
                                                    ELSE approvals
    BY <1>1 DEF ReviewLog
  <2>2. loc[p].ev \in EvalRuns
    BY <1>1 DEF ReviewLog, IInv, LocalOK, NeedsEval
  <2>3. loc[p].doc \in Seq(Verdicts)
    BY <1>0 DEF Local
  <2>4. LET entries == Append(loc[p].doc, verdict) IN entries[Len(entries)] = verdict
    BY <2>3
  <2>5. ASSUME NEW e \in EvalRuns, reviews'[e] # <<>>,
               reviews'[e][Len(reviews'[e])] = "approved"
        PROVE  e \in approvals'
    <3>1. CASE e = loc[p].ev
      BY <1>0, <2>1, <2>2, <2>4, <2>5, <3>1
    <3>2. CASE e # loc[p].ev
      BY <1>0, <2>1, <2>5, <3>2 DEF ApprovalsRecorded
    <3> QED
      BY <3>1, <3>2
  <2> QED
    BY <2>5 DEF ApprovalsRecorded
<1>2. CASE ~\E p \in Procs : ReviewLog(p)
  <2>1. reviews' = reviews /\ approvals' = approvals
    <3>1. ASSUME NEW p \in Procs, Command(p) \/ Step(p) \/ Raise(p) \/ Crash(p)
          PROVE  reviews' = reviews /\ approvals' = approvals
      BY <1>2, <3>1 DEF Command, MintVersion, RollbackStart, EvaluateStart,
            PromoteStart, RefreshStart, ReviewRead, Step, MintTagModel,
            MintTagPending, MintVerify, EvaluateLog, EvaluateReceipt, Promote,
            PromoteResolveEval,
            PromoteCriteria, PromoteReview, PromoteEvidence, PromoteSmoke,
            PromoteReverify, PromoteFlip, PromoteConfirm, PromoteTag,
            PromoteReject, Rollback, RollbackScan, RollbackResolve, RollbackAlias,
            Refresh, RefreshTagEval, RefreshTagCriteria, AppendEvent,
            AppendEventRead, AppendEventWrite, Raise, Crash, evidenceVars
    <3>2. ASSUME NEW v \in Versions, Batch(v)
          PROVE  reviews' = reviews /\ approvals' = approvals
      BY <3>2 DEF Batch, Threshold, PreSealReject, ErrorAnalysis, ThresholdRerun,
            TagThresholdRerun, evidenceVars
    <3>3. CASE UNCHANGED vars
      BY <3>3 DEF vars, evidenceVars
    <3> QED
      BY <3>1, <3>2, <3>3 DEF Next
  <2> QED
    BY <1>0, <2>1 DEF ApprovalsRecorded
<1> QED
  BY <1>1, <1>2

-----------------------------------------------------------------------------
(* The inductive invariant and what follows from it. *)

LEMMA IInvInit == Init => IInv
<1> SUFFICES ASSUME Init PROVE IInv
  OBVIOUS
<1>1. TypeOK
  BY BlankType DEF Init, TypeOK, Statuses, AnyVersion, AnyEval, Evaluation, Labels
<1>2. ASSUME NEW p \in Procs PROVE LocalOK(p) /\ CommandBacked(p)
  BY DEF Init, LocalOK, CommandBacked, NeedsVersion, NeedsEval, MintSteps,
         CheckSteps, LiveSteps, RefreshSteps, RollbackSteps
<1>3. ApprovalsRecorded /\ ServedIsCleared /\ EvidenceMatches
  BY DEF Init, ApprovalsRecorded, ServedIsCleared, EvidenceMatches
<1> QED
  BY <1>1, <1>2, <1>3 DEF IInv

\* A step of one command leaves the control state of the others alone.
LEMMA OneMoves ==
  ASSUME TypeOK, NEW p \in Procs, Command(p) \/ Step(p) \/ Raise(p) \/ Crash(p),
         NEW q \in Procs, q # p
  PROVE  pc'[q] = pc[q] /\ loc'[q] = loc[q]
<1> USE DEF Goto, Enter, Return
<1>0. pc \in [Procs -> Labels] /\ loc \in [Procs -> Local]
  BY DEF TypeOK
<1>1. CASE Command(p)
  BY <1>0, <1>1 DEF Command, MintVersion, RollbackStart, EvaluateStart, PromoteStart,
                    RefreshStart, ReviewRead
<1>2. CASE Promote(p)
  BY <1>0, <1>2 DEF Promote, PromoteResolveEval, PromoteCriteria, PromoteReview,
      PromoteEvidence, PromoteSmoke, PromoteReverify, PromoteFlip, PromoteConfirm,
      PromoteTag, PromoteReject
<1>3. CASE MintTagModel(p) \/ MintTagPending(p) \/ MintVerify(p) \/ EvaluateLog(p)
             \/ EvaluateReceipt(p) \/ ReviewLog(p) \/ Rollback(p) \/ Refresh(p)
             \/ AppendEvent(p)
  BY <1>0, <1>3 DEF MintTagModel, MintTagPending, MintVerify, EvaluateLog,
      EvaluateReceipt, ReviewLog,
      Rollback, RollbackScan, RollbackResolve, RollbackAlias, Refresh,
      RefreshTagEval, RefreshTagCriteria, AppendEvent, AppendEventRead,
      AppendEventWrite
<1>4. CASE Raise(p) \/ Crash(p)
  BY <1>0, <1>4 DEF Raise, Crash
<1> QED
  BY <1>1, <1>2, <1>3, <1>4 DEF Step

LEMMA CommandsStep ==
  ASSUME IInv, [Next]_vars, EvidenceGrows
  PROVE  \A q \in Procs : LocalOK(q)' /\ CommandBacked(q)'
<1>0. TypeOK /\ \A q \in Procs : LocalOK(q) /\ CommandBacked(q)
  BY DEF IInv
<1>1. ASSUME NEW p \in Procs, Command(p) \/ Step(p) \/ Raise(p) \/ Crash(p),
             NEW q \in Procs
      PROVE  LocalOK(q)' /\ CommandBacked(q)'
  <2>1. CASE q = p
    BY <1>0, <1>1, <2>1, StartBacked, PromoteBacked, OtherStepsBacked DEF Step
  <2>2. CASE q # p
    BY <1>0, <1>1, <2>2, OneMoves, OthersStay
  <2> QED
    BY <2>1, <2>2
<1>2. ASSUME NEW v \in Versions, Batch(v), NEW q \in Procs
      PROVE  LocalOK(q)' /\ CommandBacked(q)'
  <2>1. pc' = pc /\ loc' = loc
    BY <1>2 DEF Batch, Threshold, PreSealReject, ErrorAnalysis, ThresholdRerun,
                TagThresholdRerun
  <2> QED
    BY <1>0, <2>1, OthersStay
<1>3. ASSUME UNCHANGED vars, NEW q \in Procs
      PROVE  LocalOK(q)' /\ CommandBacked(q)'
  BY <1>0, <1>3, OthersStay DEF vars
<1> QED
  BY <1>1, <1>2, <1>3 DEF Next

LEMMA TypeStep ==
  ASSUME IInv, [Next]_vars
  PROVE  TypeOK'
<1>0. TypeOK /\ \A q \in Procs : LocalOK(q)
  BY DEF IInv
<1>1. ASSUME NEW p \in Procs, Command(p) \/ Step(p) \/ Raise(p) \/ Crash(p)
      PROVE  TypeOK'
  BY <1>0, <1>1, CommandTypes, MintAndEvidenceTypes, PromoteTypes, RollbackTypes,
     FailureTypes DEF Step
<1>2. ASSUME NEW v \in Versions, Batch(v) PROVE TypeOK'
  BY <1>0, <1>2, BatchTypes
<1>3. CASE UNCHANGED vars
  BY <1>0, <1>3 DEF vars, registryVars, evidenceVars, faultVars, TypeOK
<1> QED
  BY <1>1, <1>2, <1>3 DEF Next

LEMMA IInvStep == IInv /\ [Next]_vars => IInv'
<1> SUFFICES ASSUME IInv, [Next]_vars PROVE IInv'
  OBVIOUS
<1>1. EvidenceGrows
  BY EvidenceStep DEF IInv
<1>2. TypeOK' /\ ApprovalsRecorded'
  BY TypeStep, ApprovalsStep
<1>3. \A q \in Procs : LocalOK(q)' /\ CommandBacked(q)'
  BY <1>1, CommandsStep
<1>4. ServedIsCleared' /\ EvidenceMatches'
  BY <1>1, ServedStep, EvidenceMatchesStep
<1> QED
  BY <1>2, <1>3, <1>4 DEF IInv

LEMMA Invariance == Spec => []IInv
BY IInvInit, IInvStep, PTL DEF Spec

\* The variables of the registry, of its evidence and of every command stay
\* within their types.
THEOREM TypeCorrectness == Spec => []TypeOK
<1>1. IInv => TypeOK
  BY DEF IInv
<1> QED
  BY <1>1, Invariance, PTL

\* Whatever is served or tagged promoted passed its own gate, review and screen,
\* whichever commands run at once, crash or fail.
THEOREM ServedSafety == Spec => []ServedIsCleared
<1>1. IInv => ServedIsCleared
  BY DEF IInv
<1> QED
  BY <1>1, Invariance, PTL

\* Evidence tags never point at another version's evaluation.
THEOREM EvidenceSafety == Spec => []EvidenceMatches
<1>1. IInv => EvidenceMatches
  BY DEF IInv
<1> QED
  BY <1>1, Invariance, PTL

-----------------------------------------------------------------------------
(* Why a command ends: a variant. *)

\* The most calls a command at this label still makes, failed ones included.
CallsLeft(label) ==
    CASE label = "p_eval"     -> 17
      [] label = "p_criteria" -> 16
      [] label = "p_review"   -> 15
      [] label = "p_evidence" -> 14
      [] label = "p_smoke"    -> 13
      [] label = "p_reverify" -> 12
      [] label = "p_flip"     -> 11
      [] label = "p_confirm"  -> 10
      [] label = "p_tag"      -> 9
      [] label = "p_logread"  -> 8
      [] label = "p_logwrite" -> 7
      [] label = "r_scan"     -> 6
      [] label = "r_resolve"  -> 5
      [] label \in {"r_alias", "f_eval"}                  -> 4
      [] label \in {"r_logread", "f_criteria", "m_model"} -> 3
      [] label \in {"r_logwrite", "f_logread", "m_pending", "e_log"} -> 2
      [] label \in {"p_reject", "f_logwrite", "m_verify", "e_receipt", "v_log"} -> 1
      [] label = "idle"       -> 0

LEMMA StepDescends ==
    ASSUME TypeOK, NEW p \in Procs, Step(p) \/ Raise(p) \/ Crash(p)
    PROVE  CallsLeft(pc'[p]) < CallsLeft(pc[p])
<1>0. pc \in [Procs -> Labels]
  BY DEF TypeOK
<1>1. CASE \/ MintTagModel(p) \/ MintTagPending(p) \/ MintVerify(p)
           \/ EvaluateLog(p) \/ EvaluateReceipt(p) \/ ReviewLog(p)
  <2>1. \/ pc[p] = "m_model" /\ pc'[p] = "m_pending"
        \/ pc[p] = "m_pending" /\ pc'[p] = "m_verify"
        \/ pc[p] = "e_log" /\ pc'[p] = "e_receipt"
        \/ pc[p] \in {"m_verify", "e_receipt", "v_log"} /\ pc'[p] = "idle"
    BY <1>0, <1>1 DEF MintTagModel, MintTagPending, MintVerify, EvaluateLog,
       EvaluateReceipt, ReviewLog, Goto, Enter, Return
  <2> QED
    BY <2>1 DEF CallsLeft
<1>2. CASE PromoteResolveEval(p) \/ PromoteCriteria(p)
  <2>1. \/ pc[p] = "p_eval" /\ pc'[p] = "p_criteria"
        \/ pc[p] = "p_eval" /\ pc'[p] = "idle"
        \/ pc[p] = "p_criteria" /\ pc'[p] = "p_review"
        \/ pc[p] = "p_criteria" /\ pc'[p] = "p_reject"
        \/ pc[p] = "p_criteria" /\ pc'[p] = "idle"
    BY <1>0, <1>2 DEF PromoteResolveEval, PromoteCriteria, Goto, Enter, Return
  <2> QED
    BY <2>1 DEF CallsLeft
<1>3. CASE PromoteReview(p) \/ PromoteEvidence(p)
  <2>1. \/ pc[p] = "p_review" /\ pc'[p] = "p_evidence"
        \/ pc[p] = "p_review" /\ pc'[p] = "p_reject"
        \/ pc[p] = "p_review" /\ pc'[p] = "idle"
        \/ pc[p] = "p_evidence" /\ pc'[p] = "p_smoke"
        \/ pc[p] = "p_evidence" /\ pc'[p] = "idle"
    BY <1>0, <1>3 DEF PromoteReview, PromoteEvidence, Goto, Enter, Return
  <2> QED
    BY <2>1 DEF CallsLeft
<1>4. CASE \/ PromoteSmoke(p) \/ PromoteReverify(p) \/ PromoteFlip(p) \/ PromoteConfirm(p)
           \/ PromoteTag(p) \/ PromoteReject(p)
  BY <1>0, <1>4 DEF PromoteSmoke, PromoteReverify, PromoteFlip, PromoteConfirm, PromoteTag,
     PromoteReject, Goto, Enter, Return, CallsLeft
<1>5. CASE Rollback(p)
  <2>1. \/ pc[p] = "r_scan" /\ pc'[p] = "r_resolve"
        \/ pc[p] = "r_resolve" /\ pc'[p] = "r_alias"
        \/ pc[p] = "r_resolve" /\ pc'[p] = "idle"
        \/ pc[p] = "r_alias" /\ pc'[p] = "r_logread"
    BY <1>0, <1>5 DEF Rollback, RollbackScan, RollbackResolve, RollbackAlias, Goto,
       Enter, Return
  <2> QED
    BY <2>1 DEF CallsLeft
<1>6. CASE Refresh(p) \/ AppendEvent(p)
  BY <1>0, <1>6 DEF Refresh, RefreshTagEval, RefreshTagCriteria, AppendEvent, AppendEventRead,
     AppendEventWrite, Goto, Enter, Return, CallsLeft
<1>7. CASE Raise(p) /\ pc[p] \in FinalizeSteps
  BY <1>0, <1>7 DEF Raise, FinalizeSteps, Enter, CallsLeft
<1>8. CASE Crash(p) \/ (Raise(p) /\ pc[p] \notin FinalizeSteps)
  <2>1. pc'[p] = "idle" /\ pc[p] \in Labels \ {"idle"}
    BY <1>0, <1>8 DEF Raise, Crash, Enter, Return
  <2> QED
    BY <2>1 DEF CallsLeft, Labels, MintSteps, EvidenceSteps, CheckSteps, LiveSteps,
       RollbackSteps, RefreshSteps
<1> QED
  BY <1>1, <1>2, <1>3, <1>4, <1>5, <1>6, <1>7, <1>8 DEF Step, Promote

\* A command under way is moved only by its own calls, and each of them, also one
\* that fails, brings it nearer to its return: run_registration_step makes at most
\* 17, whatever other commands do meanwhile.
THEOREM CommandsAreFinite ==
  Spec => [][\A p \in Procs :
               /\ pc[p] # "idle" /\ pc'[p] # pc[p] => CallsLeft(pc'[p]) < CallsLeft(pc[p])
               /\ Step(p) => pc'[p] # pc[p]]_vars
<1>1. TypeOK /\ [Next]_vars =>
        [\A p \in Procs :
           /\ pc[p] # "idle" /\ pc'[p] # pc[p] => CallsLeft(pc'[p]) < CallsLeft(pc[p])
           /\ Step(p) => pc'[p] # pc[p]]_vars
  <2> SUFFICES ASSUME TypeOK, [Next]_vars, NEW p \in Procs
               PROVE  /\ pc[p] # "idle" /\ pc'[p] # pc[p] => CallsLeft(pc'[p]) < CallsLeft(pc[p])
                      /\ Step(p) => pc'[p] # pc[p]
    OBVIOUS
  <2>1. Step(p) => CallsLeft(pc'[p]) < CallsLeft(pc[p])
    BY StepDescends
  <2>2. ASSUME pc[p] # "idle", pc'[p] # pc[p]
        PROVE  Step(p) \/ Raise(p) \/ Crash(p)
    <3>1. ASSUME NEW q \in Procs, Command(q) \/ Step(q) \/ Raise(q) \/ Crash(q) PROVE q = p
      BY <2>2, <3>1, OneMoves
    <3>2. ASSUME NEW v \in Versions, Batch(v) PROVE FALSE
      BY <2>2, <3>2 DEF Batch, Threshold, PreSealReject, ErrorAnalysis, ThresholdRerun,
         TagThresholdRerun
    <3>3. ~Command(p)
      BY <2>2 DEF Command, MintVersion, RollbackStart, EvaluateStart, PromoteStart,
         RefreshStart, ReviewRead
    <3>4. ~UNCHANGED vars
      BY <2>2 DEF vars
    <3> QED
      BY <3>1, <3>2, <3>3, <3>4 DEF Next
  <2>3. pc[p] \in Labels
    BY DEF TypeOK
  <2>4. CallsLeft(pc[p]) \in Nat
    BY <2>3 DEF CallsLeft, Labels, MintSteps, EvidenceSteps, CheckSteps, LiveSteps,
       RollbackSteps, RefreshSteps
  <2>5. ASSUME Step(p) PROVE pc'[p] # pc[p]
    <3>1. ~(CallsLeft(pc[p]) < CallsLeft(pc[p]))
      BY <2>4
    <3> QED
      BY <2>1, <2>5, <3>1
  <2> QED
    BY <2>2, <2>5, StepDescends
<1> QED
  BY <1>1, TypeCorrectness, PTL DEF Spec
===============================================================================
