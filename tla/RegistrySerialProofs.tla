------------------------- MODULE RegistrySerialProofs -------------------------
(***************************************************************************)
(* Proofs about Registry that need more than RegistryProofs' invariant.    *)
(*                                                                         *)
(* The challenger alias names a version with all its mint-time tags under  *)
(* any interleaving, crash or failed call.  The promises about promoting   *)
(* and rolling back hold only for commands that do not overlap, which is   *)
(* how the code documents its use but nothing enforces: they are proved    *)
(* for every behaviour in which at most one command is under way at a time *)
(* and a stage that is one call waits for it (OneCommand), whatever fails. *)
(* The promotion log, the coherence of a version's evidence tags and the   *)
(* implementation of PromotionPolicy need, further, that no command stops  *)
(* half-way (NoFailures): the code repairs neither a log nor a pair of     *)
(* tags a dead process left behind.                                        *)
(***************************************************************************)
EXTENDS RegistryProofs

\* At most one command is under way.
OneAtATime == \A p, q \in Procs : pc[p] # "idle" /\ pc[q] # "idle" => p = q

\* A stage that is one call runs only while no command is under way.
StagesAlone == (\E v \in Versions : Batch(v)) => AllIdle

OneCommand == []OneAtATime /\ [][StagesAlone]_vars

\* No process has died and no call has raised.
NoFailures == crashes = 0 /\ faults = 0

\* What promotion_status is once a mint is complete.
Tagged    == {"pending", "promoted", "rejected"}
Decided   == {"promoted", "rejected"}
Undecided == Statuses \ Decided

-----------------------------------------------------------------------------
(* The inductive invariants. *)

\* What a mint has done to its version by the step it stands at.
MintKnown ==
    \A p \in Procs : pc[p] \in MintSteps =>
        /\ status[loc[p].ver] # "unminted"
        /\ pc[p] \in {"m_pending", "m_verify"} => modelTag[loc[p].ver]
        /\ pc[p] = "m_verify" => status[loc[p].ver] \in Tagged

MintInv == MintKnown /\ ChallengerIsTagged

\* What a command that runs alone knows of the alias at each of its steps.
Undoes(p) == loc[p].ret \in {"abort", "reject"}

AliasKnown(p) ==
    /\ pc[p] \in CheckSteps \cup LiveSteps => loc[p].tgt = NoVersion
    /\ pc[p] = "p_flip" => evals[loc[p].ev].champ \in {NoVersion, champion}
    /\ pc[p] \in LiveSteps => champion = loc[p].ver
    /\ pc[p] \in {"r_scan", "r_resolve"} /\ Undoes(p) =>
         loc[p].tgt = NoVersion /\ champion = loc[p].ver /\ loc[p].ver \in Versions
    /\ pc[p] = "r_resolve" => \A v \in loc[p].seen : status[v] = "promoted"
    /\ pc[p] = "r_alias" =>
         /\ loc[p].cur = champion
         /\ loc[p].tgt # NoVersion => status[loc[p].tgt] = "promoted"
         /\ Undoes(p) => champion = loc[p].ver /\ loc[p].ver \in Versions
                           /\ loc[p].tgt # loc[p].ver

SerialInv == \A p \in Procs : AliasKnown(p)

\* The candidate is on the live alias and its decision is open.
InTrial(p) ==
    \/ pc[p] \in {"p_confirm", "p_tag"}
    \/ pc[p] \in {"r_scan", "r_resolve", "r_alias"} /\ loc[p].ret = "reject"

\* The status of a command's version at each step.
DecisionKnown(p) ==
    /\ pc[p] \in {"m_model", "m_pending"} => status[loc[p].ver] = "minted"
    /\ pc[p] \in CheckSteps \cup {"p_reject"} => status[loc[p].ver] \in Undecided
    /\ pc[p] \in {"p_smoke", "p_reverify", "p_flip"} => screen[loc[p].ver] = "pass"
    /\ InTrial(p) => champion = loc[p].ver /\ status[loc[p].ver] \in Undecided
    /\ pc[p] \in {"p_logread", "p_logwrite"} => status[loc[p].ver] = "promoted"
    /\ pc[p] \in {"r_logread", "r_logwrite"} /\ loc[p].ret = "reject" =>
         status[loc[p].ver] \in Undecided
    /\ pc[p] \in RollbackSteps => loc[p].ret # "abort"

\* The tags a command has written by each step.
TagsKnown(p) ==
    /\ pc[p] \in {"p_eval", "p_criteria"} \cup {"f_criteria"} => evalTag[loc[p].ver] = loc[p].ev
    /\ pc[p] \in {"p_review", "p_evidence", "p_smoke", "p_reverify", "p_flip",
                  "p_confirm", "p_tag"} =>
         evalTag[loc[p].ver] = loc[p].ev /\ critTag[loc[p].ver] = loc[p].ev

\* The alias has moved, or is about to be moved back, and the log does not say so.
Unlogged(p) ==
    \/ InTrial(p)
    \/ pc[p] \in {"p_logread", "p_logwrite", "r_logread", "r_logwrite"}

\* What a command knows of the log.
LogKnown(p) ==
    /\ pc[p] \in {"p_logwrite", "r_logwrite", "f_logwrite"} => loc[p].hist = log
    /\ pc[p] \in {"r_logread", "r_logwrite"} => champion = loc[p].tgt

\* Between trials the champion is a version that has been decided, and that was
\* promoted when it became champion.
Settled ==
    (\A p \in Procs : ~InTrial(p)) =>
        champion = NoVersion \/ status[champion] \in Decided

LogAgrees == (\A p \in Procs : ~Unlogged(p)) => LogNames(champion)

PolicyInv == (\A p \in Procs : DecisionKnown(p)) /\ Settled

QuietInv ==
    /\ \A p \in Procs : TagsKnown(p) /\ LogKnown(p)
    /\ LogAgrees
    /\ ReferenceIsCoherent

-----------------------------------------------------------------------------
(* The challenger alias, under any interleaving. *)

\* Apart from the steps of a mint, nothing moves the challenger alias, takes a
\* version's status back to an early one, touches logged_model_id, or brings a
\* command into a mint.
LEMMA OutsideMint ==
  ASSUME TypeOK, [Next]_vars,
         ~\E p \in Procs : MintVersion(p) \/ MintTagModel(p) \/ MintTagPending(p)
                                          \/ MintVerify(p)
  PROVE  /\ challenger' = challenger /\ modelTag' = modelTag
         /\ \A v \in Versions : status'[v] = status[v] \/ status'[v] \in Tagged
         /\ \A q \in Procs : pc'[q] \in MintSteps => pc'[q] = pc[q] /\ loc'[q] = loc[q]
<1> DEFINE Kept == /\ challenger' = challenger /\ modelTag' = modelTag
                   /\ \A v \in Versions : status'[v] = status[v] \/ status'[v] \in Tagged
           Quiet(q) == pc'[q] \in MintSteps => pc'[q] = pc[q] /\ loc'[q] = loc[q]
<1>0. /\ pc \in [Procs -> Labels] /\ loc \in [Procs -> Local]
      /\ status \in [Versions -> Statuses]
  BY DEF TypeOK
<1>1. ASSUME NEW p \in Procs, Command(p), ~MintVersion(p) PROVE Kept /\ Quiet(p)
  BY <1>0, <1>1 DEF Command, RollbackStart, EvaluateStart, PromoteStart, RefreshStart,
      ReviewRead, registryVars, MintSteps, Enter
<1>2. ASSUME NEW p \in Procs, Promote(p) PROVE Kept /\ Quiet(p)
  BY <1>0, <1>2 DEF Promote, PromoteResolveEval, PromoteCriteria, PromoteReview,
      PromoteEvidence, PromoteSmoke, PromoteReverify, PromoteFlip, PromoteConfirm,
      PromoteTag, PromoteReject, registryVars, MintSteps, Tagged, SetTag, Goto, Enter, Return
<1>3. ASSUME NEW p \in Procs, EvaluateLog(p) \/ EvaluateReceipt(p) \/ ReviewLog(p)
                                \/ Rollback(p) \/ Refresh(p) \/ AppendEvent(p)
      PROVE  Kept /\ Quiet(p)
  BY <1>0, <1>3 DEF EvaluateLog, EvaluateReceipt, ReviewLog, Rollback, RollbackScan,
     RollbackResolve,
      RollbackAlias, Refresh, RefreshTagEval, RefreshTagCriteria, AppendEvent,
      AppendEventRead, AppendEventWrite, registryVars, MintSteps, Goto, Enter, Return
<1>4. ASSUME NEW p \in Procs, Raise(p) \/ Crash(p) PROVE Kept /\ Quiet(p)
  BY <1>0, <1>4 DEF Raise, Crash, registryVars, MintSteps, Enter, Return
<1>5. ASSUME NEW v \in Versions, Batch(v) PROVE Kept /\ \A q \in Procs : Quiet(q)
  BY <1>0, <1>5 DEF Batch, Threshold, PreSealReject, ErrorAnalysis, ThresholdRerun,
      TagThresholdRerun, registryVars, SetTag, Tagged
<1>6. CASE UNCHANGED vars
  BY <1>6 DEF vars, registryVars
<1>7. ASSUME NEW p \in Procs, Command(p) \/ Step(p) \/ Raise(p) \/ Crash(p)
      PROVE  Kept /\ \A q \in Procs : Quiet(q)
  <2>1. Kept /\ Quiet(p)
    BY <1>1, <1>2, <1>3, <1>4, <1>7 DEF Step
  <2>2. ASSUME NEW q \in Procs, q # p PROVE Quiet(q)
    BY <1>7, <2>2, OneMoves
  <2> QED
    BY <2>1, <2>2
<1> QED
  BY <1>5, <1>6, <1>7 DEF Next

LEMMA MintInvStep == IInv /\ MintInv /\ [Next]_vars => MintInv'
<1> SUFFICES ASSUME IInv, MintInv, [Next]_vars PROVE MintInv'
  OBVIOUS
<1>0. /\ TypeOK /\ pc \in [Procs -> Labels] /\ loc \in [Procs -> Local]
      /\ status \in [Versions -> Statuses] /\ modelTag \in [Versions -> BOOLEAN]
      /\ challenger \in AnyVersion
      /\ \A v \in Versions : status[v] \in Tagged <=> status[v] \notin {"unminted", "minted"}
  BY DEF IInv, TypeOK, Tagged, Statuses
<1>1. \A q \in Procs : pc[q] \in MintSteps => loc[q].ver \in Versions
  BY DEF IInv, LocalOK, NeedsVersion
<1>2. ASSUME NEW p \in Procs, MintVersion(p) PROVE MintInv'
  <2>1. PICK v \in Versions :
            /\ status[v] = "unminted"
            /\ status' = [status EXCEPT ![v] = "minted"]
            /\ Enter(p, "m_model", [Blank EXCEPT !.ver = v])
    BY <1>2 DEF MintVersion, SetTag
  <2>2. /\ pc'[p] = "m_model" /\ loc'[p].ver = v
        /\ \A q \in Procs : q # p => pc'[q] = pc[q] /\ loc'[q] = loc[q]
        /\ challenger' = challenger /\ modelTag' = modelTag
    BY <1>0, <1>2, <2>1 DEF MintVersion, Enter, Blank
  <2>3. challenger # v /\ \A q \in Procs : pc[q] \in MintSteps => loc[q].ver # v
    BY <2>1 DEF MintInv, MintKnown, ChallengerIsTagged, Versions, NoVersion
  <2>4. ChallengerIsTagged'
    BY <1>0, <2>1, <2>2, <2>3 DEF MintInv, ChallengerIsTagged, AnyVersion
  <2>5. MintKnown'
    BY <1>0, <1>1, <2>1, <2>2, <2>3 DEF MintInv, MintKnown
  <2> QED
    BY <2>4, <2>5 DEF MintInv
<1>3. ASSUME NEW p \in Procs, MintTagModel(p) \/ MintTagPending(p) PROVE MintInv'
  <2>1. loc[p].ver \in Versions
    BY <1>1, <1>3 DEF MintTagModel, MintTagPending, MintSteps
  <2>2. /\ challenger' = challenger /\ loc' = loc
        /\ \A q \in Procs : q # p => pc'[q] = pc[q]
        /\ \/ /\ pc[p] = "m_model" /\ pc'[p] = "m_pending" /\ status' = status
              /\ modelTag' = [modelTag EXCEPT ![loc[p].ver] = TRUE]
           \/ /\ pc[p] = "m_pending" /\ pc'[p] = "m_verify" /\ modelTag' = modelTag
              /\ status' = [status EXCEPT ![loc[p].ver] = "pending"]
    BY <1>0, <1>3 DEF MintTagModel, MintTagPending, SetTag, Goto
  <2>3. /\ \A v \in Versions : modelTag[v] => modelTag'[v]
        /\ \A v \in Versions : status'[v] = status[v] \/ status'[v] \in Tagged
        /\ pc'[p] \in {"m_pending", "m_verify"} => modelTag'[loc[p].ver]
        /\ pc'[p] = "m_verify" => status'[loc[p].ver] \in Tagged
        /\ status[loc[p].ver] # "unminted"
    BY <1>0, <2>1, <2>2 DEF MintInv, MintKnown, MintSteps, Tagged
  <2>4. ChallengerIsTagged'
    BY <1>0, <2>2, <2>3 DEF MintInv, ChallengerIsTagged, AnyVersion, Tagged
  <2>5. MintKnown'
    BY <1>1, <2>1, <2>2, <2>3 DEF MintInv, MintKnown, Tagged
  <2> QED
    BY <2>4, <2>5 DEF MintInv
<1>4. ASSUME NEW p \in Procs, MintVerify(p) PROVE MintInv'
  <2>1. /\ pc'[p] = "idle" /\ status' = status /\ modelTag' = modelTag
        /\ challenger' \in {loc[p].ver, challenger} /\ pc[p] = "m_verify"
        /\ \A q \in Procs : q # p => pc'[q] = pc[q] /\ loc'[q] = loc[q]
    BY <1>0, <1>4 DEF MintVerify, Return, Enter
  <2>2. status[loc[p].ver] \in Tagged /\ modelTag[loc[p].ver]
    BY <2>1 DEF MintInv, MintKnown, MintSteps
  <2>3. ChallengerIsTagged'
    BY <2>1, <2>2 DEF MintInv, ChallengerIsTagged, Tagged
  <2>4. MintKnown'
    BY <2>1 DEF MintInv, MintKnown, MintSteps
  <2> QED
    BY <2>3, <2>4 DEF MintInv
<1>5. CASE ~\E p \in Procs : MintVersion(p) \/ MintTagModel(p) \/ MintTagPending(p)
                                            \/ MintVerify(p)
  <2>1. /\ challenger' = challenger /\ modelTag' = modelTag
        /\ \A v \in Versions : status'[v] = status[v] \/ status'[v] \in Tagged
        /\ \A q \in Procs : pc'[q] \in MintSteps => pc'[q] = pc[q] /\ loc'[q] = loc[q]
    BY <1>0, <1>5, OutsideMint
  <2>2. ChallengerIsTagged'
    BY <1>0, <2>1 DEF MintInv, ChallengerIsTagged, AnyVersion, Tagged
  <2>3. MintKnown'
    BY <1>1, <2>1 DEF MintInv, MintKnown, Tagged
  <2> QED
    BY <2>2, <2>3 DEF MintInv
<1> QED
  BY <1>2, <1>3, <1>4, <1>5

\* Whatever commands overlap, crash or fail, the challenger alias names a version
\* that carries every tag of its mint.
THEOREM ChallengerSafety == Spec => []ChallengerIsTagged
<1>1. Init => MintInv
  BY DEF Init, MintInv, MintKnown, MintSteps, ChallengerIsTagged
<1>2. MintInv => ChallengerIsTagged
  BY DEF MintInv
<1> QED
  BY <1>1, <1>2, MintInvStep, Invariance, PTL DEF Spec

-----------------------------------------------------------------------------
(* Commands that do not overlap. *)

\* When a command moves, no other is under way before or after.
LEMMA Alone ==
  ASSUME TypeOK, OneAtATime, OneAtATime', NEW p \in Procs,
         Command(p) \/ Step(p) \/ Raise(p) \/ Crash(p), NEW q \in Procs, q # p
  PROVE  pc[q] = "idle" /\ pc'[q] = "idle"
<1>1. pc'[q] = pc[q]
  BY OneMoves
<1>2. pc[p] # "idle" \/ pc'[p] # "idle"
  <2>1. CASE Command(p)
    BY <2>1 DEF TypeOK, Command, MintVersion, RollbackStart, EvaluateStart, PromoteStart,
                RefreshStart, ReviewRead, Enter
  <2>2. CASE Step(p)
    BY <2>2 DEF Step, MintTagModel, MintTagPending, MintVerify, EvaluateLog,
       EvaluateReceipt, ReviewLog,
        Promote, PromoteResolveEval, PromoteCriteria, PromoteReview, PromoteEvidence,
        PromoteSmoke, PromoteReverify, PromoteFlip, PromoteConfirm, PromoteTag,
        PromoteReject, Rollback, RollbackScan, RollbackResolve, RollbackAlias,
        Refresh, RefreshTagEval, RefreshTagCriteria, AppendEvent, AppendEventRead,
        AppendEventWrite
  <2>3. CASE Raise(p) \/ Crash(p)
    BY <2>3 DEF Raise, Crash
  <2> QED
    BY <2>1, <2>2, <2>3
<1> QED
  BY <1>1, <1>2 DEF OneAtATime

\* An automatic rollback never chooses the version it is taking out of service.
LEMMA RestorableOther ==
  ASSUME NEW S \in SUBSET Versions, NEW c \in Versions, NEW t \in Restorable(S, c)
  PROVE  t # c
BY DEF Restorable, Highest, Versions, NoVersion

LEMMA IdleAlias ==
  ASSUME NEW p \in Procs, pc'[p] = "idle"
  PROVE  AliasKnown(p)'
BY DEF AliasKnown, CheckSteps, LiveSteps

LEMMA StartAlias ==
  ASSUME TypeOK, NEW p \in Procs, Command(p)
  PROVE  AliasKnown(p)'
<1> USE DEF AliasKnown, Undoes, CheckSteps, LiveSteps, Enter, Blank
<1>0. pc \in [Procs -> Labels] /\ loc \in [Procs -> Local]
  BY DEF TypeOK
<1>1. CASE MintVersion(p)
  BY <1>0, <1>1 DEF MintVersion
<1>2. CASE RollbackStart(p)
  BY <1>0, <1>2 DEF RollbackStart
<1>3. ASSUME NEW v \in Versions, EvaluateStart(p, v) \/ PromoteStart(p, v)
                                                     \/ RefreshStart(p, v)
      PROVE  AliasKnown(p)'
  BY <1>0, <1>3 DEF EvaluateStart, PromoteStart, RefreshStart
<1>4. ASSUME NEW e \in EvalRuns, ReviewRead(p, e) PROVE AliasKnown(p)'
  BY <1>0, <1>4 DEF ReviewRead
<1> QED
  BY <1>1, <1>2, <1>3, <1>4 DEF Command

LEMMA PromoteAlias ==
  ASSUME IInv, NEW p \in Procs, AliasKnown(p), Promote(p)
  PROVE  AliasKnown(p)'
<1> USE DEF CheckSteps, LiveSteps, Goto, Enter, Return
<1>0. /\ TypeOK /\ LocalOK(p)
      /\ pc \in [Procs -> Labels] /\ loc \in [Procs -> Local] /\ loc[p] \in Local
  BY DEF IInv, TypeOK
<1>1. CASE PromoteResolveEval(p) \/ PromoteCriteria(p) \/ PromoteReview(p)
             \/ PromoteEvidence(p) \/ PromoteSmoke(p) \/ PromoteReject(p)
  <2>1. \/ pc'[p] = "idle"
        \/ /\ pc'[p] \in {"p_criteria", "p_review", "p_evidence", "p_smoke", "p_reverify",
                          "p_reject"}
           /\ loc'[p].tgt = NoVersion
    BY <1>0, <1>1 DEF AliasKnown, Local, PromoteResolveEval, PromoteCriteria, PromoteReview,
       PromoteEvidence, PromoteSmoke, PromoteReject
  <2> QED
    BY <2>1, IdleAlias DEF AliasKnown
<1>2. CASE PromoteReverify(p)
  <2>1. (loc' = loc /\ evals' = evals /\ champion' = champion) \/ pc'[p] = "idle"
    BY <1>0, <1>2 DEF PromoteReverify, registryVars, evidenceVars
  <2>2. \/ pc'[p] = "idle"
        \/ /\ pc[p] = "p_reverify" /\ pc'[p] = "p_flip"
           /\ evals[loc[p].ev].champ \in {NoVersion, champion}
    BY <1>0, <1>2 DEF PromoteReverify, IncumbentHolds
  <2> QED
    BY <2>1, <2>2, IdleAlias DEF AliasKnown
<1>3. CASE PromoteFlip(p)
  BY <1>0, <1>3 DEF AliasKnown, PromoteFlip
<1>4. CASE PromoteConfirm(p)
  <2>1. loc[p].ver \in Versions /\ loc[p].tgt = NoVersion /\ champion = loc[p].ver
    BY <1>0, <1>4 DEF PromoteConfirm, AliasKnown, LocalOK, NeedsVersion
  <2>2. champion' = champion /\ pc'[p] \in {"p_tag", "r_scan"}
    BY <1>0, <1>4 DEF PromoteConfirm, registryVars
  <2>3. loc'[p].ver = loc[p].ver /\ loc'[p].tgt = loc[p].tgt
    BY <1>0, <1>4 DEF PromoteConfirm, Local
  <2> QED
    BY <2>1, <2>2, <2>3 DEF AliasKnown
<1>5. CASE PromoteTag(p)
  BY <1>0, <1>5 DEF AliasKnown, PromoteTag
<1> QED
  BY <1>1, <1>2, <1>3, <1>4, <1>5 DEF Promote

LEMMA RollbackAliasKnown ==
  ASSUME IInv, NEW p \in Procs, AliasKnown(p), Rollback(p)
  PROVE  AliasKnown(p)'
<1> USE DEF CheckSteps, LiveSteps, Goto, Enter, Return
<1>0. /\ TypeOK /\ LocalOK(p) /\ champion \in AnyVersion
      /\ pc \in [Procs -> Labels] /\ loc \in [Procs -> Local] /\ loc[p] \in Local
  BY DEF IInv, TypeOK
<1>1. CASE RollbackScan(p)
  <2>1. /\ pc'[p] = "r_resolve" /\ loc'[p].seen = TaggedPromoted
        /\ loc'[p].ret = loc[p].ret /\ loc'[p].ver = loc[p].ver /\ loc'[p].tgt = loc[p].tgt
    BY <1>0, <1>1 DEF RollbackScan, Local
  <2>2. champion' = champion /\ status' = status
    BY <1>1 DEF RollbackScan, registryVars
  <2>3. \A v \in loc'[p].seen : status'[v] = "promoted"
    BY <2>1, <2>2 DEF TaggedPromoted
  <2> QED
    BY <1>1, <2>1, <2>2, <2>3 DEF AliasKnown, Undoes, RollbackScan
<1>2. CASE RollbackResolve(p)
  <2>1. /\ champion' = champion /\ status' = status /\ pc[p] = "r_resolve"
        /\ loc[p].seen \in SUBSET Versions
    BY <1>0, <1>2 DEF RollbackResolve, registryVars, Local
  <2>2. ASSUME NEW t \in Restorable(loc[p].seen, champion), loc[p].tgt = NoVersion,
               Enter(p, "r_alias", [loc[p] EXCEPT !.cur = champion, !.tgt = t])
        PROVE  AliasKnown(p)'
    <3>1. /\ pc'[p] = "r_alias" /\ loc'[p].cur = champion /\ loc'[p].tgt = t
          /\ loc'[p].ver = loc[p].ver /\ loc'[p].ret = loc[p].ret
      BY <1>0, <2>2 DEF Local
    <3>2. t # NoVersion => status[t] = "promoted"
      BY <2>1, RestorableChoice DEF AliasKnown
    <3>3. Undoes(p) => champion = loc[p].ver /\ loc[p].ver \in Versions /\ t # loc[p].ver
      BY <2>1, RestorableOther DEF AliasKnown
    <3> QED
      BY <2>1, <3>1, <3>2, <3>3 DEF AliasKnown, Undoes
  <2>3. ASSUME loc[p].tgt \in loc[p].seen,
               Enter(p, "r_alias", [loc[p] EXCEPT !.cur = champion])
        PROVE  AliasKnown(p)'
    <3>1. /\ pc'[p] = "r_alias" /\ loc'[p].cur = champion /\ loc'[p].tgt = loc[p].tgt
          /\ loc'[p].ver = loc[p].ver /\ loc'[p].ret = loc[p].ret
      BY <1>0, <2>3 DEF Local
    <3>2. status[loc[p].tgt] = "promoted" /\ loc[p].tgt # NoVersion
      BY <2>1, <2>3 DEF AliasKnown, Versions, NoVersion
    <3>3. ~Undoes(p)
      BY <2>1, <3>2 DEF AliasKnown
    <3> QED
      BY <2>1, <3>1, <3>2, <3>3 DEF AliasKnown, Undoes
  <2>4. CASE Return(p)
    BY <1>0, <2>4, IdleAlias
  <2> QED
    BY <1>2, <2>2, <2>3, <2>4 DEF RollbackResolve
<1>3. CASE RollbackAlias(p)
  BY <1>0, <1>3 DEF RollbackAlias, AliasKnown
<1> QED
  BY <1>1, <1>2, <1>3 DEF Rollback

LEMMA OtherAlias ==
  ASSUME IInv, NEW p \in Procs, AliasKnown(p),
         \/ MintTagModel(p) \/ MintTagPending(p) \/ MintVerify(p)
         \/ EvaluateLog(p) \/ EvaluateReceipt(p) \/ ReviewLog(p) \/ Refresh(p)
         \/ AppendEvent(p)
         \/ Raise(p) \/ Crash(p)
  PROVE  AliasKnown(p)'
<1> USE DEF CheckSteps, LiveSteps, Goto, Enter, Return
<1>0. /\ TypeOK /\ LocalOK(p)
      /\ pc \in [Procs -> Labels] /\ loc \in [Procs -> Local] /\ loc[p] \in Local
  BY DEF IInv, TypeOK
<1>1. CASE MintTagModel(p) \/ MintTagPending(p) \/ MintVerify(p) \/ EvaluateLog(p)
             \/ EvaluateReceipt(p) \/ ReviewLog(p) \/ Refresh(p)
             \/ AppendEventWrite(p) \/ Crash(p)
  <2>1. pc'[p] \in {"idle", "m_pending", "m_verify", "e_receipt", "f_criteria", "f_logread",
             "p_reject"}
    BY <1>0, <1>1 DEF MintTagModel, MintTagPending, MintVerify, EvaluateLog,
       EvaluateReceipt, ReviewLog,
       Refresh, RefreshTagEval, RefreshTagCriteria, AppendEventWrite, Crash
  <2> QED
    BY <2>1 DEF AliasKnown
<1>2. CASE AppendEventRead(p)
  <2>1. /\ pc'[p] \in {"p_logwrite", "r_logwrite", "f_logwrite"} /\ champion' = champion
        /\ pc'[p] = "p_logwrite" => pc[p] = "p_logread"
        /\ loc'[p].ver = loc[p].ver /\ loc'[p].tgt = loc[p].tgt
    BY <1>0, <1>2 DEF AppendEventRead, registryVars, Local
  <2> QED
    BY <2>1 DEF AliasKnown
<1>3. CASE Raise(p)
  <2>1. \/ pc'[p] = "idle"
        \/ /\ pc[p] \in FinalizeSteps /\ pc'[p] = "r_scan"
           /\ loc'[p].ver = loc[p].ver /\ loc'[p].tgt = loc[p].tgt
    BY <1>0, <1>3 DEF Raise, Local
  <2>2. champion' = champion
    BY <1>3 DEF Raise, registryVars
  <2>3. pc[p] \in FinalizeSteps =>
          loc[p].ver \in Versions /\ loc[p].tgt = NoVersion /\ champion = loc[p].ver
    BY <1>0 DEF FinalizeSteps, AliasKnown, LocalOK, NeedsVersion
  <2> QED
    BY <2>1, <2>2, <2>3, IdleAlias DEF AliasKnown
<1> QED
  BY <1>1, <1>2, <1>3 DEF AppendEvent

\* A stage moves no command, no alias, no tag of a promotion and no log; it keeps
\* a decided version decided and promotes none.
LEMMA BatchKeeps ==
  ASSUME TypeOK, NEW v \in Versions, Batch(v)
  PROVE  /\ pc' = pc /\ loc' = loc /\ champion' = champion
         /\ evalTag' = evalTag /\ critTag' = critTag /\ log' = log
         /\ \A w \in Versions : status'[w] \in {status[w], "rejected"}
BY DEF TypeOK, Batch, Threshold, PreSealReject, ErrorAnalysis, ThresholdRerun,
       TagThresholdRerun, SetTag, registryVars

\* While commands do not overlap, a stage finds every command idle and leaves it so.
LEMMA StageFindsIdle ==
  ASSUME TypeOK, [StagesAlone]_vars, NEW v \in Versions, Batch(v), NEW q \in Procs
  PROVE  (pc[q] = "idle" /\ pc'[q] = "idle") \/ UNCHANGED vars
BY BatchKeeps DEF StagesAlone, AllIdle

LEMMA SerialStep ==
  /\ IInv /\ SerialInv /\ [Next]_vars
  /\ OneAtATime /\ OneAtATime' /\ [StagesAlone]_vars
  => SerialInv'
<1> SUFFICES ASSUME IInv, SerialInv, [Next]_vars,
                    OneAtATime, OneAtATime', [StagesAlone]_vars, NEW q \in Procs
             PROVE  AliasKnown(q)'
  BY DEF SerialInv
<1>0. TypeOK /\ AliasKnown(q)
  BY DEF IInv, SerialInv
<1>1. ASSUME NEW p \in Procs, Command(p) \/ Step(p) \/ Raise(p) \/ Crash(p)
      PROVE  AliasKnown(q)'
  <2>1. CASE q = p
    BY <1>0, <1>1, <2>1, StartAlias, PromoteAlias, RollbackAliasKnown, OtherAlias DEF Step
  <2>2. CASE q # p
    BY <1>0, <1>1, <2>2, Alone, IdleAlias
  <2> QED
    BY <2>1, <2>2
<1>2. ASSUME NEW v \in Versions, Batch(v) PROVE AliasKnown(q)' \/ UNCHANGED vars
  BY <1>0, <1>2, StageFindsIdle, IdleAlias
<1>3. CASE UNCHANGED vars
  BY <1>0, <1>3 DEF vars, registryVars, evidenceVars, AliasKnown, Undoes
<1> QED
  BY <1>1, <1>2, <1>3 DEF Next

LEMMA SerialInvariance == Spec /\ OneCommand => []SerialInv
<1>1. Init => SerialInv
  BY DEF Init, SerialInv, AliasKnown, CheckSteps, LiveSteps
<1> QED
  BY <1>1, SerialStep, Invariance, PTL DEF Spec, OneCommand

\* Only RollbackAlias re-points the alias of a rollback under way.
LEMMA MovesBackIsAlias ==
  ASSUME TypeOK, [Next]_vars, NEW p \in Procs, MovesBack(p)
  PROVE  RollbackAlias(p)
<1>0. pc[p] = "r_alias" /\ pc'[p] = "r_logread" /\ pc \in [Procs -> Labels]
  BY DEF MovesBack, TypeOK
<1>1. ASSUME NEW q \in Procs, Command(q) \/ Step(q) \/ Raise(q) \/ Crash(q) PROVE q = p
  BY <1>0, <1>1, OneMoves
<1>2. ~Command(p)
  BY <1>0 DEF Command, MintVersion, RollbackStart, EvaluateStart, PromoteStart,
              RefreshStart, ReviewRead
<1>3. ~Raise(p) /\ ~Crash(p)
  BY <1>0 DEF Raise, Crash, Enter, Return, FinalizeSteps
<1>4. Step(p) => RollbackAlias(p)
  BY <1>0 DEF Step, MintTagModel, MintTagPending, MintVerify, EvaluateLog,
     EvaluateReceipt, ReviewLog,
     Promote, PromoteResolveEval, PromoteCriteria, PromoteReview, PromoteEvidence,
     PromoteSmoke, PromoteReverify, PromoteFlip, PromoteConfirm, PromoteTag,
     PromoteReject, Rollback, RollbackScan, RollbackResolve,
     Refresh, RefreshTagEval, RefreshTagCriteria, AppendEvent, AppendEventRead,
     AppendEventWrite
<1>5. ASSUME NEW v \in Versions, Batch(v) PROVE pc' = pc
  BY <1>5 DEF Batch, Threshold, PreSealReject, ErrorAnalysis, ThresholdRerun, TagThresholdRerun
<1>6. CASE UNCHANGED vars
  BY <1>0, <1>6 DEF vars
<1> QED
  BY <1>0, <1>1, <1>2, <1>3, <1>4, <1>5, <1>6 DEF Next

\* Where the alias goes when a rollback that runs alone moves it.
LEMMA AliasGoes ==
  ASSUME IInv, SerialInv, [Next]_vars, NEW p \in Procs, MovesBack(p)
  PROVE  /\ champion' = loc[p].tgt /\ status' = status
         /\ loc[p].tgt # NoVersion => status[loc[p].tgt] = "promoted"
         /\ Undoes(p) => loc[p].tgt # loc[p].ver
<1>1. RollbackAlias(p)
  BY MovesBackIsAlias DEF IInv
<1>2. AliasKnown(p)
  BY DEF SerialInv
<1> QED
  BY <1>1, <1>2 DEF RollbackAlias, AliasKnown

\* With one command at a time, a promotion that re-verified its incumbent flips
\* the alias while that incumbent is still champion, whatever fails.
THEOREM FreshFlip == Spec /\ OneCommand => ComparativeFlipIsFresh
<1>1. SerialInv => \A p \in Procs : Flips(p) => evals[loc[p].ev].champ \in {NoVersion, champion}
  BY DEF SerialInv, AliasKnown, Flips
<1> QED
  BY <1>1, SerialInvariance, PTL DEF ComparativeFlipIsFresh

\* With one command at a time, a rollback leaves the alias unset or on a version
\* tagged promoted, whatever fails before or after it.
THEOREM RollbackSafety == Spec /\ OneCommand => RollbackRestoresPromoted
<1>1. IInv /\ SerialInv /\ [Next]_vars =>
        [\A p \in Procs : MovesBack(p) =>
           champion' = NoVersion \/ status[champion'] = "promoted"]_vars
  BY AliasGoes
<1> QED
  BY <1>1, SerialInvariance, Invariance, PTL DEF RollbackRestoresPromoted, Spec

\* With one command at a time, undoing a failed flip takes the failed candidate
\* out of service, wherever in the flip the failure struck.
THEOREM AbortSafety == Spec /\ OneCommand => AbortUnseatsCandidate
<1>1. IInv /\ SerialInv /\ [Next]_vars =>
        [\A p \in Procs : MovesBack(p) /\ loc[p].ret \in {"abort", "reject"} =>
           champion' # loc[p].ver]_vars
  BY AliasGoes DEF Undoes
<1> QED
  BY <1>1, SerialInvariance, Invariance, PTL DEF AbortUnseatsCandidate, Spec

-----------------------------------------------------------------------------
(* What becomes of a decision, when commands do not overlap or fail. *)

LEMMA IdleDecision ==
  ASSUME NEW p \in Procs, pc'[p] = "idle"
  PROVE  DecisionKnown(p)'
BY DEF DecisionKnown, InTrial, CheckSteps, RollbackSteps

LEMMA StartDecision ==
  ASSUME TypeOK, NEW p \in Procs, Command(p)
  PROVE  DecisionKnown(p)'
<1> USE DEF DecisionKnown, InTrial, RollbackSteps, CheckSteps, Enter, Blank
<1>0. pc \in [Procs -> Labels] /\ loc \in [Procs -> Local] /\ status \in [Versions -> Statuses]
  BY DEF TypeOK
<1>1. CASE MintVersion(p)
  BY <1>0, <1>1 DEF MintVersion, SetTag
<1>2. CASE RollbackStart(p)
  BY <1>0, <1>2 DEF RollbackStart
<1>3. ASSUME NEW v \in Versions, EvaluateStart(p, v) \/ RefreshStart(p, v)
      PROVE  DecisionKnown(p)'
  BY <1>0, <1>3 DEF EvaluateStart, RefreshStart
<1>4. ASSUME NEW v \in Versions, PromoteStart(p, v) PROVE DecisionKnown(p)'
  BY <1>0, <1>4 DEF PromoteStart, AlreadyDecided, registryVars, Undecided, Decided
<1>5. ASSUME NEW e \in EvalRuns, ReviewRead(p, e) PROVE DecisionKnown(p)'
  BY <1>0, <1>5 DEF ReviewRead
<1> QED
  BY <1>1, <1>2, <1>3, <1>4, <1>5 DEF Command

LEMMA PromoteDecision ==
  ASSUME IInv, NEW p \in Procs, DecisionKnown(p), Promote(p)
  PROVE  DecisionKnown(p)'
<1> USE DEF Goto, Enter, Return
<1>0. /\ TypeOK /\ LocalOK(p) /\ status \in [Versions -> Statuses]
      /\ pc \in [Procs -> Labels] /\ loc \in [Procs -> Local] /\ loc[p] \in Local
  BY DEF IInv, TypeOK
<1>1. CASE PromoteResolveEval(p) \/ PromoteCriteria(p) \/ PromoteReview(p)
  <2>1. \/ pc'[p] = "idle"
        \/ /\ pc'[p] \in {"p_criteria", "p_review", "p_evidence", "p_reject"}
           /\ loc'[p].ver = loc[p].ver
    BY <1>0, <1>1 DEF Local, PromoteResolveEval, PromoteCriteria, PromoteReview
  <2>2. /\ status' = status /\ screen' = screen
        /\ pc[p] \in {"p_eval", "p_criteria", "p_review"}
    BY <1>1 DEF PromoteResolveEval, PromoteCriteria, PromoteReview, registryVars, evidenceVars
  <2> QED
    BY <2>1, <2>2, IdleDecision DEF DecisionKnown, InTrial, RollbackSteps, CheckSteps
<1>2. CASE PromoteEvidence(p)
  <2>1. \/ pc'[p] = "idle"
        \/ /\ pc'[p] = "p_smoke" /\ loc' = loc /\ status' = status /\ screen' = screen
           /\ screen[loc[p].ver] = "pass"
    BY <1>0, <1>2 DEF PromoteEvidence, ScreenHolds
  <2>2. status[loc[p].ver] \in Undecided
    BY <1>2 DEF PromoteEvidence, DecisionKnown, CheckSteps
  <2> QED
    BY <2>1, <2>2, IdleDecision DEF DecisionKnown, InTrial, RollbackSteps
<1>3. CASE PromoteSmoke(p) \/ PromoteReverify(p)
  <2>1. \/ pc'[p] = "idle"
        \/ /\ pc'[p] \in {"p_reverify", "p_reject", "p_flip"} /\ loc' = loc
           /\ status' = status /\ screen' = screen
    BY <1>0, <1>3 DEF PromoteSmoke, PromoteReverify, registryVars, evidenceVars
  <2>2. status[loc[p].ver] \in Undecided /\ screen[loc[p].ver] = "pass"
    BY <1>3 DEF PromoteSmoke, PromoteReverify, DecisionKnown, CheckSteps
  <2> QED
    BY <2>1, <2>2, IdleDecision DEF DecisionKnown, InTrial, RollbackSteps
<1>4. CASE PromoteFlip(p)
  BY <1>0, <1>4 DEF PromoteFlip, DecisionKnown, InTrial, RollbackSteps, CheckSteps
<1>5. CASE PromoteConfirm(p)
  <2>1. /\ \/ pc'[p] = "p_tag" /\ loc' = loc
           \/ pc'[p] = "r_scan" /\ loc'[p].ver = loc[p].ver /\ loc'[p].ret = "reject"
        /\ pc[p] = "p_confirm" /\ status' = status /\ champion' = champion
    BY <1>0, <1>5 DEF PromoteConfirm, registryVars, Local
  <2> QED
    BY <2>1 DEF DecisionKnown, InTrial, RollbackSteps, CheckSteps
<1>6. CASE PromoteTag(p)
  <2>1. loc[p].ver \in Versions
    BY <1>0, <1>6 DEF PromoteTag, LocalOK, NeedsVersion, LiveSteps
  <2> QED
    BY <1>0, <1>6, <2>1 DEF PromoteTag, SetTag, DecisionKnown, InTrial, RollbackSteps,
       CheckSteps
<1>7. CASE PromoteReject(p)
  BY <1>0, <1>7, IdleDecision DEF PromoteReject
<1> QED
  BY <1>1, <1>2, <1>3, <1>4, <1>5, <1>6, <1>7 DEF Promote

LEMMA OtherDecision ==
  ASSUME IInv, NEW p \in Procs, DecisionKnown(p),
         \/ MintTagModel(p) \/ MintTagPending(p) \/ MintVerify(p)
         \/ EvaluateLog(p) \/ EvaluateReceipt(p) \/ ReviewLog(p) \/ Rollback(p)
         \/ Refresh(p) \/ AppendEvent(p)
  PROVE  DecisionKnown(p)'
<1> USE DEF CheckSteps, Goto, Enter, Return
<1>0. /\ TypeOK /\ LocalOK(p) /\ status \in [Versions -> Statuses]
      /\ pc \in [Procs -> Labels] /\ loc \in [Procs -> Local] /\ loc[p] \in Local
  BY DEF IInv, TypeOK
<1>1. CASE MintTagModel(p)
  BY <1>0, <1>1 DEF MintTagModel, DecisionKnown, InTrial, RollbackSteps
<1>2. CASE MintTagPending(p) \/ MintVerify(p) \/ EvaluateLog(p)
                             \/ EvaluateReceipt(p) \/ ReviewLog(p) \/ Refresh(p)
  <2>1. pc'[p] \in {"idle", "m_verify", "e_receipt", "f_criteria", "f_logread"}
    BY <1>0, <1>2 DEF MintTagPending, MintVerify, EvaluateLog, EvaluateReceipt, ReviewLog,
       Refresh, RefreshTagEval, RefreshTagCriteria
  <2> QED
    BY <2>1 DEF DecisionKnown, InTrial, RollbackSteps
<1>3. CASE RollbackScan(p) \/ RollbackResolve(p)
  <2>1. /\ pc[p] \in {"r_scan", "r_resolve"} /\ status' = status /\ champion' = champion
        /\ \/ pc'[p] = "idle"
           \/ /\ pc'[p] \in {"r_resolve", "r_alias"}
              /\ loc'[p].ver = loc[p].ver /\ loc'[p].ret = loc[p].ret
    BY <1>0, <1>3 DEF RollbackScan, RollbackResolve, registryVars, Local
  <2> QED
    BY <2>1, IdleDecision DEF DecisionKnown, InTrial, RollbackSteps
<1>4. CASE RollbackAlias(p)
  BY <1>0, <1>4 DEF RollbackAlias, DecisionKnown, InTrial, RollbackSteps, Undecided
<1>5. CASE AppendEventRead(p)
  <2>1. /\ status' = status /\ loc'[p].ver = loc[p].ver /\ loc'[p].ret = loc[p].ret
        /\ \/ pc[p] = "p_logread" /\ pc'[p] = "p_logwrite"
           \/ pc[p] = "r_logread" /\ pc'[p] = "r_logwrite"
           \/ pc[p] = "f_logread" /\ pc'[p] = "f_logwrite"
    BY <1>0, <1>5 DEF AppendEventRead, registryVars, Local
  <2> QED
    BY <2>1 DEF DecisionKnown, InTrial, RollbackSteps
<1>6. CASE AppendEventWrite(p)
  <2>1. \/ pc'[p] = "idle"
        \/ /\ pc[p] = "r_logwrite" /\ loc[p].ret = "reject"
           /\ pc'[p] = "p_reject" /\ loc' = loc /\ status' = status
    BY <1>0, <1>6 DEF AppendEventWrite
  <2> QED
    BY <2>1, IdleDecision DEF DecisionKnown, InTrial, RollbackSteps
<1> QED
  BY <1>1, <1>2, <1>3, <1>4, <1>5, <1>6 DEF Rollback, AppendEvent

\* A command that moves is then in a trial, or has left the champion decided or
\* unset, or was in no trial and has changed neither the champion nor a decision.
LEMMA CommandSettles ==
  ASSUME IInv, NEW p \in Procs, AliasKnown(p), DecisionKnown(p), Command(p) \/ Step(p)
  PROVE  \/ InTrial(p)'
         \/ champion' = NoVersion \/ status'[champion'] \in Decided
         \/ /\ ~InTrial(p) /\ champion' = champion
            /\ \A w \in Versions : status[w] \in Decided => status'[w] \in Decided
<1> USE DEF Goto, Enter, Return
<1> DEFINE Kept == /\ ~InTrial(p) /\ champion' = champion
                   /\ \A w \in Versions : status[w] \in Decided => status'[w] \in Decided
<1>0. /\ TypeOK /\ LocalOK(p) /\ status \in [Versions -> Statuses]
      /\ pc \in [Procs -> Labels] /\ loc \in [Procs -> Local] /\ loc[p] \in Local
  BY DEF IInv, TypeOK
<1>1. CASE Command(p)
  <2>1. ASSUME MintVersion(p) PROVE Kept
    BY <1>0, <2>1 DEF MintVersion, SetTag, InTrial, Decided
  <2>2. ASSUME RollbackStart(p) PROVE Kept
    BY <2>2 DEF RollbackStart, registryVars, InTrial
  <2>3. ASSUME NEW v \in Versions, EvaluateStart(p, v) \/ PromoteStart(p, v)
                                                       \/ RefreshStart(p, v)
        PROVE  Kept
    BY <2>3 DEF EvaluateStart, PromoteStart, RefreshStart, registryVars, InTrial
  <2>4. ASSUME NEW e \in EvalRuns, ReviewRead(p, e) PROVE Kept
    BY <2>4 DEF ReviewRead, registryVars, InTrial
  <2> QED
    BY <1>1, <2>1, <2>2, <2>3, <2>4 DEF Command
<1>2. CASE PromoteResolveEval(p) \/ PromoteCriteria(p) \/ PromoteReview(p)
             \/ PromoteEvidence(p) \/ PromoteSmoke(p) \/ PromoteReverify(p)
  BY <1>2 DEF PromoteResolveEval, PromoteCriteria, PromoteReview,
     PromoteEvidence, PromoteSmoke, PromoteReverify, InTrial, registryVars
<1>3. CASE PromoteFlip(p) \/ PromoteConfirm(p)
  <2>1. InTrial(p)'
    BY <1>0, <1>3 DEF PromoteFlip, PromoteConfirm, InTrial, Local
  <2> QED
    BY <2>1
<1>4. CASE PromoteTag(p)
  <2>1. loc[p].ver \in Versions /\ champion = loc[p].ver
    BY <1>0, <1>4 DEF PromoteTag, LocalOK, NeedsVersion, LiveSteps, DecisionKnown, InTrial
  <2> QED
    BY <1>0, <1>4, <2>1 DEF PromoteTag, SetTag, Decided
<1>5. CASE PromoteReject(p)
  BY <1>0, <1>5 DEF PromoteReject, SetTag, InTrial, Decided
<1>6. CASE MintTagModel(p) \/ MintTagPending(p)
  BY <1>0, <1>6 DEF MintTagModel, MintTagPending, SetTag, DecisionKnown, InTrial, Decided
<1>7. CASE RollbackScan(p)
  BY <1>0, <1>7 DEF RollbackScan, InTrial, registryVars, Local
<1>8. CASE RollbackResolve(p)
  <2>1. pc[p] = "r_resolve" /\ champion' = champion /\ status' = status
    BY <1>8 DEF RollbackResolve, registryVars
  <2>2. CASE loc[p].ret = "reject"
    <3>1. loc[p].tgt = NoVersion
      BY <2>1, <2>2 DEF AliasKnown, Undoes
    <3>2. pc'[p] = "r_alias" /\ loc'[p].ret = "reject"
      BY <1>0, <1>8, <2>2, <3>1 DEF RollbackResolve, Local, Versions, NoVersion
    <3> QED
      BY <3>2 DEF InTrial
  <2>3. CASE loc[p].ret # "reject"
    BY <2>1, <2>3 DEF InTrial
  <2> QED
    BY <2>2, <2>3
<1>9. CASE RollbackAlias(p)
  BY <1>0, <1>9 DEF RollbackAlias, AliasKnown, Decided
<1>10. CASE MintVerify(p) \/ EvaluateLog(p) \/ EvaluateReceipt(p) \/ ReviewLog(p)
                          \/ Refresh(p) \/ AppendEvent(p)
  BY <1>10 DEF MintVerify, EvaluateLog, EvaluateReceipt, ReviewLog, Refresh, RefreshTagEval,
     RefreshTagCriteria, AppendEvent, AppendEventRead, AppendEventWrite, InTrial, registryVars
<1> QED
  BY <1>1, <1>2, <1>3, <1>4, <1>5, <1>6, <1>7, <1>8, <1>9, <1>10 DEF Step, Promote, Rollback

LEMMA NoFailureMoves ==
  ASSUME TypeOK, NoFailures, NoFailures', NEW p \in Procs
  PROVE  ~Raise(p) /\ ~Crash(p)
BY DEF NoFailures, Raise, Crash

LEMMA PolicyInvStep ==
  /\ IInv /\ SerialInv /\ PolicyInv /\ [Next]_vars
  /\ OneAtATime /\ OneAtATime' /\ [StagesAlone]_vars /\ NoFailures /\ NoFailures'
  => PolicyInv'
<1> SUFFICES ASSUME IInv, SerialInv, PolicyInv, [Next]_vars,
                    OneAtATime, OneAtATime', [StagesAlone]_vars,
                    NoFailures, NoFailures'
             PROVE  PolicyInv'
  OBVIOUS
<1>0. /\ TypeOK /\ Settled /\ champion \in AnyVersion
      /\ \A q \in Procs : AliasKnown(q) /\ DecisionKnown(q)
  BY DEF IInv, TypeOK, SerialInv, PolicyInv
<1>1. ASSUME NEW p \in Procs, Command(p) \/ Step(p) PROVE PolicyInv'
  <2>1. ASSUME NEW q \in Procs PROVE DecisionKnown(q)'
    <3>1. CASE q = p
      BY <1>0, <1>1, <3>1, StartDecision, PromoteDecision, OtherDecision DEF Step
    <3>2. CASE q # p
      BY <1>0, <1>1, <3>2, Alone, IdleDecision
    <3> QED
      BY <3>1, <3>2
  <2>2. Settled'
    <3>1. SUFFICES ASSUME ~InTrial(p)'
                   PROVE  champion' = NoVersion \/ status'[champion'] \in Decided
      BY DEF Settled
    <3>2. \/ champion' = NoVersion \/ status'[champion'] \in Decided
          \/ /\ ~InTrial(p) /\ champion' = champion
             /\ \A w \in Versions : status[w] \in Decided => status'[w] \in Decided
      BY <1>0, <1>1, <3>1, CommandSettles
    <3>3. ASSUME ~InTrial(p) PROVE champion = NoVersion \/ status[champion] \in Decided
      <4>1. \A q \in Procs : q # p => ~InTrial(q)
        BY <1>0, <1>1, Alone DEF InTrial
      <4> QED
        BY <1>0, <3>3, <4>1 DEF Settled
    <3> QED
      BY <1>0, <3>2, <3>3 DEF AnyVersion
  <2> QED
    BY <2>1, <2>2 DEF PolicyInv
<1>2. ASSUME NEW v \in Versions, Batch(v), ~UNCHANGED vars PROVE PolicyInv'
  <2>1. \A q \in Procs : pc[q] = "idle" /\ pc'[q] = "idle"
    BY <1>0, <1>2, StageFindsIdle
  <2>2. champion' = champion /\ \A w \in Versions : status[w] \in Decided => status'[w] \in Decided
    BY <1>0, <1>2, BatchKeeps DEF Decided
  <2>3. Settled'
    BY <1>0, <2>1, <2>2 DEF Settled, InTrial, AnyVersion
  <2> QED
    BY <2>1, <2>3, IdleDecision DEF PolicyInv
<1>3. CASE UNCHANGED vars
  BY <1>3 DEF vars, registryVars, evidenceVars, PolicyInv, DecisionKnown, InTrial, Settled
<1> QED
  BY <1>0, <1>1, <1>2, <1>3, NoFailureMoves DEF Next

LEMMA PolicyInvariance == Spec /\ OneCommand /\ []NoFailures => []PolicyInv
<1>1. Init => PolicyInv
  BY DEF Init, PolicyInv, DecisionKnown, InTrial, CheckSteps, RollbackSteps, Settled
<1> QED
  BY <1>1, PolicyInvStep, SerialInvariance, Invariance, PTL DEF Spec, OneCommand

-----------------------------------------------------------------------------
(* The registry implements the promotion policy, step by step. *)

\* A version's decision, as PromotionPolicy sees it.
Decision == [v \in Versions |-> IF status[v] \in Decided THEN status[v] ELSE "open"]

\* A step that leaves the champion and every decision alone only reassesses
\* evidence, whatever it logs.
LEMMA Reassesses ==
  ASSUME champion' = champion, Decision' = Decision
  PROVE  Policy!PolicyNext
<1>1. {v \in Versions : Cleared(v)}' \in SUBSET Versions
  OBVIOUS
<1>2. Policy!Reassess
  BY <1>1 DEF Policy!Reassess, Decision, Decided
<1> QED
  BY <1>2 DEF Policy!PolicyNext

\* A step that logs no evidence leaves what is cleared.
LEMMA ClearedKept ==
  ASSUME evals' = evals, approvals' = approvals, screen' = screen
  PROVE  {v \in Versions : Cleared(v)}' = {v \in Versions : Cleared(v)}
BY DEF Cleared, Endorsed

LEMMA PromotePolicy ==
  ASSUME IInv, NEW p \in Procs, AliasKnown(p), DecisionKnown(p),
         ~InTrial(p) => champion = NoVersion \/ status[champion] \in Decided, Promote(p)
  PROVE  Policy!PolicyNext
<1>0. /\ TypeOK /\ LocalOK(p) /\ CommandBacked(p) /\ status \in [Versions -> Statuses]
      /\ champion \in AnyVersion
  BY DEF IInv, TypeOK
<1>1. PromoteFlip(p) \/ PromoteTag(p) \/ PromoteReject(p) =>
        {v \in Versions : Cleared(v)}' = {v \in Versions : Cleared(v)}
  BY ClearedKept DEF PromoteFlip, PromoteTag, PromoteReject, evidenceVars
<1>2. CASE PromoteResolveEval(p) \/ PromoteCriteria(p) \/ PromoteReview(p)
             \/ PromoteEvidence(p) \/ PromoteSmoke(p) \/ PromoteReverify(p)
             \/ PromoteConfirm(p)
  <2>1. champion' = champion /\ status' = status
    BY <1>2 DEF PromoteResolveEval, PromoteCriteria, PromoteReview,
       PromoteEvidence, PromoteSmoke, PromoteReverify, PromoteConfirm, registryVars
  <2> QED
    BY <2>1, Reassesses DEF Decision
<1>3. CASE PromoteFlip(p)
  <2>1. /\ loc[p].ver \in Versions /\ WasCleared(loc[p].ver) /\ screen[loc[p].ver] = "pass"
        /\ status[loc[p].ver] \in Undecided /\ ~InTrial(p)
        /\ champion' = loc[p].ver /\ status' = status
    BY <1>0, <1>3 DEF PromoteFlip, LocalOK, NeedsVersion, CheckSteps, CommandBacked,
                      DecisionKnown, InTrial
  <2>2. ~Policy!OnTrial
    BY <1>0, <2>1 DEF Policy!OnTrial, AnyVersion, Decided
  <2>3. Policy!Try(loc[p].ver)
    BY <1>1, <1>3, <2>1, <2>2 DEF Policy!Try, Undecided, Decided, WasCleared, Cleared
  <2> QED
    BY <2>1, <2>3 DEF Policy!PolicyNext
<1>4. CASE PromoteTag(p)
  <2>1. /\ loc[p].ver \in Versions /\ champion = loc[p].ver
        /\ status[champion] \in Undecided
    BY <1>0, <1>4 DEF PromoteTag, LocalOK, NeedsVersion, LiveSteps, DecisionKnown, InTrial
  <2>2. status' = [status EXCEPT ![champion] = "promoted"] /\ champion' = champion
    BY <1>4, <2>1 DEF PromoteTag, SetTag
  <2>3. Decision' = [Decision EXCEPT ![champion] = "promoted"]
    BY <1>0, <2>1, <2>2 DEF Decision, Decided
  <2>4. Policy!OnTrial
    BY <2>1 DEF Policy!OnTrial, Undecided, Decided, Versions, NoVersion
  <2>5. Policy!Confirm
    BY <1>1, <1>4, <2>2, <2>3, <2>4 DEF Policy!Confirm, Decision, Decided
  <2> QED
    BY <2>5 DEF Policy!PolicyNext
<1>5. CASE PromoteReject(p)
  <2>1. /\ loc[p].ver \in Versions /\ status[loc[p].ver] \in Undecided /\ ~InTrial(p)
        /\ status' = [status EXCEPT ![loc[p].ver] = "rejected"] /\ champion' = champion
    BY <1>0, <1>5 DEF PromoteReject, SetTag, LocalOK, NeedsVersion, DecisionKnown, InTrial
  <2>2. Decision' = [Decision EXCEPT ![loc[p].ver] = "rejected"]
    BY <1>0, <2>1 DEF Decision, Decided
  <2>3. PICK u \in Versions : u = loc[p].ver
    BY <2>1
  <2>4. u # champion /\ Decision[u] = "open"
    BY <2>1, <2>3 DEF Decision, Undecided, Versions, NoVersion
  <2>5. Policy!Reject(u)
    BY <1>1, <1>5, <2>1, <2>2, <2>3, <2>4 DEF Policy!Reject, Decision, Decided
  <2> QED
    BY <2>5 DEF Policy!PolicyNext
<1> QED
  BY <1>2, <1>3, <1>4, <1>5 DEF Promote

LEMMA OtherPolicy ==
  ASSUME IInv, NEW p \in Procs, AliasKnown(p), DecisionKnown(p),
         ~InTrial(p) => champion = NoVersion \/ status[champion] \in Decided,
         \/ Command(p) \/ MintTagModel(p) \/ MintTagPending(p) \/ MintVerify(p)
         \/ EvaluateLog(p) \/ EvaluateReceipt(p) \/ ReviewLog(p)
         \/ Rollback(p) \/ Refresh(p) \/ AppendEvent(p)
  PROVE  Policy!PolicyNext
<1>0. /\ TypeOK /\ LocalOK(p) /\ status \in [Versions -> Statuses]
      /\ champion \in AnyVersion /\ loc[p] \in Local
  BY DEF IInv, TypeOK
<1>1. RollbackAlias(p) =>
        {v \in Versions : Cleared(v)}' = {v \in Versions : Cleared(v)}
  BY ClearedKept DEF RollbackAlias, evidenceVars
<1>2. ASSUME champion' = champion,
             \/ status' = status
             \/ \E v \in Versions, s \in {"minted", "pending"} :
                  status[v] \in Undecided /\ status' = [status EXCEPT ![v] = s]
      PROVE  Policy!PolicyNext
  BY <1>0, <1>2, Reassesses DEF Decision, Decided, Undecided
<1>3. CASE Command(p)
  <2>1. CASE MintVersion(p)
    BY <1>2, <2>1 DEF MintVersion, SetTag, Undecided, Decided, Statuses
  <2>2. CASE ~MintVersion(p)
    BY <1>2, <1>3, <2>2 DEF Command, RollbackStart, EvaluateStart, PromoteStart,
       RefreshStart, ReviewRead, registryVars
  <2> QED
    BY <2>1, <2>2
<1>4. CASE MintTagPending(p)
  <2>1. /\ loc[p].ver \in Versions /\ status[loc[p].ver] = "minted" /\ champion' = champion
        /\ status' = [status EXCEPT ![loc[p].ver] = "pending"]
    BY <1>0, <1>4 DEF MintTagPending, SetTag, LocalOK, NeedsVersion, MintSteps, DecisionKnown
  <2> QED
    BY <1>2, <2>1 DEF Undecided, Decided, Statuses
<1>5. CASE \/ MintTagModel(p) \/ MintVerify(p) \/ EvaluateLog(p) \/ EvaluateReceipt(p)
           \/ ReviewLog(p) \/ RollbackScan(p) \/ RollbackResolve(p) \/ Refresh(p)
           \/ AppendEvent(p)
  <2>1. champion' = champion /\ status' = status
    BY <1>5 DEF MintTagModel, MintVerify, EvaluateLog, EvaluateReceipt, ReviewLog,
       RollbackScan,
       RollbackResolve, Refresh, RefreshTagEval, RefreshTagCriteria, AppendEvent,
       AppendEventRead, AppendEventWrite, registryVars
  <2> QED
    BY <1>2, <2>1
<1>6. CASE RollbackAlias(p)
  <2>1. /\ champion' = loc[p].tgt /\ status' = status
        /\ loc[p].tgt # NoVersion => status[loc[p].tgt] = "promoted"
        /\ loc[p].tgt \in AnyVersion
    BY <1>0, <1>6 DEF RollbackAlias, AliasKnown, Local
  <2>2. champion' \in Policy!Promoted \cup {NoVersion}
    BY <2>1 DEF Policy!Promoted, AnyVersion, Decided
  <2>3. CASE InTrial(p)
    <3>1. champion = loc[p].ver /\ status[champion] \in Undecided /\ champion \in Versions
      BY <1>0, <1>6, <2>3 DEF RollbackAlias, DecisionKnown, InTrial, LocalOK, RollbackSteps
    <3>2. Policy!OnTrial
      BY <3>1 DEF Policy!OnTrial, Undecided, Decided, Versions, NoVersion
    <3>3. Policy!Withdraw
      BY <1>1, <1>6, <2>1, <2>2, <3>2 DEF Policy!Withdraw
    <3> QED
      BY <3>3 DEF Policy!PolicyNext
  <2>4. CASE ~InTrial(p)
    <3>1. ~Policy!OnTrial
      BY <1>0, <2>4 DEF Policy!OnTrial, AnyVersion, Decided
    <3>2. Policy!RollBack
      BY <1>1, <1>6, <2>1, <2>2, <3>1 DEF Policy!RollBack
    <3> QED
      BY <3>2 DEF Policy!PolicyNext
  <2> QED
    BY <2>3, <2>4
<1> QED
  BY <1>3, <1>4, <1>5, <1>6 DEF Rollback

\* The tagger of a failed pre-seal screen rejects a version that is undecided and
\* not served, or revokes a promotion, that of the champion perhaps.
LEMMA BatchPolicy ==
  ASSUME IInv, NEW v \in Versions, Batch(v),
         champion = NoVersion \/ status[champion] \in Decided
  PROVE  Policy!PolicyNext
<1>0. /\ TypeOK /\ status \in [Versions -> Statuses] /\ champion \in AnyVersion
  BY DEF IInv, TypeOK
<1>1. CASE PreSealReject(v)
  <2>1. /\ champion' = champion /\ status' = [status EXCEPT ![v] = "rejected"]
        /\ {w \in Versions : Cleared(w)}' = {w \in Versions : Cleared(w)}
    BY <1>1, ClearedKept DEF PreSealReject, SetTag, evidenceVars
  <2>2. Decision' = [Decision EXCEPT ![v] = "rejected"]
    BY <1>0, <2>1 DEF Decision, Decided
  <2>3. ~Policy!OnTrial
    BY <1>0 DEF Policy!OnTrial, AnyVersion, Decided
  <2>4. CASE status[v] \in Undecided
    <3>1. v # champion /\ Decision[v] = "open"
      BY <2>4 DEF Decision, Undecided, Versions, NoVersion
    <3>2. Policy!Reject(v)
      BY <2>1, <2>2, <3>1 DEF Policy!Reject, Decision, Decided
    <3> QED
      BY <3>2 DEF Policy!PolicyNext
  <2>5. CASE status[v] = "promoted"
    <3>1. Policy!Revoke(v)
      BY <2>1, <2>2, <2>3, <2>5 DEF Policy!Revoke, Decision, Decided
    <3> QED
      BY <3>1 DEF Policy!PolicyNext
  <2>6. CASE status[v] = "rejected"
    <3>1. Decision' = Decision
      BY <2>2, <2>6 DEF Decision, Decided
    <3> QED
      BY <2>1, <3>1, Reassesses
  <2> QED
    BY <1>0, <2>4, <2>5, <2>6 DEF Undecided, Decided
<1>2. CASE Threshold(v) \/ ErrorAnalysis(v) \/ ThresholdRerun(v) \/ TagThresholdRerun(v)
  <2>1. champion' = champion /\ status' = status
    BY <1>2 DEF Threshold, ErrorAnalysis, ThresholdRerun, TagThresholdRerun, registryVars
  <2> QED
    BY <2>1, Reassesses DEF Decision
<1> QED
  BY <1>1, <1>2 DEF Batch

LEMMA PolicyStep ==
  /\ IInv /\ SerialInv /\ PolicyInv /\ [Next]_vars
  /\ OneAtATime /\ OneAtATime' /\ [StagesAlone]_vars /\ NoFailures /\ NoFailures'
  => [Policy!PolicyNext]_(Policy!policyVars)
<1> SUFFICES ASSUME IInv, SerialInv, PolicyInv, [Next]_vars,
                    OneAtATime, OneAtATime', [StagesAlone]_vars,
                    NoFailures, NoFailures', ~UNCHANGED vars
             PROVE  Policy!PolicyNext
  <2>1. UNCHANGED vars => UNCHANGED Policy!policyVars
    BY DEF vars, registryVars, evidenceVars, Policy!policyVars, Cleared, Endorsed
  <2> QED
    BY <2>1
<1>0. TypeOK /\ Settled /\ \A q \in Procs : AliasKnown(q) /\ DecisionKnown(q)
  BY DEF IInv, SerialInv, PolicyInv
<1>1. ASSUME NEW p \in Procs, Command(p) \/ Step(p)
      PROVE  Policy!PolicyNext
  <2>1. ~InTrial(p) => champion = NoVersion \/ status[champion] \in Decided
    <3>1. \A q \in Procs : q # p => ~InTrial(q)
      BY <1>0, <1>1, Alone DEF InTrial
    <3> QED
      BY <1>0, <3>1 DEF Settled
  <2> QED
    BY <1>0, <1>1, <2>1, PromotePolicy, OtherPolicy DEF Step
<1>2. ASSUME NEW v \in Versions, Batch(v)
      PROVE  Policy!PolicyNext
  <2>1. \A q \in Procs : ~InTrial(q)
    BY <1>0, <1>2, StageFindsIdle DEF InTrial
  <2> QED
    BY <1>0, <1>2, <2>1, BatchPolicy DEF Settled
<1> QED
  BY <1>0, <1>1, <1>2, NoFailureMoves DEF Next

\* With one command at a time and none cut short, every step of the registry is a
\* step the promotion policy allows, through any re-run of a screen: a trial is of
\* an undecided version whose evidence clears it at that moment, and one at a time;
\* only a trial is confirmed or withdrawn; a withdrawal or a rollback goes to a
\* promoted version or to none; nothing but the pre-seal tagger revokes a
\* promotion, never during a trial, and nothing revisits a rejection.
THEOREM PolicySafety ==
  Spec /\ OneCommand /\ []NoFailures
    => Policy!PolicyInit /\ [][Policy!PolicyNext]_(Policy!policyVars)
<1>1. Init => Policy!PolicyInit
  BY DEF Init, Policy!PolicyInit, Cleared, Endorsed
<1> QED
  BY <1>1, PolicyStep, PolicyInvariance, SerialInvariance, Invariance,
     PTL DEF Spec, OneCommand

\* The policy wants every trial to end.  A trial is on only while the command that
\* began it is between its flip and its decision, and by CommandsAreFinite that
\* command is at most ten calls from its return.
THEOREM TrialsAreUnderWay ==
  Spec /\ OneCommand /\ []NoFailures => [](Policy!OnTrial => \E p \in Procs : InTrial(p))
<1>1. IInv /\ PolicyInv => (Policy!OnTrial => \E p \in Procs : InTrial(p))
  <2> SUFFICES ASSUME IInv, PolicyInv, Policy!OnTrial, \A p \in Procs : ~InTrial(p)
               PROVE  FALSE
    OBVIOUS
  <2>1. champion # NoVersion /\ champion \in Versions
    BY DEF IInv, TypeOK, AnyVersion, Policy!OnTrial
  <2>2. status[champion] \in Decided
    BY <2>1 DEF PolicyInv, Settled
  <2> QED
    BY <2>1, <2>2 DEF Policy!OnTrial, Decided
<1> QED
  BY <1>1, PolicyInvariance, Invariance, PTL

-----------------------------------------------------------------------------
(* The evidence tags of a promoted version agree, when commands do not     *)
(* overlap or fail.                                                        *)

LEMMA IdleTags ==
  ASSUME NEW p \in Procs, pc'[p] = "idle"
  PROVE  TagsKnown(p)' /\ LogKnown(p)'
BY DEF TagsKnown, LogKnown

LEMMA StartTags ==
  ASSUME TypeOK, NEW p \in Procs, Command(p)
  PROVE  TagsKnown(p)' /\ LogKnown(p)'
<1> USE DEF TagsKnown, LogKnown, Enter, Blank
<1>0. pc \in [Procs -> Labels] /\ loc \in [Procs -> Local]
  BY DEF TypeOK
<1>1. CASE MintVersion(p) \/ RollbackStart(p)
  BY <1>0, <1>1 DEF MintVersion, RollbackStart
<1>2. ASSUME NEW v \in Versions, EvaluateStart(p, v) \/ RefreshStart(p, v)
      PROVE  TagsKnown(p)' /\ LogKnown(p)'
  BY <1>0, <1>2 DEF EvaluateStart, RefreshStart
<1>3. ASSUME NEW v \in Versions, PromoteStart(p, v) PROVE TagsKnown(p)' /\ LogKnown(p)'
  <2>1. /\ evalTag' = evalTag /\ pc'[p] = "p_eval"
        /\ loc'[p] = [Blank EXCEPT !.ver = v, !.ev = evalTag[v], !.ea = eaTag[v]]
    BY <1>0, <1>3 DEF PromoteStart, registryVars
  <2>2. loc'[p].ver = v /\ loc'[p].ev = evalTag[v]
    BY <2>1
  <2> QED
    BY <2>1, <2>2
<1>4. ASSUME NEW e \in EvalRuns, ReviewRead(p, e) PROVE TagsKnown(p)' /\ LogKnown(p)'
  BY <1>0, <1>4 DEF ReviewRead
<1> QED
  BY <1>1, <1>2, <1>3, <1>4 DEF Command

LEMMA PromoteTags ==
  ASSUME IInv, NEW p \in Procs, TagsKnown(p), Promote(p)
  PROVE  TagsKnown(p)' /\ LogKnown(p)'
<1> USE DEF Goto, Enter, Return
<1>0. /\ TypeOK /\ LocalOK(p) /\ loc[p] \in Local
      /\ pc \in [Procs -> Labels] /\ loc \in [Procs -> Local]
      /\ evalTag \in [Versions -> AnyEval] /\ critTag \in [Versions -> AnyEval]
  BY DEF IInv, TypeOK
<1>1. CASE PromoteResolveEval(p)
  <2>1. loc[p].ver \in Versions /\ evalTag[loc[p].ver] = loc[p].ev
    BY <1>0, <1>1 DEF PromoteResolveEval, LocalOK, NeedsVersion, CheckSteps, TagsKnown
  <2>2. CASE pc'[p] = "p_criteria" /\ loc' = loc /\ evalTag' = evalTag
    BY <2>1, <2>2 DEF TagsKnown, LogKnown
  <2>3. CASE /\ pc'[p] = "p_criteria" /\ loc'[p] = [loc[p] EXCEPT !.ev = evalReceipt]
             /\ evalTag' = [evalTag EXCEPT ![loc[p].ver] = evalReceipt]
    <3>1. loc'[p].ver = loc[p].ver /\ loc'[p].ev = evalReceipt
      BY <1>0, <2>3 DEF Local
    <3> QED
      BY <1>0, <2>1, <2>3, <3>1 DEF TagsKnown, LogKnown
  <2> QED
    BY <1>0, <1>1, <2>2, <2>3, IdleTags DEF PromoteResolveEval, SetTag
<1>2. CASE PromoteCriteria(p)
  <2>1. loc[p].ver \in Versions /\ evalTag[loc[p].ver] = loc[p].ev
    BY <1>0, <1>2 DEF PromoteCriteria, LocalOK, NeedsVersion, CheckSteps, TagsKnown
  <2>2. \/ pc'[p] = "idle"
        \/ pc'[p] = "p_reject"
        \/ /\ pc'[p] = "p_review" /\ loc' = loc /\ evalTag' = evalTag
           /\ critTag'[loc[p].ver] = loc[p].ev
    BY <1>0, <1>2, <2>1 DEF PromoteCriteria, SetTag
  <2> QED
    BY <2>1, <2>2, IdleTags DEF TagsKnown, LogKnown
<1>3. CASE PromoteReview(p) \/ PromoteEvidence(p) \/ PromoteSmoke(p) \/ PromoteReverify(p)
             \/ PromoteFlip(p) \/ PromoteConfirm(p)
  <2>1. /\ evalTag' = evalTag /\ critTag' = critTag
        /\ \/ pc'[p] \in {"idle", "p_reject", "r_scan"}
           \/ /\ loc' = loc
              /\ pc'[p] \in {"p_evidence", "p_smoke", "p_reverify", "p_flip", "p_confirm", "p_tag"}
        /\ pc[p] \in {"p_review", "p_evidence", "p_smoke", "p_reverify", "p_flip", "p_confirm"}
    BY <1>0, <1>3 DEF PromoteReview, PromoteEvidence, PromoteSmoke, PromoteReverify,
       PromoteFlip, PromoteConfirm, registryVars
  <2> QED
    BY <2>1 DEF TagsKnown, LogKnown
<1>4. CASE PromoteTag(p) \/ PromoteReject(p)
  <2>1. pc'[p] \in {"idle", "p_logread"}
    BY <1>0, <1>4 DEF PromoteTag, PromoteReject
  <2> QED
    BY <2>1 DEF TagsKnown, LogKnown
<1> QED
  BY <1>1, <1>2, <1>3, <1>4 DEF Promote

LEMMA OtherTags ==
  ASSUME IInv, NEW p \in Procs, AliasKnown(p), LogKnown(p),
         \/ MintTagModel(p) \/ MintTagPending(p) \/ MintVerify(p)
         \/ EvaluateLog(p) \/ EvaluateReceipt(p) \/ ReviewLog(p) \/ Rollback(p)
         \/ Refresh(p) \/ AppendEvent(p)
  PROVE  TagsKnown(p)' /\ LogKnown(p)'
<1> USE DEF Goto, Enter, Return
<1>0. /\ TypeOK /\ LocalOK(p) /\ loc[p] \in Local
      /\ pc \in [Procs -> Labels] /\ loc \in [Procs -> Local]
      /\ evalTag \in [Versions -> AnyEval]
  BY DEF IInv, TypeOK
<1>1. CASE MintTagModel(p) \/ MintTagPending(p) \/ MintVerify(p) \/ EvaluateLog(p)
             \/ EvaluateReceipt(p) \/ ReviewLog(p) \/ RollbackScan(p) \/ RollbackResolve(p)
             \/ RefreshTagCriteria(p) \/ AppendEventWrite(p)
  <2>1. pc'[p] \in {"idle", "m_pending", "m_verify", "e_receipt", "r_resolve", "r_alias",
             "f_logread", "p_reject"}
    BY <1>0, <1>1 DEF MintTagModel, MintTagPending, MintVerify, EvaluateLog,
       EvaluateReceipt, ReviewLog,
       RollbackScan, RollbackResolve, RefreshTagCriteria, AppendEventWrite
  <2> QED
    BY <2>1 DEF TagsKnown, LogKnown
<1>2. CASE RollbackAlias(p)
  BY <1>0, <1>2 DEF RollbackAlias, AliasKnown, TagsKnown, LogKnown
<1>3. CASE RefreshTagEval(p)
  <2>1. loc[p].ver \in Versions
    BY <1>0, <1>3 DEF RefreshTagEval, LocalOK, NeedsVersion, RefreshSteps
  <2> QED
    BY <1>0, <1>3, <2>1 DEF RefreshTagEval, SetTag, TagsKnown, LogKnown
<1>4. CASE AppendEventRead(p)
  <2>1. /\ log' = log /\ champion' = champion
        /\ loc'[p].hist = log /\ loc'[p].tgt = loc[p].tgt
        /\ \/ pc[p] = "p_logread" /\ pc'[p] = "p_logwrite"
           \/ pc[p] = "r_logread" /\ pc'[p] = "r_logwrite"
           \/ pc[p] = "f_logread" /\ pc'[p] = "f_logwrite"
    BY <1>0, <1>4 DEF AppendEventRead, registryVars, Local
  <2> QED
    BY <2>1 DEF TagsKnown, LogKnown
<1> QED
  BY <1>1, <1>2, <1>3, <1>4 DEF Rollback, Refresh, AppendEvent

\* A command that moves leaves the tags of every promoted version as they were,
\* or leaves them equal, or stands between the two writes of a refresh of it.
LEMMA CommandCoheres ==
  ASSUME IInv, NEW p \in Procs, DecisionKnown(p), TagsKnown(p), Command(p) \/ Step(p),
         NEW v \in Versions, status'[v] = "promoted"
  PROVE  \/ pc'[p] = "f_criteria" /\ loc'[p].ver = v
         \/ critTag'[v] = evalTag'[v]
         \/ /\ status[v] = "promoted" /\ critTag'[v] = critTag[v] /\ evalTag'[v] = evalTag[v]
            /\ ~(pc[p] = "f_criteria" /\ loc[p].ver = v)
<1> USE DEF Goto, Enter, Return
<1> DEFINE Kept == /\ status[v] = "promoted" /\ critTag'[v] = critTag[v] /\ evalTag'[v] = evalTag[v]
                   /\ ~(pc[p] = "f_criteria" /\ loc[p].ver = v)
<1>0. /\ TypeOK /\ LocalOK(p) /\ loc[p] \in Local /\ status \in [Versions -> Statuses]
      /\ pc \in [Procs -> Labels] /\ loc \in [Procs -> Local]
      /\ evalTag \in [Versions -> AnyEval] /\ critTag \in [Versions -> AnyEval]
  BY DEF IInv, TypeOK
<1>1. CASE Command(p)
  <2>1. ASSUME MintVersion(p) PROVE Kept
    BY <1>0, <2>1 DEF MintVersion, SetTag
  <2>2. ASSUME RollbackStart(p) PROVE Kept
    BY <2>2 DEF RollbackStart, registryVars
  <2>3. ASSUME NEW w \in Versions, EvaluateStart(p, w) \/ PromoteStart(p, w)
                                                       \/ RefreshStart(p, w)
        PROVE  Kept
    BY <2>3 DEF EvaluateStart, PromoteStart, RefreshStart, registryVars
  <2>4. ASSUME NEW e \in EvalRuns, ReviewRead(p, e) PROVE Kept
    BY <2>4 DEF ReviewRead, registryVars
  <2> QED
    BY <1>1, <2>1, <2>2, <2>3, <2>4 DEF Command
<1>2. CASE PromoteResolveEval(p) \/ PromoteCriteria(p)
  <2>1. /\ pc[p] \in {"p_eval", "p_criteria"} /\ status' = status
        /\ status[loc[p].ver] # "promoted" /\ loc[p].ver \in Versions
    BY <1>0, <1>2 DEF PromoteResolveEval, PromoteCriteria, DecisionKnown, LocalOK,
       NeedsVersion, CheckSteps, Undecided, Decided
  <2>2. evalTag'[v] = evalTag[v] /\ critTag'[v] = critTag[v]
    BY <1>0, <1>2, <2>1 DEF PromoteResolveEval, PromoteCriteria, SetTag
  <2> QED
    BY <2>1, <2>2
<1>3. CASE PromoteTag(p)
  <2>1. loc[p].ver \in Versions /\ critTag[loc[p].ver] = evalTag[loc[p].ver]
    BY <1>0, <1>3 DEF PromoteTag, LocalOK, NeedsVersion, LiveSteps, TagsKnown
  <2> QED
    BY <1>0, <1>3, <2>1 DEF PromoteTag, SetTag
<1>4. CASE RefreshTagEval(p)
  <2>1. loc[p].ver \in Versions
    BY <1>0, <1>4 DEF RefreshTagEval, LocalOK, NeedsVersion, RefreshSteps
  <2> QED
    BY <1>0, <1>4, <2>1 DEF RefreshTagEval, SetTag
<1>5. CASE RefreshTagCriteria(p)
  <2>1. loc[p].ver \in Versions /\ evalTag[loc[p].ver] = loc[p].ev
    BY <1>0, <1>5 DEF RefreshTagCriteria, LocalOK, NeedsVersion, RefreshSteps, TagsKnown
  <2> QED
    BY <1>0, <1>5, <2>1 DEF RefreshTagCriteria, SetTag
<1>6. CASE MintTagPending(p) \/ PromoteReject(p)
  <2>1. loc[p].ver \in Versions
    BY <1>0, <1>6 DEF MintTagPending, PromoteReject, LocalOK, NeedsVersion, MintSteps
  <2>2. PICK s \in {"pending", "rejected"} : status' = [status EXCEPT ![loc[p].ver] = s]
    BY <1>6 DEF MintTagPending, PromoteReject, SetTag
  <2>3. /\ evalTag' = evalTag /\ critTag' = critTag /\ pc[p] # "f_criteria"
    BY <1>6 DEF MintTagPending, PromoteReject
  <2> QED
    BY <1>0, <2>1, <2>2, <2>3
<1>7. CASE PromoteReview(p) \/ PromoteEvidence(p) \/ PromoteSmoke(p) \/ PromoteReverify(p)
             \/ PromoteFlip(p) \/ PromoteConfirm(p)
  BY <1>7 DEF PromoteReview, PromoteEvidence, PromoteSmoke, PromoteReverify,
     PromoteFlip, PromoteConfirm, registryVars
<1>8. CASE \/ MintTagModel(p) \/ MintVerify(p) \/ EvaluateLog(p)
           \/ EvaluateReceipt(p) \/ ReviewLog(p) \/ Rollback(p) \/ AppendEvent(p)
  BY <1>8 DEF MintTagModel, MintVerify, EvaluateLog, EvaluateReceipt, ReviewLog,
     Rollback, RollbackScan, RollbackResolve,
     RollbackAlias, AppendEvent, AppendEventRead, AppendEventWrite, registryVars
<1> QED
  BY <1>1, <1>2, <1>3, <1>4, <1>5, <1>6, <1>7, <1>8 DEF Step, Promote, Refresh

LEMMA CoherenceStep ==
  ASSUME IInv, SerialInv, PolicyInv, QuietInv, [Next]_vars,
         OneAtATime, OneAtATime', [StagesAlone]_vars,
         NoFailures, NoFailures'
  PROVE  ReferenceIsCoherent'
<1>0. /\ TypeOK /\ ReferenceIsCoherent
      /\ \A q \in Procs : DecisionKnown(q) /\ TagsKnown(q)
  BY DEF IInv, PolicyInv, QuietInv
<1>1. ASSUME NEW p \in Procs, Command(p) \/ Step(p) PROVE ReferenceIsCoherent'
  <2>1. SUFFICES ASSUME NEW v \in Versions, status'[v] = "promoted",
                        ~(pc'[p] = "f_criteria" /\ loc'[p].ver = v)
                 PROVE  critTag'[v] = evalTag'[v]
    BY DEF ReferenceIsCoherent
  <2>2. \A q \in Procs : q # p => pc[q] = "idle"
    BY <1>0, <1>1, Alone
  <2>3. CASE /\ status[v] = "promoted" /\ critTag'[v] = critTag[v] /\ evalTag'[v] = evalTag[v]
             /\ ~(pc[p] = "f_criteria" /\ loc[p].ver = v)
    BY <1>0, <2>2, <2>3 DEF ReferenceIsCoherent
  <2> QED
    BY <1>0, <1>1, <2>1, <2>3, CommandCoheres
<1>2. ASSUME NEW v \in Versions, Batch(v) PROVE ReferenceIsCoherent'
  <2>1. /\ pc' = pc /\ loc' = loc /\ evalTag' = evalTag /\ critTag' = critTag
        /\ \A w \in Versions : status'[w] = "promoted" => status[w] = "promoted"
    BY <1>0, <1>2, BatchKeeps
  <2> QED
    BY <1>0, <2>1 DEF ReferenceIsCoherent
<1>3. CASE UNCHANGED vars
  BY <1>0, <1>3 DEF vars, registryVars, ReferenceIsCoherent
<1> QED
  BY <1>0, <1>1, <1>2, <1>3, NoFailureMoves DEF Next

-----------------------------------------------------------------------------
(* The promotion log, when commands do not overlap or fail. *)

\* An appended move names the new champion.
LEMMA MoveLogged ==
  ASSUME NEW h \in Seq(Event), NEW e \in Event, e.action # "refreshed",
         log' = Append(h, e), champion' = e.version
  PROVE  LogNames(champion)'
<1> DEFINE moves == {i \in DOMAIN log' : log'[i].action # "refreshed"}
           n == Len(h) + 1
<1>1. /\ DOMAIN log' = 1..n /\ log'[n] = e /\ n \in Nat
      /\ \A j \in 1..n : j <= n
  OBVIOUS
<1>2. n \in moves /\ champion' = log'[n].version
  BY <1>1
<1>3. \A j \in moves : j <= n
  BY <1>1
<1> QED
  BY <1>2, <1>3 DEF LogNames

\* An appended refresh does not.
LEMMA RefreshLogged ==
  ASSUME log \in Seq(Event), NEW e \in Event, e.action = "refreshed",
         log' = Append(log, e), champion' = champion, LogNames(champion)
  PROVE  LogNames(champion)'
<1>1. /\ DOMAIN log = 1..Len(log) /\ DOMAIN log' = 1..Len(log) + 1
      /\ log'[Len(log) + 1] = e /\ \A i \in 1..Len(log) : log'[i] = log[i]
      /\ Len(log) \in Nat
  OBVIOUS
<1>2. {i \in DOMAIN log' : log'[i].action # "refreshed"}
        = {i \in DOMAIN log : log[i].action # "refreshed"}
  BY <1>1
<1> QED
  BY <1>1, <1>2 DEF LogNames

\* A command that moves then owes the log an entry, or the log names the
\* champion, or it owed none and has changed neither.
LEMMA CommandLogs ==
  ASSUME IInv, NEW p \in Procs, AliasKnown(p), DecisionKnown(p), LogKnown(p),
         ~Unlogged(p) => LogNames(champion), Command(p) \/ Step(p)
  PROVE  Unlogged(p)' \/ LogNames(champion)'
<1> USE DEF Goto, Enter, Return
<1>0. /\ TypeOK /\ LocalOK(p) /\ loc[p] \in Local /\ log \in Seq(Event)
      /\ pc \in [Procs -> Labels] /\ loc \in [Procs -> Local]
  BY DEF IInv, TypeOK
<1>1. ASSUME ~Unlogged(p), champion' = champion, log' = log PROVE LogNames(champion)'
  BY <1>1 DEF LogNames
<1>2. CASE Command(p)
  <2>1. ~Unlogged(p) /\ champion' = champion /\ log' = log
    BY <1>2 DEF Command, MintVersion, RollbackStart, EvaluateStart, PromoteStart,
       RefreshStart, ReviewRead, registryVars, Unlogged, InTrial
  <2> QED
    BY <1>1, <2>1
<1>3. CASE PromoteResolveEval(p) \/ PromoteCriteria(p) \/ PromoteReview(p)
             \/ PromoteEvidence(p) \/ PromoteSmoke(p) \/ PromoteReverify(p) \/ PromoteReject(p)
             \/ MintTagModel(p) \/ MintTagPending(p) \/ MintVerify(p) \/ EvaluateLog(p)
             \/ EvaluateReceipt(p) \/ ReviewLog(p) \/ Refresh(p)
  <2>1. ~Unlogged(p) /\ champion' = champion /\ log' = log
    BY <1>3 DEF PromoteResolveEval, PromoteCriteria, PromoteReview, PromoteEvidence,
       PromoteSmoke, PromoteReverify, PromoteReject, MintTagModel, MintTagPending,
       MintVerify, EvaluateLog, EvaluateReceipt, ReviewLog, Refresh, RefreshTagEval,
       RefreshTagCriteria,
       registryVars, Unlogged, InTrial
  <2> QED
    BY <1>1, <2>1
<1>4. CASE PromoteFlip(p) \/ PromoteConfirm(p) \/ PromoteTag(p) \/ RollbackAlias(p)
  <2>1. Unlogged(p)'
    BY <1>0, <1>4 DEF PromoteFlip, PromoteConfirm, PromoteTag, RollbackAlias, Unlogged,
       InTrial, Local
  <2> QED
    BY <2>1
<1>5. CASE RollbackScan(p) \/ RollbackResolve(p)
  <2>1. champion' = champion /\ log' = log /\ pc[p] \in {"r_scan", "r_resolve"}
    BY <1>5 DEF RollbackScan, RollbackResolve, registryVars
  <2>2. CASE loc[p].ret = "reject"
    <3>1. loc[p].tgt = NoVersion
      BY <2>1, <2>2 DEF AliasKnown, Undoes
    <3>2. pc'[p] \in {"r_resolve", "r_alias"} /\ loc'[p].ret = "reject"
      BY <1>0, <1>5, <2>2, <3>1 DEF RollbackScan, RollbackResolve, Local, Versions, NoVersion
    <3> QED
      BY <3>2 DEF Unlogged, InTrial
  <2>3. CASE loc[p].ret # "reject"
    BY <1>1, <2>1, <2>3 DEF Unlogged, InTrial
  <2> QED
    BY <2>2, <2>3
<1>6. CASE AppendEventRead(p)
  <2>1. CASE pc[p] = "f_logread"
    <3>1. ~Unlogged(p) /\ champion' = champion /\ log' = log
      BY <1>6, <2>1 DEF AppendEventRead, registryVars, Unlogged, InTrial
    <3> QED
      BY <1>1, <3>1
  <2>2. CASE pc[p] # "f_logread"
    <3>1. pc'[p] \in {"p_logwrite", "r_logwrite"}
      BY <1>0, <1>6, <2>2 DEF AppendEventRead
    <3> QED
      BY <3>1 DEF Unlogged
  <2> QED
    BY <2>1, <2>2
<1>7. CASE AppendEventWrite(p)
  <2>1. /\ pc[p] \in {"p_logwrite", "r_logwrite", "f_logwrite"} /\ loc[p].hist = log
        /\ log' = Append(log, EventOf(p)) /\ champion' = champion
    BY <1>7 DEF AppendEventWrite, Extended, LogKnown
  <2>2. EventOf(p) \in Event
    BY <1>0, <2>1, EventType
  <2>3. CASE pc[p] = "p_logwrite"
    <3>1. champion = loc[p].ver
      BY <2>3 DEF AliasKnown, LiveSteps
    <3>2. EventOf(p).action # "refreshed" /\ EventOf(p).version = champion
      BY <2>3, <3>1 DEF EventOf
    <3> QED
      BY <1>0, <2>1, <2>2, <3>2, MoveLogged
  <2>4. CASE pc[p] = "r_logwrite"
    <3>1. champion = loc[p].tgt
      BY <2>4 DEF LogKnown
    <3>2. EventOf(p).action # "refreshed" /\ EventOf(p).version = champion
      BY <2>4, <3>1 DEF EventOf
    <3> QED
      BY <1>0, <2>1, <2>2, <3>2, MoveLogged
  <2>5. CASE pc[p] = "f_logwrite"
    <3>1. ~Unlogged(p)
      BY <2>5 DEF Unlogged, InTrial
    <3>2. EventOf(p).action = "refreshed"
      BY <2>5 DEF EventOf
    <3> QED
      BY <1>0, <2>1, <2>2, <3>1, <3>2, RefreshLogged
  <2> QED
    BY <2>1, <2>3, <2>4, <2>5
<1> QED
  BY <1>2, <1>3, <1>4, <1>5, <1>6, <1>7 DEF Step, Promote, Rollback, AppendEvent

LEMMA LogStep ==
  ASSUME IInv, SerialInv, PolicyInv, QuietInv, [Next]_vars,
         OneAtATime, OneAtATime', [StagesAlone]_vars,
         NoFailures, NoFailures'
  PROVE  LogAgrees'
<1>0. /\ TypeOK /\ LogAgrees
      /\ \A q \in Procs : AliasKnown(q) /\ DecisionKnown(q) /\ LogKnown(q)
  BY DEF IInv, SerialInv, PolicyInv, QuietInv
<1>1. ASSUME NEW p \in Procs, Command(p) \/ Step(p) PROVE LogAgrees'
  <2>1. \A q \in Procs : q # p => ~Unlogged(q)
    BY <1>0, <1>1, Alone DEF Unlogged, InTrial
  <2>2. ~Unlogged(p) => LogNames(champion)
    BY <1>0, <2>1 DEF LogAgrees
  <2>3. Unlogged(p)' \/ LogNames(champion)'
    BY <1>0, <1>1, <2>2, CommandLogs
  <2> QED
    BY <2>3 DEF LogAgrees
<1>2. ASSUME NEW v \in Versions, Batch(v) PROVE LogAgrees'
  <2>1. pc' = pc /\ loc' = loc /\ champion' = champion /\ log' = log
    BY <1>0, <1>2, BatchKeeps
  <2> QED
    BY <1>0, <2>1 DEF LogAgrees, LogNames, Unlogged, InTrial
<1>3. CASE UNCHANGED vars
  BY <1>0, <1>3 DEF vars, registryVars, LogAgrees, LogNames, Unlogged, InTrial
<1> QED
  BY <1>0, <1>1, <1>2, <1>3, NoFailureMoves DEF Next

LEMMA QuietStep ==
  /\ IInv /\ SerialInv /\ PolicyInv /\ QuietInv /\ [Next]_vars
  /\ OneAtATime /\ OneAtATime' /\ [StagesAlone]_vars /\ NoFailures /\ NoFailures'
  => QuietInv'
<1> SUFFICES ASSUME IInv, SerialInv, PolicyInv, QuietInv, [Next]_vars,
                    OneAtATime, OneAtATime', [StagesAlone]_vars,
         NoFailures, NoFailures'
             PROVE  QuietInv'
  OBVIOUS
<1>0. /\ TypeOK /\ \A q \in Procs : AliasKnown(q) /\ TagsKnown(q) /\ LogKnown(q)
  BY DEF IInv, SerialInv, QuietInv
<1>1. ASSUME NEW q \in Procs PROVE TagsKnown(q)' /\ LogKnown(q)'
  <2>1. ASSUME NEW p \in Procs, Command(p) \/ Step(p)
        PROVE  TagsKnown(q)' /\ LogKnown(q)'
    <3>1. CASE q = p
      BY <1>0, <2>1, <3>1, StartTags, PromoteTags, OtherTags DEF Step
    <3>2. CASE q # p
      BY <1>0, <2>1, <3>2, Alone, IdleTags
    <3> QED
      BY <3>1, <3>2
  <2>2. ASSUME NEW v \in Versions, Batch(v), ~UNCHANGED vars
        PROVE  TagsKnown(q)' /\ LogKnown(q)'
    BY <1>0, <2>2, StageFindsIdle, IdleTags
  <2>3. CASE UNCHANGED vars
    BY <1>0, <2>3 DEF vars, registryVars, TagsKnown, LogKnown
  <2> QED
    BY <1>0, <2>1, <2>2, <2>3, NoFailureMoves DEF Next
<1>2. ReferenceIsCoherent' /\ LogAgrees'
  BY CoherenceStep, LogStep
<1> QED
  BY <1>1, <1>2 DEF QuietInv

LEMMA QuietInvariance == Spec /\ OneCommand /\ []NoFailures => []QuietInv
<1>1. Init => QuietInv
  BY DEF Init, QuietInv, TagsKnown, LogKnown, LogAgrees, LogNames, ReferenceIsCoherent
<1> QED
  BY <1>1, QuietStep, PolicyInvariance, SerialInvariance, Invariance, PTL DEF Spec, OneCommand

\* With one command at a time and none cut short, the criteria tags and the
\* eval_run_id tag of a promoted version describe the same evaluation.
THEOREM CoherentReference == Spec /\ OneCommand /\ []NoFailures => []ReferenceIsCoherent
<1>1. QuietInv => ReferenceIsCoherent
  BY DEF QuietInv
<1> QED
  BY <1>1, QuietInvariance, PTL

\* With one command at a time and none cut short, the promotion log and the
\* champion alias agree whenever no command is under way.
THEOREM LogAgreement == Spec /\ OneCommand /\ []NoFailures => []LogMatchesChampion
<1>1. QuietInv => LogMatchesChampion
  BY DEF QuietInv, LogAgrees, LogMatchesChampion, AllIdle, Unlogged, InTrial
<1> QED
  BY <1>1, QuietInvariance, PTL

-----------------------------------------------------------------------------
(* The hypotheses, met: a single process runs one command at a time, and     *)
(* where no failure is allowed there is none.                                *)

LEMMA SingleOperator ==
  ASSUME \A p, q \in Procs : p = q
  PROVE  Spec => OneCommand
<1>1. OneAtATime
  BY DEF OneAtATime
<1>2. [StagesAlone]_vars
  BY DEF StagesAlone, Batch, AllIdle
<1> QED
  BY <1>1, <1>2, PTL DEF OneCommand

\* Only Raise and Crash count a failure, and both stop at their bound.
LEMMA NothingFails ==
  ASSUME MaxCrashes = 0, MaxFaults = 0
  PROVE  Spec => []NoFailures
<1>1. Init => NoFailures
  BY DEF Init, NoFailures
<1>2. NoFailures /\ [Next]_vars => NoFailures'
  <2> SUFFICES ASSUME NoFailures, [Next]_vars PROVE NoFailures'
    OBVIOUS
  <2>1. ASSUME NEW p \in Procs, Command(p) PROVE UNCHANGED faultVars
    BY <2>1 DEF Command, MintVersion, RollbackStart, EvaluateStart, PromoteStart,
       RefreshStart, ReviewRead
  <2>2. ASSUME NEW p \in Procs, Step(p) PROVE UNCHANGED faultVars
    <3>1. CASE MintTagModel(p) \/ MintTagPending(p) \/ MintVerify(p)
                 \/ EvaluateLog(p) \/ EvaluateReceipt(p) \/ ReviewLog(p)
                 \/ Refresh(p) \/ AppendEvent(p)
      BY <3>1 DEF MintTagModel, MintTagPending, MintVerify, EvaluateLog,
         EvaluateReceipt, ReviewLog, Refresh,
         RefreshTagEval, RefreshTagCriteria, AppendEvent, AppendEventRead, AppendEventWrite
    <3>2. CASE Promote(p)
      BY <3>2 DEF Promote, PromoteResolveEval, PromoteCriteria, PromoteReview,
         PromoteEvidence, PromoteSmoke, PromoteReverify, PromoteFlip, PromoteConfirm,
         PromoteTag, PromoteReject
    <3>3. CASE Rollback(p)
      BY <3>3 DEF Rollback, RollbackScan, RollbackResolve, RollbackAlias
    <3> QED
      BY <2>2, <3>1, <3>2, <3>3 DEF Step
  <2>3. ASSUME NEW v \in Versions, Batch(v) PROVE UNCHANGED faultVars
    BY <2>3 DEF Batch, Threshold, PreSealReject, ErrorAnalysis, ThresholdRerun,
       TagThresholdRerun
  <2>4. ASSUME NEW p \in Procs PROVE ~Raise(p) /\ ~Crash(p)
    BY DEF NoFailures, Raise, Crash
  <2>5. CASE UNCHANGED vars
    BY <2>5 DEF vars, NoFailures, faultVars
  <2> QED
    BY <2>1, <2>2, <2>3, <2>4, <2>5 DEF Next, NoFailures, faultVars
<1> QED
  BY <1>1, <1>2, PTL DEF Spec

\* One operator whose commands all complete: every promise about the registry
\* that overlapping or broken commands can break holds, also across screens that
\* are run again and rejections of versions already promoted.
COROLLARY SingleOperatorSafety ==
  ASSUME \A p, q \in Procs : p = q, MaxCrashes = 0, MaxFaults = 0
  PROVE  Spec => /\ [](LogMatchesChampion /\ ReferenceIsCoherent)
                 /\ ComparativeFlipIsFresh /\ RollbackRestoresPromoted
                 /\ AbortUnseatsCandidate
                 /\ Policy!PolicyInit /\ [][Policy!PolicyNext]_(Policy!policyVars)
BY SingleOperator, NothingFails, FreshFlip, RollbackSafety, AbortSafety, PolicySafety,
   CoherentReference, LogAgreement, PTL
===============================================================================
