---------------------------- MODULE PromotionPolicy ----------------------------
(***************************************************************************)
(* What the registry promises about the champion, leaving out how it is    *)
(* done: a candidate is put on trial only while its evidence clears it and *)
(* its decision is open, one trial at a time, every trial ends with the    *)
(* candidate promoted or withdrawn, and a withdrawal or a rollback goes to *)
(* a promoted version or to no champion at all.  Evidence may change at    *)
(* any time.  A promotion may be revoked between trials, even that of the  *)
(* version being served; a rejection is final.                             *)
(***************************************************************************)
CONSTANTS Versions, NoVersion

VARIABLES
    champion,   \* the version being served, or NoVersion
    decision,   \* per version: "open", "promoted" or "rejected"
    cleared     \* versions whose evaluation, review and screen all pass now

policyVars == <<champion, decision, cleared>>

Promoted == {v \in Versions : decision[v] = "promoted"}
OnTrial  == champion # NoVersion /\ decision[champion] = "open"

PolicyInit ==
    /\ champion = NoVersion
    /\ decision = [v \in Versions |-> "open"]
    /\ cleared = {}

Reassess ==
    /\ cleared' \in SUBSET Versions
    /\ UNCHANGED <<champion, decision>>

Try(v) ==
    /\ ~OnTrial
    /\ v \in cleared /\ decision[v] = "open"
    /\ champion' = v
    /\ UNCHANGED <<decision, cleared>>

Confirm ==
    /\ OnTrial
    /\ decision' = [decision EXCEPT ![champion] = "promoted"]
    /\ UNCHANGED <<champion, cleared>>

Withdraw ==
    /\ OnTrial
    /\ champion' \in Promoted \cup {NoVersion}
    /\ UNCHANGED <<decision, cleared>>

RollBack ==
    /\ ~OnTrial
    /\ champion' \in Promoted \cup {NoVersion}
    /\ UNCHANGED <<decision, cleared>>

Reject(v) ==
    /\ decision[v] = "open" /\ v # champion
    /\ decision' = [decision EXCEPT ![v] = "rejected"]
    /\ UNCHANGED <<champion, cleared>>

Revoke(v) ==
    /\ ~OnTrial
    /\ decision[v] = "promoted"
    /\ decision' = [decision EXCEPT ![v] = "rejected"]
    /\ UNCHANGED <<champion, cleared>>

PolicyNext ==
    \/ \E v \in Versions : Try(v) \/ Reject(v) \/ Revoke(v)
    \/ Reassess \/ Confirm \/ Withdraw \/ RollBack

PolicySpec ==
    PolicyInit /\ [][PolicyNext]_policyVars /\ WF_policyVars(Confirm \/ Withdraw)
=============================================================================
