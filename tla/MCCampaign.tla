----------------------------- MODULE MCCampaign -----------------------------
(***************************************************************************)
(* Small instances of the five modules about what a campaign plans, makes  *)
(* ready, may send and reports: planning, prepared execution, compiled     *)
(* intents, the policy file and alerts.  They share no variable, so a run  *)
(* explores them side by side: it picks one of Parts and leaves the others *)
(* at their initial states.                                                *)
(***************************************************************************)
EXTENDS CampaignPlanning, PreparedExecution, CompiledIntents, OperatorAlerts, PolicyState, TLC

CONSTANTS Parts, s1

\* The account plan is refreshed by schedule.
Scheduled == s1 :> "account_planning"
\* Strategy may send the operator back to discovery, or advise to wait.
BackToDiscovery == [k \in Kind |-> IF k = "strategy" THEN {"discovery", Hold} ELSE {}]

Asks(kind, has, key) == [kind |-> kind, has |-> has, key |-> key]
SendNow == Asks("enqueue_operator_send", {"account_id", "action_type", "chat_id", "text"}, "none")
TwoClerks == {"bot", "reviewer"}
\* A message pauses a schedule and makes one, asks for work, or queues a send with or without
\* a key; a review notes something, requests a review, or queues a read mark after a move that
\* names no conversation.
SmallBatches ==
  [bot |-> {<<Asks("schedule_pause", {"work_type"}, "none"),
              Asks("schedule_create", {"owner_role", "work_type", "goal", "interval_minutes"}, "none")>>,
            <<Asks("planning_posture", {"work_type", "review_state", "operator_prompt"}, "none"),
              Asks("work_propose", {"owner_role", "work_type", "goal"}, "none")>>,
            <<SendNow>>,
            <<[SendNow EXCEPT !.key = "k"]>>},
   reviewer |-> {<<Asks("belief_state", {"conversation_id", "belief_state"}, "none"),
                   Asks("memory_note", {"destination", "line"}, "k")>>,
                 <<Asks("review_request", {"summary", "owner_role", "work_type"}, "none")>>,
                 <<Asks("next_move", {"decision"}, "none"),
                   Asks("enqueue_low_risk", {"account_id", "action_type", "chat_id"}, "none")>>}]

VARIABLE part

CampaignInit ==
    /\ part \in Parts
    /\ PlanningInit /\ PreparedInit /\ IntentInit /\ AlertInit /\ PolicyInit

CampaignNext ==
    /\ \/ /\ part = "planning" /\ PlanningNext
          /\ UNCHANGED <<prepared_vars, intent_vars, alert_vars, policy_vars>>
       \/ /\ part = "prepared" /\ PreparedNext
          /\ UNCHANGED <<planning_vars, intent_vars, alert_vars, policy_vars>>
       \/ /\ part = "intents" /\ IntentNext
          /\ UNCHANGED <<planning_vars, prepared_vars, alert_vars, policy_vars>>
       \/ /\ part = "alerts" /\ AlertNext
          /\ UNCHANGED <<planning_vars, prepared_vars, intent_vars, policy_vars>>
       \/ /\ part = "policy" /\ PolicyNext
          /\ UNCHANGED <<planning_vars, prepared_vars, intent_vars, alert_vars>>
    /\ UNCHANGED part

CampaignSpec ==
    CampaignInit
      /\ [][CampaignNext]_<<planning_vars, prepared_vars, intent_vars, alert_vars, policy_vars,
                            part>>

\* Every variable of the module explored has its type.
CampaignTypeOK ==
    /\ part = "planning" => PlanningTypeOK
    /\ part = "prepared" => PreparedTypeOK
    /\ part = "intents" => IntentTypeOK
    /\ part = "alerts" => AlertTypeOK
    /\ part = "policy" => PolicyTypeOK
=============================================================================
