---------------------------- MODULE MCConversation ----------------------------
(***************************************************************************)
(* Small instances of the six modules between Telegram and the operator:   *)
(* the inbound listener, the reply pipeline, held replies, campaign        *)
(* signals, the bot's entry and the managed accounts.  They share no       *)
(* variable, so a run explores them side by side: it picks one of Parts    *)
(* and leaves the others at their initial states.                          *)
(***************************************************************************)
EXTENDS InboundListener, ReplyPipeline, HeldReplies, CampaignSignals, BotEntry,
        ManagedAccounts, TLC

CONSTANTS Parts, e1, e2, e3, e4, a1, a2, a3

\* Two answers to one message and one to another, and a direct message.
GroupTargets == e1 :> a1 @@ e2 :> a1 @@ e3 :> a2 @@ e4 :> Private

\* One person and one night: a group thread under quiet hours that begin before
\* midnight, a private one under the default ones.
TwoThreads ==
    {[origin |-> "group_reply", community |-> "hobby", quiet |-> [start |-> 2, end |-> 1]],
     [origin |-> "direct_inbound_dm", community |-> "founder", quiet |-> [start |-> 0, end |-> 1]]}
TwoJudgements == {FallbackTriage("question"), FallbackTriage("stop")}

\* An account may join once on its first day and twice on its second.
TwoDayRamp == <<1, 2>>

VARIABLE part

ConversationInit ==
    /\ part \in Parts
    /\ InboundInit /\ PipelineInit /\ HeldInit /\ SignalInit /\ BotInit /\ AccountInit
    /\ part = "pipeline" \/ setting = CHOOSE s \in Settings : TRUE
    /\ part = "bot" \/ ~ telegram.two_factors

ConversationNext ==
    /\ \/ /\ part = "inbound" /\ InboundNext
          /\ UNCHANGED <<pipeline_vars, held_vars, signal_vars, bot_vars, account_vars>>
       \/ /\ part = "pipeline" /\ PipelineNext
          /\ UNCHANGED <<inbound_vars, held_vars, signal_vars, bot_vars, account_vars>>
       \/ /\ part = "held" /\ HeldNext
          /\ UNCHANGED <<inbound_vars, pipeline_vars, signal_vars, bot_vars, account_vars>>
       \/ /\ part = "signals" /\ SignalNext
          /\ UNCHANGED <<inbound_vars, pipeline_vars, held_vars, bot_vars, account_vars>>
       \/ /\ part = "bot" /\ BotNext
          /\ UNCHANGED <<inbound_vars, pipeline_vars, held_vars, signal_vars, account_vars>>
       \/ /\ part = "accounts" /\ AccountNext
          /\ UNCHANGED <<inbound_vars, pipeline_vars, held_vars, signal_vars, bot_vars>>
    /\ UNCHANGED part

ConversationSpec ==
    ConversationInit
      /\ [][ConversationNext]_<<inbound_vars, pipeline_vars, held_vars, signal_vars, bot_vars,
                                account_vars, part>>

\* Every variable of the module explored has its type.
ConversationTypeOK ==
    /\ part = "inbound" => InboundTypeOK
    /\ part = "pipeline" => PipelineTypeOK
    /\ part = "held" => HeldTypeOK
    /\ part = "signals" => SignalTypeOK
    /\ part = "bot" => BotTypeOK
    /\ part = "accounts" => AccountTypeOK
=============================================================================
