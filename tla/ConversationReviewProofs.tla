----------------------- MODULE ConversationReviewProofs -----------------------
(***************************************************************************)
(* Theorems about ConversationReview: its types; and, as long as no two    *)
(* updates of the record overlap, the exclusiveness of reviews, the bound  *)
(* on follow-ups, and that no trigger is reviewed twice.                   *)
(***************************************************************************)
EXTENDS ConversationReview, TLAPS

\* What every version of the record satisfies, stored or in somebody's hands: a
\* direct conversation has a window only while a follow-up is left.
GoodRecord(c) ==
    /\ RecordOK(c)
    /\ Origin = "direct_inbound_dm" /\ HasWindow(c) =>
         c.follow_up_attempt_count < DmFollowUpLimit
    /\ c.last_event_id <= MaxEvents

GoodRecords ==
    /\ GoodRecord(conversation)
    /\ \A p \in Process : copy[p] = NoCopy \/ GoodRecord(copy[p])

\* A worker that is not idle works on a trigger.
Busy == \A r \in Reviewer : pc[r] # "idle" => task[r] \in Key

TypeInv == TypeOK /\ GoodRecords /\ Busy

-----------------------------------------------------------------------------
(* What the updates make of a record.                                      *)

\* NoKey stands apart from the keys.
LEMMA NoKeyIsNoKey == NoKey \notin Key
BY DEF NoKey, Key

\* The updates of a review and of the operator leave a good record good.
LEMMA PlainUpdates ==
    ASSUME NEW c, GoodRecord(c)
    PROVE  /\ GoodRecord([c EXCEPT !.next_action_type = "other"])
           /\ GoodRecord([c EXCEPT !.follow_up_due_at = 0])
           /\ GoodRecord([c EXCEPT !.status = "paused", !.next_action_type = "other"])
           /\ GoodRecord([c EXCEPT !.status = "active",
                                   !.next_action_type = "review_inbound"])
<1> USE DEF GoodRecord, RecordOK, ExternalConversationRecord, HasWindow
<1>1. GoodRecord([c EXCEPT !.next_action_type = "other"])
  OBVIOUS
<1>2. GoodRecord([c EXCEPT !.follow_up_due_at = 0])
  OBVIOUS
<1>3. GoodRecord([c EXCEPT !.status = "paused", !.next_action_type = "other"])
  OBVIOUS
<1>4. GoodRecord([c EXCEPT !.status = "active", !.next_action_type = "review_inbound"])
  OBVIOUS
<1> QED
  BY <1>1, <1>2, <1>3, <1>4

\* So do an inbound event, a consumed window and a new one.
LEMMA WindowUpdates ==
    ASSUME NEW c, GoodRecord(c)
    PROVE  /\ \A e \in 0..MaxEvents :
                GoodRecord([c EXCEPT !.last_event_id = e,
                                     !.next_action_type = "review_inbound",
                                     !.follow_up_due_at = 0,
                                     !.follow_up_attempt_count = 0])
           /\ HasWindow(c) =>
                GoodRecord([c EXCEPT !.follow_up_attempt_count =
                                       c.follow_up_attempt_count + 1,
                                     !.follow_up_due_at = 0,
                                     !.next_action_type = "other"])
           /\ \A n \in Nat : MayFollowUp(c) =>
                GoodRecord([c EXCEPT !.follow_up_due_at = n,
                                     !.next_action_type = "other"])
<1>1. ASSUME NEW e \in 0..MaxEvents
      PROVE  GoodRecord([c EXCEPT !.last_event_id = e,
                                  !.next_action_type = "review_inbound",
                                  !.follow_up_due_at = 0,
                                  !.follow_up_attempt_count = 0])
  <2> DEFINE noted == [c EXCEPT !.last_event_id = e,
                                !.next_action_type = "review_inbound",
                                !.follow_up_due_at = 0,
                                !.follow_up_attempt_count = 0]
  <2>1. e \in Nat /\ e <= MaxEvents /\ 0 <= DmFollowUpLimit
    BY ReviewConstantsOK
  <2>2. /\ c \in ExternalConversationRecord
        /\ c.review_claimed_by = Nobody <=> c.review_claim_trigger_key = NoKey
    BY DEF GoodRecord, RecordOK
  <2>3. /\ noted \in ExternalConversationRecord
        /\ noted.last_event_id = e /\ noted.follow_up_due_at = 0
        /\ noted.follow_up_attempt_count = 0
        /\ noted.review_claimed_by = c.review_claimed_by
        /\ noted.review_claim_trigger_key = c.review_claim_trigger_key
    BY <2>1, <2>2 DEF ExternalConversationRecord
  <2> HIDE DEF noted
  <2>4. GoodRecord(noted)
    BY <2>1, <2>2, <2>3 DEF GoodRecord, RecordOK, HasWindow
  <2> QED
    BY <2>4 DEF noted
<1>2. ASSUME HasWindow(c)
      PROVE  GoodRecord([c EXCEPT !.follow_up_attempt_count =
                                    c.follow_up_attempt_count + 1,
                                  !.follow_up_due_at = 0,
                                  !.next_action_type = "other"])
  <2> DEFINE counted(m) == [c EXCEPT !.follow_up_attempt_count = m,
                                     !.follow_up_due_at = 0,
                                     !.next_action_type = "other"]
  <2>1. /\ c.follow_up_attempt_count + 1 \in Nat
        /\ Origin = "direct_inbound_dm" =>
             c.follow_up_attempt_count + 1 <= DmFollowUpLimit
    BY <1>2, ReviewConstantsOK DEF GoodRecord, RecordOK, ExternalConversationRecord
  <2>2. ASSUME NEW m \in Nat, Origin = "direct_inbound_dm" => m <= DmFollowUpLimit
        PROVE  GoodRecord(counted(m))
    BY <2>2 DEF GoodRecord, RecordOK, ExternalConversationRecord, HasWindow
  <2> HIDE DEF counted
  <2>3. GoodRecord(counted(c.follow_up_attempt_count + 1))
    BY <2>1, <2>2
  <2> QED
    BY <2>3 DEF counted
<1>3. ASSUME NEW n \in Nat, MayFollowUp(c)
      PROVE  GoodRecord([c EXCEPT !.follow_up_due_at = n,
                                  !.next_action_type = "other"])
  BY <1>3, ReviewConstantsOK
     DEF GoodRecord, RecordOK, ExternalConversationRecord, HasWindow, MayFollowUp
<1> QED
  BY <1>1, <1>2, <1>3

\* And the claim protocol.
LEMMA ClaimUpdates ==
    ASSUME NEW c, GoodRecord(c)
    PROVE  /\ GoodRecord(Unclaimed(c))
           /\ \A r \in Reviewer, n \in Nat, k \in Key :
                GoodRecord([Unclaimed(c) EXCEPT !.review_claimed_by = r,
                                                !.review_claim_expires_at = n,
                                                !.review_claim_trigger_key = k])
           /\ \A k \in Key :
                GoodRecord([Unclaimed(c) EXCEPT
                              !.last_completed_review_trigger_key = k])
<1> USE ReviewConstantsOK DEF GoodRecord, RecordOK, ExternalConversationRecord, HasWindow
<1> DEFINE u == Unclaimed(c)
<1>1. GoodRecord(u)
  BY DEF Unclaimed
<1> HIDE DEF u
<1>2. ASSUME NEW r \in Reviewer, NEW n \in Nat, NEW k \in Key
      PROVE  GoodRecord([u EXCEPT !.review_claimed_by = r,
                                  !.review_claim_expires_at = n,
                                  !.review_claim_trigger_key = k])
  BY <1>1, <1>2, NoKeyIsNoKey
<1>3. ASSUME NEW k \in Key
      PROVE  GoodRecord([u EXCEPT !.last_completed_review_trigger_key = k])
  BY <1>1, <1>3
<1> QED
  BY <1>1, <1>2, <1>3 DEF u

\* A trigger is a key, or there is none.
LEMMA TriggerIsKey ==
    ASSUME NEW c, GoodRecord(c)
    PROVE  Trigger(c) \in Key \cup {NoKey}
BY DEF Trigger, Key, GoodRecord, RecordOK, ExternalConversationRecord

\* A load puts a good record into somebody's hands ...
LEMMA LoadGood ==
    ASSUME TypeInv, NEW p \in Process, Load(p), conversation' = conversation
    PROVE  /\ GoodRecords'
           /\ copy' \in [Process -> ExternalConversationRecord \cup {NoCopy}]
<1>1. /\ copy' = [copy EXCEPT ![p] = conversation]
      /\ copy \in [Process -> ExternalConversationRecord \cup {NoCopy}]
      /\ GoodRecord(conversation)
      /\ \A q \in Process : copy[q] = NoCopy \/ GoodRecord(copy[q])
  BY DEF Load, TypeInv, TypeOK, GoodRecords
<1>2. conversation \in ExternalConversationRecord
  BY <1>1 DEF GoodRecord, RecordOK
<1>3. \A q \in Process : copy'[q] = copy[q] \/ copy'[q] = conversation
  BY <1>1
<1> QED
  BY <1>1, <1>2, <1>3 DEF GoodRecords, GoodRecord, RecordOK, HasWindow

\* ... and the save of a good record takes it out again.
LEMMA SaveGood ==
    ASSUME TypeInv, NEW p \in Process, NEW c, Save(p, c), GoodRecord(c)
    PROVE  /\ GoodRecords'
           /\ copy' \in [Process -> ExternalConversationRecord \cup {NoCopy}]
<1>1. /\ copy' = [copy EXCEPT ![p] = NoCopy] /\ conversation' = c
      /\ copy \in [Process -> ExternalConversationRecord \cup {NoCopy}]
      /\ \A q \in Process : copy[q] = NoCopy \/ GoodRecord(copy[q])
  BY DEF Save, TypeInv, TypeOK, GoodRecords
<1>2. \A q \in Process : copy'[q] = copy[q] \/ copy'[q] = NoCopy
  BY <1>1
<1> QED
  BY <1>1, <1>2 DEF GoodRecords, GoodRecord, RecordOK, HasWindow

\* Whoever can save has a good record in hand.
LEMMA HandsGood ==
    ASSUME TypeInv, NEW p \in Process, copy[p] # NoCopy
    PROVE  GoodRecord(copy[p])
BY DEF TypeInv, GoodRecords

\* A step that touches neither the record nor the copies leaves them good.
LEMMA RecordsFrame ==
    ASSUME TypeInv, UNCHANGED <<conversation, copy>>
    PROVE  /\ GoodRecords'
           /\ copy' \in [Process -> ExternalConversationRecord \cup {NoCopy}]
BY DEF TypeInv, TypeOK, GoodRecords, GoodRecord, RecordOK, HasWindow

\* The processes that write a conversation are told apart.
LEMMA ProcessParts ==
    /\ "listener" \in Process /\ "executor" \in Process /\ "operator" \in Process
    /\ \A r \in Reviewer : /\ r \in Process
                           /\ r # "listener" /\ r # "executor" /\ r # "operator"
BY ReviewConstantsOK DEF Process

\* The next-state relation with its quantifiers in front.
LEMMA ReviewCases ==
    ASSUME [Next]_vars
    PROVE  \/ Receive \/ Project
           \/ \E r \in Reviewer : Claim(r)
           \/ \E r \in Reviewer : BuildContext(r)
           \/ \E r \in Reviewer : LoadForReview(r)
           \/ \E r \in Reviewer : SaveTriage(r) \/ SaveBeliefs(r) \/ SaveNextAction(r)
                                  \/ ClearFollowUpWindow(r)
           \/ \E r \in Reviewer : Decide(r)
           \/ \E r \in Reviewer : Complete(r)
           \/ \E r \in Reviewer : Abort(r)
           \/ \E send \in open : Execute(send)
           \/ LoadAfterDelivery \/ RecordDelivery \/ ConsumeWindow \/ ScheduleFollowUp
           \/ LoadForOperator \/ Pause \/ Resume
           \/ Tick
           \/ UNCHANGED vars
BY DEF Next, ReviewerStep, ExecutorStep

-----------------------------------------------------------------------------
(* Types.                                                                  *)

\* A fresh conversation is well typed (the projector builds it).
LEMMA ReviewInit == Init => TypeInv
<1> SUFFICES ASSUME Init PROVE TypeInv
  OBVIOUS
<1>1. GoodRecord(conversation)
  BY ReviewConstantsOK
     DEF Init, GoodRecord, RecordOK, ExternalConversationRecord, HasWindow
<1>2. GoodRecords /\ Busy
  BY <1>1, ProcessParts DEF Init, GoodRecords, Busy
<1>3. TypeOK
  <2>1. RecordOK(conversation)
    BY <1>1 DEF GoodRecord
  <2>2. /\ 0 \in 0..MaxTime /\ 0 \in 0..MaxEvents /\ 0 \in 0..MaxControls
        /\ 0 \in 0..MaxAborts
    BY ReviewConstantsOK
  <2> QED
    BY <2>1, <2>2 DEF Init, TypeOK, Stage
<1> QED
  BY <1>2, <1>3 DEF TypeInv

\* The scalars of TypeOK, apart from the records.
Scalars ==
    /\ now \in 0..MaxTime
    /\ pc \in [Process -> Stage]
    /\ task \in [Reviewer -> Key \cup {NoKey}]
    /\ enqueued \in [Reviewer -> BOOLEAN]
    /\ open \subseteq sends /\ sends \subseteq Key \X Draft
    /\ arrived \in 0..MaxEvents /\ controls \in 0..MaxControls
    /\ aborts \in 0..MaxAborts
    /\ saw \in [Reviewer -> 0..MaxEvents] /\ reviewed \in 0..MaxEvents
    /\ claimed \subseteq Key /\ excused \in BOOLEAN /\ follow_ups \in Nat

\* The type invariant, cut into what different steps disturb.
LEMMA TypeParts ==
    TypeInv <=> /\ Scalars /\ GoodRecords /\ Busy
                /\ copy \in [Process -> ExternalConversationRecord \cup {NoCopy}]
BY DEF TypeInv, TypeOK, Scalars, GoodRecords, GoodRecord

\* Every step keeps the types, whichever updates overlap.
LEMMA ReviewTypeStep == TypeInv /\ [Next]_vars => TypeInv'
<1> SUFFICES ASSUME TypeInv, [Next]_vars PROVE TypeInv'
  OBVIOUS
<1> USE ReviewConstantsOK, ProcessParts
    DEF review_vars, queue_vars, bound_vars, history_vars
<1> DEFINE CopyType == copy \in [Process -> ExternalConversationRecord \cup {NoCopy}]
<1>0. Scalars /\ GoodRecords /\ Busy /\ CopyType
  BY TypeParts
<1>s. Scalars' /\ GoodRecords' /\ Busy' /\ CopyType' => TypeInv'
  BY TypeParts, PTL
<1>1. ASSUME Receive PROVE TypeInv'
  <2>1. GoodRecords' /\ CopyType'
    BY <1>1, LoadGood DEF Receive
  <2>2. Scalars' /\ Busy'
    BY <1>0, <1>1 DEF Receive, Scalars, Busy, GoTo, Stage
  <2> QED
    BY <1>s, <2>1, <2>2
<1>2. ASSUME Project PROVE TypeInv'
  <2> DEFINE c == [copy["listener"] EXCEPT !.last_event_id = arrived,
                                           !.next_action_type = "review_inbound",
                                           !.follow_up_due_at = 0,
                                           !.follow_up_attempt_count = 0]
  <2>1. GoodRecord(copy["listener"]) /\ arrived \in 0..MaxEvents
    BY <1>0, <1>2, HandsGood DEF Project, Save, Scalars
  <2>2. GoodRecord(c)
    BY <2>1, WindowUpdates
  <2>3. Save("listener", c)
    BY <1>2 DEF Project
  <2> HIDE DEF c
  <2>4. GoodRecords' /\ CopyType'
    BY <2>2, <2>3, SaveGood
  <2>5. Scalars' /\ Busy'
    BY <1>0, <1>2 DEF Project, Scalars, Busy, GoTo, Stage
  <2> QED
    BY <1>s, <2>4, <2>5
<1>3. ASSUME NEW r \in Reviewer, Claim(r) PROVE TypeInv'
  <2> DEFINE c == Unclaimed(conversation)
  <2>1. GoodRecord(c) /\ Trigger(c) \in Key \cup {NoKey} /\ now + ClaimTTL \in Nat
    <3>1. GoodRecord(conversation) /\ now \in Nat
      BY <1>0 DEF GoodRecords, Scalars
    <3>2. GoodRecord(c)
      BY <3>1, ClaimUpdates
    <3> HIDE DEF c
    <3> QED
      BY <3>1, <3>2, TriggerIsKey
  <2>2. CASE Eligible(c)
    <3>1. Trigger(c) \in Key
      BY <2>1, <2>2 DEF Eligible
    <3>2. /\ conversation' = [c EXCEPT !.review_claimed_by = r,
                                       !.review_claim_expires_at = now + ClaimTTL,
                                       !.review_claim_trigger_key = Trigger(c)]
          /\ copy' = copy
      BY <1>3, <2>2 DEF Claim
    <3>3. GoodRecord(conversation')
      BY <1>0, <2>1, <3>1, <3>2, ClaimUpdates DEF GoodRecords
    <3>4. GoodRecords' /\ CopyType'
      BY <1>0, <3>2, <3>3 DEF GoodRecords, GoodRecord, RecordOK, HasWindow
    <3>5. /\ task' = [task EXCEPT ![r] = Trigger(c)]
          /\ claimed' = claimed \cup {Trigger(c)}
          /\ pc' = [pc EXCEPT ![r] = "triage"]
          /\ excused' \in BOOLEAN
          /\ UNCHANGED <<now, enqueued, saw, reviewed, sends, open, follow_ups,
                         arrived, controls, aborts>>
      BY <1>0, <1>3, <2>2 DEF Claim, GoTo, Scalars
    <3> HIDE DEF c
    <3>6. Scalars' /\ Busy'
      BY <1>0, <3>1, <3>5 DEF Scalars, Busy, Stage
    <3> QED
      BY <1>s, <3>4, <3>6
  <2>3. CASE ~Eligible(c)
    <3>1. conversation' = c /\ copy' = copy
      BY <1>3, <2>3 DEF Claim
    <3>2. GoodRecords' /\ CopyType'
      BY <1>0, <2>1, <3>1 DEF GoodRecords, GoodRecord, RecordOK, HasWindow
    <3>3. Scalars' /\ Busy'
      BY <1>0, <1>3, <2>3 DEF Claim, Scalars, Busy
    <3> QED
      BY <1>s, <3>2, <3>3
  <2> QED
    BY <2>2, <2>3
<1>4. ASSUME NEW r \in Reviewer, BuildContext(r) PROVE TypeInv'
  <2>1. GoodRecords' /\ CopyType'
    BY <1>4, RecordsFrame DEF BuildContext
  <2>2. conversation.last_event_id \in 0..MaxEvents
    BY <1>0 DEF GoodRecords, GoodRecord, RecordOK, ExternalConversationRecord
  <2>3. Scalars' /\ Busy'
    BY <1>0, <1>4, <2>2 DEF BuildContext, Scalars, Busy, GoTo, Stage
  <2> QED
    BY <1>s, <2>1, <2>3
<1>5. ASSUME NEW r \in Reviewer, LoadForReview(r) PROVE TypeInv'
  <2>1. GoodRecords' /\ CopyType'
    BY <1>5, LoadGood DEF LoadForReview
  <2>2. Scalars' /\ Busy'
    BY <1>0, <1>5 DEF LoadForReview, Scalars, Busy
  <2> QED
    BY <1>s, <2>1, <2>2
<1>6. ASSUME NEW r \in Reviewer,
             SaveTriage(r) \/ SaveBeliefs(r) \/ SaveNextAction(r) \/ ClearFollowUpWindow(r)
      PROVE  TypeInv'
  <2>1. GoodRecord(copy[r])
    BY <1>6, HandsGood DEF SaveTriage, SaveBeliefs, SaveNextAction, ClearFollowUpWindow, Save
  <2>2. \/ Save(r, [copy[r] EXCEPT !.next_action_type = "other"])
        \/ Save(r, copy[r])
        \/ Save(r, [copy[r] EXCEPT !.follow_up_due_at = 0])
    BY <1>6 DEF SaveTriage, SaveBeliefs, SaveNextAction, ClearFollowUpWindow
  <2>3. GoodRecords' /\ CopyType'
    BY <2>1, <2>2, PlainUpdates, SaveGood
  <2>4. /\ pc[r] # "idle"
        /\ \E s \in Stage \ {"idle"} : pc' = [pc EXCEPT ![r] = s]
        /\ UNCHANGED <<now, task, enqueued, saw, sends, open, follow_ups, arrived,
                       controls, aborts, reviewed, claimed, excused>>
    BY <1>6 DEF SaveTriage, SaveBeliefs, SaveNextAction, ClearFollowUpWindow, GoTo,
                AfterNoSend, Stage
  <2>5. Scalars' /\ Busy'
    BY <1>0, <2>4 DEF Scalars, Busy
  <2> QED
    BY <1>s, <2>3, <2>5
<1>7. ASSUME NEW r \in Reviewer, Decide(r) PROVE TypeInv'
  <2>1. GoodRecords' /\ CopyType'
    BY <1>7, RecordsFrame DEF Decide
  <2>2. /\ pc[r] # "idle" /\ pc' = [pc EXCEPT ![r] = "next_action"]
        /\ \E b \in BOOLEAN : enqueued' = [enqueued EXCEPT ![r] = b]
        /\ \/ UNCHANGED <<sends, open, follow_ups>>
           \/ \E d \in Draft :
                /\ sends' = sends \cup {<<task[r], d>>}
                /\ open' = open \cup {<<task[r], d>>}
                /\ follow_ups' \in {follow_ups, follow_ups + 1}
        /\ UNCHANGED <<now, task, saw, arrived, controls, aborts, reviewed, claimed,
                       excused>>
    BY <1>7 DEF Decide, GoTo
  <2>3. task[r] \in Key
    BY <1>0, <2>2 DEF Busy
  <2>4. open' \subseteq sends' /\ sends' \subseteq Key \X Draft /\ follow_ups' \in Nat
    BY <1>0, <2>2, <2>3 DEF Scalars
  <2>5. Scalars' /\ Busy'
    BY <1>0, <2>2, <2>4 DEF Scalars, Busy, Stage
  <2> QED
    BY <1>s, <2>1, <2>5
<1>8. ASSUME NEW r \in Reviewer, Complete(r) PROVE TypeInv'
  <2>1. task[r] \in Key /\ GoodRecord(conversation)
    BY <1>0, <1>8 DEF Complete, Busy, GoodRecords
  <2>2. GoodRecord(conversation') /\ copy' = copy
    BY <1>8, <2>1, ClaimUpdates DEF Complete
  <2>3. GoodRecords' /\ CopyType'
    BY <1>0, <2>2 DEF GoodRecords, GoodRecord, RecordOK, HasWindow
  <2>4. Scalars' /\ Busy'
    BY <1>0, <1>8 DEF Complete, Rest, GoTo, Scalars, Busy, Stage
  <2> QED
    BY <1>s, <2>3, <2>4
<1>9. ASSUME NEW r \in Reviewer, Abort(r) PROVE TypeInv'
  <2>1. GoodRecords' /\ CopyType'
    <3>1. copy' = [copy EXCEPT ![r] = NoCopy] /\ conversation' = conversation
      BY <1>9 DEF Abort
    <3>2. \A q \in Process : copy'[q] = copy[q] \/ copy'[q] = NoCopy
      BY <1>0, <3>1
    <3> QED
      BY <1>0, <3>1, <3>2 DEF GoodRecords, GoodRecord, RecordOK, HasWindow
  <2>2. Scalars' /\ Busy'
    BY <1>0, <1>9 DEF Abort, Rest, GoTo, Scalars, Busy, Stage
  <2> QED
    BY <1>s, <2>1, <2>2
<1>10. ASSUME NEW send \in open, Execute(send) PROVE TypeInv'
  <2>1. GoodRecords' /\ CopyType'
    BY <1>10, RecordsFrame DEF Execute
  <2>2. Scalars' /\ Busy'
    BY <1>0, <1>10 DEF Execute, Scalars, Busy, GoTo, Stage
  <2> QED
    BY <1>s, <2>1, <2>2
<1>11. ASSUME LoadAfterDelivery PROVE TypeInv'
  <2>1. GoodRecords' /\ CopyType'
    BY <1>11, LoadGood DEF LoadAfterDelivery
  <2>2. Scalars' /\ Busy'
    BY <1>0, <1>11 DEF LoadAfterDelivery, Scalars, Busy
  <2> QED
    BY <1>s, <2>1, <2>2
<1>12. ASSUME RecordDelivery \/ ConsumeWindow \/ ScheduleFollowUp PROVE TypeInv'
  <2>1. GoodRecord(copy["executor"]) /\ GoodRecord(conversation)
    BY <1>0, <1>12, HandsGood
       DEF RecordDelivery, ConsumeWindow, ScheduleFollowUp, Save, GoodRecords
  <2>2. ASSUME RecordDelivery PROVE GoodRecords' /\ CopyType'
    BY <2>1, <2>2, PlainUpdates, SaveGood DEF RecordDelivery
  <2>3. ASSUME ConsumeWindow PROVE GoodRecords' /\ CopyType'
    <3>1. \/ Save("executor", conversation)
          \/ /\ HasWindow(copy["executor"])
             /\ Save("executor", [copy["executor"] EXCEPT
                                    !.follow_up_attempt_count =
                                      copy["executor"].follow_up_attempt_count + 1,
                                    !.follow_up_due_at = 0,
                                    !.next_action_type = "other"])
      BY <2>3 DEF ConsumeWindow
    <3> QED
      BY <2>1, <3>1, WindowUpdates, SaveGood
  <2>4. ASSUME ScheduleFollowUp PROVE GoodRecords' /\ CopyType'
    <3>1. \/ Save("executor", conversation)
          \/ /\ MayFollowUp(copy["executor"])
             /\ \E d \in FollowUpDelays :
                  Save("executor", [copy["executor"] EXCEPT
                                      !.follow_up_due_at = now + d,
                                      !.next_action_type = "other"])
      BY <2>4 DEF ScheduleFollowUp
    <3>2. \A d \in FollowUpDelays : now + d \in Nat
      BY <1>0 DEF Scalars
    <3> QED
      BY <2>1, <3>1, <3>2, WindowUpdates, SaveGood
  <2>5. Scalars' /\ Busy'
    <3>1. /\ \E s \in Stage : pc' = [pc EXCEPT !["executor"] = s]
          /\ UNCHANGED <<now, task, enqueued, saw, sends, open, follow_ups, arrived,
                         controls, aborts, reviewed, claimed, excused>>
      BY <1>12 DEF RecordDelivery, ConsumeWindow, ScheduleFollowUp, GoTo, Stage
    <3> QED
      BY <1>0, <3>1 DEF Scalars, Busy
  <2> QED
    BY <1>s, <1>12, <2>2, <2>3, <2>4, <2>5
<1>13. ASSUME LoadForOperator PROVE TypeInv'
  <2>1. GoodRecords' /\ CopyType'
    BY <1>13, LoadGood DEF LoadForOperator
  <2>2. Scalars' /\ Busy'
    BY <1>0, <1>13 DEF LoadForOperator, Scalars, Busy, GoTo, Stage
  <2> QED
    BY <1>s, <2>1, <2>2
<1>14. ASSUME Pause \/ Resume PROVE TypeInv'
  <2>1. GoodRecord(copy["operator"])
    BY <1>14, HandsGood DEF Pause, Resume, Save
  <2>2. GoodRecords' /\ CopyType'
    BY <1>14, <2>1, PlainUpdates, SaveGood DEF Pause, Resume
  <2>3. Scalars' /\ Busy'
    BY <1>0, <1>14 DEF Pause, Resume, Scalars, Busy, GoTo, Stage
  <2> QED
    BY <1>s, <2>2, <2>3
<1>15. ASSUME Tick \/ UNCHANGED vars PROVE TypeInv'
  <2>1. GoodRecords' /\ CopyType'
    BY <1>15, RecordsFrame DEF Tick, vars
  <2>2. Scalars' /\ Busy'
    BY <1>0, <1>15 DEF Tick, vars, Scalars, Busy
  <2> QED
    BY <1>s, <2>1, <2>2
<1> QED
  BY <1>1, <1>2, <1>3, <1>4, <1>5, <1>6, <1>7, <1>8, <1>9, <1>10, <1>11, <1>12,
     <1>13, <1>14, <1>15, ReviewCases

\* Every record, stored or in somebody's hands, keeps its type, its claim fields
\* together and its follow-ups within the limit.
THEOREM ReviewTypeCorrect == Spec => []TypeOK
<1>1. Init => TypeInv
  BY ReviewInit
<1>2. TypeInv /\ [Next]_vars => TypeInv'
  BY ReviewTypeStep
<1>3. TypeInv => TypeOK
  BY DEF TypeInv
<1> QED
  BY <1>1, <1>2, <1>3, PTL DEF Spec

-----------------------------------------------------------------------------
(* Exclusiveness.                                                          *)

\* Updates that do not overlap: one process at a time has loaded the record, and
\* what it has loaded is what is stored.
Current ==
    \A p \in Process : copy[p] # NoCopy =>
        /\ copy[p] = conversation
        /\ \A q \in Process : copy[q] # NoCopy => q = p

\* As long as no claim has run out and no operator has stepped in, the stored
\* claim is that of the worker that is busy.
ClaimHeld ==
    ~excused => \A r \in Reviewer : pc[r] # "idle" =>
        /\ conversation.review_claimed_by = r
        /\ conversation.review_claim_trigger_key = task[r]

ExclusiveInv == TypeInv /\ Current /\ ClaimHeld

\* Whoever holds the stored claim keeps every other reviewer out.
LEMMA HeldIsExclusive == ExclusiveInv => ExclusiveReview
BY DEF ExclusiveInv, ClaimHeld, ExclusiveReview

\* A step that writes no record keeps the copies current.
LEMMA CurrentFrame ==
    ASSUME TypeInv, Current, conversation' = conversation,
           \/ copy' = copy
           \/ \E p \in Process : Load(p) /\ UpdatesDontOverlap
           \/ \E p \in Process : copy' = [copy EXCEPT ![p] = NoCopy]
    PROVE  Current'
<1>1. copy \in [Process -> ExternalConversationRecord \cup {NoCopy}]
  BY DEF TypeInv, TypeOK
<1>2. CASE copy' = copy
  BY <1>2 DEF Current
<1>3. ASSUME NEW p \in Process, Load(p), UpdatesDontOverlap PROVE Current'
  <2>1. /\ copy' = [copy EXCEPT ![p] = conversation]
        /\ \A q \in Process : copy[q] = NoCopy
    BY <1>3 DEF Load, Undisturbed
  <2>2. \A q \in Process : copy'[q] = IF q = p THEN conversation ELSE NoCopy
    BY <1>1, <2>1
  <2> QED
    BY <2>2 DEF Current
<1>4. ASSUME NEW p \in Process, copy' = [copy EXCEPT ![p] = NoCopy] PROVE Current'
  <2>1. \A q \in Process : copy'[q] = copy[q] \/ copy'[q] = NoCopy
    BY <1>1, <1>4
  <2> QED
    BY <2>1 DEF Current
<1> QED
  BY <1>2, <1>3, <1>4

\* After a save nobody has the record in hand.
LEMMA CurrentSave ==
    ASSUME TypeInv, Current, NEW p \in Process, NEW c, Save(p, c)
    PROVE  Current' /\ copy[p] = conversation /\ conversation' = c
<1>1. /\ copy[p] # NoCopy /\ copy' = [copy EXCEPT ![p] = NoCopy]
      /\ copy \in [Process -> ExternalConversationRecord \cup {NoCopy}]
      /\ conversation' = c
  BY DEF Save, TypeInv, TypeOK
<1>2. \A q \in Process : copy'[q] = NoCopy
  BY <1>1 DEF Current
<1> QED
  BY <1>1, <1>2 DEF Current

\* A claim that stays as it is remains held by the worker that holds it.
LEMMA HeldFrame ==
    ASSUME ClaimHeld, excused => excused',
           conversation'.review_claimed_by = conversation.review_claimed_by,
           conversation'.review_claim_trigger_key = conversation.review_claim_trigger_key,
           \A r \in Reviewer : pc'[r] # "idle" => pc[r] # "idle" /\ task'[r] = task[r]
    PROVE  ClaimHeld'
BY DEF ClaimHeld

\* The claim fields survive every update that is not about them.
SameClaim(c, d) ==
    /\ c.review_claimed_by = d.review_claimed_by
    /\ c.review_claim_trigger_key = d.review_claim_trigger_key

WriteKeepsClaim(p) == \E c : Save(p, c) /\ SameClaim(c, conversation)

\* No update but those of claims touches the claim fields.
LEMMA UpdatesKeepClaim ==
    ASSUME TypeInv, Current
    PROVE  /\ \A r \in Reviewer :
                SaveTriage(r) \/ SaveBeliefs(r) \/ SaveNextAction(r)
                  \/ ClearFollowUpWindow(r) => WriteKeepsClaim(r)
           /\ Project => WriteKeepsClaim("listener")
           /\ RecordDelivery \/ ConsumeWindow \/ ScheduleFollowUp
                => WriteKeepsClaim("executor")
           /\ Pause \/ Resume => WriteKeepsClaim("operator")
<1>1. \A p \in Process : copy[p] # NoCopy => copy[p] = conversation
  BY DEF Current
<1>2. \A x, y : SameClaim(conversation, conversation)
        /\ SameClaim([conversation EXCEPT !.next_action_type = x], conversation)
        /\ SameClaim([conversation EXCEPT !.follow_up_due_at = x], conversation)
        /\ SameClaim([conversation EXCEPT !.status = x, !.next_action_type = y],
                     conversation)
        /\ SameClaim([conversation EXCEPT !.follow_up_due_at = x,
                                          !.next_action_type = y], conversation)
  BY DEF SameClaim, TypeInv, GoodRecords, GoodRecord, RecordOK,
         ExternalConversationRecord
<1>3. \A x, y, z, e :
        /\ SameClaim([conversation EXCEPT !.last_event_id = e, !.next_action_type = x,
                                          !.follow_up_due_at = y,
                                          !.follow_up_attempt_count = z], conversation)
        /\ SameClaim([conversation EXCEPT !.follow_up_attempt_count = z,
                                          !.follow_up_due_at = y,
                                          !.next_action_type = x], conversation)
  BY DEF SameClaim, TypeInv, GoodRecords, GoodRecord, RecordOK,
         ExternalConversationRecord
<1>4. ASSUME NEW r \in Reviewer,
             SaveTriage(r) \/ SaveBeliefs(r) \/ SaveNextAction(r) \/ ClearFollowUpWindow(r)
      PROVE  WriteKeepsClaim(r)
  <2>1. copy[r] = conversation
    BY <1>1, <1>4, ProcessParts
       DEF SaveTriage, SaveBeliefs, SaveNextAction, ClearFollowUpWindow, Save
  <2>2. \/ Save(r, [copy[r] EXCEPT !.next_action_type = "other"])
        \/ Save(r, copy[r])
        \/ Save(r, [copy[r] EXCEPT !.follow_up_due_at = 0])
    BY <1>4 DEF SaveTriage, SaveBeliefs, SaveNextAction, ClearFollowUpWindow
  <2> QED
    BY <1>2, <2>1, <2>2, Zenon DEF WriteKeepsClaim
<1>5. ASSUME Project PROVE WriteKeepsClaim("listener")
  <2>1. copy["listener"] = conversation
    BY <1>1, <1>5, ProcessParts DEF Project, Save
  <2>2. Save("listener", [copy["listener"] EXCEPT !.last_event_id = arrived,
                                                  !.next_action_type = "review_inbound",
                                                  !.follow_up_due_at = 0,
                                                  !.follow_up_attempt_count = 0])
    BY <1>5 DEF Project
  <2> QED
    BY <1>3, <2>1, <2>2, Zenon DEF WriteKeepsClaim
<1>6. ASSUME RecordDelivery \/ ConsumeWindow \/ ScheduleFollowUp
      PROVE  WriteKeepsClaim("executor")
  <2>1. copy["executor"] = conversation
    BY <1>1, <1>6, ProcessParts DEF RecordDelivery, ConsumeWindow, ScheduleFollowUp, Save
  <2>2. \/ Save("executor", conversation)
        \/ Save("executor", [copy["executor"] EXCEPT !.next_action_type = "other"])
        \/ \E n : Save("executor", [copy["executor"] EXCEPT
                                      !.follow_up_attempt_count = n,
                                      !.follow_up_due_at = 0,
                                      !.next_action_type = "other"])
        \/ \E n : Save("executor", [copy["executor"] EXCEPT
                                      !.follow_up_due_at = n,
                                      !.next_action_type = "other"])
    BY <1>6, Zenon DEF RecordDelivery, ConsumeWindow, ScheduleFollowUp
  <2> QED
    BY <1>2, <1>3, <2>1, <2>2, Zenon DEF WriteKeepsClaim
<1>7. ASSUME Pause \/ Resume PROVE WriteKeepsClaim("operator")
  <2>1. copy["operator"] = conversation
    BY <1>1, <1>7, ProcessParts DEF Pause, Resume, Save
  <2>2. \/ Save("operator", [copy["operator"] EXCEPT !.status = "paused",
                                                     !.next_action_type = "other"])
        \/ Save("operator", [copy["operator"] EXCEPT
                               !.status = "active",
                               !.next_action_type = "review_inbound"])
    BY <1>7 DEF Pause, Resume
  <2> QED
    BY <1>2, <2>1, <2>2, Zenon DEF WriteKeepsClaim
<1> QED
  BY <1>4, <1>5, <1>6, <1>7

\* No step of anybody lets a second worker in while the first one's claim runs.
LEMMA ExclusiveStep ==
    ASSUME UpdatesDontOverlap, TypeInv, Current, ClaimHeld, [Next]_vars
    PROVE  Current' /\ ClaimHeld'
<1> USE ProcessParts DEF review_vars, queue_vars, bound_vars, history_vars
<1>0. Scalars /\ GoodRecords /\ Busy
  BY TypeParts
<1>a. conversation \in ExternalConversationRecord
  BY <1>0 DEF GoodRecords, GoodRecord, RecordOK
<1>p. pc \in [Process -> Stage] /\ task \in [Reviewer -> Key \cup {NoKey}] /\ now \in Nat
  BY <1>0 DEF Scalars
<1>1. ASSUME Receive \/ LoadAfterDelivery \/ LoadForOperator
      PROVE  Current' /\ ClaimHeld'
  <2>1. /\ \E p \in Process : Load(p)
        /\ conversation' = conversation
    BY <1>1 DEF Receive, LoadAfterDelivery, LoadForOperator
  <2>2. /\ excused' = excused /\ task' = task
        /\ \A r \in Reviewer : pc'[r] = pc[r]
    BY <1>1, <1>p DEF Receive, LoadAfterDelivery, LoadForOperator, GoTo
  <2> QED
    BY <2>1, <2>2, CurrentFrame, HeldFrame
<1>u. ASSUME NEW p \in Process, WriteKeepsClaim(p), excused => excused', task' = task,
             \A r \in Reviewer : pc'[r] # "idle" => pc[r] # "idle"
      PROVE  Current' /\ ClaimHeld'
  <2>1. PICK c : Save(p, c) /\ SameClaim(c, conversation)
    BY <1>u DEF WriteKeepsClaim
  <2>2. Current' /\ conversation' = c
    BY <2>1, CurrentSave
  <2> QED
    BY <1>u, <2>1, <2>2, HeldFrame DEF SameClaim
<1>2. ASSUME Project \/ RecordDelivery \/ ConsumeWindow \/ ScheduleFollowUp
               \/ Pause \/ Resume
      PROVE  Current' /\ ClaimHeld'
  <2>1. \E p \in {"listener", "executor", "operator"} :
          WriteKeepsClaim(p) /\ \E s : pc' = [pc EXCEPT ![p] = s]
    <3>1. CASE Project
      BY <3>1, UpdatesKeepClaim, Zenon DEF Project, GoTo
    <3>2. CASE RecordDelivery \/ ConsumeWindow \/ ScheduleFollowUp
      BY <3>2, UpdatesKeepClaim, Zenon DEF RecordDelivery, ConsumeWindow, ScheduleFollowUp, GoTo
    <3>3. CASE Pause \/ Resume
      BY <3>3, UpdatesKeepClaim, Zenon DEF Pause, Resume, GoTo
    <3> QED
      BY <1>2, <3>1, <3>2, <3>3
  <2>2. task' = task /\ (excused => excused')
    <3>1. CASE Project
      BY <3>1 DEF Project
    <3>2. CASE RecordDelivery
      BY <3>2 DEF RecordDelivery
    <3>3. CASE ConsumeWindow
      BY <3>3 DEF ConsumeWindow
    <3>4. CASE ScheduleFollowUp
      BY <3>4 DEF ScheduleFollowUp
    <3>5. CASE Pause
      BY <3>5 DEF Pause
    <3>6. CASE Resume
      BY <3>6 DEF Resume
    <3> QED
      BY <1>2, <3>1, <3>2, <3>3, <3>4, <3>5, <3>6
  <2>3. PICK p \in {"listener", "executor", "operator"} :
          WriteKeepsClaim(p) /\ \E s : pc' = [pc EXCEPT ![p] = s]
    BY <2>1
  <2>4. \A r \in Reviewer : pc'[r] = pc[r]
    BY <1>p, <2>3
  <2> QED
    BY <1>u, <2>2, <2>3, <2>4
<1>3. ASSUME NEW r \in Reviewer, Claim(r) PROVE Current' /\ ClaimHeld'
  <2> DEFINE c == Unclaimed(conversation)
  <2>1. /\ \A p \in Process : copy[p] = NoCopy
        /\ copy' = copy
        /\ excused \/ conversation.review_claimed_by # Nobody => excused'
    <3>1. /\ Undisturbed /\ copy' = copy /\ ~ClaimActive(conversation)
          /\ excused' = \/ excused
                        \/ /\ conversation.review_claimed_by # Nobody
                           /\ conversation.review_claim_expires_at <= now
      BY <1>3 DEF Claim
    <3>2. conversation.review_claim_expires_at \in Nat
      BY <1>a DEF ExternalConversationRecord
    <3>3. \/ conversation.review_claimed_by = Nobody
          \/ conversation.review_claim_expires_at <= now
      BY <1>p, <3>1, <3>2 DEF ClaimActive
    <3>4. \A p \in Process : copy[p] = NoCopy
      BY <3>1 DEF Undisturbed
    <3> QED
      BY <3>1, <3>3, <3>4, Zenon
  <2>2. Current'
    BY <2>1 DEF Current
  <2>3. CASE excused'
    BY <2>2, <2>3 DEF ClaimHeld
  <2>4. CASE ~excused'
    <3>1. \A q \in Reviewer : pc[q] = "idle"
      <4>1. ~excused /\ conversation.review_claimed_by = Nobody
        BY <2>1, <2>4, Zenon
      <4> QED
        BY <4>1, ReviewConstantsOK DEF ClaimHeld
    <3>2. CASE Eligible(c)
      <4>1. c \in ExternalConversationRecord
        BY <1>a, ReviewConstantsOK DEF Unclaimed, ExternalConversationRecord
      <4>2. conversation' = [c EXCEPT !.review_claimed_by = r,
                                      !.review_claim_expires_at = now + ClaimTTL,
                                      !.review_claim_trigger_key = Trigger(c)]
        BY <1>3, <3>2 DEF Claim
      <4>3. /\ pc' = [pc EXCEPT ![r] = "triage"]
            /\ task' = [task EXCEPT ![r] = Trigger(c)]
        BY <1>3, <3>2 DEF Claim, GoTo
      <4> HIDE DEF c
      <4>4. /\ conversation'.review_claimed_by = r
            /\ conversation'.review_claim_trigger_key = Trigger(c)
        BY <4>1, <4>2 DEF ExternalConversationRecord
      <4>5. ClaimHeld'
        BY <1>p, <3>1, <4>3, <4>4 DEF ClaimHeld
      <4> QED
        BY <2>2, <4>5
    <3>3. CASE ~Eligible(c)
      BY <1>3, <2>2, <3>1, <3>3 DEF Claim, ClaimHeld
    <3> QED
      BY <3>2, <3>3
  <2> QED
    BY <2>3, <2>4
<1>4. ASSUME NEW r \in Reviewer, BuildContext(r) \/ LoadForReview(r) \/ Decide(r)
      PROVE  Current' /\ ClaimHeld'
  <2>1. /\ conversation' = conversation /\ excused' = excused /\ task' = task
        /\ copy' = copy \/ Load(r)
        /\ \A q \in Reviewer : pc'[q] # "idle" => pc[q] # "idle"
    BY <1>4, <1>p DEF BuildContext, LoadForReview, Decide, GoTo
  <2> QED
    BY <2>1, CurrentFrame, HeldFrame
<1>5. ASSUME NEW r \in Reviewer,
             SaveTriage(r) \/ SaveBeliefs(r) \/ SaveNextAction(r) \/ ClearFollowUpWindow(r)
      PROVE  Current' /\ ClaimHeld'
  <2>1. WriteKeepsClaim(r)
    BY <1>5, UpdatesKeepClaim
  <2>2. /\ excused' = excused /\ task' = task
        /\ \A q \in Reviewer : pc'[q] # "idle" => pc[q] # "idle"
    BY <1>5, <1>p DEF SaveTriage, SaveBeliefs, SaveNextAction, ClearFollowUpWindow, GoTo
  <2> QED
    BY <1>u, <2>1, <2>2
<1>6. ASSUME NEW r \in Reviewer, Complete(r) PROVE Current' /\ ClaimHeld'
  <2>1. /\ \A p \in Process : copy[p] = NoCopy
        /\ copy' = copy /\ excused' = excused /\ pc[r] # "idle"
        /\ pc' = [pc EXCEPT ![r] = "idle"]
    BY <1>6 DEF Complete, Undisturbed, Rest, GoTo
  <2>2. Current'
    BY <2>1 DEF Current
  <2>3. ~excused => \A q \in Reviewer : pc'[q] = "idle"
    BY <1>p, <2>1 DEF ClaimHeld
  <2> QED
    BY <2>1, <2>2, <2>3 DEF ClaimHeld
<1>7. ASSUME NEW r \in Reviewer, Abort(r) PROVE Current' /\ ClaimHeld'
  <2>1. /\ conversation' = conversation /\ excused' = excused
        /\ copy' = [copy EXCEPT ![r] = NoCopy]
        /\ pc' = [pc EXCEPT ![r] = "idle"] /\ task' = [task EXCEPT ![r] = NoKey]
    BY <1>7 DEF Abort, Rest, GoTo
  <2>2. \A q \in Reviewer : pc'[q] # "idle" => pc[q] # "idle" /\ task'[q] = task[q]
    BY <1>p, <2>1
  <2> QED
    BY <2>1, <2>2, CurrentFrame, HeldFrame
<1>8. ASSUME (\E send \in open : Execute(send)) \/ Tick \/ UNCHANGED vars
      PROVE  Current' /\ ClaimHeld'
  <2>1. /\ conversation' = conversation /\ excused' = excused /\ task' = task
        /\ copy' = copy /\ \A q \in Reviewer : pc'[q] = pc[q]
    BY <1>8, <1>p DEF Execute, Tick, vars, GoTo
  <2> QED
    BY <2>1, CurrentFrame, HeldFrame
<1> QED
  BY <1>1, <1>2, <1>3, <1>4, <1>5, <1>6, <1>7, <1>8, ReviewCases

\* As long as updates do not overlap, no claim has run out and no operator has
\* resumed the conversation, no two workers review it at the same time, whatever
\* dies and whatever arrives in between.
THEOREM ReviewsExclude == ASSUME UpdatesDontOverlap PROVE Spec => []ExclusiveReview
<1>1. Init => ExclusiveInv
  BY ReviewInit, ProcessParts DEF Init, ExclusiveInv, Current, ClaimHeld
<1>2. ExclusiveInv /\ [Next]_vars => ExclusiveInv'
  BY ReviewTypeStep, ExclusiveStep DEF ExclusiveInv
<1>3. ExclusiveInv => ExclusiveReview
  BY HeldIsExclusive
<1> QED
  BY <1>1, <1>2, <1>3, PTL DEF Spec

-----------------------------------------------------------------------------
(* Reviews of the same trigger, and follow-ups.                            *)

\* The trigger the conversation has or, once its window is due, will have.
CurrentKey(c) ==
    IF c.next_action_type = "review_inbound" THEN <<"inbound", c.last_event_id, 0>>
    ELSE IF HasWindow(c)
    THEN <<"follow_up", c.follow_up_due_at, c.follow_up_attempt_count>>
    ELSE NoKey

\* The listener's next event is newer than the one on the record.
EventsInOrder ==
    /\ conversation.last_event_id <= arrived
    /\ pc["listener"] = "project" => conversation.last_event_id < arrived

\* What was claimed was a trigger then: no later than the record and the clock.
ClaimedPast ==
    \A k \in claimed : /\ k[1] = "inbound" => k[2] <= conversation.last_event_id
                       /\ IsFollowUp(k) => k[2] <= now

\* A trigger that was claimed and still stands is claimed now, or it is the one
\* that was completed last.
ClaimedOnce ==
    ~excused =>
      /\ HasWindow(conversation) => conversation.next_action_type = "other"
      /\ CurrentKey(conversation) \in claimed =>
           \/ conversation.review_claim_trigger_key = CurrentKey(conversation)
           \/ /\ conversation.last_completed_review_trigger_key = CurrentKey(conversation)
              /\ conversation.review_claim_trigger_key = NoKey

\* Only the review of a follow-up clears a window.
ClearsOwn == \A r \in Reviewer : pc[r] = "clear_window" => IsFollowUp(task[r])

\* A worker that reviews a follow-up will queue it or clear the window.
Owing(r) ==
    /\ IsFollowUp(task[r])
    /\ \/ pc[r] \in {"triage", "triaged", "review", "propose", "decide", "clear_window"}
       \/ pc[r] = "next_action" /\ ~enqueued[r]
Owed == IF \E r \in Reviewer : Owing(r) THEN 1 ELSE 0

\* The open window has been taken up.
Spent == IF HasWindow(conversation) /\ CurrentKey(conversation) \in claimed THEN 1 ELSE 0

\* Every follow-up since the last inbound event stands for an attempt on the record
\* or for the window that is open, but for the one that was under way then.
Budget ==
    ~excused =>
      follow_ups + Owed <= conversation.follow_up_attempt_count + 1 + Spent

FollowUpInv == EventsInOrder /\ ClaimedPast /\ ClaimedOnce /\ ClearsOwn /\ Budget

\* The fields of the record that triggers are made of.
BookIs(c, event, next, due, count, held, done) ==
    /\ c.last_event_id = event /\ c.next_action_type = next
    /\ c.follow_up_due_at = due /\ c.follow_up_attempt_count = count
    /\ c.review_claim_trigger_key = held
    /\ c.last_completed_review_trigger_key = done

\* d is c but for the next action (and what no trigger depends on).
SameBook(d, c, next) ==
    BookIs(d, c.last_event_id, next, c.follow_up_due_at, c.follow_up_attempt_count,
           c.review_claim_trigger_key, c.last_completed_review_trigger_key)

\* What each update of the record changes.
LEMMA BookUpdates ==
    ASSUME NEW c \in ExternalConversationRecord
    PROVE  /\ SameBook(c, c, c.next_action_type)
           /\ SameBook([c EXCEPT !.next_action_type = "other"], c, "other")
           /\ SameBook([c EXCEPT !.status = "paused", !.next_action_type = "other"],
                       c, "other")
           /\ BookIs([c EXCEPT !.follow_up_due_at = 0], c.last_event_id,
                     c.next_action_type, 0, c.follow_up_attempt_count,
                     c.review_claim_trigger_key, c.last_completed_review_trigger_key)
           /\ \A e : BookIs([c EXCEPT !.last_event_id = e,
                                      !.next_action_type = "review_inbound",
                                      !.follow_up_due_at = 0,
                                      !.follow_up_attempt_count = 0],
                            e, "review_inbound", 0, 0,
                            c.review_claim_trigger_key,
                            c.last_completed_review_trigger_key)
           /\ \A n : BookIs([c EXCEPT !.follow_up_attempt_count = n,
                                      !.follow_up_due_at = 0,
                                      !.next_action_type = "other"],
                            c.last_event_id, "other", 0, n,
                            c.review_claim_trigger_key,
                            c.last_completed_review_trigger_key)
           /\ \A t : BookIs([c EXCEPT !.follow_up_due_at = t,
                                      !.next_action_type = "other"],
                            c.last_event_id, "other", t, c.follow_up_attempt_count,
                            c.review_claim_trigger_key,
                            c.last_completed_review_trigger_key)
BY DEF BookIs, SameBook, ExternalConversationRecord

\* And the claim protocol.
LEMMA BookClaims ==
    ASSUME NEW c \in ExternalConversationRecord
    PROVE  /\ BookIs(Unclaimed(c), c.last_event_id, c.next_action_type,
                     c.follow_up_due_at, c.follow_up_attempt_count, NoKey,
                     c.last_completed_review_trigger_key)
           /\ \A r, n, k :
                BookIs([Unclaimed(c) EXCEPT !.review_claimed_by = r,
                                            !.review_claim_expires_at = n,
                                            !.review_claim_trigger_key = k],
                       c.last_event_id, c.next_action_type, c.follow_up_due_at,
                       c.follow_up_attempt_count, k,
                       c.last_completed_review_trigger_key)
           /\ \A k : BookIs([Unclaimed(c) EXCEPT !.last_completed_review_trigger_key = k],
                            c.last_event_id, c.next_action_type, c.follow_up_due_at,
                            c.follow_up_attempt_count, NoKey, k)
           /\ Unclaimed(c).status = c.status
<1> DEFINE u == Unclaimed(c)
<1>1. /\ u \in ExternalConversationRecord
      /\ BookIs(u, c.last_event_id, c.next_action_type,
                c.follow_up_due_at, c.follow_up_attempt_count, NoKey,
                c.last_completed_review_trigger_key)
      /\ u.status = c.status
  BY DEF Unclaimed, BookIs, ExternalConversationRecord
<1> HIDE DEF u
<1>2. ASSUME NEW r, NEW n, NEW k
      PROVE  BookIs([u EXCEPT !.review_claimed_by = r, !.review_claim_expires_at = n,
                              !.review_claim_trigger_key = k],
                    u.last_event_id, u.next_action_type, u.follow_up_due_at,
                    u.follow_up_attempt_count, k, u.last_completed_review_trigger_key)
  BY <1>1 DEF BookIs, ExternalConversationRecord
<1>3. ASSUME NEW k
      PROVE  BookIs([u EXCEPT !.last_completed_review_trigger_key = k],
                    u.last_event_id, u.next_action_type, u.follow_up_due_at,
                    u.follow_up_attempt_count, u.review_claim_trigger_key, k)
  BY <1>1 DEF BookIs, ExternalConversationRecord
<1> QED
  BY <1>1, <1>2, <1>3 DEF u, BookIs

\* A step that neither claims, completes, opens nor closes anything leaves the
\* triggers and the account of the follow-ups alone.
LEMMA CalmStep ==
    ASSUME TypeInv, TypeInv', FollowUpInv, NEW next \in {conversation.next_action_type, "other"},
           SameBook(conversation', conversation, next),
           claimed' = claimed, excused => excused', follow_ups' = follow_ups, now <= now',
           \A r \in Reviewer : Owing(r)' => Owing(r)
    PROVE  ClaimedPast' /\ ClaimedOnce' /\ Budget'
<1> USE DEF FollowUpInv, SameBook, BookIs
<1>0. /\ now \in Nat /\ now' \in Nat /\ claimed \subseteq Key /\ follow_ups \in Nat
      /\ conversation.follow_up_attempt_count \in Nat
      /\ conversation.last_event_id \in Nat
  BY DEF TypeInv, TypeOK, RecordOK, ExternalConversationRecord
<1>1. ClaimedPast'
  <2>1. \A k \in claimed : k[2] \in Nat
    BY <1>0 DEF Key
  <2> QED
    BY <1>0, <2>1 DEF ClaimedPast
<1>2. ASSUME ~excused'
      PROVE  \/ CurrentKey(conversation') = CurrentKey(conversation)
             \/ CurrentKey(conversation') = NoKey /\ ~HasWindow(conversation)
  BY <1>2 DEF ClaimedOnce, CurrentKey, HasWindow
<1>3. ClaimedOnce'
  BY <1>0, <1>2, NoKeyIsNoKey DEF ClaimedOnce, HasWindow
<1>4. Budget'
  <2> SUFFICES ASSUME ~excused'
               PROVE  follow_ups + Owed' <= conversation.follow_up_attempt_count + 1 + Spent'
    BY DEF Budget
  <2>1. follow_ups + Owed <= conversation.follow_up_attempt_count + 1 + Spent
    BY DEF Budget
  <2>2. Spent' = Spent
    BY <1>0, <1>2, NoKeyIsNoKey DEF Spent, HasWindow
  <2>3. Owed \in {0, 1} /\ Owed' \in {0, 1} /\ Owed' <= Owed
    BY DEF Owed
  <2>4. Spent \in {0, 1}
    BY DEF Spent
  <2> QED
    BY <1>0, <2>1, <2>2, <2>3, <2>4
<1> QED
  BY <1>1, <1>3, <1>4

\* What the record says of the reviewer at work, as long as nothing is excused.
LEMMA SoleReviewer ==
    ASSUME TypeInv, ClaimHeld, ~excused, NEW r \in Reviewer, pc[r] # "idle"
    PROVE  /\ \A q \in Reviewer : Owing(q) => q = r
           /\ Owed = IF Owing(r) THEN 1 ELSE 0
           /\ conversation.review_claim_trigger_key = task[r]
           /\ task[r] \in Key
<1>1. \A q \in Reviewer : pc[q] # "idle" => q = r
  BY DEF ClaimHeld
<1>2. \A q \in Reviewer : Owing(q) => q = r
  BY <1>1 DEF Owing
<1>3. conversation.review_claim_trigger_key = task[r] /\ task[r] \in Key
  BY DEF ClaimHeld, TypeInv, Busy
<1> QED
  BY <1>2, <1>3 DEF Owed

\* New events get newer numbers.
LEMMA EventsStep ==
    ASSUME TypeInv, EventsInOrder, Current, [Next]_vars
    PROVE  EventsInOrder'
<1> USE ProcessParts DEF review_vars, queue_vars, bound_vars, history_vars
<1>0. /\ pc \in [Process -> Stage] /\ arrived \in Nat
      /\ conversation \in ExternalConversationRecord
      /\ conversation.last_event_id \in Nat
  BY DEF TypeInv, TypeOK, RecordOK, ExternalConversationRecord
<1>1. CASE Receive
  BY <1>0, <1>1 DEF Receive, EventsInOrder, GoTo
<1>2. CASE Project
  <2>1. copy["listener"] \in ExternalConversationRecord
    BY <1>2 DEF Project, Save, TypeInv, TypeOK
  <2>2. /\ conversation' = [copy["listener"] EXCEPT !.last_event_id = arrived,
                                     !.next_action_type = "review_inbound",
                                     !.follow_up_due_at = 0,
                                     !.follow_up_attempt_count = 0]
        /\ arrived' = arrived /\ pc' = [pc EXCEPT !["listener"] = "idle"]
    BY <1>2 DEF Project, Save, GoTo
  <2>3. conversation'.last_event_id = arrived
    BY <2>1, <2>2 DEF ExternalConversationRecord
  <2> QED
    BY <1>0, <2>2, <2>3 DEF EventsInOrder
<1>3. ASSUME conversation'.last_event_id = conversation.last_event_id,
             pc'["listener"] = pc["listener"], arrived' = arrived
      PROVE  EventsInOrder'
  BY <1>3 DEF EventsInOrder
<1>c. \A p \in Process : copy[p] # NoCopy => copy[p] = conversation
  BY DEF Current
<1>4. ASSUME NEW r \in Reviewer,
             \/ SaveTriage(r) \/ SaveBeliefs(r) \/ SaveNextAction(r)
             \/ ClearFollowUpWindow(r)
      PROVE  EventsInOrder'
  <2>1. copy[r] = conversation
    BY <1>c, <1>4 DEF SaveTriage, SaveBeliefs, SaveNextAction, ClearFollowUpWindow, Save
  <2>2. /\ \/ conversation' = conversation
           \/ conversation' = [conversation EXCEPT !.next_action_type = "other"]
           \/ conversation' = [conversation EXCEPT !.follow_up_due_at = 0]
        /\ \E s : pc' = [pc EXCEPT ![r] = s]
        /\ arrived' = arrived
    BY <1>4, <2>1, Zenon
       DEF SaveTriage, SaveBeliefs, SaveNextAction, ClearFollowUpWindow, Save, GoTo
  <2>3. conversation'.last_event_id = conversation.last_event_id
    BY <1>0, <2>2 DEF ExternalConversationRecord
  <2>4. pc'["listener"] = pc["listener"]
    BY <1>0, <2>2
  <2> QED
    BY <1>3, <2>2, <2>3, <2>4
<1>5. CASE \E r \in Reviewer : Claim(r) \/ Complete(r)
  <2>1. PICK r \in Reviewer : Claim(r) \/ Complete(r)
    BY <1>5
  <2>2. /\ \/ conversation' = conversation \/ conversation' = Unclaimed(conversation)
           \/ \E n, k : conversation' = [Unclaimed(conversation) EXCEPT
                         !.review_claimed_by = r, !.review_claim_expires_at = n,
                         !.review_claim_trigger_key = k]
           \/ \E k : conversation' = [Unclaimed(conversation) EXCEPT
                         !.last_completed_review_trigger_key = k]
        /\ (pc' = pc) \/ (\E s : pc' = [pc EXCEPT ![r] = s])
        /\ arrived' = arrived
    <3>1. CASE Claim(r)
      BY <3>1, Zenon DEF Claim, GoTo
    <3>2. CASE Complete(r)
      BY <3>2, Zenon DEF Complete, Rest, GoTo
    <3> QED
      BY <2>1, <3>1, <3>2
  <2>3. conversation'.last_event_id = conversation.last_event_id
    <3> DEFINE u == Unclaimed(conversation)
    <3>1. /\ u \in ExternalConversationRecord
          /\ u.last_event_id = conversation.last_event_id
      BY <1>0 DEF Unclaimed, ExternalConversationRecord
    <3> HIDE DEF u
    <3>2. \/ conversation' = conversation \/ conversation' = u
          \/ \E n, k : conversation' = [u EXCEPT !.review_claimed_by = r,
                         !.review_claim_expires_at = n, !.review_claim_trigger_key = k]
          \/ \E k : conversation' = [u EXCEPT !.last_completed_review_trigger_key = k]
      BY <2>2, Zenon DEF u
    <3> QED
      <4>1. CASE \/ conversation' = conversation \/ conversation' = u
        BY <3>1, <4>1
      <4>2. ASSUME NEW n, NEW k,
                   \/ conversation' = [u EXCEPT !.review_claimed_by = r,
                         !.review_claim_expires_at = n, !.review_claim_trigger_key = k]
                   \/ conversation' = [u EXCEPT !.last_completed_review_trigger_key = k]
            PROVE  conversation'.last_event_id = conversation.last_event_id
        BY <3>1, <4>2 DEF ExternalConversationRecord
      <4> QED
        BY <3>2, <4>1, <4>2
  <2>4. pc'["listener"] = pc["listener"]
    BY <1>0, <2>2
  <2> QED
    BY <1>3, <2>2, <2>3, <2>4
<1>6. CASE RecordDelivery \/ ConsumeWindow \/ ScheduleFollowUp \/ Pause \/ Resume
  <2>1. \E p \in {"executor", "operator"} :
          /\ copy[p] # NoCopy
          /\ \/ conversation' = conversation
             \/ conversation' = [copy[p] EXCEPT !.next_action_type = "other"]
             \/ conversation' = [copy[p] EXCEPT !.status = "paused",
                                                !.next_action_type = "other"]
             \/ conversation' = [copy[p] EXCEPT !.status = "active",
                                                !.next_action_type = "review_inbound"]
             \/ \E n : conversation' = [copy[p] EXCEPT
                                           !.follow_up_attempt_count = n,
                                           !.follow_up_due_at = 0,
                                           !.next_action_type = "other"]
             \/ \E n : conversation' = [copy[p] EXCEPT
                                           !.follow_up_due_at = n,
                                           !.next_action_type = "other"]
          /\ \E s : pc' = [pc EXCEPT ![p] = s]
          /\ arrived' = arrived
    <3>1. CASE RecordDelivery
      BY <3>1, Zenon DEF RecordDelivery, Save, GoTo
    <3>2. CASE ConsumeWindow
      BY <3>2, Zenon DEF ConsumeWindow, Save, GoTo
    <3>3. CASE ScheduleFollowUp
      BY <3>3, Zenon DEF ScheduleFollowUp, Save, GoTo
    <3>4. CASE Pause
      BY <3>4, Zenon DEF Pause, Save, GoTo
    <3>5. CASE Resume
      BY <3>5, Zenon DEF Resume, Save, GoTo
    <3> QED
      BY <1>6, <3>1, <3>2, <3>3, <3>4, <3>5
  <2>2. conversation'.last_event_id = conversation.last_event_id
    <3>1. PICK p \in {"executor", "operator"} :
          /\ copy[p] # NoCopy
          /\ \/ conversation' = conversation
             \/ conversation' = [copy[p] EXCEPT !.next_action_type = "other"]
             \/ conversation' = [copy[p] EXCEPT !.status = "paused",
                                                !.next_action_type = "other"]
             \/ conversation' = [copy[p] EXCEPT !.status = "active",
                                                !.next_action_type = "review_inbound"]
             \/ \E n : conversation' = [copy[p] EXCEPT
                                           !.follow_up_attempt_count = n,
                                           !.follow_up_due_at = 0,
                                           !.next_action_type = "other"]
             \/ \E n : conversation' = [copy[p] EXCEPT
                                           !.follow_up_due_at = n,
                                           !.next_action_type = "other"]
      BY <2>1
    <3>2. copy[p] = conversation
      BY <1>c, <3>1
    <3> QED
      BY <1>0, <3>1, <3>2 DEF ExternalConversationRecord
  <2>3. pc'["listener"] = pc["listener"]
    BY <1>0, <2>1
  <2>4. arrived' = arrived
    BY <2>1
  <2> QED
    BY <1>3, <2>2, <2>3, <2>4
<1>7. ASSUME NEW r \in Reviewer,
             BuildContext(r) \/ LoadForReview(r) \/ Decide(r) \/ Abort(r)
      PROVE  EventsInOrder'
  <2>1. /\ conversation' = conversation /\ arrived' = arrived
        /\ pc' = pc \/ \E s : pc' = [pc EXCEPT ![r] = s]
    BY <1>7 DEF BuildContext, LoadForReview, Decide, Abort, Rest, GoTo
  <2>2. pc'["listener"] = pc["listener"]
    BY <1>0, <2>1
  <2> QED
    BY <1>3, <2>1, <2>2
<1>8. CASE \/ \E send \in open : Execute(send)
           \/ LoadAfterDelivery \/ LoadForOperator \/ Tick \/ UNCHANGED vars
  <2>1. /\ conversation' = conversation /\ arrived' = arrived
        /\ pc'["listener"] = pc["listener"]
    BY <1>0, <1>8 DEF Execute, LoadAfterDelivery, LoadForOperator, Tick, vars, GoTo
  <2> QED
    BY <1>3, <2>1
<1> QED
  BY <1>1, <1>2, <1>4, <1>5, <1>6, <1>7, <1>8, ReviewCases

\* A worker that clears a window reviews a follow-up.
LEMMA ClearsStep ==
    ASSUME TypeInv, ClearsOwn, [Next]_vars
    PROVE  ClearsOwn'
<1> USE ProcessParts DEF review_vars, queue_vars, bound_vars, history_vars
<1>0. pc \in [Process -> Stage] /\ task \in [Reviewer -> Key \cup {NoKey}]
  BY DEF TypeInv, TypeOK
<1>1. ASSUME NEW r \in Reviewer, NEW s, pc' = [pc EXCEPT ![r] = s], task' = task,
             s = "clear_window" => IsFollowUp(task[r])
      PROVE  ClearsOwn'
  BY <1>0, <1>1 DEF ClearsOwn, IsFollowUp
<1>2. ASSUME NEW r \in Reviewer, SaveTriage(r) PROVE ClearsOwn'
  <2>1. PICK promoted \in BOOLEAN :
          GoTo(r, IF promoted THEN "review" ELSE AfterNoSend(task[r]))
    BY <1>2 DEF SaveTriage
  <2> DEFINE s == IF promoted THEN "review" ELSE AfterNoSend(task[r])
  <2>2. s = "clear_window" => IsFollowUp(task[r])
    BY DEF AfterNoSend
  <2>3. pc' = [pc EXCEPT ![r] = s] /\ task' = task
    BY <1>2, <2>1 DEF SaveTriage, GoTo
  <2> HIDE DEF s
  <2> QED
    BY <1>1, <2>2, <2>3
<1>3. ASSUME NEW r \in Reviewer, SaveNextAction(r) PROVE ClearsOwn'
  <2> DEFINE s == IF enqueued[r] THEN "complete" ELSE AfterNoSend(task[r])
  <2>1. s = "clear_window" => IsFollowUp(task[r])
    BY DEF AfterNoSend
  <2>2. pc' = [pc EXCEPT ![r] = s] /\ task' = task
    BY <1>3 DEF SaveNextAction, GoTo
  <2> HIDE DEF s
  <2> QED
    BY <1>1, <2>1, <2>2
<1>4. ASSUME NEW r \in Reviewer,
             \/ SaveBeliefs(r) \/ ClearFollowUpWindow(r) \/ BuildContext(r)
             \/ Decide(r)
      PROVE  ClearsOwn'
  <2>1. \E s \in {"decide", "complete", "triaged", "propose", "next_action"} :
          pc' = [pc EXCEPT ![r] = s]
    BY <1>4 DEF SaveBeliefs, ClearFollowUpWindow, BuildContext, Decide, GoTo
  <2>2. task' = task
    BY <1>4 DEF SaveBeliefs, ClearFollowUpWindow, BuildContext, Decide
  <2> QED
    BY <1>1, <2>1, <2>2
<1>5. ASSUME NEW r \in Reviewer, Claim(r) \/ Complete(r) \/ Abort(r)
      PROVE  ClearsOwn'
  <2>1. \/ pc' = pc /\ task' = task
        \/ \E s \in {"triage", "idle"} : \E k :
             pc' = [pc EXCEPT ![r] = s] /\ task' = [task EXCEPT ![r] = k]
    <3>1. CASE Claim(r)
      BY <3>1, Zenon DEF Claim, GoTo
    <3>2. CASE Complete(r)
      BY <3>2, Zenon DEF Complete, Rest, GoTo
    <3>3. CASE Abort(r)
      BY <3>3, Zenon DEF Abort, Rest, GoTo
    <3> QED
      BY <1>5, <3>1, <3>2, <3>3
  <2>2. \A q \in Reviewer : pc'[q] = "clear_window" => pc[q] = "clear_window"
                                                     /\ task'[q] = task[q]
    BY <1>0, <2>1
  <2> QED
    BY <2>2 DEF ClearsOwn
<1>6. ASSUME NEW p \in {"listener", "executor", "operator"}, NEW s,
             (pc' = pc) \/ (pc' = [pc EXCEPT ![p] = s]), task' = task
      PROVE  ClearsOwn'
  <2>1. \A q \in Reviewer : pc'[q] = pc[q]
    BY <1>0, <1>6
  <2> QED
    BY <1>6, <2>1 DEF ClearsOwn
<1>7. CASE \/ Receive \/ Project \/ (\E send \in open : Execute(send))
           \/ LoadAfterDelivery \/ RecordDelivery \/ ConsumeWindow \/ ScheduleFollowUp
           \/ LoadForOperator \/ Pause \/ Resume \/ Tick \/ UNCHANGED vars
           \/ \E r \in Reviewer : LoadForReview(r)
  <2>1. \E p \in {"listener", "executor", "operator"} : \E s :
          (pc' = pc) \/ (pc' = [pc EXCEPT ![p] = s])
    BY <1>7, Zenon DEF Receive, Project, Execute, LoadAfterDelivery, RecordDelivery,
       ConsumeWindow, ScheduleFollowUp, LoadForOperator, Pause, Resume, Tick, vars,
       LoadForReview, GoTo
  <2>2. task' = task
    BY <1>7 DEF Receive, Project, Execute, LoadAfterDelivery, RecordDelivery,
       ConsumeWindow, ScheduleFollowUp, LoadForOperator, Pause, Resume, Tick, vars,
       LoadForReview
  <2> QED
    BY <1>6, <2>1, <2>2
<1> QED
  BY <1>2, <1>3, <1>4, <1>5, <1>7, ReviewCases

\* What a claim takes: a trigger of the record that was never claimed, when nobody
\* is at work.
LEMMA ClaimTakesNew ==
    ASSUME TypeInv, ClaimHeld, FollowUpInv, NEW r \in Reviewer, Claim(r), ~excused',
           Eligible(Unclaimed(conversation))
    PROVE  LET k == Trigger(Unclaimed(conversation))
           IN  /\ k = CurrentKey(conversation) /\ k \in Key /\ k \notin claimed
               /\ k[1] = "inbound" => k[2] <= conversation.last_event_id
               /\ IsFollowUp(k) => k[2] <= now /\ HasWindow(conversation)
               /\ HasWindow(conversation) => IsFollowUp(k)
               /\ \A q \in Reviewer : pc[q] = "idle"
<1> DEFINE c == Unclaimed(conversation)
           k == Trigger(c)
<1>0. /\ GoodRecord(conversation) /\ RecordOK(conversation)
      /\ conversation \in ExternalConversationRecord /\ now \in Nat
  BY DEF TypeInv, TypeOK, GoodRecords, RecordOK
<1>1. ~excused /\ conversation.review_claimed_by = Nobody
  <2>1. /\ ~ClaimActive(conversation)
        /\ excused' = \/ excused
                      \/ /\ conversation.review_claimed_by # Nobody
                         /\ conversation.review_claim_expires_at <= now
    BY DEF Claim
  <2>2. conversation.review_claim_expires_at \in Nat
    BY <1>0 DEF ExternalConversationRecord
  <2>3. ~ClaimActive(conversation) =>
          \/ conversation.review_claimed_by = Nobody
          \/ conversation.review_claim_expires_at <= now
    BY <1>0, <2>2 DEF ClaimActive
  <2> QED
    BY <2>1, <2>3, Zenon
<1>2. conversation.review_claim_trigger_key = NoKey
  BY <1>0, <1>1 DEF RecordOK
<1>3. \A q \in Reviewer : pc[q] = "idle"
  BY <1>1, ReviewConstantsOK DEF ClaimHeld
<1>4. /\ BookIs(c, conversation.last_event_id, conversation.next_action_type,
                conversation.follow_up_due_at, conversation.follow_up_attempt_count,
                NoKey, conversation.last_completed_review_trigger_key)
      /\ GoodRecord(c)
  BY <1>0, BookClaims, ClaimUpdates
<1>5. k \in Key /\ k # conversation.last_completed_review_trigger_key /\ k # NoKey
  BY <1>4, TriggerIsKey DEF Eligible, BookIs
<1>6. HasWindow(conversation) => conversation.next_action_type = "other"
  BY <1>1 DEF FollowUpInv, ClaimedOnce
<1> HIDE DEF c
<1>7. /\ k = CurrentKey(conversation)
      /\ k[1] = "inbound" => k[2] <= conversation.last_event_id
      /\ IsFollowUp(k) => k[2] <= now /\ HasWindow(conversation)
      /\ HasWindow(conversation) => IsFollowUp(k)
  <2>1. conversation.last_event_id \in Nat /\ conversation.follow_up_due_at \in Nat
    BY <1>0 DEF ExternalConversationRecord
  <2>2. \/ c.next_action_type = "review_inbound" /\ c.last_event_id # 0
        \/ HasWindow(c) /\ c.follow_up_due_at <= now
    BY <1>5 DEF Trigger
  <2>3. CASE c.next_action_type = "review_inbound"
    <3>1. ~HasWindow(conversation) /\ ~HasWindow(c)
      BY <1>4, <1>6, <2>3 DEF BookIs, HasWindow
    <3>2. k = <<"inbound", conversation.last_event_id, 0>>
      BY <1>4, <1>5, <2>2, <2>3, <3>1 DEF Trigger, BookIs
    <3>3. CurrentKey(conversation) = <<"inbound", conversation.last_event_id, 0>>
      BY <1>4, <2>3 DEF CurrentKey, BookIs
    <3> HIDE DEF k
    <3> QED
      BY <2>1, <3>1, <3>2, <3>3 DEF IsFollowUp
  <2>4. CASE c.next_action_type # "review_inbound"
    <3>1. HasWindow(conversation) /\ c.follow_up_due_at <= now
      BY <1>4, <2>2, <2>4 DEF BookIs, HasWindow
    <3>2. k = <<"follow_up", conversation.follow_up_due_at,
                conversation.follow_up_attempt_count>>
      BY <1>4, <1>5, <2>4 DEF Trigger, BookIs
    <3>3. CurrentKey(conversation) = k
      BY <1>4, <2>4, <3>1, <3>2 DEF CurrentKey, BookIs
    <3>4. conversation.follow_up_due_at <= now
      BY <1>4, <3>1 DEF BookIs
    <3> HIDE DEF k
    <3> QED
      BY <3>1, <3>2, <3>3, <3>4 DEF IsFollowUp
  <2> QED
    BY <2>3, <2>4
<1> HIDE DEF k
<1>8. k \notin claimed
  BY <1>1, <1>2, <1>5, <1>7 DEF FollowUpInv, ClaimedOnce
<1> QED
  BY <1>3, <1>5, <1>7, <1>8 DEF k, c

\* The triggers and the account, apart from the order of events.
Accounts == ClaimedPast /\ ClaimedOnce /\ Budget

\* A claim takes a trigger up for the first time.
LEMMA ClaimAccounts ==
    ASSUME TypeInv, TypeInv', ClaimHeld, FollowUpInv, NEW r \in Reviewer, Claim(r)
    PROVE  Accounts'
<1> DEFINE c == Unclaimed(conversation)
<1>0. /\ conversation \in ExternalConversationRecord /\ now \in Nat /\ now' = now
      /\ claimed \subseteq Key /\ follow_ups' = follow_ups /\ follow_ups \in Nat
      /\ conversation.follow_up_attempt_count \in Nat
      /\ pc \in [Process -> Stage] /\ task \in [Reviewer -> Key \cup {NoKey}]
      /\ conversation.last_event_id \in Nat /\ enqueued' = enqueued
  BY DEF Claim, queue_vars, TypeInv, TypeOK, RecordOK, ExternalConversationRecord
<1>1. CASE Eligible(c)
  <2> DEFINE k == Trigger(c)
  <2>1. /\ conversation' = [c EXCEPT !.review_claimed_by = r,
                                     !.review_claim_expires_at = now + ClaimTTL,
                                     !.review_claim_trigger_key = k]
        /\ task' = [task EXCEPT ![r] = k] /\ claimed' = claimed \cup {k}
        /\ pc' = [pc EXCEPT ![r] = "triage"]
    BY <1>1 DEF Claim, GoTo
  <2>2. BookIs(conversation', conversation.last_event_id, conversation.next_action_type,
               conversation.follow_up_due_at, conversation.follow_up_attempt_count, k,
               conversation.last_completed_review_trigger_key)
    BY <1>0, <2>1, BookClaims
  <2>3. k \in Key
    BY <1>0, <1>1, BookClaims, ClaimUpdates, TriggerIsKey DEF Eligible, TypeInv, GoodRecords
  <2>4. /\ k[1] = "inbound" => k[2] <= conversation.last_event_id
        /\ IsFollowUp(k) => k[2] <= now
    <3>1. BookIs(c, conversation.last_event_id, conversation.next_action_type,
                conversation.follow_up_due_at, conversation.follow_up_attempt_count,
                NoKey, conversation.last_completed_review_trigger_key)
      BY <1>0, BookClaims
    <3>2. k # NoKey
      BY <1>1 DEF Eligible
    <3> HIDE DEF c
    <3>3. \/ k = <<"inbound", c.last_event_id, 0>>
          \/ /\ k = <<"follow_up", c.follow_up_due_at, c.follow_up_attempt_count>>
             /\ c.follow_up_due_at <= now
      BY <3>2 DEF Trigger
    <3> HIDE DEF k
    <3> QED
      BY <1>0, <3>1, <3>3 DEF BookIs, IsFollowUp
  <2>5. ClaimedPast'
    BY <1>0, <2>1, <2>2, <2>4 DEF FollowUpInv, ClaimedPast, BookIs
  <2>6. CASE excused'
    BY <2>5, <2>6 DEF Accounts, ClaimedOnce, Budget
  <2>7. CASE ~excused'
    <3>1. /\ k = CurrentKey(conversation) /\ k \notin claimed
          /\ HasWindow(conversation) <=> IsFollowUp(k)
          /\ \A q \in Reviewer : pc[q] = "idle"
      BY <1>1, <2>7, ClaimTakesNew
    <3>e. ~excused
      BY <2>7 DEF Claim
    <3> HIDE DEF c, k
    <3>2. /\ CurrentKey(conversation') = k
          /\ HasWindow(conversation') = HasWindow(conversation)
          /\ conversation'.review_claim_trigger_key = k
          /\ conversation'.next_action_type = conversation.next_action_type
          /\ conversation'.follow_up_attempt_count = conversation.follow_up_attempt_count
      BY <2>2, <3>1 DEF BookIs, CurrentKey, HasWindow
    <3>3. ClaimedOnce'
      BY <3>2, <3>e DEF FollowUpInv, ClaimedOnce
    <3>4. follow_ups + Owed <= conversation.follow_up_attempt_count + 1 + Spent
      BY <3>e DEF FollowUpInv, Budget
    <3>5. Owed = 0 /\ Spent = 0
      BY <3>1 DEF Owed, Owing, Spent
    <3>6. Owed' <= Spent' /\ Owed' \in {0, 1} /\ Spent' \in {0, 1}
      <4>1. \A q \in Reviewer : Owing(q)' => IsFollowUp(k)
        BY <1>0, <2>1, <3>1 DEF Owing
      <4>2. Owed' \in {0, 1} /\ Spent' \in {0, 1}
        BY DEF Owed, Spent
      <4>3. IsFollowUp(k) => Spent' = 1
        BY <2>1, <3>1, <3>2 DEF Spent
      <4>4. ~IsFollowUp(k) => Owed' = 0
        BY <4>1 DEF Owed
      <4> QED
        BY <4>2, <4>3, <4>4
    <3>7. Budget'
      BY <1>0, <3>2, <3>4, <3>5, <3>6 DEF Budget
    <3> QED
      BY <2>5, <3>3, <3>7 DEF Accounts
  <2> QED
    BY <2>6, <2>7
<1>2. CASE ~Eligible(c)
  <2>1. /\ conversation' = c /\ UNCHANGED <<task, claimed, pc>>
        /\ conversation.review_claimed_by # Nobody
        /\ excused' = \/ excused
                      \/ /\ conversation.review_claimed_by # Nobody
                         /\ conversation.review_claim_expires_at <= now
        /\ ~ClaimActive(conversation)
    BY <1>2 DEF Claim
  <2>2. excused'
    <3>1. conversation.review_claim_expires_at \in Nat
      BY <1>0 DEF ExternalConversationRecord
    <3>2. ~ClaimActive(conversation) =>
            \/ conversation.review_claimed_by = Nobody
            \/ conversation.review_claim_expires_at <= now
      BY <1>0, <3>1 DEF ClaimActive
    <3> QED
      BY <2>1, <3>2, Zenon
  <2>3. conversation'.last_event_id = conversation.last_event_id
    BY <1>0, <2>1, BookClaims DEF BookIs
  <2>4. ClaimedPast'
    BY <1>0, <2>1, <2>3 DEF FollowUpInv, ClaimedPast
  <2> QED
    BY <2>2, <2>4 DEF Accounts, ClaimedOnce, Budget
<1> QED
  BY <1>1, <1>2

\* The completion of a review puts its trigger among those that are done.
LEMMA CompleteAccounts ==
    ASSUME TypeInv, TypeInv', ClaimHeld, FollowUpInv, NEW r \in Reviewer, Complete(r)
    PROVE  Accounts'
<1>0. /\ conversation \in ExternalConversationRecord /\ now \in Nat /\ now' = now
      /\ claimed' = claimed /\ follow_ups' = follow_ups /\ follow_ups \in Nat
      /\ conversation.follow_up_attempt_count \in Nat /\ excused' = excused
      /\ pc \in [Process -> Stage] /\ pc[r] = "complete"
      /\ pc' = [pc EXCEPT ![r] = "idle"] /\ task' = [task EXCEPT ![r] = NoKey]
  BY DEF Complete, Rest, GoTo, queue_vars, TypeInv, TypeOK, RecordOK,
         ExternalConversationRecord
<1>1. \/ conversation' = conversation
      \/ BookIs(conversation', conversation.last_event_id,
                conversation.next_action_type, conversation.follow_up_due_at,
                conversation.follow_up_attempt_count, NoKey, task[r])
  BY <1>0, BookClaims, Zenon DEF Complete
<1>2. ClaimedPast'
  BY <1>0, <1>1 DEF FollowUpInv, ClaimedPast, BookIs
<1>3. CASE excused
  BY <1>0, <1>2, <1>3 DEF Accounts, ClaimedOnce, Budget
<1>4. CASE ~excused
  <2>1. /\ conversation.review_claim_trigger_key = task[r] /\ task[r] \in Key
        /\ Owed = 0 /\ \A q \in Reviewer : pc[q] # "idle" => q = r
    <3>1. ~Owing(r)
      BY <1>0 DEF Owing
    <3> QED
      BY <1>0, <1>4, <3>1, SoleReviewer DEF ClaimHeld
  <2>2. BookIs(conversation', conversation.last_event_id,
               conversation.next_action_type, conversation.follow_up_due_at,
               conversation.follow_up_attempt_count, NoKey, task[r])
    BY <1>0, <2>1, BookClaims, Zenon DEF Complete
  <2>3. /\ CurrentKey(conversation') = CurrentKey(conversation)
        /\ HasWindow(conversation') = HasWindow(conversation)
    BY <2>2 DEF BookIs, CurrentKey, HasWindow
  <2>4. ClaimedOnce'
    BY <1>0, <1>4, <2>1, <2>2, <2>3, NoKeyIsNoKey DEF FollowUpInv, ClaimedOnce, BookIs
  <2>5. Owed' = 0
    <3>1. \A q \in Reviewer : ~Owing(q)'
      BY <1>0, <2>1, ProcessParts DEF Owing
    <3> QED
      BY <3>1 DEF Owed
  <2>6. Spent' = Spent /\ Spent \in {0, 1}
    BY <1>0, <2>3 DEF Spent
  <2>7. Budget'
    BY <1>0, <1>4, <2>1, <2>2, <2>5, <2>6 DEF FollowUpInv, Budget, BookIs
  <2> QED
    BY <1>2, <2>4, <2>7 DEF Accounts
<1> QED
  BY <1>3, <1>4

\* A review of a follow-up that queues nothing closes the window.
LEMMA ClearAccounts ==
    ASSUME TypeInv, TypeInv', Current, ClaimHeld, FollowUpInv, NEW r \in Reviewer,
           ClearFollowUpWindow(r)
    PROVE  Accounts'
<1>0. /\ conversation \in ExternalConversationRecord /\ now \in Nat /\ now' = now
      /\ claimed' = claimed /\ follow_ups' = follow_ups /\ follow_ups \in Nat
      /\ conversation.follow_up_attempt_count \in Nat /\ excused' = excused
      /\ pc \in [Process -> Stage] /\ pc[r] = "clear_window" /\ claimed \subseteq Key
      /\ pc' = [pc EXCEPT ![r] = "complete"] /\ task' = task /\ enqueued' = enqueued
  BY DEF ClearFollowUpWindow, GoTo, review_vars, queue_vars, history_vars, TypeInv,
         TypeOK, RecordOK, ExternalConversationRecord
<1>1. BookIs(conversation', conversation.last_event_id, conversation.next_action_type,
             0, conversation.follow_up_attempt_count,
             conversation.review_claim_trigger_key,
             conversation.last_completed_review_trigger_key)
  <2>1. conversation' = [conversation EXCEPT !.follow_up_due_at = 0]
    BY ProcessParts, Zenon DEF ClearFollowUpWindow, Save, Current
  <2> QED
    BY <1>0, <2>1, BookUpdates
<1>2. ClaimedPast'
  BY <1>0, <1>1 DEF FollowUpInv, ClaimedPast, BookIs
<1>3. CASE excused
  BY <1>0, <1>2, <1>3 DEF Accounts, ClaimedOnce, Budget
<1>4. CASE ~excused
  <2>1. Owing(r) /\ Owed = 1 /\ \A q \in Reviewer : Owing(q) => q = r
    <3>1. Owing(r)
      BY <1>0 DEF FollowUpInv, ClearsOwn, Owing
    <3> QED
      BY <1>0, <1>4, <3>1, SoleReviewer
  <2>2. /\ ~HasWindow(conversation')
        /\ \/ CurrentKey(conversation') = NoKey
           \/ CurrentKey(conversation') = CurrentKey(conversation)
    BY <1>1 DEF BookIs, CurrentKey, HasWindow
  <2>3. ClaimedOnce'
    BY <1>0, <1>1, <1>4, <2>2, NoKeyIsNoKey DEF FollowUpInv, ClaimedOnce, BookIs
  <2>4. Owed' = 0
    <3>1. /\ \A q \in Reviewer : q # r => pc'[q] = pc[q]
          /\ pc'[r] = "complete"
      BY <1>0, ProcessParts
    <3>2. \A q \in Reviewer : ~Owing(q)'
      BY <1>0, <2>1, <3>1 DEF Owing
    <3> QED
      BY <3>2 DEF Owed
  <2>5. Spent' = 0 /\ Spent \in {0, 1}
    BY <2>2 DEF Spent
  <2>6. Budget'
    BY <1>0, <1>1, <1>4, <2>1, <2>4, <2>5 DEF FollowUpInv, Budget, BookIs
  <2> QED
    BY <1>2, <2>3, <2>6 DEF Accounts
<1> QED
  BY <1>3, <1>4

\* A review that queues its reply has spent what it owed.
LEMMA DecideAccounts ==
    ASSUME TypeInv, TypeInv', ClaimHeld, FollowUpInv, NEW r \in Reviewer, Decide(r)
    PROVE  Accounts'
<1>0. /\ conversation \in ExternalConversationRecord /\ now \in Nat /\ now' = now
      /\ claimed' = claimed /\ follow_ups \in Nat
      /\ conversation' = conversation
      /\ conversation.follow_up_attempt_count \in Nat /\ excused' = excused
      /\ pc \in [Process -> Stage] /\ pc[r] = "decide" /\ claimed \subseteq Key
      /\ pc' = [pc EXCEPT ![r] = "next_action"] /\ task' = task
      /\ enqueued \in [Reviewer -> BOOLEAN]
      /\ \E b \in BOOLEAN : enqueued' = [enqueued EXCEPT ![r] = b]
  BY DEF Decide, GoTo, history_vars, TypeInv, TypeOK, RecordOK,
         ExternalConversationRecord
<1>1. \A q \in Reviewer : Owing(q)' => Owing(q)
  <2>1. \A q \in Reviewer : q # r => pc'[q] = pc[q] /\ enqueued'[q] = enqueued[q]
    BY <1>0
  <2>2. \A q \in Reviewer : q # r => (Owing(q)' <=> Owing(q))
    BY <1>0, <2>1 DEF Owing
  <2>3. Owing(r)' => Owing(r)
    BY <1>0 DEF Owing
  <2> QED
    BY <2>2, <2>3
<1>2. SameBook(conversation', conversation, conversation.next_action_type)
  BY <1>0, BookUpdates
<1>3. CASE follow_ups' = follow_ups
  BY <1>0, <1>1, <1>2, <1>3, CalmStep DEF Accounts
<1>4. CASE excused
  BY <1>0, <1>4 DEF Accounts, FollowUpInv, ClaimedPast, ClaimedOnce, Budget
<1>5. CASE ~excused /\ follow_ups' # follow_ups
  <2>1. /\ follow_ups' = follow_ups + 1 /\ IsFollowUp(task[r])
        /\ enqueued' = [enqueued EXCEPT ![r] = TRUE]
    BY <1>5 DEF Decide, queue_vars
  <2>2. Owing(r)
    BY <1>0, <2>1 DEF Owing
  <2>3. Owed = 1 /\ \A q \in Reviewer : Owing(q) => q = r
    BY <1>0, <1>5, <2>2, SoleReviewer
  <2>4. Owed' = 0
    <3>1. ~Owing(r)'
      BY <1>0, <2>1, ProcessParts DEF Owing
    <3>2. \A q \in Reviewer : ~Owing(q)'
      BY <1>1, <2>3, <3>1
    <3> QED
      BY <3>2 DEF Owed
  <2>5. Spent' = Spent /\ Spent \in {0, 1}
    BY <1>0 DEF Spent
  <2>6. Budget'
    BY <1>0, <1>5, <2>1, <2>3, <2>4, <2>5 DEF FollowUpInv, Budget
  <2>7. ClaimedPast' /\ ClaimedOnce'
    BY <1>0 DEF FollowUpInv, ClaimedPast, ClaimedOnce
  <2> QED
    BY <2>6, <2>7 DEF Accounts
<1> QED
  BY <1>3, <1>4, <1>5

\* An inbound event is a new trigger and starts a new account.
LEMMA ProjectAccounts ==
    ASSUME TypeInv, TypeInv', Current, FollowUpInv, Project
    PROVE  Accounts'
<1>0. /\ conversation \in ExternalConversationRecord /\ now \in Nat /\ now' = now
      /\ claimed' = claimed /\ follow_ups' = 0 /\ claimed \subseteq Key
      /\ arrived \in Nat /\ conversation.last_event_id \in Nat
      /\ conversation.last_event_id < arrived
  BY DEF Project, history_vars, TypeInv, TypeOK, RecordOK, FollowUpInv, EventsInOrder,
         ExternalConversationRecord
<1>1. BookIs(conversation', arrived, "review_inbound", 0, 0,
             conversation.review_claim_trigger_key,
             conversation.last_completed_review_trigger_key)
  <2>1. conversation' = [conversation EXCEPT !.last_event_id = arrived,
                                             !.next_action_type = "review_inbound",
                                             !.follow_up_due_at = 0,
                                             !.follow_up_attempt_count = 0]
    BY ProcessParts, Zenon DEF Project, Save, Current
  <2> QED
    BY <1>0, <2>1, BookUpdates
<1>2. \A k \in claimed : k[2] \in Nat
  BY <1>0 DEF Key
<1>3. ClaimedPast'
  BY <1>0, <1>1, <1>2 DEF FollowUpInv, ClaimedPast, BookIs
<1>4. CurrentKey(conversation') = <<"inbound", arrived, 0>> /\ ~HasWindow(conversation')
  BY <1>1 DEF BookIs, CurrentKey, HasWindow
<1>5. <<"inbound", arrived, 0>> \notin claimed
  BY <1>0 DEF FollowUpInv, ClaimedPast
<1>6. ClaimedOnce'
  BY <1>0, <1>4, <1>5 DEF ClaimedOnce
<1>7. Owed' \in {0, 1} /\ Spent' \in {0, 1}
  BY DEF Owed, Spent
<1>8. Budget'
  BY <1>0, <1>1, <1>7 DEF Budget, BookIs
<1> QED
  BY <1>3, <1>6, <1>8 DEF Accounts

\* A consumed window is an attempt on the record.
LEMMA ConsumeAccounts ==
    ASSUME TypeInv, TypeInv', Current, FollowUpInv, ConsumeWindow
    PROVE  Accounts'
<1>0. /\ conversation \in ExternalConversationRecord /\ now \in Nat /\ now' = now
      /\ claimed' = claimed /\ follow_ups' = follow_ups /\ follow_ups \in Nat
      /\ conversation.follow_up_attempt_count \in Nat /\ excused' = excused
      /\ pc \in [Process -> Stage] /\ claimed \subseteq Key
      /\ pc' = [pc EXCEPT !["executor"] = "schedule"]
      /\ task' = task /\ enqueued' = enqueued /\ copy["executor"] = conversation
  BY ProcessParts DEF ConsumeWindow, GoTo, review_vars, queue_vars, history_vars,
         Current, TypeInv, TypeOK, RecordOK, ExternalConversationRecord
<1>1. \A r \in Reviewer : Owing(r)' = Owing(r)
  BY <1>0, ProcessParts DEF Owing
<1>2. CASE ~HasWindow(conversation)
  <2>1. conversation' = conversation
    BY <1>0, <1>2 DEF ConsumeWindow, Save
  <2>2. SameBook(conversation', conversation, conversation.next_action_type)
    BY <1>0, <2>1, BookUpdates
  <2> QED
    BY <1>0, <1>1, <2>2, CalmStep DEF Accounts
<1>3. CASE HasWindow(conversation)
  <2>1. BookIs(conversation', conversation.last_event_id, "other", 0,
               conversation.follow_up_attempt_count + 1,
               conversation.review_claim_trigger_key,
               conversation.last_completed_review_trigger_key)
    <3>1. conversation' = [conversation EXCEPT
                             !.follow_up_attempt_count =
                               conversation.follow_up_attempt_count + 1,
                             !.follow_up_due_at = 0,
                             !.next_action_type = "other"]
      BY <1>0, <1>3 DEF ConsumeWindow, Save
    <3> QED
      BY <1>0, <3>1, BookUpdates
  <2>2. ClaimedPast'
    BY <1>0, <2>1 DEF FollowUpInv, ClaimedPast, BookIs
  <2>3. CurrentKey(conversation') = NoKey /\ ~HasWindow(conversation')
    BY <2>1 DEF BookIs, CurrentKey, HasWindow
  <2>4. ClaimedOnce'
    BY <1>0, <2>3, NoKeyIsNoKey DEF ClaimedOnce
  <2>5. Owed' = Owed /\ Owed \in {0, 1} /\ Spent \in {0, 1} /\ Spent' = 0
    BY <1>1, <2>3 DEF Owed, Spent
  <2>6. Budget'
    BY <1>0, <2>1, <2>5 DEF FollowUpInv, Budget, BookIs
  <2> QED
    BY <2>2, <2>4, <2>6 DEF Accounts
<1> QED
  BY <1>2, <1>3

\* A new window is due in the future: its trigger was never claimed.
LEMMA ScheduleAccounts ==
    ASSUME TypeInv, TypeInv', Current, FollowUpInv, ScheduleFollowUp
    PROVE  Accounts'
<1>0. /\ conversation \in ExternalConversationRecord /\ now \in Nat /\ now' = now
      /\ claimed' = claimed /\ follow_ups' = follow_ups /\ follow_ups \in Nat
      /\ conversation.follow_up_attempt_count \in Nat /\ excused' = excused
      /\ pc \in [Process -> Stage] /\ claimed \subseteq Key
      /\ pc' = [pc EXCEPT !["executor"] = "idle"]
      /\ task' = task /\ enqueued' = enqueued /\ copy["executor"] = conversation
  <2>1. /\ conversation \in ExternalConversationRecord /\ now \in Nat
        /\ follow_ups \in Nat /\ conversation.follow_up_attempt_count \in Nat
        /\ pc \in [Process -> Stage] /\ claimed \subseteq Key
    BY DEF TypeInv, TypeOK, RecordOK, ExternalConversationRecord
  <2>2. /\ now' = now /\ claimed' = claimed /\ follow_ups' = follow_ups
        /\ excused' = excused /\ pc' = [pc EXCEPT !["executor"] = "idle"]
        /\ task' = task /\ enqueued' = enqueued
    BY DEF ScheduleFollowUp, GoTo, review_vars, queue_vars, history_vars
  <2>3. copy["executor"] = conversation
    BY ProcessParts DEF ScheduleFollowUp, Current
  <2> QED
    BY <2>1, <2>2, <2>3
<1>1. \A r \in Reviewer : Owing(r)' = Owing(r)
  BY <1>0, ProcessParts DEF Owing
<1>2. CASE ~MayFollowUp(conversation)
  <2>1. conversation' = conversation
    BY <1>0, <1>2 DEF ScheduleFollowUp, Save
  <2>2. SameBook(conversation', conversation, conversation.next_action_type)
    BY <1>0, <2>1, BookUpdates
  <2> QED
    BY <1>0, <1>1, <2>2, CalmStep DEF Accounts
<1>3. CASE MayFollowUp(conversation)
  <2>1. PICK d \in FollowUpDelays :
          conversation' = [conversation EXCEPT !.follow_up_due_at = now + d,
                                               !.next_action_type = "other"]
    BY <1>0, <1>3 DEF ScheduleFollowUp, Save
  <2> DEFINE due == now + d
  <2>2. due \in Nat /\ due > now
    BY <1>0, ReviewConstantsOK
  <2>3. conversation' = [conversation EXCEPT !.follow_up_due_at = due,
                                             !.next_action_type = "other"]
    BY <2>1
  <2> HIDE DEF due
  <2>4. BookIs(conversation', conversation.last_event_id, "other", due,
               conversation.follow_up_attempt_count,
               conversation.review_claim_trigger_key,
               conversation.last_completed_review_trigger_key)
    BY <1>0, <2>3, BookUpdates
  <2>5. ClaimedPast'
    BY <1>0, <2>4 DEF FollowUpInv, ClaimedPast, BookIs
  <2>6. /\ CurrentKey(conversation') =
             <<"follow_up", due, conversation.follow_up_attempt_count>>
        /\ HasWindow(conversation')
    BY <1>0, <2>2, <2>4 DEF BookIs, CurrentKey, HasWindow
  <2>7. <<"follow_up", due, conversation.follow_up_attempt_count>> \notin claimed
    BY <1>0, <2>2 DEF FollowUpInv, ClaimedPast, IsFollowUp
  <2>8. ClaimedOnce'
    BY <1>0, <2>4, <2>6, <2>7 DEF ClaimedOnce, BookIs
  <2>9. Owed' = Owed /\ Owed \in {0, 1} /\ Spent = 0 /\ Spent' = 0
    BY <1>0, <1>1, <1>3, <2>6, <2>7 DEF Owed, Spent, MayFollowUp
  <2>10. Budget'
    BY <1>0, <2>4, <2>9 DEF FollowUpInv, Budget, BookIs
  <2> QED
    BY <2>5, <2>8, <2>10 DEF Accounts
<1> QED
  BY <1>2, <1>3

\* Whoever resumes a conversation asks for another review, and excuses it.
LEMMA ResumeAccounts ==
    ASSUME TypeInv, Current, FollowUpInv, Resume
    PROVE  Accounts'
<1>0. conversation \in ExternalConversationRecord
  BY DEF TypeInv, TypeOK, RecordOK
<1>1. conversation' = [conversation EXCEPT !.status = "active",
                                           !.next_action_type = "review_inbound"]
  BY ProcessParts, Zenon DEF Resume, Save, Current
<1>2. /\ conversation'.last_event_id = conversation.last_event_id
      /\ claimed' = claimed /\ now' = now /\ excused'
  BY <1>0, <1>1 DEF Resume, ExternalConversationRecord
<1> QED
  BY <1>2 DEF Accounts, ClaimedOnce, Budget, FollowUpInv, ClaimedPast

\* Everything else is calm.
LEMMA CalmAccounts ==
    ASSUME TypeInv, TypeInv', Current, FollowUpInv,
           \/ Receive \/ LoadAfterDelivery \/ LoadForOperator \/ Tick
           \/ UNCHANGED vars \/ RecordDelivery \/ Pause
           \/ \E send \in open : Execute(send)
           \/ \E r \in Reviewer : \/ BuildContext(r) \/ LoadForReview(r)
                                  \/ SaveTriage(r) \/ SaveBeliefs(r)
                                  \/ SaveNextAction(r) \/ Abort(r)
    PROVE  Accounts'
<1> USE ProcessParts DEF review_vars, queue_vars, bound_vars, history_vars
<1>0. /\ conversation \in ExternalConversationRecord /\ now \in Nat
      /\ pc \in [Process -> Stage] /\ task \in [Reviewer -> Key \cup {NoKey}]
      /\ enqueued \in [Reviewer -> BOOLEAN]
  BY DEF TypeInv, TypeOK, RecordOK
<1>c. \A p \in Process : copy[p] # NoCopy => copy[p] = conversation
  BY DEF Current
<1>b. /\ SameBook(conversation, conversation, conversation.next_action_type)
      /\ SameBook([conversation EXCEPT !.next_action_type = "other"], conversation,
                  "other")
      /\ SameBook([conversation EXCEPT !.status = "paused",
                                       !.next_action_type = "other"], conversation,
                  "other")
  BY <1>0, BookUpdates
<1>1. ASSUME NEW p \in {"listener", "executor", "operator"}, NEW s,
             pc' = [pc EXCEPT ![p] = s], UNCHANGED <<task, enqueued>>
      PROVE  \A r \in Reviewer : Owing(r)' => Owing(r)
  <2>1. \A r \in Reviewer : pc'[r] = pc[r]
    BY <1>0, <1>1
  <2> QED
    BY <1>1, <2>1 DEF Owing
<1>2. ASSUME \/ Receive \/ LoadAfterDelivery \/ LoadForOperator \/ Tick
             \/ UNCHANGED vars \/ \E send \in open : Execute(send)
      PROVE  Accounts'
  <2>1. /\ conversation' = conversation /\ UNCHANGED <<task, enqueued>>
        /\ claimed' = claimed /\ excused' = excused /\ follow_ups' = follow_ups
        /\ now' = now \/ now' = now + 1
    BY <1>2 DEF Receive, LoadAfterDelivery, LoadForOperator, Tick, vars, Execute
  <2>2. \A r \in Reviewer : pc'[r] = pc[r]
    BY <1>0, <1>2 DEF Receive, LoadAfterDelivery, LoadForOperator, Tick, vars, Execute, GoTo
  <2>3. \A r \in Reviewer : Owing(r)' => Owing(r)
    BY <2>1, <2>2 DEF Owing
  <2>4. SameBook(conversation', conversation, conversation.next_action_type)
    BY <1>b, <2>1
  <2>5. now <= now'
    BY <1>0, <2>1
  <2> QED
    BY <2>1, <2>3, <2>4, <2>5, CalmStep DEF Accounts
<1>3. ASSUME RecordDelivery \/ Pause PROVE Accounts'
  <2>1. \/ conversation' = [conversation EXCEPT !.next_action_type = "other"]
        \/ conversation' = [conversation EXCEPT !.status = "paused",
                                                !.next_action_type = "other"]
    <3>1. CASE RecordDelivery
      BY <1>c, <3>1, Zenon DEF RecordDelivery, Save
    <3>2. CASE Pause
      BY <1>c, <3>2, Zenon DEF Pause, Save
    <3> QED
      BY <1>3, <3>1, <3>2
  <2>2. \A r \in Reviewer : pc'[r] = pc[r]
    BY <1>0, <1>3 DEF RecordDelivery, Pause, GoTo
  <2>3. /\ UNCHANGED <<task, enqueued>> /\ now' = now
        /\ claimed' = claimed /\ excused' = excused /\ follow_ups' = follow_ups
    BY <1>3 DEF RecordDelivery, Pause
  <2>4. \A r \in Reviewer : Owing(r)' => Owing(r)
    BY <2>2, <2>3 DEF Owing
  <2>5. SameBook(conversation', conversation, "other")
    BY <1>b, <2>1
  <2>6. now <= now'
    BY <1>0, <2>3
  <2> QED
    BY <2>3, <2>4, <2>5, <2>6, CalmStep DEF Accounts
<1>4. ASSUME NEW r \in Reviewer,
             \/ BuildContext(r) \/ LoadForReview(r) \/ SaveTriage(r) \/ SaveBeliefs(r)
             \/ SaveNextAction(r) \/ Abort(r)
      PROVE  Accounts'
  <2>1. \/ conversation' = conversation
        \/ conversation' = [conversation EXCEPT !.next_action_type = "other"]
    <3>1. CASE BuildContext(r) \/ LoadForReview(r) \/ Abort(r)
      BY <3>1 DEF BuildContext, LoadForReview, Abort
    <3>2. CASE SaveTriage(r) \/ SaveBeliefs(r) \/ SaveNextAction(r)
      BY <1>c, <3>2, Zenon DEF SaveTriage, SaveBeliefs, SaveNextAction, Save
    <3> QED
      BY <1>4, <3>1, <3>2
  <2>2. \/ SameBook(conversation', conversation, conversation.next_action_type)
        \/ SameBook(conversation', conversation, "other")
    BY <1>b, <2>1
  <2>3. /\ now' = now /\ claimed' = claimed /\ excused' = excused
        /\ follow_ups' = follow_ups
    BY <1>4 DEF BuildContext, LoadForReview, SaveTriage, SaveBeliefs, SaveNextAction, Abort
  <2>4. \A q \in Reviewer : q # r => (Owing(q)' <=> Owing(q))
    <3>1. \A q \in Reviewer : q # r => /\ pc'[q] = pc[q] /\ task'[q] = task[q]
                                      /\ enqueued'[q] = enqueued[q]
      BY <1>0, <1>4 DEF BuildContext, LoadForReview, SaveTriage, SaveBeliefs,
                        SaveNextAction, Abort, Rest, GoTo
    <3> QED
      BY <3>1 DEF Owing
  <2>5. Owing(r)' => Owing(r)
    <3>1. CASE SaveNextAction(r)
      <4>1. /\ pc[r] = "next_action" /\ UNCHANGED <<task, enqueued>>
            /\ pc'[r] = IF enqueued[r] THEN "complete" ELSE AfterNoSend(task[r])
        BY <1>0, <3>1 DEF SaveNextAction, GoTo
      <4> QED
        BY <4>1 DEF Owing, AfterNoSend
    <3>2. CASE Abort(r)
      <4>1. pc'[r] = "idle"
        BY <1>0, <3>2 DEF Abort, Rest, GoTo
      <4> QED
        BY <4>1 DEF Owing
    <3>3. CASE BuildContext(r) \/ LoadForReview(r) \/ SaveTriage(r) \/ SaveBeliefs(r)
      <4>1. /\ task' = task
            /\ LoadForReview(r) \/ pc[r] \in {"triage", "triaged", "review", "propose"}
            /\ LoadForReview(r) => pc' = pc /\ enqueued' = enqueued
        BY <3>3 DEF BuildContext, LoadForReview, SaveTriage, SaveBeliefs
      <4> QED
        BY <4>1 DEF Owing
    <3> QED
      BY <1>4, <3>1, <3>2, <3>3
  <2>6. \A q \in Reviewer : Owing(q)' => Owing(q)
    BY <2>4, <2>5
  <2>7. now <= now'
    BY <1>0, <2>3
  <2> QED
    BY <2>2, <2>3, <2>6, <2>7, CalmStep DEF Accounts
<1> QED
  BY <1>2, <1>3, <1>4

\* Every step keeps the account of the follow-ups and of what was claimed.
LEMMA FollowUpStep ==
    ASSUME TypeInv, TypeInv', Current, ClaimHeld, FollowUpInv, [Next]_vars
    PROVE  FollowUpInv'
<1>1. Accounts'
  BY ClaimAccounts, CompleteAccounts, ClearAccounts, DecideAccounts, ProjectAccounts,
     ConsumeAccounts, ScheduleAccounts, ResumeAccounts, CalmAccounts, ReviewCases
<1>2. EventsInOrder' /\ ClearsOwn'
  BY EventsStep, ClearsStep DEF FollowUpInv
<1> QED
  BY <1>1, <1>2 DEF Accounts, FollowUpInv

\* Before the first event nothing was claimed or queued.
LEMMA FollowUpInit == Init => FollowUpInv
<1> SUFFICES ASSUME Init PROVE FollowUpInv
  OBVIOUS
<1> USE ProcessParts
<1>1. EventsInOrder /\ ClaimedPast /\ ClearsOwn
  BY DEF Init, EventsInOrder, ClaimedPast, ClearsOwn
<1>2. ClaimedOnce
  BY DEF Init, ClaimedOnce, HasWindow
<1>3. Owed = 0 /\ Spent = 0
  <2>1. \A r \in Reviewer : ~Owing(r)
    BY DEF Init, Owing
  <2> QED
    BY <2>1 DEF Init, Owed, Spent
<1>4. Budget
  BY <1>3 DEF Init, Budget
<1> QED
  BY <1>1, <1>2, <1>4 DEF FollowUpInv

\* The account and the limit on the record bound the follow-ups.
LEMMA BudgetBounds == TypeInv /\ FollowUpInv => FollowUpsBounded
<1> SUFFICES ASSUME TypeInv, FollowUpInv, ~excused, Origin = "direct_inbound_dm"
             PROVE  follow_ups <= DmFollowUpLimit + 1
  BY DEF FollowUpsBounded
<1>1. /\ conversation.follow_up_attempt_count \in Nat /\ follow_ups \in Nat
      /\ conversation.follow_up_attempt_count <= DmFollowUpLimit
      /\ HasWindow(conversation) =>
           conversation.follow_up_attempt_count < DmFollowUpLimit
  BY DEF TypeInv, TypeOK, RecordOK, GoodRecords, GoodRecord, ExternalConversationRecord
<1>2. follow_ups + Owed <= conversation.follow_up_attempt_count + 1 + Spent
  BY DEF FollowUpInv, Budget
<1>3. Owed \in {0, 1} /\ Spent \in {0, 1} /\ (~HasWindow(conversation) => Spent = 0)
  BY DEF Owed, Spent
<1> QED
  BY <1>1, <1>2, <1>3, ReviewConstantsOK

\* As long as updates do not overlap, no claim has run out and no operator has
\* resumed the conversation, an external person who does not answer is sent the
\* follow-ups the limit allows and at most one more.
THEOREM FollowUpsStayBounded ==
    ASSUME UpdatesDontOverlap PROVE Spec => []FollowUpsBounded
<1>1. Init => ExclusiveInv /\ FollowUpInv
  BY ReviewInit, FollowUpInit, ProcessParts DEF Init, ExclusiveInv, Current, ClaimHeld
<1>2. ExclusiveInv /\ FollowUpInv /\ [Next]_vars => (ExclusiveInv /\ FollowUpInv)'
  BY ReviewTypeStep, ExclusiveStep, FollowUpStep DEF ExclusiveInv
<1>3. ExclusiveInv /\ FollowUpInv => FollowUpsBounded
  BY BudgetBounds DEF ExclusiveInv
<1> QED
  BY <1>1, <1>2, <1>3, PTL DEF Spec

\* Under the same assumptions a worker that sets out to review never works on a
\* trigger that was claimed before.
THEOREM TriggersReviewedOnce ==
    ASSUME UpdatesDontOverlap PROVE Spec => ReviewedOnce
<1> DEFINE New == \A r \in Reviewer :
                    ~excused' /\ pc[r] = "idle" /\ pc'[r] # "idle" => task'[r] \notin claimed
<1>1. Init => ExclusiveInv /\ FollowUpInv
  BY ReviewInit, FollowUpInit, ProcessParts DEF Init, ExclusiveInv, Current, ClaimHeld
<1>2. ExclusiveInv /\ FollowUpInv /\ [Next]_vars => (ExclusiveInv /\ FollowUpInv)'
  BY ReviewTypeStep, ExclusiveStep, FollowUpStep DEF ExclusiveInv
<1>3. ExclusiveInv /\ FollowUpInv /\ [Next]_vars => [New]_vars
  <2> SUFFICES ASSUME ExclusiveInv, FollowUpInv, [Next]_vars,
                      NEW r \in Reviewer, ~excused', pc[r] = "idle", pc'[r] # "idle"
               PROVE  task'[r] \notin claimed
    OBVIOUS
  <2>1. /\ pc \in [Process -> Stage] /\ task \in [Reviewer -> Key \cup {NoKey}]
        /\ TypeInv /\ ClaimHeld
    BY DEF ExclusiveInv, TypeInv, TypeOK
  <2>2. Claim(r)
    <3>1. ASSUME NEW q \in Reviewer, q # r, NEW s, pc' = [pc EXCEPT ![q] = s]
          PROVE  FALSE
      BY <2>1, <3>1, ProcessParts
    <3>2. ASSUME NEW p \in {"listener", "executor", "operator"}, NEW s,
                 (pc' = pc) \/ (pc' = [pc EXCEPT ![p] = s])
          PROVE  FALSE
      BY <2>1, <3>2, ProcessParts
    <3>3. ~(\/ Receive \/ Project \/ (\E send \in open : Execute(send))
            \/ LoadAfterDelivery \/ RecordDelivery \/ ConsumeWindow \/ ScheduleFollowUp
            \/ LoadForOperator \/ Pause \/ Resume \/ Tick \/ UNCHANGED vars)
      BY <3>2, Zenon DEF Receive, Project, Execute, LoadAfterDelivery, RecordDelivery,
         ConsumeWindow, ScheduleFollowUp, LoadForOperator, Pause, Resume, Tick, vars, GoTo
    <3>4. ASSUME NEW q \in Reviewer, ReviewerStep(q) \/ Abort(q) PROVE Claim(r)
      <4>1. \/ pc' = pc \/ \E s : pc' = [pc EXCEPT ![q] = s]
        BY <3>4, Zenon DEF ReviewerStep, Claim, BuildContext, LoadForReview, SaveTriage,
           SaveBeliefs, Decide, SaveNextAction, ClearFollowUpWindow, Complete, Abort,
           Rest, GoTo
      <4>2. q = r
        BY <3>1, <4>1
      <4> QED
        BY <3>4, <4>2 DEF ReviewerStep, BuildContext, LoadForReview, SaveTriage,
           SaveBeliefs, Decide, SaveNextAction, ClearFollowUpWindow, Complete, Abort
    <3> QED
      BY <3>3, <3>4 DEF Next, ExecutorStep
  <2>3. Eligible(Unclaimed(conversation)) /\ task'[r] = Trigger(Unclaimed(conversation))
    BY <2>1, <2>2 DEF Claim
  <2> QED
    BY <2>1, <2>2, <2>3, ClaimTakesNew
<1> QED
  BY <1>1, <1>2, <1>3, PTL DEF Spec, ReviewedOnce
=============================================================================
