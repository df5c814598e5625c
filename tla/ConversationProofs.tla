-------------------------- MODULE ConversationProofs --------------------------
(***************************************************************************)
(* What the conversation's modules promise, for every value of their       *)
(* constants.                                                              *)
(*                                                                         *)
(* ReplyPipeline: its types; no lead that is ready is left without a reply *)
(* that carries it; nobody found hostile by the rules is answered, and     *)
(* nobody in the quiet hours.  HeldReplies: its types; what the operator   *)
(* says of a held reply is obeyed.  BotEntry: no message of the operator's *)
(* is lost or worked through twice unless its handler fails or dies.       *)
(*                                                                         *)
(* InboundListener: its types; no event is projected twice unless it was   *)
(* cut off, which needs that the keys remembered are distinct and that     *)
(* whatever follows a key was logged after it; an answer to a message sent *)
(* is recognised, which needs that the references are the newest of what   *)
(* was recorded.                                                           *)
(*                                                                         *)
(* ManagedAccounts: its types; undisturbed, one process at a time is in    *)
(* the file, what it is about to write follows from what the file holds,   *)
(* and what an account has joined is its count and what is in hand.        *)
(*                                                                         *)
(* Signals: what a process or a review holds of a signal is what the file  *)
(* holds, unless the signal was reported while a review was under way; so  *)
(* a signal that waits for its review is named by the open item, and the   *)
(* review that begins next has it among those it looks at.                 *)
(*                                                                         *)
(* Each part states its inductive invariant first, a conjunction of named  *)
(* relations, then one lemma for each action, and at its end the theorems. *)
(***************************************************************************)
EXTENDS MCConversation, FiniteSetTheorems, SequenceTheorems, TLAPS

------------------------------------------------------------------------------
(* The reply pipeline: the inductive invariant.                            *)

QuietHours == [start : 0..(DaySlots - 1), end : 0..(DaySlots - 1)]
ThreadRecord == [triage : Triages, triaged : 0..MaxTexts, handoff : HandoffStatus, attempts : Nat]
ReviewRecord ==
    [stage : ReviewStages, moment : ReplyMoments, text : 0..MaxTexts, by_rules : BOOLEAN,
     sends : BOOLEAN, ready : BOOLEAN, risky : BOOLEAN, handoff : BOOLEAN, planned : Nat, due : Nat]
ReplyRecord ==
    [moment : ReplyMoments, text : 0..MaxTexts, by_rules : BOOLEAN, handoff : BOOLEAN,
     state : {"queued", "sent", "given_up", "exhausted"}]

PipelineShape ==
    /\ setting \in Settings /\ inbox \in Seq(TextKinds) /\ Len(inbox) <= MaxTexts
    /\ thread \in ThreadRecord /\ review \in ReviewRecord /\ replies \in Seq(ReplyRecord)
    /\ answered \subseteq ReplyMoments /\ severed \subseteq ReplyMoments
    /\ review_deaths \in 0..MaxReviewDeaths /\ lead \in BOOLEAN

\* A triage by the rules is that of the text it was made of; a review that relies on one
\* relies on the one on record, and passes the reply timing only if that is not hostile.
TriageIsOfText ==
    thread.triaged # 0 =>
      thread.triaged <= Len(inbox) /\ thread.triage = FallbackTriage(inbox[thread.triaged])
ReviewIsOfText ==
    /\ review.stage \in {"triage", "review", "record", "authorize", "plan", "enqueue"} => Len(inbox) # 0
    /\ review.by_rules /\ review.stage \in {"record", "authorize", "plan", "enqueue"} =>
         review.text \in 1..Len(inbox)
    /\ review.by_rules /\ review.stage \in {"record", "authorize", "plan"} =>
         thread.triaged = review.text
    /\ review.by_rules /\ review.stage = "enqueue" => inbox[review.text] \notin Hostile
RepliesAreOfTexts ==
    \A i \in DOMAIN replies :
      replies[i].by_rules => replies[i].text \in 1..Len(inbox) /\ inbox[replies[i].text] \notin Hostile

\* A moment is replied to once, unless a review of it was cut off.
RepliesAreAccounted ==
    /\ review.stage # "none" => review.moment \notin answered
    /\ \A i \in DOMAIN replies :
         \/ replies[i].moment \in answered \cup severed
         \/ review.stage = "complete" /\ replies[i].moment = review.moment

Carried == \E i \in DOMAIN replies : replies[i].handoff /\ replies[i].state \in {"queued", "exhausted"}
\* A lead that is ready is carried by the review, and after it by a reply.
LeadIsCarried ==
    /\ review.stage \in {"triage", "review"} => ~review.sends
    /\ review.stage \in {"authorize", "plan", "enqueue"} /\ thread.handoff = "ready" => review.handoff
    /\ \/ review.stage = "complete" /\ review.sends /\ review.moment \notin severed
       \/ review.stage = "none" /\ lead
       => (thread.handoff = "ready" => Carried)

PipelineInv ==
    /\ PipelineShape /\ TriageIsOfText /\ ReviewIsOfText /\ RepliesAreOfTexts /\ RepliesAreAccounted
    /\ LeadIsCarried

------------------------------------------------------------------------------
(* The reply pipeline: the steps.                                          *)

\* The rules' judgement is a triage; what is hostile is judged hostile.
LEMMA TriagesFit == /\ NoTriage \in Triages
                    /\ \A k \in Kinds : /\ FallbackTriage(k) \in Triages
                                        /\ k \in Hostile => FallbackTriage(k).hostile
<1>1. NoTriage \in Triages
  BY DEF NoTriage, Triages
<1>2. ASSUME NEW k \in Kinds
      PROVE  FallbackTriage(k) \in Triages /\ (k \in Hostile => FallbackTriage(k).hostile)
  <2> DEFINE a == k \in LowSignal
             b == k \in Hostile
             c == k \in Objecting
             d == k \in Hurried
             e == k \in Hostile \cup Objecting \cup Interested \cup Asking \cup Hurried
  <2>1. a \in BOOLEAN /\ b \in BOOLEAN /\ c \in BOOLEAN /\ d \in BOOLEAN /\ e \in BOOLEAN
    OBVIOUS
  <2>2. FallbackTriage(k) = [low_signal |-> a, hostile |-> b, objection |-> c, urgent |-> d, promoted |-> e]
    BY DEF FallbackTriage
  <2>3. k \in Hostile => b
    OBVIOUS
  <2> HIDE DEF a, b, c, d, e
  <2>4. FallbackTriage(k) \in Triages
    BY <2>1, <2>2 DEF Triages
  <2>5. FallbackTriage(k).hostile = b
    BY <2>2
  <2> QED BY <2>3, <2>4, <2>5, Zenon
<1> QED BY <1>1, <1>2

\* What a review begins with and what is left of it at its end.
LEMMA ReviewsFit ==
    /\ NoReview \in ReviewRecord /\ NoReview.stage = "none" /\ NoReview.by_rules = FALSE
    /\ NoReview.sends = FALSE
    /\ review \in ReviewRecord =>
         /\ Finished \in ReviewRecord /\ Finished.stage = "complete" /\ Finished.by_rules = FALSE
         /\ Finished.moment = review.moment /\ Finished.sends = review.sends
<1>1. NoMoment \in ReplyMoments
  BY PipelineConstantsOK DEF NoMoment, ReplyMoments
<1>2. NoReview = [stage |-> "none", moment |-> NoMoment, text |-> 0, by_rules |-> FALSE,
                  sends |-> FALSE, ready |-> FALSE, risky |-> FALSE, handoff |-> FALSE,
                  planned |-> 0, due |-> 0]
  BY DEF NoReview
<1>3. 0 \in 0..MaxTexts
  BY PipelineConstantsOK
<1>4. NoReview \in ReviewRecord
  BY <1>1, <1>2, <1>3 DEF ReviewRecord, ReviewStages
<1>5. ASSUME review \in ReviewRecord
      PROVE  /\ Finished \in ReviewRecord /\ Finished.stage = "complete" /\ Finished.by_rules = FALSE
             /\ Finished.moment = review.moment /\ Finished.sends = review.sends
  <2> DEFINE m == review.moment
             b == review.sends
  <2>1. m \in ReplyMoments /\ b \in BOOLEAN
    BY <1>5 DEF ReviewRecord
  <2>2. Finished = [NoReview EXCEPT !.stage = "complete", !.moment = m, !.sends = b]
    BY DEF Finished
  <2> HIDE DEF m, b
  <2>3. /\ Finished.stage = "complete" /\ Finished.moment = m /\ Finished.sends = b
        /\ Finished.by_rules = NoReview.by_rules
    BY <1>2, <2>2
  <2>4. Finished \in ReviewRecord
    BY <1>4, <2>1, <2>2 DEF ReviewRecord, ReviewStages
  <2> QED BY <1>2, <2>3, <2>4 DEF m, b
<1> QED BY <1>2, <1>4, <1>5

\* A reply comes to its end.
LEMMA ReplyEnds ==
    ASSUME PipelineInv, NEW i \in DOMAIN replies,
           NEW state \in {"sent", "given_up", "exhausted"}, replies' = Ended(i, state)
    PROVE  /\ replies' \in Seq(ReplyRecord) /\ DOMAIN replies' = DOMAIN replies
           /\ \A j \in DOMAIN replies :
                /\ replies'[j].moment = replies[j].moment /\ replies'[j].text = replies[j].text
                /\ replies'[j].by_rules <=> replies[j].by_rules
                /\ replies'[j].handoff <=> replies[j].handoff
                /\ j # i => replies'[j] = replies[j]
           /\ replies'[i].state = state
<1> DEFINE r == [replies[i] EXCEPT !.state = state]
<1>1. replies \in Seq(ReplyRecord) /\ replies[i] \in ReplyRecord
  BY DEF PipelineInv, PipelineShape
<1>2. /\ r \in ReplyRecord /\ r.moment = replies[i].moment /\ r.text = replies[i].text
      /\ r.by_rules = replies[i].by_rules /\ r.handoff = replies[i].handoff /\ r.state = state
  BY <1>1 DEF ReplyRecord
<1>3. replies' = [replies EXCEPT ![i] = r]
  BY DEF Ended
<1> HIDE DEF r
<1>4. /\ replies' \in Seq(ReplyRecord) /\ DOMAIN replies' = DOMAIN replies /\ replies'[i] = r
      /\ \A j \in DOMAIN replies : j # i => replies'[j] = replies[j]
  BY <1>1, <1>2, <1>3
<1> QED BY <1>2, <1>4, Zenon


\* A judgement on record.
LEMMA TriageFits ==
    ASSUME thread \in ThreadRecord, NEW t \in Triages, NEW n \in 0..MaxTexts,
           thread' = [thread EXCEPT !.triage = t, !.triaged = n]
    PROVE  /\ thread' \in ThreadRecord /\ thread'.handoff = thread.handoff
           /\ thread'.triage = t /\ thread'.triaged = n
  BY DEF ThreadRecord

\* The review with its proposal.
Proposed(n, rules, proposes, ready, risky) ==
    [review EXCEPT !.stage = "record", !.text = n, !.by_rules = rules, !.sends = proposes,
                   !.ready = ready, !.risky = risky]

\* A proposal.
LEMMA ProposalFits ==
    ASSUME review \in ReviewRecord, NEW n \in 0..MaxTexts, NEW rules \in BOOLEAN,
           NEW proposes \in BOOLEAN, NEW ready \in BOOLEAN, NEW risky \in BOOLEAN,
           review' = Proposed(n, rules, proposes, ready, risky)
    PROVE  /\ review' \in ReviewRecord /\ review'.stage = "record"
           /\ review'.moment = review.moment /\ review'.text = n /\ review'.by_rules = rules
<1>1. /\ review'.stage = "record" /\ review'.moment = review.moment
      /\ review'.text = n /\ review'.by_rules = rules
  BY DEF ReviewRecord, Proposed
<1>2. review' \in ReviewRecord
  <2> DEFINE q == [review EXCEPT !.stage = "record", !.text = n, !.by_rules = rules]
  <2>1. q \in ReviewRecord
    BY DEF ReviewRecord, ReviewStages
  <2>2. review' = [q EXCEPT !.sends = proposes, !.ready = ready, !.risky = risky]
    BY DEF ReviewRecord, Proposed
  <2> HIDE DEF q
  <2> QED BY <2>1, <2>2 DEF ReviewRecord
<1> QED BY <1>1, <1>2

\* What a refusal leaves of the conversation.
LEMMA RefusalFits ==
    ASSUME thread \in ThreadRecord, review \in ReviewRecord, thread' = Refused
    PROVE  /\ thread' \in ThreadRecord /\ thread'.triage = thread.triage
           /\ thread'.triaged = thread.triaged
           /\ thread'.handoff = "ready" => thread.handoff = "ready" /\ ~review.handoff
<1> DEFINE h == IF review.handoff THEN "blocked" ELSE thread.handoff
<1>1. h \in HandoffStatus /\ (h = "ready" => thread.handoff = "ready" /\ ~review.handoff)
  BY DEF HandoffStatus, ThreadRecord
<1>2. thread' = [thread EXCEPT !.handoff = h]
  BY DEF Refused
<1> HIDE DEF h
<1> QED BY <1>1, <1>2 DEF ThreadRecord

\* What the delivery of a reply does to the handoff.
LEMMA HandoffFits ==
    ASSUME thread \in ThreadRecord, NEW r \in ReplyRecord,
           NEW status \in {"delivered", "blocked", "failed"}, NEW t, t = Handed(r, status)
    PROVE  /\ t \in ThreadRecord /\ t.triage = thread.triage /\ t.triaged = thread.triaged
           /\ t.attempts = thread.attempts
           /\ t.handoff = "ready" => thread.handoff = "ready" /\ ~r.handoff
<1> DEFINE h == IF r.handoff THEN status ELSE thread.handoff
<1>1. h \in HandoffStatus /\ (h = "ready" => thread.handoff = "ready" /\ ~r.handoff)
  BY DEF HandoffStatus, ThreadRecord
<1>2. t = [thread EXCEPT !.handoff = h]
  BY DEF Handed
<1> HIDE DEF h
<1> QED BY <1>1, <1>2 DEF ThreadRecord

\* Division leaves a remainder, and a remainder is its own.
LEMMA Division ==
    ASSUME NEW n \in Nat \ {0}
    PROVE  /\ \A at \in Nat : /\ at % n \in 0..(n - 1) /\ at \div n \in Nat
                              /\ at = (at \div n) * n + (at % n)
           /\ \A q \in Nat, r \in 0..(n - 1) : (q * n + r) % n = r
<1>1. ASSUME NEW at \in Nat
      PROVE  at % n \in 0..(n - 1) /\ at \div n \in Nat /\ at = (at \div n) * n + (at % n)
  BY SMT
<1>2. ASSUME NEW q \in Nat, NEW r \in 0..(n - 1)
      PROVE  (q * n + r) % n = r
  <2> DEFINE a == q * n + r
             p == a \div n
             s == a % n
  <2>1. a \in Nat
    BY SMT
  <2>2. p \in Nat /\ s \in 0..(n - 1) /\ q * n + r = p * n + s
    BY <1>1, <2>1
  <2> HIDE DEF a, p, s
  <2>3. CASE p = q
    BY <2>2, <2>3 DEF s, a
  <2>4. CASE p > q
    <3>1. p - q \in Nat \ {0} /\ (p - q) * n = r - s
      BY <2>2, <2>4
    <3>2. (p - q) * n >= n
      BY <3>1
    <3> QED BY <2>2, <3>1, <3>2
  <2>5. CASE p < q
    <3>1. q - p \in Nat \ {0} /\ (q - p) * n = s - r
      BY <2>2, <2>5
    <3>2. (q - p) * n >= n
      BY <3>1
    <3> QED BY <2>2, <3>1, <3>2
  <2> QED BY <2>2, <2>3, <2>4, <2>5
<1> QED BY <1>1, <1>2

\* A due time that is shifted stays one.
LEMMA ShiftedFits ==
    ASSUME NEW at \in Nat, NEW w \in QuietHours, NEW due \in ShiftedOut(at, w)
    PROVE  due \in Nat
<1>1. CASE ~IsQuiet(at, w)
  BY <1>1 DEF ShiftedOut
<1>2. CASE IsQuiet(at, w)
  <2>1. PICK d \in WakeupDelays : due = NextAllowed(at, w) + d
    BY <1>2 DEF ShiftedOut
  <2>2. PICK q \in Nat : NextAllowed(at, w) = q * DaySlots + w.end
    <3> DEFINE q == IF w.start >= w.end /\ at % DaySlots >= w.start
                    THEN (at \div DaySlots) + 1 ELSE at \div DaySlots
    <3>1. at \div DaySlots \in Nat
      BY Division, PipelineConstantsOK, Zenon
    <3>2. q \in Nat
      BY <3>1
    <3>3. NextAllowed(at, w) = q * DaySlots + w.end
      BY DEF NextAllowed
    <3> QED BY <3>2, <3>3
  <2>3. w.end \in Nat /\ d \in Nat /\ DaySlots \in Nat
    BY PipelineConstantsOK DEF QuietHours
  <2> QED BY <2>1, <2>2, <2>3
<1> QED BY <1>1, <1>2

\* A new text changes nothing that is on record of the older ones.
LEMMA WriteTextKeeps ==
    ASSUME PipelineInv, NEW k \in TextKinds, WriteText(k)
    PROVE  PipelineInv'
<1>1. review \in ReviewRecord /\ thread \in ThreadRecord /\ replies \in Seq(ReplyRecord)
  BY DEF PipelineInv, PipelineShape
<1>2. /\ setting' = setting /\ review' = review /\ replies' = replies /\ answered' = answered
      /\ severed' = severed /\ lead' = lead /\ review_deaths' = review_deaths
      /\ inbox' = Append(inbox, k) /\ Len(inbox) < MaxTexts
      /\ thread' = [thread EXCEPT !.attempts = 0]
  BY DEF WriteText
<1>3. /\ thread' \in ThreadRecord /\ thread'.triage = thread.triage /\ thread'.triaged = thread.triaged
      /\ thread'.handoff = thread.handoff /\ thread.triaged \in Nat
  <2>1. thread' \in ThreadRecord
    BY <1>1, <1>2 DEF ThreadRecord
  <2>2. /\ thread'.triage = thread.triage /\ thread'.triaged = thread.triaged
        /\ thread'.handoff = thread.handoff /\ thread.triaged \in 0..MaxTexts
    BY <1>1, <1>2 DEF ThreadRecord
  <2> QED BY <2>1, <2>2, PipelineConstantsOK
<1>4. /\ inbox' \in Seq(TextKinds) /\ Len(inbox') = Len(inbox) + 1 /\ Len(inbox) \in Nat
      /\ Len(inbox') <= MaxTexts /\ \A i \in 1..Len(inbox) : inbox'[i] = inbox[i]
  BY <1>2, PipelineConstantsOK DEF PipelineInv, PipelineShape
<1>5. \A i \in 1..Len(inbox) : i \in 1..Len(inbox')
  BY <1>4
<1>6. \A i \in Nat : i # 0 /\ i <= Len(inbox) => i \in 1..Len(inbox) /\ i <= Len(inbox')
  BY <1>4
<1>7. PipelineShape'
  BY <1>1, <1>2, <1>3, <1>4, <1>5, <1>6 DEF PipelineInv, PipelineShape
<1>8. TriageIsOfText'
  BY <1>1, <1>2, <1>3, <1>4, <1>5, <1>6 DEF PipelineInv, TriageIsOfText
<1>9. ReviewIsOfText'
  BY <1>1, <1>2, <1>3, <1>4, <1>5, <1>6 DEF PipelineInv, ReviewIsOfText
<1>10. RepliesAreOfTexts'
  BY <1>1, <1>2, <1>3, <1>4, <1>5, <1>6 DEF PipelineInv, RepliesAreOfTexts
<1>11. RepliesAreAccounted'
  BY <1>1, <1>2, <1>3, <1>4, <1>5, <1>6 DEF PipelineInv, RepliesAreAccounted
<1>12. LeadIsCarried'
  BY <1>1, <1>2, <1>3, <1>4, <1>5, <1>6 DEF PipelineInv, LeadIsCarried, Carried
<1> QED BY <1>7, <1>8, <1>9, <1>10, <1>11, <1>12 DEF PipelineInv

\* A review begins for a moment that is not answered yet.
LEMMA ClaimMomentKeeps ==
    ASSUME PipelineInv, ClaimMoment
    PROVE  PipelineInv'
<1>1. review \in ReviewRecord /\ thread \in ThreadRecord /\ replies \in Seq(ReplyRecord)
  BY DEF PipelineInv, PipelineShape
<1>2. /\ setting' = setting /\ inbox' = inbox /\ thread' = thread /\ replies' = replies
      /\ answered' = answered /\ severed' = severed /\ lead' = lead /\ review_deaths' = review_deaths
      /\ review.stage = "none" /\ Len(inbox) # 0
      /\ \E m \in ReplyMoments \ answered : review' = [NoReview EXCEPT !.stage = "triage", !.moment = m]
  <2>1. Len(inbox) \in 0..MaxTexts /\ thread.attempts \in Nat
    BY <1>1, PipelineConstantsOK DEF PipelineInv, PipelineShape, ThreadRecord
  <2>2. PICK kind \in {"inbound", "follow_up"} :
          LET m == [kind |-> kind, text |-> Len(inbox),
                    attempt |-> IF kind = "inbound" THEN 0 ELSE thread.attempts]
          IN  m \notin answered /\ review' = [NoReview EXCEPT !.stage = "triage", !.moment = m]
    BY DEF ClaimMoment, Text
  <2> DEFINE n == IF kind = "inbound" THEN 0 ELSE thread.attempts
  <2>3. n \in Nat
    BY <2>1
  <2> HIDE DEF n
  <2>4. [kind |-> kind, text |-> Len(inbox), attempt |-> n] \in ReplyMoments
    BY <2>1, <2>3 DEF ReplyMoments
  <2>5. Len(inbox) # 0
    BY <2>1 DEF ClaimMoment, Text
  <2> QED BY <2>2, <2>4, <2>5 DEF ClaimMoment, n
<1>3. /\ review' \in ReviewRecord /\ review'.stage = "triage" /\ review'.moment \notin answered
      /\ review'.sends = FALSE /\ review'.by_rules = FALSE
  <2>1. PICK m \in ReplyMoments \ answered : review' = [NoReview EXCEPT !.stage = "triage", !.moment = m]
    BY <1>2
  <2>2. NoReview \in ReviewRecord /\ NoReview.sends = FALSE /\ NoReview.by_rules = FALSE
    BY ReviewsFit
  <2> QED BY <2>1, <2>2 DEF ReviewRecord, ReviewStages
<1>4. PipelineShape'
  BY <1>1, <1>2, <1>3 DEF PipelineInv, PipelineShape
<1>5. TriageIsOfText'
  BY <1>1, <1>2, <1>3 DEF PipelineInv, TriageIsOfText
<1>6. ReviewIsOfText'
  BY <1>1, <1>2, <1>3 DEF PipelineInv, ReviewIsOfText
<1>7. RepliesAreOfTexts'
  BY <1>1, <1>2, <1>3 DEF PipelineInv, RepliesAreOfTexts
<1>8. RepliesAreAccounted'
  BY <1>1, <1>2, <1>3 DEF PipelineInv, RepliesAreAccounted
<1>9. LeadIsCarried'
  BY <1>1, <1>2, <1>3 DEF PipelineInv, LeadIsCarried, Carried
<1> QED BY <1>4, <1>5, <1>6, <1>7, <1>8, <1>9 DEF PipelineInv

\* The judgement on record is that of the newest text.
LEMMA TriageKeeps ==
    ASSUME PipelineInv, Triage
    PROVE  PipelineInv'
<1>1. review \in ReviewRecord /\ thread \in ThreadRecord /\ replies \in Seq(ReplyRecord)
  BY DEF PipelineInv, PipelineShape
<1>2. /\ setting' = setting /\ inbox' = inbox /\ replies' = replies
      /\ answered' = answered /\ severed' = severed /\ lead' = lead /\ review_deaths' = review_deaths
      /\ review.stage = "triage" /\ (review' = [review EXCEPT !.stage = "review"] \/ review' = Finished)
  BY DEF Triage
<1>3. /\ review' \in ReviewRecord /\ review'.stage \in {"review", "complete"}
      /\ review'.moment = review.moment /\ review'.sends = review.sends
      /\ review'.stage = "complete" => review'.by_rules = FALSE
  BY <1>1, <1>2, ReviewsFit DEF ReviewRecord, ReviewStages
<1>4. Len(inbox) \in 1..MaxTexts /\ inbox[Len(inbox)] \in Kinds
  BY <1>2, PipelineConstantsOK DEF PipelineInv, PipelineShape, ReviewIsOfText
<1>5. /\ thread' \in ThreadRecord /\ thread'.handoff = thread.handoff
      /\ thread'.triaged # 0 => /\ thread'.triaged = Len(inbox)
                                /\ thread'.triage = FallbackTriage(inbox[Len(inbox)])
  <2>1. PICK t \in ModelTriages \cup {FallbackTriage(Kind)}, by_rules \in BOOLEAN :
          /\ IF by_rules THEN t = FallbackTriage(Kind) ELSE t \in ModelTriages
          /\ thread' = [thread EXCEPT !.triage = t, !.triaged = IF by_rules THEN Text ELSE 0]
    BY DEF Triage
  <2>2. t \in Triages
    BY <1>4, PipelineConstantsOK, TriagesFit DEF Kind
  <2>3. CASE by_rules
    <3>1. thread' = [thread EXCEPT !.triage = t, !.triaged = Len(inbox)]
      BY <2>1, <2>3 DEF Text
    <3>2. Len(inbox) \in 0..MaxTexts
      BY <1>4, PipelineConstantsOK
    <3>3. /\ thread' \in ThreadRecord /\ thread'.handoff = thread.handoff
          /\ thread'.triaged = Len(inbox) /\ thread'.triage = t
      BY <1>1, <2>2, <3>1, <3>2, TriageFits
    <3>4. t = FallbackTriage(inbox[Len(inbox)])
      BY <2>1, <2>3 DEF Kind
    <3> QED BY <3>3, <3>4
  <2>4. CASE ~by_rules
    <3>1. thread' = [thread EXCEPT !.triage = t, !.triaged = 0]
      BY <2>1, <2>4
    <3>2. 0 \in 0..MaxTexts
      BY PipelineConstantsOK
    <3>3. thread' \in ThreadRecord /\ thread'.handoff = thread.handoff /\ thread'.triaged = 0
      BY <1>1, <2>2, <3>1, <3>2, TriageFits
    <3> QED BY <3>3
  <2> QED BY <2>3, <2>4
<1>6. PipelineShape'
  BY <1>1, <1>2, <1>3, <1>4, <1>5 DEF PipelineInv, PipelineShape
<1>7. TriageIsOfText'
  BY <1>1, <1>2, <1>3, <1>4, <1>5 DEF PipelineInv, TriageIsOfText
<1>8. ReviewIsOfText'
  BY <1>1, <1>2, <1>3, <1>4, <1>5 DEF PipelineInv, ReviewIsOfText
<1>9. RepliesAreOfTexts'
  BY <1>1, <1>2, <1>3, <1>4, <1>5 DEF PipelineInv, RepliesAreOfTexts
<1>10. RepliesAreAccounted'
  BY <1>1, <1>2, <1>3, <1>4, <1>5 DEF PipelineInv, RepliesAreAccounted
<1>11. LeadIsCarried'
  BY <1>1, <1>2, <1>3, <1>4, <1>5 DEF PipelineInv, LeadIsCarried, Carried
<1> QED BY <1>6, <1>7, <1>8, <1>9, <1>10, <1>11 DEF PipelineInv

\* A review relies on the rules only if the judgement on record is theirs.
LEMMA ReviewKeeps ==
    ASSUME PipelineInv, Review
    PROVE  PipelineInv'
<1>1. review \in ReviewRecord /\ thread \in ThreadRecord /\ replies \in Seq(ReplyRecord)
  BY DEF PipelineInv, PipelineShape
<1>2. /\ setting' = setting /\ inbox' = inbox /\ replies' = replies /\ thread' = thread
      /\ answered' = answered /\ severed' = severed /\ lead' = lead /\ review_deaths' = review_deaths
      /\ review.stage = "review"
  BY DEF Review
<1>3. Len(inbox) \in 1..MaxTexts
  BY <1>2, PipelineConstantsOK DEF PipelineInv, PipelineShape, ReviewIsOfText
<1>4. /\ review' \in ReviewRecord /\ review'.stage = "record" /\ review'.moment = review.moment
      /\ review'.text = Len(inbox) /\ (review'.by_rules => thread.triaged = Len(inbox))
  <2>1. PICK risk \in Risks, v \in Verdicts :
          review' = [review EXCEPT !.stage = "record", !.text = Text,
                       !.by_rules = thread.triaged = Text,
                       !.sends = v.decision \in Sending, !.ready = v.ready,
                       !.risky = v.risky \/ risk = "restricted"]
    BY DEF Review
  <2> DEFINE rules == thread.triaged = Text
             proposes == v.decision \in Sending
             risky == v.risky \/ risk = "restricted"
  <2>2. rules \in BOOLEAN /\ proposes \in BOOLEAN /\ risky \in BOOLEAN /\ v.ready \in BOOLEAN
    BY DEF Verdicts
  <2>3. rules => thread.triaged = Len(inbox)
    BY DEF Text
  <2>4. review' = Proposed(Len(inbox), rules, proposes, v.ready, risky)
    BY <2>1 DEF Text, Proposed
  <2> HIDE DEF rules, proposes, risky
  <2>5. Len(inbox) \in 0..MaxTexts
    BY <1>3, PipelineConstantsOK
  <2>6. /\ review' \in ReviewRecord /\ review'.stage = "record" /\ review'.moment = review.moment
        /\ review'.text = Len(inbox) /\ review'.by_rules = rules
    BY <1>1, <2>2, <2>4, <2>5, ProposalFits
  <2> QED BY <2>3, <2>6
<1>5. PipelineShape'
  BY <1>1, <1>2, <1>3, <1>4 DEF PipelineInv, PipelineShape
<1>6. TriageIsOfText'
  BY <1>1, <1>2, <1>3, <1>4 DEF PipelineInv, TriageIsOfText
<1>7. ReviewIsOfText'
  BY <1>1, <1>2, <1>3, <1>4 DEF PipelineInv, ReviewIsOfText
<1>8. RepliesAreOfTexts'
  BY <1>1, <1>2, <1>3, <1>4 DEF PipelineInv, RepliesAreOfTexts
<1>9. RepliesAreAccounted'
  BY <1>1, <1>2, <1>3, <1>4 DEF PipelineInv, RepliesAreAccounted
<1>10. LeadIsCarried'
  BY <1>1, <1>2, <1>3, <1>4 DEF PipelineInv, LeadIsCarried, Carried
<1> QED BY <1>5, <1>6, <1>7, <1>8, <1>9, <1>10 DEF PipelineInv

\* A review is cut off.
LEMMA ReviewRaisesKeeps ==
    ASSUME PipelineInv, ReviewRaises
    PROVE  PipelineInv'
<1>1. review \in ReviewRecord /\ thread \in ThreadRecord /\ replies \in Seq(ReplyRecord)
  BY DEF PipelineInv, PipelineShape
<1>2. /\ setting' = setting /\ inbox' = inbox /\ replies' = replies /\ thread' = thread
      /\ answered' = answered /\ severed' = severed \cup {review.moment} /\ lead' = FALSE
      /\ review' = NoReview /\ review_deaths' = review_deaths + 1 /\ review_deaths < MaxReviewDeaths
  BY DEF ReviewRaises
<1>3. /\ review' \in ReviewRecord /\ review'.stage = "none" /\ review'.by_rules = FALSE
      /\ review.moment \in ReplyMoments
  BY <1>1, <1>2, ReviewsFit DEF ReviewRecord
<1>4. review_deaths' \in 0..MaxReviewDeaths
  BY <1>2, PipelineConstantsOK DEF PipelineInv, PipelineShape
<1>5. PipelineShape'
  BY <1>1, <1>2, <1>3, <1>4 DEF PipelineInv, PipelineShape
<1>6. TriageIsOfText'
  BY <1>1, <1>2, <1>3, <1>4 DEF PipelineInv, TriageIsOfText
<1>7. ReviewIsOfText'
  BY <1>1, <1>2, <1>3, <1>4 DEF PipelineInv, ReviewIsOfText
<1>8. RepliesAreOfTexts'
  BY <1>1, <1>2, <1>3, <1>4 DEF PipelineInv, RepliesAreOfTexts
<1>9. RepliesAreAccounted'
  BY <1>1, <1>2, <1>3, <1>4 DEF PipelineInv, RepliesAreAccounted
<1>10. LeadIsCarried'
  BY <1>1, <1>2, <1>3, <1>4 DEF PipelineInv, LeadIsCarried, Carried
<1> QED BY <1>5, <1>6, <1>7, <1>8, <1>9, <1>10 DEF PipelineInv

\* So it is when the worker dies.
LEMMA ReviewerDiesKeeps ==
    ASSUME PipelineInv, ReviewerDies
    PROVE  PipelineInv'
<1>1. review \in ReviewRecord /\ thread \in ThreadRecord /\ replies \in Seq(ReplyRecord)
  BY DEF PipelineInv, PipelineShape
<1>2. /\ setting' = setting /\ inbox' = inbox /\ replies' = replies /\ thread' = thread
      /\ answered' = answered /\ severed' = severed \cup {review.moment} /\ lead' = FALSE
      /\ review' = NoReview /\ review_deaths' = review_deaths + 1 /\ review_deaths < MaxReviewDeaths
  BY DEF ReviewerDies
<1>3. /\ review' \in ReviewRecord /\ review'.stage = "none" /\ review'.by_rules = FALSE
      /\ review.moment \in ReplyMoments
  BY <1>1, <1>2, ReviewsFit DEF ReviewRecord
<1>4. review_deaths' \in 0..MaxReviewDeaths
  BY <1>2, PipelineConstantsOK DEF PipelineInv, PipelineShape
<1>5. PipelineShape'
  BY <1>1, <1>2, <1>3, <1>4 DEF PipelineInv, PipelineShape
<1>6. TriageIsOfText'
  BY <1>1, <1>2, <1>3, <1>4 DEF PipelineInv, TriageIsOfText
<1>7. ReviewIsOfText'
  BY <1>1, <1>2, <1>3, <1>4 DEF PipelineInv, ReviewIsOfText
<1>8. RepliesAreOfTexts'
  BY <1>1, <1>2, <1>3, <1>4 DEF PipelineInv, RepliesAreOfTexts
<1>9. RepliesAreAccounted'
  BY <1>1, <1>2, <1>3, <1>4 DEF PipelineInv, RepliesAreAccounted
<1>10. LeadIsCarried'
  BY <1>1, <1>2, <1>3, <1>4 DEF PipelineInv, LeadIsCarried, Carried
<1> QED BY <1>5, <1>6, <1>7, <1>8, <1>9, <1>10 DEF PipelineInv

\* A lead is on record as ready only with a review that carries it.
LEMMA RecordProposalKeeps ==
    ASSUME PipelineInv, RecordProposal
    PROVE  PipelineInv'
<1>1. review \in ReviewRecord /\ thread \in ThreadRecord /\ replies \in Seq(ReplyRecord)
  BY DEF PipelineInv, PipelineShape
<1>2. /\ setting' = setting /\ inbox' = inbox /\ replies' = replies
      /\ answered' = answered /\ severed' = severed /\ lead' = lead /\ review_deaths' = review_deaths
      /\ review.stage = "record"
  BY DEF RecordProposal
<1>3. PICK target \in BOOLEAN :
        /\ thread' = [thread EXCEPT !.handoff = IF ~review.ready THEN "none"
                                                ELSE IF target THEN "ready" ELSE "clarification_required"]
        /\ review' = IF review.sends
                     THEN [review EXCEPT !.stage = "authorize", !.handoff = review.ready /\ target]
                     ELSE Finished
  BY DEF RecordProposal
<1>4. /\ thread' \in ThreadRecord /\ thread'.triage = thread.triage /\ thread'.triaged = thread.triaged
      /\ thread'.handoff = "ready" => review.ready /\ target
  <2> DEFINE h == IF ~review.ready THEN "none" ELSE IF target THEN "ready" ELSE "clarification_required"
  <2>1. h \in HandoffStatus /\ (h = "ready" => review.ready /\ target)
    BY DEF HandoffStatus
  <2>2. thread' = [thread EXCEPT !.handoff = h]
    BY <1>3
  <2> HIDE DEF h
  <2> QED BY <1>1, <2>1, <2>2 DEF ThreadRecord
<1>5. /\ review' \in ReviewRecord /\ review'.stage \in {"authorize", "complete"}
      /\ review'.moment = review.moment /\ review'.sends = review.sends
      /\ review'.stage = "complete" => review'.by_rules = FALSE /\ ~review.sends
      /\ review'.stage = "authorize" =>
           /\ review'.text = review.text /\ review'.by_rules = review.by_rules
           /\ review.ready /\ target => review'.handoff
  <2>1. CASE ~review.sends
    <3>1. review' = Finished
      BY <1>3, <2>1
    <3> QED BY <1>1, <2>1, <3>1, ReviewsFit
  <2>2. CASE review.sends
    <3> DEFINE h == review.ready /\ target
    <3>1. h \in BOOLEAN /\ (review.ready /\ target => h)
      BY <1>1 DEF ReviewRecord
    <3>2. review' = [review EXCEPT !.stage = "authorize", !.handoff = h]
      BY <1>3, <2>2
    <3> HIDE DEF h
    <3>3. /\ review' \in ReviewRecord /\ review'.stage = "authorize" /\ review'.moment = review.moment
          /\ review'.sends = review.sends /\ review'.text = review.text
          /\ review'.by_rules = review.by_rules /\ review'.handoff = h
      BY <1>1, <3>1, <3>2 DEF ReviewRecord, ReviewStages
    <3> QED BY <3>1, <3>3
  <2> QED BY <2>1, <2>2
<1>6. PipelineShape'
  BY <1>1, <1>2, <1>3, <1>4, <1>5 DEF PipelineInv, PipelineShape
<1>7. TriageIsOfText'
  BY <1>1, <1>2, <1>3, <1>4, <1>5 DEF PipelineInv, TriageIsOfText
<1>8. ReviewIsOfText'
  BY <1>1, <1>2, <1>3, <1>4, <1>5 DEF PipelineInv, ReviewIsOfText
<1>9. RepliesAreOfTexts'
  BY <1>1, <1>2, <1>3, <1>4, <1>5 DEF PipelineInv, RepliesAreOfTexts
<1>10. RepliesAreAccounted'
  BY <1>1, <1>2, <1>3, <1>4, <1>5 DEF PipelineInv, RepliesAreAccounted
<1>11. LeadIsCarried'
  BY <1>1, <1>2, <1>3, <1>4, <1>5 DEF PipelineInv, LeadIsCarried, Carried
<1> QED BY <1>6, <1>7, <1>8, <1>9, <1>10, <1>11 DEF PipelineInv

\* What is refused on the way is not left ready if the review carries it.
LEMMA RefusalKeeps ==
    ASSUME PipelineInv, review.stage \in {"authorize", "plan"},
           thread' = Refused, review' = Finished,
           UNCHANGED <<setting, inbox, answered, replies, review_deaths, severed, lead>>
    PROVE  PipelineInv'
<1>1. review \in ReviewRecord /\ thread \in ThreadRecord /\ replies \in Seq(ReplyRecord)
  BY DEF PipelineInv, PipelineShape
<1>2. /\ thread' \in ThreadRecord /\ thread'.triage = thread.triage
      /\ thread'.triaged = thread.triaged
      /\ thread'.handoff = "ready" => thread.handoff = "ready" /\ ~review.handoff
  BY <1>1, RefusalFits
<1>3. /\ review' \in ReviewRecord /\ review'.stage = "complete" /\ review'.by_rules = FALSE
      /\ review'.moment = review.moment /\ review'.sends = review.sends
  BY <1>1, ReviewsFit
<1>4. PipelineShape'
  BY <1>1, <1>2, <1>3 DEF PipelineInv, PipelineShape
<1>5. TriageIsOfText'
  BY <1>1, <1>2, <1>3 DEF PipelineInv, TriageIsOfText
<1>6. ReviewIsOfText'
  BY <1>1, <1>2, <1>3 DEF PipelineInv, ReviewIsOfText
<1>7. RepliesAreOfTexts'
  BY <1>1, <1>2, <1>3 DEF PipelineInv, RepliesAreOfTexts
<1>8. RepliesAreAccounted'
  BY <1>1, <1>2, <1>3 DEF PipelineInv, RepliesAreAccounted
<1>9. LeadIsCarried'
  BY <1>1, <1>2, <1>3 DEF PipelineInv, LeadIsCarried, Carried
<1> QED BY <1>4, <1>5, <1>6, <1>7, <1>8, <1>9 DEF PipelineInv

\* What is authorized is planned as it was proposed.
LEMMA AuthorizeKeeps ==
    ASSUME PipelineInv, Authorize
    PROVE  PipelineInv'
<1>1. review \in ReviewRecord /\ thread \in ThreadRecord /\ replies \in Seq(ReplyRecord)
  BY DEF PipelineInv, PipelineShape
<1>2. review.stage = "authorize"
  BY DEF Authorize
<1>3. CASE thread' = Refused /\ review' = Finished
  BY <1>2, <1>3, RefusalKeeps DEF Authorize
<1> SUFFICES ASSUME review' = [review EXCEPT !.stage = "plan", !.risky = FALSE], UNCHANGED thread
             PROVE  PipelineInv'
  BY <1>3 DEF Authorize
<1>4. /\ setting' = setting /\ inbox' = inbox /\ replies' = replies /\ thread' = thread
      /\ answered' = answered /\ severed' = severed /\ lead' = lead /\ review_deaths' = review_deaths
  BY DEF Authorize
<1>5. /\ review' \in ReviewRecord /\ review'.stage = "plan" /\ review'.moment = review.moment
      /\ review'.sends = review.sends /\ review'.text = review.text
      /\ review'.by_rules = review.by_rules /\ review'.handoff = review.handoff
  BY <1>1 DEF ReviewRecord, ReviewStages
<1>6. PipelineShape'
  BY <1>1, <1>2, <1>3, <1>4, <1>5 DEF PipelineInv, PipelineShape
<1>7. TriageIsOfText'
  BY <1>1, <1>2, <1>3, <1>4, <1>5 DEF PipelineInv, TriageIsOfText
<1>8. ReviewIsOfText'
  BY <1>1, <1>2, <1>3, <1>4, <1>5 DEF PipelineInv, ReviewIsOfText
<1>9. RepliesAreOfTexts'
  BY <1>1, <1>2, <1>3, <1>4, <1>5 DEF PipelineInv, RepliesAreOfTexts
<1>10. RepliesAreAccounted'
  BY <1>1, <1>2, <1>3, <1>4, <1>5 DEF PipelineInv, RepliesAreAccounted
<1>11. LeadIsCarried'
  BY <1>1, <1>2, <1>3, <1>4, <1>5 DEF PipelineInv, LeadIsCarried, Carried
<1> QED BY <1>6, <1>7, <1>8, <1>9, <1>10, <1>11 DEF PipelineInv

\* What passes the reply timing is not hostile by the rules.
LEMMA PlanReplyKeeps ==
    ASSUME PipelineInv, PlanReply
    PROVE  PipelineInv'
<1>1. review \in ReviewRecord /\ thread \in ThreadRecord /\ replies \in Seq(ReplyRecord)
  BY DEF PipelineInv, PipelineShape
<1>2. review.stage = "plan" /\ setting' = setting
  BY DEF PlanReply
<1>3. CASE thread' = Refused /\ review' = Finished
  BY <1>2, <1>3, RefusalKeeps DEF PlanReply
<1> SUFFICES ASSUME ~Suppressed(thread.triage, review.moment, review.ready), UNCHANGED thread,
                    NEW now \in 0..MaxSlot, NEW d \in Delays(thread.triage, review.ready),
                    NEW due \in ShiftedOut(now + d, setting.quiet),
                    review' = [review EXCEPT !.stage = "enqueue", !.planned = now, !.due = due]
             PROVE  PipelineInv'
  BY <1>3 DEF PlanReply
<1>4. /\ setting' = setting /\ inbox' = inbox /\ replies' = replies /\ thread' = thread
      /\ answered' = answered /\ severed' = severed /\ lead' = lead /\ review_deaths' = review_deaths
  BY DEF PlanReply
<1>5. /\ review' \in ReviewRecord /\ review'.stage = "enqueue" /\ review'.moment = review.moment
      /\ review'.sends = review.sends /\ review'.text = review.text
      /\ review'.by_rules = review.by_rules /\ review'.handoff = review.handoff
  <2>1. now \in Nat /\ d \in Nat /\ now + d \in Nat
    BY PipelineConstantsOK DEF Delays
  <2>2. setting.quiet \in QuietHours
    BY PipelineConstantsOK DEF PipelineInv, PipelineShape, QuietHours
  <2>3. due \in Nat
    BY <2>1, <2>2, ShiftedFits
  <2> QED BY <1>1, <2>1, <2>3 DEF ReviewRecord, ReviewStages
<1>6. review.by_rules => inbox[review.text] \notin Hostile
  <2>1. SUFFICES ASSUME review.by_rules PROVE inbox[review.text] \notin Hostile
    OBVIOUS
  <2>2. thread.triaged = review.text /\ review.text \in 1..Len(inbox)
    BY <1>2, <2>1 DEF PipelineInv, ReviewIsOfText
  <2>3. thread.triage = FallbackTriage(inbox[review.text])
    BY <2>2 DEF PipelineInv, TriageIsOfText
  <2>4. inbox[review.text] \in Kinds
    BY <2>2, PipelineConstantsOK DEF PipelineInv, PipelineShape
  <2>5. ~thread.triage.hostile
    BY DEF Suppressed
  <2> QED BY <2>3, <2>4, <2>5, TriagesFit, Zenon
<1>7. PipelineShape'
  BY <1>1, <1>2, <1>3, <1>4, <1>5, <1>6 DEF PipelineInv, PipelineShape
<1>8. TriageIsOfText'
  BY <1>1, <1>2, <1>3, <1>4, <1>5, <1>6 DEF PipelineInv, TriageIsOfText
<1>9. ReviewIsOfText'
  BY <1>1, <1>2, <1>3, <1>4, <1>5, <1>6 DEF PipelineInv, ReviewIsOfText
<1>10. RepliesAreOfTexts'
  BY <1>1, <1>2, <1>3, <1>4, <1>5, <1>6 DEF PipelineInv, RepliesAreOfTexts
<1>11. RepliesAreAccounted'
  BY <1>1, <1>2, <1>3, <1>4, <1>5, <1>6 DEF PipelineInv, RepliesAreAccounted
<1>12. LeadIsCarried'
  BY <1>1, <1>2, <1>3, <1>4, <1>5, <1>6 DEF PipelineInv, LeadIsCarried, Carried
<1> QED BY <1>7, <1>8, <1>9, <1>10, <1>11, <1>12 DEF PipelineInv

\* A reply carries what the review carried; one that is there already came of a review cut off.
LEMMA EnqueueReplyKeeps ==
    ASSUME PipelineInv, EnqueueReply
    PROVE  PipelineInv'
<1>1. review \in ReviewRecord /\ thread \in ThreadRecord /\ replies \in Seq(ReplyRecord)
  BY DEF PipelineInv, PipelineShape
<1>2. /\ setting' = setting /\ inbox' = inbox /\ thread' = thread
      /\ answered' = answered /\ severed' = severed /\ lead' = lead /\ review_deaths' = review_deaths
      /\ review.stage = "enqueue"
  BY DEF EnqueueReply
<1>3. /\ review' \in ReviewRecord /\ review'.stage = "complete" /\ review'.by_rules = FALSE
      /\ review'.moment = review.moment /\ review'.sends = review.sends
  BY <1>1, ReviewsFit DEF EnqueueReply
<1> DEFINE r == [moment |-> review.moment, text |-> review.text, by_rules |-> review.by_rules,
                 handoff |-> review.handoff, state |-> "queued"]
<1>4. /\ r \in ReplyRecord /\ r.moment = review.moment /\ r.text = review.text
      /\ r.by_rules = review.by_rules /\ r.handoff = review.handoff /\ r.state = "queued"
  BY <1>1 DEF ReplyRecord, ReviewRecord
<1>5. \/ replies' = Append(replies, r)
      \/ replies' = replies /\ \E i \in DOMAIN replies : replies[i].moment = review.moment
  BY DEF EnqueueReply
<1> HIDE DEF r
<1>6. ASSUME replies' = Append(replies, r)
      PROVE  /\ replies' \in Seq(ReplyRecord)
             /\ Len(replies) + 1 \in DOMAIN replies' /\ replies'[Len(replies) + 1] = r
             /\ \A i \in DOMAIN replies' : (i \in DOMAIN replies /\ replies'[i] = replies[i]) \/ replies'[i] = r
  BY <1>1, <1>4, <1>6
<1>7. replies' \in Seq(ReplyRecord)
  BY <1>1, <1>5, <1>6
<1>8. \A i \in DOMAIN replies' : (i \in DOMAIN replies /\ replies'[i] = replies[i]) \/ replies'[i] = r
  BY <1>5, <1>6
<1>9. review.moment \notin severed => \E i \in DOMAIN replies' : replies'[i] = r
  BY <1>2, <1>5, <1>6 DEF PipelineInv, RepliesAreAccounted
<1>10. PipelineShape'
  BY <1>1, <1>2, <1>3, <1>4, <1>5, <1>6, <1>7, <1>8, <1>9 DEF PipelineInv, PipelineShape
<1>11. TriageIsOfText'
  BY <1>1, <1>2, <1>3, <1>4, <1>5, <1>6, <1>7, <1>8, <1>9 DEF PipelineInv, TriageIsOfText
<1>12. ReviewIsOfText'
  BY <1>1, <1>2, <1>3, <1>4, <1>5, <1>6, <1>7, <1>8, <1>9 DEF PipelineInv, ReviewIsOfText
<1>13. RepliesAreOfTexts'
  <2>1. SUFFICES ASSUME NEW i \in DOMAIN replies', replies'[i].by_rules
                 PROVE  replies'[i].text \in 1..Len(inbox) /\ inbox[replies'[i].text] \notin Hostile
    BY <1>2 DEF RepliesAreOfTexts
  <2>2. CASE i \in DOMAIN replies /\ replies'[i] = replies[i]
    BY <2>1, <2>2 DEF PipelineInv, RepliesAreOfTexts
  <2>3. CASE replies'[i] = r
    <3>1. review.by_rules /\ replies'[i].text = review.text
      BY <1>4, <2>1, <2>3
    <3> QED BY <1>2, <3>1 DEF PipelineInv, ReviewIsOfText
  <2> QED BY <1>8, <2>2, <2>3
<1>14. RepliesAreAccounted'
  BY <1>1, <1>2, <1>3, <1>4, <1>5, <1>6, <1>7, <1>8, <1>9 DEF PipelineInv, RepliesAreAccounted
<1>15. LeadIsCarried'
  BY <1>1, <1>2, <1>3, <1>4, <1>5, <1>6, <1>7, <1>8, <1>9 DEF PipelineInv, LeadIsCarried, Carried
<1> QED BY <1>10, <1>11, <1>12, <1>13, <1>14, <1>15 DEF PipelineInv

\* A review that is over leaves its lead to the reply.
LEMMA CompleteReviewKeeps ==
    ASSUME PipelineInv, CompleteReview
    PROVE  PipelineInv'
<1>1. review \in ReviewRecord /\ thread \in ThreadRecord /\ replies \in Seq(ReplyRecord)
  BY DEF PipelineInv, PipelineShape
<1>2. /\ setting' = setting /\ inbox' = inbox /\ thread' = thread /\ replies' = replies
      /\ answered' = answered \cup {review.moment} /\ severed' = severed
      /\ review_deaths' = review_deaths /\ review.stage = "complete" /\ review' = NoReview
  BY DEF CompleteReview
<1>3. /\ review' \in ReviewRecord /\ review'.stage = "none" /\ review'.by_rules = FALSE
      /\ review.moment \in ReplyMoments
  BY <1>1, <1>2, ReviewsFit DEF ReviewRecord
<1>4. lead' \in BOOLEAN /\ (lead' => review.sends /\ review.moment \notin severed)
  BY DEF CompleteReview
<1>5. PipelineShape'
  BY <1>1, <1>2, <1>3, <1>4 DEF PipelineInv, PipelineShape
<1>6. TriageIsOfText'
  BY <1>1, <1>2, <1>3, <1>4 DEF PipelineInv, TriageIsOfText
<1>7. ReviewIsOfText'
  BY <1>1, <1>2, <1>3, <1>4 DEF PipelineInv, ReviewIsOfText
<1>8. RepliesAreOfTexts'
  BY <1>1, <1>2, <1>3, <1>4 DEF PipelineInv, RepliesAreOfTexts
<1>9. RepliesAreAccounted'
  BY <1>1, <1>2, <1>3, <1>4 DEF PipelineInv, RepliesAreAccounted
<1>10. LeadIsCarried'
  BY <1>1, <1>2, <1>3, <1>4 DEF PipelineInv, LeadIsCarried, Carried
<1> QED BY <1>5, <1>6, <1>7, <1>8, <1>9, <1>10 DEF PipelineInv

\* A delivered reply tells the handoff.
LEMMA HandOverKeeps ==
    ASSUME PipelineInv, NEW i \in DOMAIN replies, HandOver(i)
    PROVE  PipelineInv'
<1>1. review \in ReviewRecord /\ thread \in ThreadRecord /\ replies \in Seq(ReplyRecord)
  BY DEF PipelineInv, PipelineShape
<1>2. /\ setting' = setting /\ inbox' = inbox /\ review' = review
      /\ answered' = answered /\ severed' = severed /\ lead' = lead /\ review_deaths' = review_deaths
      /\ replies[i] \in ReplyRecord /\ replies[i].state = "queued"
  BY <1>1 DEF HandOver, IsQueued
<1>3. /\ replies' \in Seq(ReplyRecord) /\ DOMAIN replies' = DOMAIN replies
      /\ replies'[i].state = "sent"
      /\ \A j \in DOMAIN replies :
           /\ replies'[j].moment = replies[j].moment /\ replies'[j].text = replies[j].text
           /\ replies'[j].by_rules <=> replies[j].by_rules
           /\ replies'[j].handoff <=> replies[j].handoff
           /\ j # i => replies'[j] = replies[j]
  BY ReplyEnds DEF HandOver
<1>4. /\ thread' \in ThreadRecord /\ thread'.triage = thread.triage
      /\ thread'.triaged = thread.triaged
      /\ thread'.handoff = "ready" => thread.handoff = "ready" /\ ~replies[i].handoff
  <2> DEFINE t == Handed(replies[i], "delivered")
             n == IF replies[i].moment.kind = "follow_up" THEN t.attempts + 1 ELSE t.attempts
  <2>1. /\ t \in ThreadRecord /\ t.triage = thread.triage /\ t.triaged = thread.triaged
        /\ t.handoff = "ready" => thread.handoff = "ready" /\ ~replies[i].handoff
    BY <1>1, <1>2, HandoffFits
  <2>2. n \in Nat
    BY <2>1 DEF ThreadRecord
  <2>3. thread' = [t EXCEPT !.attempts = n]
    BY DEF HandOver
  <2> HIDE DEF t, n
  <2> QED BY <2>1, <2>2, <2>3 DEF ThreadRecord
<1>5. PipelineShape'
  BY <1>1, <1>2, <1>3, <1>4 DEF PipelineInv, PipelineShape
<1>6. TriageIsOfText'
  BY <1>1, <1>2, <1>3, <1>4 DEF PipelineInv, TriageIsOfText
<1>7. ReviewIsOfText'
  BY <1>1, <1>2, <1>3, <1>4 DEF PipelineInv, ReviewIsOfText
<1>8. RepliesAreOfTexts'
  BY <1>1, <1>2, <1>3, <1>4 DEF PipelineInv, RepliesAreOfTexts
<1>9. RepliesAreAccounted'
  BY <1>1, <1>2, <1>3, <1>4 DEF PipelineInv, RepliesAreAccounted
<1>10. LeadIsCarried'
  BY <1>1, <1>2, <1>3, <1>4 DEF PipelineInv, LeadIsCarried, Carried
<1> QED BY <1>5, <1>6, <1>7, <1>8, <1>9, <1>10 DEF PipelineInv

\* So does one that is given up.
LEMMA GiveUpKeeps ==
    ASSUME PipelineInv, NEW i \in DOMAIN replies, GiveUp(i)
    PROVE  PipelineInv'
<1>1. review \in ReviewRecord /\ thread \in ThreadRecord /\ replies \in Seq(ReplyRecord)
  BY DEF PipelineInv, PipelineShape
<1>2. /\ setting' = setting /\ inbox' = inbox /\ review' = review
      /\ answered' = answered /\ severed' = severed /\ lead' = lead /\ review_deaths' = review_deaths
      /\ replies[i] \in ReplyRecord /\ replies[i].state = "queued"
  BY <1>1 DEF GiveUp, IsQueued
<1>3. /\ replies' \in Seq(ReplyRecord) /\ DOMAIN replies' = DOMAIN replies
      /\ replies'[i].state = "given_up"
      /\ \A j \in DOMAIN replies :
           /\ replies'[j].moment = replies[j].moment /\ replies'[j].text = replies[j].text
           /\ replies'[j].by_rules <=> replies[j].by_rules
           /\ replies'[j].handoff <=> replies[j].handoff
           /\ j # i => replies'[j] = replies[j]
  BY ReplyEnds DEF GiveUp
<1>4. /\ thread' \in ThreadRecord /\ thread'.triage = thread.triage
      /\ thread'.triaged = thread.triaged
      /\ thread'.handoff = "ready" => thread.handoff = "ready" /\ ~replies[i].handoff
  <2>1. PICK status \in {"blocked", "failed"} : thread' = Handed(replies[i], status)
    BY DEF GiveUp
  <2> QED BY <1>1, <1>2, <2>1, HandoffFits
<1>5. PipelineShape'
  BY <1>1, <1>2, <1>3, <1>4 DEF PipelineInv, PipelineShape
<1>6. TriageIsOfText'
  BY <1>1, <1>2, <1>3, <1>4 DEF PipelineInv, TriageIsOfText
<1>7. ReviewIsOfText'
  BY <1>1, <1>2, <1>3, <1>4 DEF PipelineInv, ReviewIsOfText
<1>8. RepliesAreOfTexts'
  BY <1>1, <1>2, <1>3, <1>4 DEF PipelineInv, RepliesAreOfTexts
<1>9. RepliesAreAccounted'
  BY <1>1, <1>2, <1>3, <1>4 DEF PipelineInv, RepliesAreAccounted
<1>10. LeadIsCarried'
  BY <1>1, <1>2, <1>3, <1>4 DEF PipelineInv, LeadIsCarried, Carried
<1> QED BY <1>5, <1>6, <1>7, <1>8, <1>9, <1>10 DEF PipelineInv

\* One that runs out of retries does not, and is still seen to carry it.
LEMMA RunOutOfRetriesKeeps ==
    ASSUME PipelineInv, NEW i \in DOMAIN replies, RunOutOfRetries(i)
    PROVE  PipelineInv'
<1>1. review \in ReviewRecord /\ thread \in ThreadRecord /\ replies \in Seq(ReplyRecord)
  BY DEF PipelineInv, PipelineShape
<1>2. /\ setting' = setting /\ inbox' = inbox /\ review' = review
      /\ answered' = answered /\ severed' = severed /\ lead' = lead /\ review_deaths' = review_deaths
      /\ replies[i] \in ReplyRecord /\ replies[i].state = "queued"
  BY <1>1 DEF RunOutOfRetries, IsQueued
<1>3. /\ replies' \in Seq(ReplyRecord) /\ DOMAIN replies' = DOMAIN replies
      /\ replies'[i].state = "exhausted"
      /\ \A j \in DOMAIN replies :
           /\ replies'[j].moment = replies[j].moment /\ replies'[j].text = replies[j].text
           /\ replies'[j].by_rules <=> replies[j].by_rules
           /\ replies'[j].handoff <=> replies[j].handoff
           /\ j # i => replies'[j] = replies[j]
  BY ReplyEnds DEF RunOutOfRetries
<1>4. thread' = thread
  BY DEF RunOutOfRetries
<1>5. PipelineShape'
  BY <1>1, <1>2, <1>3, <1>4 DEF PipelineInv, PipelineShape
<1>6. TriageIsOfText'
  BY <1>1, <1>2, <1>3, <1>4 DEF PipelineInv, TriageIsOfText
<1>7. ReviewIsOfText'
  BY <1>1, <1>2, <1>3, <1>4 DEF PipelineInv, ReviewIsOfText
<1>8. RepliesAreOfTexts'
  BY <1>1, <1>2, <1>3, <1>4 DEF PipelineInv, RepliesAreOfTexts
<1>9. RepliesAreAccounted'
  BY <1>1, <1>2, <1>3, <1>4 DEF PipelineInv, RepliesAreAccounted
<1>10. LeadIsCarried'
  BY <1>1, <1>2, <1>3, <1>4 DEF PipelineInv, LeadIsCarried, Carried
<1> QED BY <1>5, <1>6, <1>7, <1>8, <1>9, <1>10 DEF PipelineInv

------------------------------------------------------------------------------
(* The reply pipeline: what always holds.                                  *)

\* The pipeline starts with nothing on record.
LEMMA PipelineStart == PipelineInit => PipelineInv
<1> SUFFICES ASSUME PipelineInit PROVE PipelineInv
  OBVIOUS
<1>1. /\ review = NoReview /\ review.stage = "none" /\ review.by_rules = FALSE
      /\ review \in ReviewRecord
  BY ReviewsFit DEF PipelineInit
<1>2. /\ thread \in ThreadRecord /\ thread.triaged = 0 /\ thread.handoff = "none"
  <2>1. NoTriage \in Triages /\ 0 \in 0..MaxTexts
    BY TriagesFit, PipelineConstantsOK
  <2> QED BY <2>1 DEF PipelineInit, ThreadRecord, HandoffStatus
<1>3. /\ inbox = <<>> /\ replies = <<>> /\ answered = {} /\ severed = {} /\ lead = FALSE
      /\ review_deaths = 0 /\ setting \in Settings
  BY DEF PipelineInit
<1>4. inbox \in Seq(TextKinds) /\ Len(inbox) <= MaxTexts /\ replies \in Seq(ReplyRecord)
  BY <1>3, PipelineConstantsOK
<1>5. review_deaths \in 0..MaxReviewDeaths /\ lead \in BOOLEAN
  <2>1. 0 \in 0..MaxReviewDeaths
    BY PipelineConstantsOK
  <2> QED BY <1>3, <2>1
<1>6. PipelineShape
  BY <1>1, <1>2, <1>3, <1>4, <1>5 DEF PipelineShape
<1>7. TriageIsOfText /\ ReviewIsOfText /\ RepliesAreOfTexts
  BY <1>1, <1>2, <1>3 DEF TriageIsOfText, ReviewIsOfText, RepliesAreOfTexts
<1>8. RepliesAreAccounted /\ LeadIsCarried
  BY <1>1, <1>2, <1>3 DEF RepliesAreAccounted, LeadIsCarried
<1> QED BY <1>6, <1>7, <1>8 DEF PipelineInv

\* Every step of the pipeline keeps the invariant.
LEMMA PipelineStep == PipelineInv /\ [PipelineNext]_pipeline_vars => PipelineInv'
<1> SUFFICES ASSUME PipelineInv, [PipelineNext]_pipeline_vars PROVE PipelineInv'
  OBVIOUS
<1>1. CASE \E k \in TextKinds : WriteText(k)
  BY <1>1, WriteTextKeeps
<1>2. CASE ClaimMoment \/ Triage \/ Review \/ ReviewRaises \/ RecordProposal
  BY <1>2, ClaimMomentKeeps, TriageKeeps, ReviewKeeps, ReviewRaisesKeeps, RecordProposalKeeps
<1>3. CASE Authorize \/ PlanReply \/ EnqueueReply \/ CompleteReview \/ ReviewerDies
  BY <1>3, AuthorizeKeeps, PlanReplyKeeps, EnqueueReplyKeeps, CompleteReviewKeeps,
     ReviewerDiesKeeps
<1>4. CASE \E i \in DOMAIN replies : HandOver(i) \/ GiveUp(i) \/ RunOutOfRetries(i)
  BY <1>4, HandOverKeeps, GiveUpKeeps, RunOutOfRetriesKeeps
<1>5. CASE UNCHANGED pipeline_vars
  <2> USE <1>5 DEF pipeline_vars
  <2>1. PipelineShape'
    BY DEF PipelineInv, PipelineShape
  <2>2. TriageIsOfText' /\ ReviewIsOfText' /\ RepliesAreOfTexts'
    BY DEF PipelineInv, TriageIsOfText, ReviewIsOfText, RepliesAreOfTexts
  <2>3. RepliesAreAccounted' /\ LeadIsCarried'
    BY DEF PipelineInv, RepliesAreAccounted, LeadIsCarried, Carried
  <2> QED BY <2>1, <2>2, <2>3 DEF PipelineInv
<1> QED BY <1>1, <1>2, <1>3, <1>4, <1>5 DEF PipelineNext

\* So the invariant always holds.
LEMMA PipelineAlways == PipelineSpec => []PipelineInv
  BY PipelineStart, PipelineStep, PTL DEF PipelineSpec

\* Every variable of the pipeline keeps its type.
THEOREM PipelineTypes == PipelineSpec => []PipelineTypeOK
<1>1. PipelineInv => PipelineTypeOK
  <2> SUFFICES ASSUME PipelineInv PROVE PipelineTypeOK
    OBVIOUS
  <2>1. /\ thread \in ThreadRecord /\ review \in ReviewRecord /\ replies \in Seq(ReplyRecord)
        /\ inbox \in Seq(TextKinds) /\ Len(inbox) <= MaxTexts
        /\ answered \subseteq ReplyMoments /\ severed \subseteq ReplyMoments /\ lead \in BOOLEAN
    BY DEF PipelineInv, PipelineShape
  <2>2. /\ thread.triage \in Triages /\ thread.triaged \in 0..MaxTexts
        /\ thread.handoff \in HandoffStatus /\ thread.attempts \in Nat
    BY <2>1 DEF ThreadRecord
  <2>3. review.stage \in ReviewStages /\ review.moment \in ReplyMoments /\ review.due \in Nat
    BY <2>1 DEF ReviewRecord
  <2>4. \A i \in DOMAIN replies : /\ replies[i].moment \in ReplyMoments
                                  /\ replies[i].state \in {"queued", "sent", "given_up", "exhausted"}
    <3>1. \A i \in DOMAIN replies : replies[i] \in ReplyRecord
      BY <2>1
    <3> QED BY <3>1 DEF ReplyRecord
  <2> QED BY <2>1, <2>2, <2>3, <2>4 DEF PipelineTypeOK
<1> QED BY <1>1, PipelineAlways, PTL

\* A lead that is ready, once its review is over, is carried by a reply: a refusal, a
\* suppression, a delivery or a final failure on the way tells the handoff.
THEOREM LeadsAreCarried == PipelineSpec => []ReadyLeadIsCarried
<1>1. PipelineInv => ReadyLeadIsCarried
  BY DEF PipelineInv, LeadIsCarried, Carried, ReadyLeadIsCarried
<1> QED BY <1>1, PipelineAlways, PTL

\* Nobody found hostile by the rules is answered.
THEOREM HostileStayUnanswered == PipelineSpec => []HostileGoesUnanswered
<1>1. PipelineInv => HostileGoesUnanswered
  BY DEF PipelineInv, RepliesAreOfTexts, HostileGoesUnanswered
<1> QED BY <1>1, PipelineAlways, PTL

------------------------------------------------------------------------------
(* Reply timing.                                                           *)

WakingSlots(w) == IF w.start < w.end THEN DaySlots - (w.end - w.start) ELSE w.start - w.end

\* The delay after the quiet hours ends before the next ones begin. Neither the code nor the
\* policy file compares the two: by default the delay is at most half an hour.
WakeupFits == \A s \in Settings, d \in WakeupDelays : d < WakingSlots(s.quiet)

\* What is shifted out of the quiet hours is out of them, and not earlier.
LEMMA ShiftedIsAwake ==
    ASSUME NEW at \in Nat, NEW w \in QuietHours, NEW due \in ShiftedOut(at, w),
           \A d \in WakeupDelays : d < WakingSlots(w)
    PROVE  due >= at /\ ~IsQuiet(due, w)
<1>1. CASE ~IsQuiet(at, w)
  BY <1>1 DEF ShiftedOut
<1>2. CASE IsQuiet(at, w)
  <2> DEFINE q == at \div DaySlots
             local == at % DaySlots
  <2>1. PICK d \in WakeupDelays : due = NextAllowed(at, w) + d
    BY <1>2 DEF ShiftedOut
  <2>2. /\ q \in Nat /\ local \in 0..(DaySlots - 1) /\ at = q * DaySlots + local
        /\ DaySlots \in Nat \ {0}
    BY Division, PipelineConstantsOK, Zenon
  <2>3. /\ w.start \in 0..(DaySlots - 1) /\ w.end \in 0..(DaySlots - 1) /\ d \in Nat
        /\ d < WakingSlots(w)
    BY PipelineConstantsOK DEF QuietHours
  <2>4. IF w.start < w.end THEN w.start <= local /\ local < w.end
                           ELSE local >= w.start \/ local < w.end
    BY <1>2 DEF IsQuiet
  <2>5. due = (IF w.start >= w.end /\ local >= w.start THEN q + 1 ELSE q) * DaySlots + w.end + d
    BY <2>1 DEF NextAllowed
  <2> HIDE DEF q, local
  <2>6. PICK p \in Nat : due = p * DaySlots + (w.end + d) /\ due >= at
    <3>1. CASE w.start >= w.end /\ local >= w.start
      <4>1. due = (q + 1) * DaySlots + (w.end + d)
        BY <2>2, <2>3, <2>5, <3>1
      <4>2. (q + 1) * DaySlots = q * DaySlots + DaySlots
        BY <2>2
      <4>3. due >= at
        BY <2>2, <2>3, <4>1, <4>2
      <4>4. q + 1 \in Nat
        BY <2>2
      <4> QED BY <4>1, <4>3, <4>4
    <3>2. CASE ~(w.start >= w.end /\ local >= w.start)
      <4>1. due = q * DaySlots + (w.end + d)
        BY <2>2, <2>3, <2>5, <3>2
      <4>2. local < w.end
        BY <2>2, <2>3, <2>4, <3>2
      <4>3. due >= at
        BY <2>2, <2>3, <4>1, <4>2
      <4> QED BY <2>2, <4>1, <4>3
    <3> QED BY <3>1, <3>2
  <2>7. \A a \in Nat, r \in 0..(DaySlots - 1) : (a * DaySlots + r) % DaySlots = r
    BY Division, PipelineConstantsOK, Zenon
  <2>8. CASE w.end + d < DaySlots
    <3>1. w.end + d \in 0..(DaySlots - 1)
      BY <2>2, <2>3, <2>8
    <3>2. due % DaySlots = w.end + d
      BY <2>6, <2>7, <3>1
    <3>3. IF w.start < w.end THEN ~(w.start <= w.end + d /\ w.end + d < w.end)
                             ELSE ~(w.end + d >= w.start \/ w.end + d < w.end)
      BY <2>2, <2>3 DEF WakingSlots
    <3>4. ~IsQuiet(due, w)
      BY <3>2, <3>3 DEF IsQuiet
    <3> QED BY <2>6, <3>4
  <2>9. CASE w.end + d >= DaySlots
    <3> DEFINE r == w.end + d - DaySlots
    <3>1. r \in 0..(DaySlots - 1) /\ w.start < w.end /\ r < w.start
      BY <2>2, <2>3, <2>9 DEF WakingSlots
    <3>2. due = (p + 1) * DaySlots + r /\ p + 1 \in Nat
      BY <2>2, <2>3, <2>6
    <3> HIDE DEF r
    <3>3. due % DaySlots = r
      BY <2>7, <3>1, <3>2
    <3>4. ~(w.start <= r /\ r < w.end)
      BY <2>3, <3>1
    <3>5. ~IsQuiet(due, w)
      BY <3>1, <3>3, <3>4 DEF IsQuiet
    <3> QED BY <2>6, <3>5
  <2> QED BY <2>2, <2>3, <2>8, <2>9
<1> QED BY <1>1, <1>2

\* Only the reply timing plans a reply, and what it plans is for a waking hour.
LEMMA PlansStayAwake ==
    ASSUME WakeupFits, PipelineInv, PlannedAwake, [PipelineNext]_pipeline_vars
    PROVE  PlannedAwake'
<1> SUFFICES ASSUME review'.stage = "enqueue"
             PROVE  review'.due >= review'.planned /\ ~IsQuiet(review'.due, setting'.quiet)
  BY DEF PlannedAwake
<1>1. review \in ReviewRecord
  BY DEF PipelineInv, PipelineShape
<1>2. CASE review' = review /\ setting' = setting
  BY <1>2 DEF PlannedAwake
<1>3. CASE PlanReply
  <2>1. review' # Finished
    BY ReviewsFit, <1>1
  <2>2. PICK now \in 0..MaxSlot, d \in Delays(thread.triage, review.ready) :
          \E due \in ShiftedOut(now + d, setting.quiet) :
            review' = [review EXCEPT !.stage = "enqueue", !.planned = now, !.due = due]
    BY <1>3, <2>1 DEF PlanReply
  <2>3. PICK due \in ShiftedOut(now + d, setting.quiet) :
            review' = [review EXCEPT !.stage = "enqueue", !.planned = now, !.due = due]
    BY <2>2
  <2>4. now \in Nat /\ d \in Nat /\ now + d \in Nat
    BY PipelineConstantsOK DEF Delays
  <2>5. setting \in Settings /\ setting.quiet \in QuietHours /\ setting' = setting
    BY <1>3, PipelineConstantsOK DEF PipelineInv, PipelineShape, QuietHours, PlanReply
  <2>6. \A e \in WakeupDelays : e < WakingSlots(setting.quiet)
    BY <2>5 DEF WakeupFits
  <2>7. due >= now + d /\ ~IsQuiet(due, setting.quiet) /\ due \in Nat
    BY <2>4, <2>5, <2>6, ShiftedIsAwake, ShiftedFits
  <2>8. review'.due = due /\ review'.planned = now
    BY <1>1, <2>3 DEF ReviewRecord
  <2> QED BY <2>4, <2>5, <2>7, <2>8
<1>4. CASE ClaimMoment \/ Triage \/ Review \/ ReviewRaises \/ RecordProposal
  <2>1. review'.stage \in {"triage", "review", "record", "authorize", "none", "complete"}
    BY <1>1, <1>4, ReviewsFit
    DEF ClaimMoment, Triage, Review, ReviewRaises, RecordProposal, ReviewRecord
  <2> QED BY <2>1
<1>5. CASE Authorize \/ EnqueueReply \/ CompleteReview \/ ReviewerDies
  <2>1. review'.stage \in {"plan", "none", "complete"}
    BY <1>1, <1>5, ReviewsFit
    DEF Authorize, EnqueueReply, CompleteReview, ReviewerDies, ReviewRecord
  <2> QED BY <2>1
<1>6. CASE \/ \E k \in TextKinds : WriteText(k)
           \/ \E i \in DOMAIN replies : HandOver(i) \/ GiveUp(i) \/ RunOutOfRetries(i)
  BY <1>2, <1>6 DEF WriteText, HandOver, GiveUp, RunOutOfRetries
<1>7. CASE UNCHANGED pipeline_vars
  BY <1>2, <1>7 DEF pipeline_vars
<1> QED BY <1>3, <1>4, <1>5, <1>6, <1>7 DEF PipelineNext

\* An automatic reply goes to somebody who may want one, at an hour it may be read, if the
\* delay after the quiet hours fits between them.
THEOREM RepliesStayWelcome ==
    ASSUME WakeupFits
    PROVE  PipelineSpec => []RepliesAreWelcome
<1>1. PipelineInit => PlannedAwake
  BY ReviewsFit DEF PipelineInit, PlannedAwake
<1>2. PipelineInv /\ PlannedAwake /\ [PipelineNext]_pipeline_vars => PlannedAwake'
  BY PlansStayAwake
<1>3. PipelineSpec => []PlannedAwake
  BY <1>1, <1>2, PipelineAlways, PTL DEF PipelineSpec
<1> QED BY <1>3, HostileStayUnanswered, PTL DEF RepliesAreWelcome

------------------------------------------------------------------------------
(* Held replies: the inductive invariant.                                  *)

WorkerStages == {"none", "authorize", "link", "send", "unlink"}
BotStage == {"none", "propose", "approve", "enqueue", "materialize", "dismiss", "clear", "posture",
             "reply"}
MaybeReview == ReviewIds \cup {NoHeldReview}
WorkerRecord == [stage : WorkerStages, moment : Moments \cup {<<"inbound", 0>>}, draft : Drafts \cup {0}]
CommandRecord == [kind : {"none", "approve", "dismiss", "posture"}, review : MaybeReview, mode : Modes]
BotRecord == [stage : BotStage, intent : IntentStatus]
SentReply == [by : {"brain", "operator"}, reply : ReviewIds]

HeldShape ==
    /\ last_event \in 1..MaxEvents /\ pending_link \in MaybeReview
    /\ posture \in [Families -> Modes] /\ held \in [ReviewIds -> ReviewStatus]
    /\ sends \subseteq SentReply /\ reviewed \subseteq Moments
    /\ worker \in WorkerRecord /\ command \in CommandRecord /\ bot \in BotRecord
    /\ commands \in 0..MaxCommands /\ held_deaths \in 0..MaxHeldDeaths
    /\ said_dismissed \subseteq ReviewIds /\ unasked \in Nat

\* What the worker and the bot are at names a review that can be.
WorkerFits ==
    /\ worker.stage # "none" => worker.moment \in Moments \ reviewed
    /\ worker.stage \in {"authorize", "link", "send"} => worker.draft \in Drafts
BotFits ==
    /\ bot.stage \in {"approve", "enqueue", "materialize"} => command.kind = "approve"
    /\ bot.stage = "dismiss" => command.kind = "dismiss"
    /\ bot.stage \in {"approve", "enqueue", "materialize", "dismiss", "clear"} => command.review \in ReviewIds
    /\ bot.stage # "none" => command.kind # "none"

\* A worker that may still send has been allowed to by the posture as it is, or was.
OneReplyAtMost ==
    /\ unasked <= 1
    /\ posture["dm_reply"] = "autonomous_allowed" \/ worker.stage = "send" => unasked = 0

\* A review is saved once, by the worker that completes its moment, unless somebody died.
ReviewsSavedOnce ==
    \A r \in ReviewIds :
      held[r] # "absent" /\ r.moment \notin cut_moments
        => r.moment \in reviewed \/ (worker.stage = "link" /\ Draft(worker) = r)

ByOperator(r) == [by |-> "operator", reply |-> r] \in sends
SayingDismissed(r) == bot.stage = "clear" /\ command.kind = "dismiss" /\ command.review = r
Approving(r, stages) == bot.stage \in stages /\ command.review = r
\* What is dismissed, and what is approved, stays so, unless somebody died.
DecisionsHold ==
    \A r \in ReviewIds :
      r.moment \notin cut_moments =>
        /\ r \in said_dismissed \/ SayingDismissed(r) => held[r] = "dismissed"
        /\ Approving(r, {"enqueue", "materialize"}) => held[r] \in {"pending", "superseded"}
        /\ ByOperator(r) => held[r] = "materialized" \/ Approving(r, {"materialize"})

\* The link names what is pending, or somebody is about to clear it.
LinkFits ==
    /\ pending_link # NoHeldReview =>
         \/ held[pending_link] = "pending"
         \/ pending_link \in crossed \/ pending_link.moment \in cut_moments
         \/ bot.stage = "clear" /\ command.review = pending_link
         \/ worker.stage \in {"send", "unlink"}
    /\ worker.stage = "link" => held[Draft(worker)] = "pending" \/ Draft(worker) \in crossed

HeldInv ==
    /\ HeldShape /\ WorkerFits /\ BotFits /\ OneReplyAtMost /\ ReviewsSavedOnce /\ DecisionsHold
    /\ LinkFits

------------------------------------------------------------------------------
(* Held replies: the steps.                                                *)

\* What stands for nothing is no review, and fits where one may be.
LEMMA NoReviewIsNone ==
    /\ NoHeldReview \notin ReviewIds /\ NoHeldReview \in MaybeReview
    /\ NoCommand \in CommandRecord /\ NoCommand.kind = "none" /\ NoCommand.review = NoHeldReview
    /\ NoWork \in WorkerRecord /\ NoWork.stage = "none"
    /\ BotIdle \in BotRecord /\ BotIdle.stage = "none"
<1>1. NoHeldReview \notin ReviewIds
  BY DEF NoHeldReview, ReviewIds, Moments
<1>2. NoHeldReview \in MaybeReview
  BY DEF MaybeReview
<1>3. NoCommand = [kind |-> "none", review |-> NoHeldReview, mode |-> "manual_only"]
  BY DEF NoCommand
<1>4. NoCommand \in CommandRecord /\ NoCommand.kind = "none" /\ NoCommand.review = NoHeldReview
  BY <1>2, <1>3 DEF CommandRecord, Modes
<1>5. NoWork \in WorkerRecord /\ NoWork.stage = "none"
  BY DEF NoWork, WorkerRecord, WorkerStages
<1>6. BotIdle \in BotRecord /\ BotIdle.stage = "none"
  BY DEF BotIdle, BotRecord, BotStage, IntentStatus
<1> QED BY <1>1, <1>2, <1>4, <1>5, <1>6

\* An event changes no review.
LEMMA ReceiveEventKeeps ==
    ASSUME HeldInv, ReceiveEvent
    PROVE  HeldInv'
<1> USE DEF HeldInv, HeldShape, world_vars, worker_history, bot_frame
<1>1. HeldShape'
  BY HeldConstantsOK DEF ReceiveEvent, WorkerRecord, CommandRecord, BotRecord, WorkerStages,
     BotStage, NoWork, NoCommand,
     BotIdle, Draft, WorkerFits, BotFits, Moments, SentReply, ReviewIds, ReviewStatus, MaybeReview,
     IntentStatus, Modes, Families
<1>2. WorkerFits'
  BY DEF ReceiveEvent, WorkerFits, WorkerRecord, CommandRecord, BotRecord, NoWork, NoCommand,
     BotIdle
<1>3. BotFits'
  BY DEF ReceiveEvent, BotFits, WorkerRecord, CommandRecord, BotRecord, NoWork, NoCommand, BotIdle
<1>4. OneReplyAtMost'
  BY DEF ReceiveEvent, OneReplyAtMost, WorkerRecord, CommandRecord, BotRecord, NoWork,
     NoCommand, BotIdle
<1>5. ReviewsSavedOnce'
  BY DEF ReceiveEvent, ReviewsSavedOnce, Draft, WorkerRecord, CommandRecord, BotRecord,
     NoWork, NoCommand, BotIdle
<1>6. DecisionsHold'
  BY DEF ReceiveEvent, DecisionsHold, ReviewsSavedOnce, WorkerFits, ByOperator,
     SayingDismissed, Approving, Draft, WorkerRecord, CommandRecord, BotRecord, NoWork,
     NoCommand, BotIdle
<1>7. LinkFits'
  BY DEF ReceiveEvent, LinkFits, Draft, WorkerRecord, CommandRecord, BotRecord, NoWork,
     NoCommand, BotIdle
<1> QED BY <1>1, <1>2, <1>3, <1>4, <1>5, <1>6, <1>7

\* A review begins for a moment that has not been reviewed.
LEMMA ReviewConversationKeeps ==
    ASSUME HeldInv, ReviewConversation
    PROVE  HeldInv'
<1> USE DEF HeldInv, HeldShape, world_vars, worker_history, bot_frame
<1>1. PICK kind \in {"inbound", "follow_up"} :
        /\ <<kind, last_event>> \notin reviewed
        /\ \/ worker' = [NoWork EXCEPT !.stage = "unlink", !.moment = <<kind, last_event>>]
           \/ \E d \in Drafts : worker' = [stage |-> "authorize", moment |-> <<kind, last_event>>, draft |-> d]
  BY DEF ReviewConversation
<1>2. <<kind, last_event>> \in Moments
  BY DEF Moments
<1>3. /\ worker.stage = "none" /\ worker' \in WorkerRecord /\ worker'.stage \in {"unlink", "authorize"}
      /\ worker'.moment = <<kind, last_event>>
      /\ worker'.stage = "authorize" => worker'.draft \in Drafts
  <2>1. worker.stage = "none"
    BY DEF ReviewConversation
  <2>2. CASE worker' = [NoWork EXCEPT !.stage = "unlink", !.moment = <<kind, last_event>>]
    <3>1. worker' = [stage |-> "unlink", moment |-> <<kind, last_event>>, draft |-> 0]
      BY <2>2 DEF NoWork
    <3> QED BY <1>2, <2>1, <3>1 DEF WorkerRecord, WorkerStages
  <2>3. CASE \E d \in Drafts : worker' = [stage |-> "authorize", moment |-> <<kind, last_event>>, draft |-> d]
    BY <1>2, <2>1, <2>3 DEF WorkerRecord, WorkerStages
  <2> QED BY <1>1, <2>2, <2>3
<1>4. HeldShape'
  BY <1>1, <1>2, <1>3, HeldConstantsOK DEF ReviewConversation, WorkerRecord, CommandRecord,
     BotRecord, WorkerStages, BotStage, NoWork, NoCommand,
     BotIdle, Draft, WorkerFits, BotFits, Moments, SentReply, ReviewIds, ReviewStatus, MaybeReview,
     IntentStatus, Modes, Families
<1>5. WorkerFits'
  BY <1>1, <1>2, <1>3 DEF ReviewConversation, WorkerFits, WorkerRecord, CommandRecord,
     BotRecord, NoWork, NoCommand, BotIdle
<1>6. BotFits'
  BY <1>1, <1>2, <1>3 DEF ReviewConversation, BotFits, WorkerRecord, CommandRecord, BotRecord,
     NoWork, NoCommand, BotIdle
<1>7. OneReplyAtMost'
  BY <1>1, <1>2, <1>3 DEF ReviewConversation, OneReplyAtMost, WorkerRecord, CommandRecord,
     BotRecord, NoWork, NoCommand, BotIdle
<1>8. ReviewsSavedOnce'
  BY <1>1, <1>2, <1>3 DEF ReviewConversation, ReviewsSavedOnce, Draft, WorkerRecord,
     CommandRecord, BotRecord, NoWork, NoCommand, BotIdle
<1>9. DecisionsHold'
  BY <1>1, <1>2, <1>3 DEF ReviewConversation, DecisionsHold, ReviewsSavedOnce, WorkerFits,
     ByOperator, SayingDismissed, Approving, Draft, WorkerRecord, CommandRecord, BotRecord,
     NoWork, NoCommand, BotIdle
<1>10. LinkFits'
  BY <1>1, <1>2, <1>3 DEF ReviewConversation, LinkFits, Draft, WorkerRecord, CommandRecord,
     BotRecord, NoWork, NoCommand, BotIdle
<1> QED BY <1>4, <1>5, <1>6, <1>7, <1>8, <1>9, <1>10

\* A review is held for the first time: nobody has decided on it.
LEMMA HoldKeeps ==
    ASSUME HeldInv, Hold
    PROVE  HeldInv'
<1> USE DEF HeldInv, HeldShape, world_vars, worker_history, bot_frame
<1>1. Draft(worker) \in ReviewIds /\ NoHeldReview \notin ReviewIds
  BY NoReviewIsNone DEF Hold, WorkerFits, Draft, ReviewIds
<1>2. /\ worker.stage = "authorize" /\ worker'.stage = "link" /\ Draft(worker)' = Draft(worker)
      /\ held'[Draft(worker)] = "pending"
      /\ \A r \in ReviewIds \ {Draft(worker)} : held'[r] = held[r]
  BY <1>1 DEF Hold, WorkerRecord, Draft
<1>3. HeldShape'
  BY <1>1, <1>2, HeldConstantsOK DEF Hold, WorkerRecord, CommandRecord, BotRecord,
     WorkerStages, BotStage, NoWork, NoCommand,
     BotIdle, Draft, WorkerFits, BotFits, Moments, SentReply, ReviewIds, ReviewStatus, MaybeReview,
     IntentStatus, Modes, Families
<1>4. WorkerFits'
  BY <1>1, <1>2 DEF Hold, WorkerFits, WorkerRecord, CommandRecord, BotRecord, NoWork,
     NoCommand, BotIdle
<1>5. BotFits'
  BY <1>1, <1>2 DEF Hold, BotFits, WorkerRecord, CommandRecord, BotRecord, NoWork, NoCommand,
     BotIdle
<1>6. OneReplyAtMost'
  BY <1>1, <1>2 DEF Hold, OneReplyAtMost, WorkerRecord, CommandRecord, BotRecord, NoWork,
     NoCommand, BotIdle
<1>7. ReviewsSavedOnce'
  BY <1>1, <1>2 DEF Hold, ReviewsSavedOnce, Draft, WorkerRecord, CommandRecord, BotRecord,
     NoWork, NoCommand, BotIdle
<1>8. DecisionsHold'
  BY <1>1, <1>2 DEF Hold, DecisionsHold, ReviewsSavedOnce, WorkerFits, ByOperator,
     SayingDismissed, Approving, Draft, WorkerRecord, CommandRecord, BotRecord, NoWork,
     NoCommand, BotIdle
<1>9. LinkFits'
  BY <1>1, <1>2 DEF Hold, LinkFits, Draft, WorkerRecord, CommandRecord, BotRecord, NoWork,
     NoCommand, BotIdle
<1> QED BY <1>3, <1>4, <1>5, <1>6, <1>7, <1>8, <1>9

\* An automatic reply needs a posture that allows it.
LEMMA SupersedeKeeps ==
    ASSUME HeldInv, Supersede
    PROVE  HeldInv'
<1> USE DEF HeldInv, HeldShape, world_vars, worker_history, bot_frame
<1>1. /\ \A r \in ReviewIds : held'[r] = IF held[r] = "pending" THEN "superseded" ELSE held[r]
      /\ worker.stage = "authorize" /\ worker'.stage = "send" /\ worker'.moment = worker.moment
      /\ posture["dm_reply"] = "autonomous_allowed"
  BY DEF Supersede, Pending, WorkerRecord, Mode
<1>2. HeldShape'
  <2>1. worker' \in WorkerRecord
    BY DEF Supersede, WorkerRecord, WorkerStages
  <2>2. held' \in [ReviewIds -> ReviewStatus]
    BY DEF Supersede, ReviewStatus
  <2> QED BY <2>1, <2>2 DEF Supersede
<1>3. WorkerFits'
  BY <1>1 DEF Supersede, WorkerFits, WorkerRecord, CommandRecord, BotRecord, NoWork,
     NoCommand, BotIdle
<1>4. BotFits'
  BY <1>1 DEF Supersede, BotFits, WorkerRecord, CommandRecord, BotRecord, NoWork, NoCommand,
     BotIdle
<1>5. OneReplyAtMost'
  BY <1>1 DEF Supersede, OneReplyAtMost, WorkerRecord, CommandRecord, BotRecord, NoWork,
     NoCommand, BotIdle
<1>6. ReviewsSavedOnce'
  BY <1>1 DEF Supersede, ReviewsSavedOnce, Draft, WorkerRecord, CommandRecord, BotRecord,
     NoWork, NoCommand, BotIdle
<1>7. DecisionsHold'
  BY <1>1 DEF Supersede, DecisionsHold, ReviewsSavedOnce, WorkerFits, ByOperator,
     SayingDismissed, Approving, Draft, WorkerRecord, CommandRecord, BotRecord, NoWork,
     NoCommand, BotIdle
<1>8. LinkFits'
  BY <1>1 DEF Supersede, LinkFits, Draft, WorkerRecord, CommandRecord, BotRecord, NoWork,
     NoCommand, BotIdle
<1> QED BY <1>2, <1>3, <1>4, <1>5, <1>6, <1>7, <1>8

\* The link names the review just held.
LEMMA LinkReviewKeeps ==
    ASSUME HeldInv, LinkReview
    PROVE  HeldInv'
<1> USE DEF HeldInv, HeldShape, world_vars, worker_history, bot_frame
<1>1. HeldShape'
  BY HeldConstantsOK DEF LinkReview, WorkerRecord, CommandRecord, BotRecord, WorkerStages,
     BotStage, NoWork, NoCommand,
     BotIdle, Draft, WorkerFits, BotFits, Moments, SentReply, ReviewIds, ReviewStatus, MaybeReview,
     IntentStatus, Modes, Families
<1>2. WorkerFits'
  BY DEF LinkReview, WorkerFits, WorkerRecord, CommandRecord, BotRecord, NoWork, NoCommand,
     BotIdle
<1>3. BotFits'
  BY DEF LinkReview, BotFits, WorkerRecord, CommandRecord, BotRecord, NoWork, NoCommand, BotIdle
<1>4. OneReplyAtMost'
  BY DEF LinkReview, OneReplyAtMost, WorkerRecord, CommandRecord, BotRecord, NoWork,
     NoCommand, BotIdle
<1>5. ReviewsSavedOnce'
  BY DEF LinkReview, ReviewsSavedOnce, Draft, WorkerRecord, CommandRecord, BotRecord, NoWork,
     NoCommand, BotIdle
<1>6. DecisionsHold'
  BY DEF LinkReview, DecisionsHold, ReviewsSavedOnce, WorkerFits, ByOperator, SayingDismissed,
     Approving, Draft, WorkerRecord, CommandRecord, BotRecord, NoWork, NoCommand, BotIdle
<1>7. LinkFits'
  BY DEF LinkReview, LinkFits, Draft, WorkerRecord, CommandRecord, BotRecord, NoWork,
     NoCommand, BotIdle
<1> QED BY <1>1, <1>2, <1>3, <1>4, <1>5, <1>6, <1>7

\* One reply is sent, and the worker sends no more.
LEMMA SendOrHoldBackKeeps ==
    ASSUME HeldInv, SendOrHoldBack
    PROVE  HeldInv'
<1> USE DEF HeldInv, HeldShape, world_vars, worker_history, bot_frame
<1>1. HeldShape'
  BY HeldConstantsOK DEF SendOrHoldBack, WorkerRecord, CommandRecord, BotRecord, WorkerStages,
     BotStage, NoWork, NoCommand,
     BotIdle, Draft, WorkerFits, BotFits, Moments, SentReply, ReviewIds, ReviewStatus, MaybeReview,
     IntentStatus, Modes, Families
<1>2. WorkerFits'
  BY DEF SendOrHoldBack, WorkerFits, WorkerRecord, CommandRecord, BotRecord, NoWork,
     NoCommand, BotIdle
<1>3. BotFits'
  BY DEF SendOrHoldBack, BotFits, WorkerRecord, CommandRecord, BotRecord, NoWork, NoCommand,
     BotIdle
<1>4. OneReplyAtMost'
  BY DEF SendOrHoldBack, OneReplyAtMost, WorkerRecord, CommandRecord, BotRecord, NoWork,
     NoCommand, BotIdle
<1>5. ReviewsSavedOnce'
  BY DEF SendOrHoldBack, ReviewsSavedOnce, Draft, WorkerRecord, CommandRecord, BotRecord,
     NoWork, NoCommand, BotIdle
<1>6. DecisionsHold'
  BY DEF SendOrHoldBack, DecisionsHold, ReviewsSavedOnce, WorkerFits, ByOperator,
     SayingDismissed, Approving, Draft, WorkerRecord, CommandRecord, BotRecord, NoWork,
     NoCommand, BotIdle
<1>7. LinkFits'
  BY DEF SendOrHoldBack, LinkFits, Draft, WorkerRecord, CommandRecord, BotRecord, NoWork,
     NoCommand, BotIdle
<1> QED BY <1>1, <1>2, <1>3, <1>4, <1>5, <1>6, <1>7

\* The review is complete without a link.
LEMMA ClearLinkKeeps ==
    ASSUME HeldInv, ClearLink
    PROVE  HeldInv'
<1> USE DEF HeldInv, HeldShape, world_vars, worker_history, bot_frame
<1>1. HeldShape'
  BY HeldConstantsOK DEF ClearLink, WorkerRecord, CommandRecord, BotRecord, WorkerStages,
     BotStage, NoWork, NoCommand,
     BotIdle, Draft, WorkerFits, BotFits, Moments, SentReply, ReviewIds, ReviewStatus, MaybeReview,
     IntentStatus, Modes, Families
<1>2. WorkerFits'
  BY DEF ClearLink, WorkerFits, WorkerRecord, CommandRecord, BotRecord, NoWork, NoCommand, BotIdle
<1>3. BotFits'
  BY DEF ClearLink, BotFits, WorkerRecord, CommandRecord, BotRecord, NoWork, NoCommand, BotIdle
<1>4. OneReplyAtMost'
  BY DEF ClearLink, OneReplyAtMost, WorkerRecord, CommandRecord, BotRecord, NoWork, NoCommand,
     BotIdle
<1>5. ReviewsSavedOnce'
  BY DEF ClearLink, ReviewsSavedOnce, Draft, WorkerRecord, CommandRecord, BotRecord, NoWork,
     NoCommand, BotIdle
<1>6. DecisionsHold'
  BY DEF ClearLink, DecisionsHold, ReviewsSavedOnce, WorkerFits, ByOperator, SayingDismissed,
     Approving, Draft, WorkerRecord, CommandRecord, BotRecord, NoWork, NoCommand, BotIdle
<1>7. LinkFits'
  BY DEF ClearLink, LinkFits, Draft, WorkerRecord, CommandRecord, BotRecord, NoWork,
     NoCommand, BotIdle
<1> QED BY <1>1, <1>2, <1>3, <1>4, <1>5, <1>6, <1>7

\* What the worker leaves half done is cut.
LEMMA WorkerDiesKeeps ==
    ASSUME HeldInv, WorkerDies
    PROVE  HeldInv'
<1> USE DEF HeldInv, HeldShape, world_vars, worker_history, bot_frame
<1>1. /\ worker' = NoWork /\ NoWork.stage = "none" /\ pending_link' = pending_link
      /\ cut_moments \subseteq cut_moments' /\ worker.moment \in cut_moments'
  BY NoReviewIsNone DEF WorkerDies
<1>2. pending_link # NoHeldReview /\ worker.stage \in {"send", "unlink"} => pending_link.moment \in cut_moments'
  BY DEF WorkerDies, MaybeReview
<1>3. HeldShape'
  BY <1>1, <1>2, HeldConstantsOK DEF WorkerDies, WorkerRecord, CommandRecord, BotRecord,
     WorkerStages, BotStage, NoWork, NoCommand,
     BotIdle, Draft, WorkerFits, BotFits, Moments, SentReply, ReviewIds, ReviewStatus, MaybeReview,
     IntentStatus, Modes, Families
<1>4. WorkerFits'
  BY <1>1, <1>2 DEF WorkerDies, WorkerFits, WorkerRecord, CommandRecord, BotRecord, NoWork,
     NoCommand, BotIdle
<1>5. BotFits'
  BY <1>1, <1>2 DEF WorkerDies, BotFits, WorkerRecord, CommandRecord, BotRecord, NoWork,
     NoCommand, BotIdle
<1>6. OneReplyAtMost'
  BY <1>1, <1>2 DEF WorkerDies, OneReplyAtMost, WorkerRecord, CommandRecord, BotRecord,
     NoWork, NoCommand, BotIdle
<1>7. ReviewsSavedOnce'
  BY <1>1, <1>2 DEF WorkerDies, ReviewsSavedOnce, Draft, WorkerRecord, CommandRecord,
     BotRecord, NoWork, NoCommand, BotIdle
<1>8. DecisionsHold'
  BY <1>1, <1>2 DEF WorkerDies, DecisionsHold, ReviewsSavedOnce, WorkerFits, ByOperator,
     SayingDismissed, Approving, Draft, WorkerRecord, CommandRecord, BotRecord, NoWork,
     NoCommand, BotIdle
<1>9. LinkFits'
  BY <1>1, <1>2 DEF WorkerDies, LinkFits, Draft, WorkerRecord, CommandRecord, BotRecord,
     NoWork, NoCommand, BotIdle
<1> QED BY <1>3, <1>4, <1>5, <1>6, <1>7, <1>8, <1>9

\* The operator speaks: nothing is decided yet.
LEMMA SaysKeeps ==
    ASSUME HeldInv, Says
    PROVE  HeldInv'
<1> USE DEF HeldInv, HeldShape, world_vars, worker_history, bot_frame
<1>1. /\ command = NoCommand /\ commands < MaxCommands /\ commands' = commands + 1
      /\ bot' = [stage |-> "propose", intent |-> "proposed"]
      /\ held' = held /\ sends' = sends /\ said_dismissed' = said_dismissed
      /\ cut_moments' = cut_moments /\ posture' = posture /\ last_event' = last_event
      /\ pending_link' = pending_link /\ reviewed' = reviewed /\ worker' = worker
      /\ held_deaths' = held_deaths /\ unasked' = unasked /\ crossed' = crossed
  BY DEF Says
<1>2. command' \in CommandRecord /\ command'.kind # "none"
  BY NoReviewIsNone DEF Says, CommandRecord, MaybeReview
<1>3. bot' \in BotRecord /\ bot'.stage = "propose" /\ bot.stage = "none"
  BY <1>1, NoReviewIsNone DEF BotRecord, BotStage, IntentStatus, BotFits
<1>4. commands' \in 0..MaxCommands
  BY <1>1, HeldConstantsOK
<1>5. HeldShape'
  BY <1>1, <1>2, <1>3, <1>4
<1>6. WorkerFits'
  BY <1>1 DEF WorkerFits
<1>7. BotFits'
  BY <1>2, <1>3 DEF BotFits
<1>8. OneReplyAtMost'
  BY <1>1 DEF OneReplyAtMost
<1>9. ReviewsSavedOnce'
  BY <1>1 DEF ReviewsSavedOnce, Draft
<1>10. DecisionsHold'
  BY <1>1, <1>3 DEF DecisionsHold, ByOperator, SayingDismissed, Approving
<1>11. LinkFits'
  BY <1>1, <1>3 DEF LinkFits, Draft
<1> QED BY <1>5, <1>6, <1>7, <1>8, <1>9, <1>10, <1>11

\* A command comes to name a review.
LEMMA ValidateKeeps ==
    ASSUME HeldInv, Validate
    PROVE  HeldInv'
<1> USE DEF HeldInv, HeldShape, world_vars, worker_history, bot_frame
<1>1. Named \in MaybeReview
  <2>1. Cardinality(Pending) = 1 => \E r \in Pending : TRUE
    BY FS_EmptySet
  <2>2. Pending \subseteq MaybeReview
    BY DEF Pending, MaybeReview
  <2> QED BY <2>1, <2>2 DEF Named, CommandRecord
<1>2. /\ command' = [command EXCEPT !.review = Named] /\ command' \in CommandRecord
      /\ command'.kind = command.kind /\ command'.review = Named
  BY <1>1 DEF Validate, CommandRecord
<1>3. /\ bot.stage = "propose" /\ command.kind # "none"
      /\ bot' \in BotRecord /\ bot'.stage \in {"reply", "approve", "dismiss", "posture"}
      /\ bot'.stage \in {"approve", "dismiss"} => command.kind = bot'.stage /\ Named # NoHeldReview
  BY <1>1 DEF Validate, BotFits, CommandRecord, BotRecord, BotStage, IntentStatus
<1>4. HeldShape'
  BY <1>1, <1>2, <1>3, HeldConstantsOK DEF Validate, WorkerRecord, CommandRecord, BotRecord,
     WorkerStages, BotStage, NoWork, NoCommand,
     BotIdle, Draft, WorkerFits, BotFits, Moments, SentReply, ReviewIds, ReviewStatus, MaybeReview,
     IntentStatus, Modes, Families
<1>5. WorkerFits'
  BY <1>1, <1>2, <1>3 DEF Validate, WorkerFits, WorkerRecord, CommandRecord, BotRecord,
     NoWork, NoCommand, BotIdle
<1>6. BotFits'
  BY <1>1, <1>2, <1>3 DEF BotFits, MaybeReview
<1>7. OneReplyAtMost'
  BY <1>1, <1>2, <1>3 DEF Validate, OneReplyAtMost, WorkerRecord, CommandRecord, BotRecord,
     NoWork, NoCommand, BotIdle
<1>8. ReviewsSavedOnce'
  BY <1>1, <1>2, <1>3 DEF Validate, ReviewsSavedOnce, Draft, WorkerRecord, CommandRecord,
     BotRecord, NoWork, NoCommand, BotIdle
<1>9. DecisionsHold'
  BY <1>1, <1>2, <1>3 DEF Validate, DecisionsHold, ReviewsSavedOnce, WorkerFits, ByOperator,
     SayingDismissed, Approving, Draft, WorkerRecord, CommandRecord, BotRecord, NoWork,
     NoCommand, BotIdle
<1>10. LinkFits'
  BY <1>1, <1>2, <1>3 DEF Validate, LinkFits, Draft, WorkerRecord, CommandRecord, BotRecord,
     NoWork, NoCommand, BotIdle
<1> QED BY <1>4, <1>5, <1>6, <1>7, <1>8, <1>9, <1>10

\* What is approved is pending.
LEMMA CheckApprovalKeeps ==
    ASSUME HeldInv, CheckApproval
    PROVE  HeldInv'
<1> USE DEF HeldInv, HeldShape, world_vars, worker_history, bot_frame
<1>1. /\ bot.stage = "approve" /\ bot'.stage \in {"enqueue", "reply"}
      /\ bot'.stage = "enqueue" => held[command.review] = "pending"
  BY DEF CheckApproval, BotRecord, IsHeld
<1>2. HeldShape'
  BY <1>1, HeldConstantsOK DEF CheckApproval, WorkerRecord, CommandRecord, BotRecord,
     WorkerStages, BotStage, NoWork, NoCommand,
     BotIdle, Draft, WorkerFits, BotFits, Moments, SentReply, ReviewIds, ReviewStatus, MaybeReview,
     IntentStatus, Modes, Families
<1>3. WorkerFits'
  BY <1>1 DEF CheckApproval, WorkerFits, WorkerRecord, CommandRecord, BotRecord, NoWork,
     NoCommand, BotIdle
<1>4. BotFits'
  BY <1>1 DEF CheckApproval, BotFits, WorkerRecord, CommandRecord, BotRecord, NoWork,
     NoCommand, BotIdle
<1>5. OneReplyAtMost'
  BY <1>1 DEF CheckApproval, OneReplyAtMost, WorkerRecord, CommandRecord, BotRecord, NoWork,
     NoCommand, BotIdle
<1>6. ReviewsSavedOnce'
  BY <1>1 DEF CheckApproval, ReviewsSavedOnce, Draft, WorkerRecord, CommandRecord, BotRecord,
     NoWork, NoCommand, BotIdle
<1>7. DecisionsHold'
  BY <1>1 DEF CheckApproval, DecisionsHold, ReviewsSavedOnce, WorkerFits, ByOperator,
     SayingDismissed, Approving, Draft, WorkerRecord, CommandRecord, BotRecord, NoWork,
     NoCommand, BotIdle
<1>8. LinkFits'
  BY <1>1 DEF CheckApproval, LinkFits, Draft, WorkerRecord, CommandRecord, BotRecord, NoWork,
     NoCommand, BotIdle
<1> QED BY <1>2, <1>3, <1>4, <1>5, <1>6, <1>7, <1>8

\* What is sent for the operator is what was approved.
LEMMA EnqueueApprovedKeeps ==
    ASSUME HeldInv, EnqueueApproved
    PROVE  HeldInv'
<1> USE DEF HeldInv, HeldShape, world_vars, worker_history, bot_frame
<1>1. HeldShape'
  BY HeldConstantsOK DEF EnqueueApproved, WorkerRecord, CommandRecord, BotRecord,
     WorkerStages, BotStage, NoWork, NoCommand,
     BotIdle, Draft, WorkerFits, BotFits, Moments, SentReply, ReviewIds, ReviewStatus, MaybeReview,
     IntentStatus, Modes, Families
<1>2. WorkerFits'
  BY DEF EnqueueApproved, WorkerFits, WorkerRecord, CommandRecord, BotRecord, NoWork,
     NoCommand, BotIdle
<1>3. BotFits'
  BY DEF EnqueueApproved, BotFits, WorkerRecord, CommandRecord, BotRecord, NoWork, NoCommand,
     BotIdle
<1>4. OneReplyAtMost'
  BY DEF EnqueueApproved, OneReplyAtMost, WorkerRecord, CommandRecord, BotRecord, NoWork,
     NoCommand, BotIdle
<1>5. ReviewsSavedOnce'
  BY DEF EnqueueApproved, ReviewsSavedOnce, Draft, WorkerRecord, CommandRecord, BotRecord,
     NoWork, NoCommand, BotIdle
<1>6. DecisionsHold'
  BY DEF EnqueueApproved, DecisionsHold, ReviewsSavedOnce, WorkerFits, ByOperator,
     SayingDismissed, Approving, Draft, WorkerRecord, CommandRecord, BotRecord, NoWork,
     NoCommand, BotIdle
<1>7. LinkFits'
  BY DEF EnqueueApproved, LinkFits, Draft, WorkerRecord, CommandRecord, BotRecord, NoWork,
     NoCommand, BotIdle
<1> QED BY <1>1, <1>2, <1>3, <1>4, <1>5, <1>6, <1>7

\* An approval is on record.
LEMMA MaterializeKeeps ==
    ASSUME HeldInv, Materialize
    PROVE  HeldInv'
<1> USE DEF HeldInv, HeldShape, world_vars, worker_history, bot_frame
<1>1. /\ command.review \in ReviewIds /\ command.kind = "approve" /\ bot.stage = "materialize"
      /\ bot'.stage = "clear" /\ held'[command.review] = "materialized"
      /\ \A r \in ReviewIds \ {command.review} : held'[r] = held[r]
      /\ crossed \subseteq crossed'
      /\ worker.stage = "link" /\ Draft(worker) = command.review => Draft(worker) \in crossed'
      /\ command' = command /\ worker' = worker
  BY DEF Materialize, BotFits, BotRecord, Crossed
<1>2. /\ worker.stage = "link" => Draft(worker) \in ReviewIds
      /\ reviewed' = reviewed /\ cut_moments' = cut_moments
      /\ held[command.review] = "absent" => command.review.moment \in cut_moments
  BY <1>1 DEF Materialize, WorkerFits, Draft, ReviewIds, DecisionsHold, Approving
<1>3. HeldShape'
  BY <1>1, <1>2, HeldConstantsOK DEF Materialize, WorkerRecord, CommandRecord, BotRecord,
     WorkerStages, BotStage, NoWork, NoCommand,
     BotIdle, Draft, WorkerFits, BotFits, Moments, SentReply, ReviewIds, ReviewStatus, MaybeReview,
     IntentStatus, Modes, Families
<1>4. WorkerFits'
  BY <1>1, <1>2 DEF Materialize, WorkerFits, WorkerRecord, CommandRecord, BotRecord, NoWork,
     NoCommand, BotIdle
<1>5. BotFits'
  BY <1>1, <1>2 DEF Materialize, BotFits, WorkerRecord, CommandRecord, BotRecord, NoWork,
     NoCommand, BotIdle
<1>6. OneReplyAtMost'
  BY <1>1, <1>2 DEF Materialize, OneReplyAtMost, WorkerRecord, CommandRecord, BotRecord,
     NoWork, NoCommand, BotIdle
<1>7. ReviewsSavedOnce'
  BY <1>1, <1>2 DEF ReviewsSavedOnce, Draft
<1>8. DecisionsHold'
  BY <1>1, <1>2 DEF Materialize, DecisionsHold, ReviewsSavedOnce, WorkerFits, ByOperator,
     SayingDismissed, Approving, Draft, WorkerRecord, CommandRecord, BotRecord, NoWork,
     NoCommand, BotIdle
<1>9. LinkFits'
  BY <1>1, <1>2 DEF Materialize, LinkFits, Draft, WorkerRecord, CommandRecord, BotRecord,
     NoWork, NoCommand, BotIdle
<1> QED BY <1>3, <1>4, <1>5, <1>6, <1>7, <1>8, <1>9

\* A dismissal is on record.
LEMMA DismissKeeps ==
    ASSUME HeldInv, Dismiss
    PROVE  HeldInv'
<1> USE DEF HeldInv, HeldShape, world_vars, worker_history, bot_frame
<1>1. /\ command.review \in ReviewIds /\ command.kind = "dismiss" /\ bot.stage = "dismiss"
      /\ bot'.stage = "clear" /\ held'[command.review] = "dismissed" /\ held[command.review] = "pending"
      /\ \A r \in ReviewIds \ {command.review} : held'[r] = held[r]
      /\ crossed \subseteq crossed'
      /\ worker.stage = "link" /\ Draft(worker) = command.review => Draft(worker) \in crossed'
      /\ command' = command /\ worker' = worker
  BY DEF Dismiss, BotFits, BotRecord, Crossed, IsHeld
<1>2. worker.stage = "link" => Draft(worker) \in ReviewIds
  BY DEF WorkerFits, Draft, ReviewIds
<1>3. HeldShape'
  BY <1>1, <1>2, HeldConstantsOK DEF Dismiss, WorkerRecord, CommandRecord, BotRecord,
     WorkerStages, BotStage, NoWork, NoCommand,
     BotIdle, Draft, WorkerFits, BotFits, Moments, SentReply, ReviewIds, ReviewStatus, MaybeReview,
     IntentStatus, Modes, Families
<1>4. WorkerFits'
  BY <1>1, <1>2 DEF Dismiss, WorkerFits, WorkerRecord, CommandRecord, BotRecord, NoWork,
     NoCommand, BotIdle
<1>5. BotFits'
  BY <1>1, <1>2 DEF Dismiss, BotFits, WorkerRecord, CommandRecord, BotRecord, NoWork,
     NoCommand, BotIdle
<1>6. OneReplyAtMost'
  BY <1>1, <1>2 DEF Dismiss, OneReplyAtMost, WorkerRecord, CommandRecord, BotRecord, NoWork,
     NoCommand, BotIdle
<1>7. ReviewsSavedOnce'
  BY <1>1, <1>2 DEF Dismiss, ReviewsSavedOnce, Draft, WorkerRecord, CommandRecord, BotRecord,
     NoWork, NoCommand, BotIdle
<1>8. DecisionsHold'
  BY <1>1, <1>2 DEF Dismiss, DecisionsHold, ReviewsSavedOnce, WorkerFits, ByOperator,
     SayingDismissed, Approving, Draft, WorkerRecord, CommandRecord, BotRecord, NoWork,
     NoCommand, BotIdle
<1>9. LinkFits'
  BY <1>1, <1>2 DEF Dismiss, LinkFits, Draft, WorkerRecord, CommandRecord, BotRecord, NoWork,
     NoCommand, BotIdle
<1> QED BY <1>3, <1>4, <1>5, <1>6, <1>7, <1>8, <1>9

\* There was nothing to dismiss.
LEMMA DismissNothingKeeps ==
    ASSUME HeldInv, DismissNothing
    PROVE  HeldInv'
<1> USE DEF HeldInv, HeldShape, world_vars, worker_history, bot_frame
<1>1. HeldShape'
  BY HeldConstantsOK DEF DismissNothing, WorkerRecord, CommandRecord, BotRecord, WorkerStages,
     BotStage, NoWork, NoCommand,
     BotIdle, Draft, WorkerFits, BotFits, Moments, SentReply, ReviewIds, ReviewStatus, MaybeReview,
     IntentStatus, Modes, Families
<1>2. WorkerFits'
  BY DEF DismissNothing, WorkerFits, WorkerRecord, CommandRecord, BotRecord, NoWork,
     NoCommand, BotIdle
<1>3. BotFits'
  BY DEF DismissNothing, BotFits, WorkerRecord, CommandRecord, BotRecord, NoWork, NoCommand,
     BotIdle
<1>4. OneReplyAtMost'
  BY DEF DismissNothing, OneReplyAtMost, WorkerRecord, CommandRecord, BotRecord, NoWork,
     NoCommand, BotIdle
<1>5. ReviewsSavedOnce'
  BY DEF DismissNothing, ReviewsSavedOnce, Draft, WorkerRecord, CommandRecord, BotRecord,
     NoWork, NoCommand, BotIdle
<1>6. DecisionsHold'
  BY DEF DismissNothing, DecisionsHold, ReviewsSavedOnce, WorkerFits, ByOperator,
     SayingDismissed, Approving, Draft, WorkerRecord, CommandRecord, BotRecord, NoWork,
     NoCommand, BotIdle
<1>7. LinkFits'
  BY DEF DismissNothing, LinkFits, Draft, WorkerRecord, CommandRecord, BotRecord, NoWork,
     NoCommand, BotIdle
<1> QED BY <1>1, <1>2, <1>3, <1>4, <1>5, <1>6, <1>7

\* What the operator is told of was dismissed.
LEMMA ClearLinkForOperatorKeeps ==
    ASSUME HeldInv, ClearLinkForOperator
    PROVE  HeldInv'
<1> USE DEF HeldInv, HeldShape, world_vars, worker_history, bot_frame
<1>1. HeldShape'
  BY HeldConstantsOK DEF ClearLinkForOperator, WorkerRecord, CommandRecord, BotRecord,
     WorkerStages, BotStage, NoWork, NoCommand,
     BotIdle, Draft, WorkerFits, BotFits, Moments, SentReply, ReviewIds, ReviewStatus, MaybeReview,
     IntentStatus, Modes, Families
<1>2. WorkerFits'
  BY DEF ClearLinkForOperator, WorkerFits, WorkerRecord, CommandRecord, BotRecord, NoWork,
     NoCommand, BotIdle
<1>3. BotFits'
  BY DEF ClearLinkForOperator, BotFits, WorkerRecord, CommandRecord, BotRecord, NoWork,
     NoCommand, BotIdle
<1>4. OneReplyAtMost'
  BY DEF ClearLinkForOperator, OneReplyAtMost, WorkerRecord, CommandRecord, BotRecord, NoWork,
     NoCommand, BotIdle
<1>5. ReviewsSavedOnce'
  BY DEF ClearLinkForOperator, ReviewsSavedOnce, Draft, WorkerRecord, CommandRecord,
     BotRecord, NoWork, NoCommand, BotIdle
<1>6. DecisionsHold'
  BY DEF ClearLinkForOperator, DecisionsHold, ReviewsSavedOnce, WorkerFits, ByOperator,
     SayingDismissed, Approving, Draft, WorkerRecord, CommandRecord, BotRecord, NoWork,
     NoCommand, BotIdle
<1>7. LinkFits'
  BY DEF ClearLinkForOperator, LinkFits, Draft, WorkerRecord, CommandRecord, BotRecord,
     NoWork, NoCommand, BotIdle
<1> QED BY <1>1, <1>2, <1>3, <1>4, <1>5, <1>6, <1>7

\* With a new posture the count begins again.
LEMMA SetPostureKeeps ==
    ASSUME HeldInv, SetPosture
    PROVE  HeldInv'
<1> USE DEF HeldInv, HeldShape, world_vars, worker_history, bot_frame
<1>1. HeldShape'
  BY HeldConstantsOK DEF SetPosture, WorkerRecord, CommandRecord, BotRecord, WorkerStages,
     BotStage, NoWork, NoCommand,
     BotIdle, Draft, WorkerFits, BotFits, Moments, SentReply, ReviewIds, ReviewStatus, MaybeReview,
     IntentStatus, Modes, Families
<1>2. WorkerFits'
  BY DEF SetPosture, WorkerFits, WorkerRecord, CommandRecord, BotRecord, NoWork, NoCommand,
     BotIdle
<1>3. BotFits'
  BY DEF SetPosture, BotFits, WorkerRecord, CommandRecord, BotRecord, NoWork, NoCommand, BotIdle
<1>4. OneReplyAtMost'
  BY DEF SetPosture, OneReplyAtMost, WorkerRecord, CommandRecord, BotRecord, NoWork,
     NoCommand, BotIdle
<1>5. ReviewsSavedOnce'
  BY DEF SetPosture, ReviewsSavedOnce, Draft, WorkerRecord, CommandRecord, BotRecord, NoWork,
     NoCommand, BotIdle
<1>6. DecisionsHold'
  BY DEF SetPosture, DecisionsHold, ReviewsSavedOnce, WorkerFits, ByOperator, SayingDismissed,
     Approving, Draft, WorkerRecord, CommandRecord, BotRecord, NoWork, NoCommand, BotIdle
<1>7. LinkFits'
  BY DEF SetPosture, LinkFits, Draft, WorkerRecord, CommandRecord, BotRecord, NoWork,
     NoCommand, BotIdle
<1> QED BY <1>1, <1>2, <1>3, <1>4, <1>5, <1>6, <1>7

\* The command is over.
LEMMA ReplyKeeps ==
    ASSUME HeldInv, Reply
    PROVE  HeldInv'
<1> USE DEF HeldInv, HeldShape, world_vars, worker_history, bot_frame
<1>1. HeldShape'
  BY HeldConstantsOK DEF Reply, WorkerRecord, CommandRecord, BotRecord, WorkerStages,
     BotStage, NoWork, NoCommand,
     BotIdle, Draft, WorkerFits, BotFits, Moments, SentReply, ReviewIds, ReviewStatus, MaybeReview,
     IntentStatus, Modes, Families
<1>2. WorkerFits'
  BY DEF Reply, WorkerFits, WorkerRecord, CommandRecord, BotRecord, NoWork, NoCommand, BotIdle
<1>3. BotFits'
  BY DEF Reply, BotFits, WorkerRecord, CommandRecord, BotRecord, NoWork, NoCommand, BotIdle
<1>4. OneReplyAtMost'
  BY DEF Reply, OneReplyAtMost, WorkerRecord, CommandRecord, BotRecord, NoWork, NoCommand, BotIdle
<1>5. ReviewsSavedOnce'
  BY DEF Reply, ReviewsSavedOnce, Draft, WorkerRecord, CommandRecord, BotRecord, NoWork,
     NoCommand, BotIdle
<1>6. DecisionsHold'
  BY DEF Reply, DecisionsHold, ReviewsSavedOnce, WorkerFits, ByOperator, SayingDismissed,
     Approving, Draft, WorkerRecord, CommandRecord, BotRecord, NoWork, NoCommand, BotIdle
<1>7. LinkFits'
  BY DEF Reply, LinkFits, Draft, WorkerRecord, CommandRecord, BotRecord, NoWork, NoCommand,
     BotIdle
<1> QED BY <1>1, <1>2, <1>3, <1>4, <1>5, <1>6, <1>7

\* What the bot leaves half done is cut.
LEMMA HeldBotDiesKeeps ==
    ASSUME HeldInv, HeldBotDies
    PROVE  HeldInv'
<1> USE DEF HeldInv, HeldShape, world_vars, worker_history, bot_frame
<1>1. /\ bot.stage # "none" /\ bot' = [stage |-> "propose", intent |-> "proposed"]
      /\ command' = command /\ cut_moments \subseteq cut_moments'
      /\ command.review \in ReviewIds => command.review.moment \in cut_moments'
  BY NoReviewIsNone DEF HeldBotDies
<1>2. HeldShape'
  BY <1>1, HeldConstantsOK DEF HeldBotDies, WorkerRecord, CommandRecord, BotRecord,
     WorkerStages, BotStage, NoWork, NoCommand,
     BotIdle, Draft, WorkerFits, BotFits, Moments, SentReply, ReviewIds, ReviewStatus, MaybeReview,
     IntentStatus, Modes, Families
<1>3. WorkerFits'
  BY <1>1 DEF HeldBotDies, WorkerFits, WorkerRecord, CommandRecord, BotRecord, NoWork,
     NoCommand, BotIdle
<1>4. BotFits'
  BY <1>1 DEF HeldBotDies, BotFits, WorkerRecord, CommandRecord, BotRecord, NoWork, NoCommand,
     BotIdle
<1>5. OneReplyAtMost'
  BY <1>1 DEF HeldBotDies, OneReplyAtMost, WorkerRecord, CommandRecord, BotRecord, NoWork,
     NoCommand, BotIdle
<1>6. ReviewsSavedOnce'
  BY <1>1 DEF HeldBotDies, ReviewsSavedOnce, Draft, WorkerRecord, CommandRecord, BotRecord,
     NoWork, NoCommand, BotIdle
<1>7. DecisionsHold'
  BY <1>1 DEF HeldBotDies, DecisionsHold, ReviewsSavedOnce, WorkerFits, ByOperator,
     SayingDismissed, Approving, Draft, WorkerRecord, CommandRecord, BotRecord, NoWork,
     NoCommand, BotIdle
<1>8. LinkFits'
  BY <1>1 DEF HeldBotDies, LinkFits, Draft, WorkerRecord, CommandRecord, BotRecord, NoWork,
     NoCommand, BotIdle
<1> QED BY <1>2, <1>3, <1>4, <1>5, <1>6, <1>7, <1>8

\* At first nothing is held.
LEMMA HeldStart == HeldInit => HeldInv
<1> SUFFICES ASSUME HeldInit PROVE HeldInv
  OBVIOUS
<1>1. /\ last_event = 1 /\ pending_link = NoHeldReview /\ sends = {} /\ reviewed = {}
      /\ worker = NoWork /\ command = NoCommand /\ bot = BotIdle /\ commands = 0 /\ held_deaths = 0
      /\ said_dismissed = {} /\ unasked = 0
      /\ \A r \in ReviewIds : held[r] = "absent"
  BY DEF HeldInit
<1>2. posture \in [Families -> Modes] /\ held \in [ReviewIds -> ReviewStatus]
  BY DEF HeldInit, Families, Modes, ReviewStatus
<1>3. 1 \in 1..MaxEvents /\ 0 \in 0..MaxCommands /\ 0 \in 0..MaxHeldDeaths
  BY HeldConstantsOK
<1>4. HeldShape
  BY <1>1, <1>2, <1>3, NoReviewIsNone DEF HeldShape
<1>5. WorkerFits /\ BotFits /\ OneReplyAtMost /\ ReviewsSavedOnce
  BY <1>1, NoReviewIsNone DEF WorkerFits, BotFits, OneReplyAtMost, ReviewsSavedOnce
<1>6. DecisionsHold /\ LinkFits
  BY <1>1, NoReviewIsNone DEF DecisionsHold, ByOperator, SayingDismissed, Approving, LinkFits
<1> QED BY <1>4, <1>5, <1>6 DEF HeldInv

\* The invariant holds at all times.
LEMMA HeldAlways == HeldSpec => []HeldInv
<1>1. HeldInv /\ [HeldNext]_held_vars => HeldInv'
  <2> SUFFICES ASSUME HeldInv, [HeldNext]_held_vars PROVE HeldInv'
    OBVIOUS
  <2>1. CASE UNCHANGED held_vars
    BY <2>1 DEF held_vars, HeldInv, HeldShape, WorkerFits, BotFits, OneReplyAtMost,
       ReviewsSavedOnce, DecisionsHold, ByOperator, SayingDismissed, Approving, LinkFits, Draft
  <2> QED BY <2>1, ReceiveEventKeeps, ReviewConversationKeeps, HoldKeeps, SupersedeKeeps,
             LinkReviewKeeps, SendOrHoldBackKeeps, ClearLinkKeeps, WorkerDiesKeeps, SaysKeeps,
             ValidateKeeps, CheckApprovalKeeps, EnqueueApprovedKeeps, MaterializeKeeps, DismissKeeps,
             DismissNothingKeeps, ClearLinkForOperatorKeeps, SetPostureKeeps, ReplyKeeps,
             HeldBotDiesKeeps DEF HeldNext
<1> QED BY <1>1, HeldStart, PTL DEF HeldSpec

\* Reviews, commands and counters keep their types.
THEOREM HeldTypes == HeldSpec => []HeldTypeOK
<1>1. HeldInv => HeldTypeOK
  <2> SUFFICES ASSUME HeldInv PROVE HeldTypeOK
    OBVIOUS
  <2>1. /\ worker.stage \in WorkerStages /\ command.kind \in {"none", "approve", "dismiss", "posture"}
        /\ bot.stage \in BotStage /\ bot.intent \in IntentStatus
    BY DEF HeldInv, HeldShape, WorkerRecord, CommandRecord, BotRecord
  <2> QED BY <2>1 DEF HeldInv, HeldShape, HeldTypeOK, SentReply, MaybeReview, WorkerStages, BotStage
<1> QED BY <1>1, HeldAlways, PTL

\* However reviews, commands and deaths interleave: once replies are manual, at most the one
\* reply under way goes out unasked; what the operator was told is dismissed is not sent
\* unless somebody died over it; what the conversation recommends is pending, or somebody
\* resolved it meanwhile or died over it (autonomous_send, live_ops).
THEOREM OperatorAlwaysObeyed == HeldSpec => []OperatorIsObeyed
<1>1. HeldInv => OperatorIsObeyed
  <2> SUFFICES ASSUME HeldInv PROVE OperatorIsObeyed
    OBVIOUS
  <2>1. PostureLeaksOneReply
    BY DEF HeldInv, OneReplyAtMost, PostureLeaksOneReply
  <2>2. DismissedStaysOut
    <3> SUFFICES ASSUME NEW r \in said_dismissed, ByOperator(r), r.moment \notin cut_moments
                 PROVE  FALSE
      BY DEF DismissedStaysOut, ByOperator
    <3>1. r \in ReviewIds
      BY DEF HeldInv, HeldShape
    <3>2. held[r] = "dismissed" /\ (held[r] = "materialized" \/ Approving(r, {"materialize"}))
      BY <3>1 DEF HeldInv, DecisionsHold
    <3>3. Approving(r, {"enqueue", "materialize"}) => held[r] \in {"pending", "superseded"}
      BY <3>1 DEF HeldInv, DecisionsHold
    <3> QED BY <3>2, <3>3 DEF Approving
  <2>3. LinkNamesPending
    BY DEF HeldInv, LinkFits, LinkNamesPending
  <2> QED BY <2>1, <2>2, <2>3 DEF OperatorIsObeyed
<1> QED BY <1>1, HeldAlways, PTL

\* What one step does to a review that was decided, while nobody has died over its moment.
LEMMA DecidedStays ==
    ASSUME HeldInv, [HeldNext]_held_vars, NEW r \in ReviewIds,
           held[r] \in {"dismissed", "materialized"}, r.moment \notin cut_moments
    PROVE  held'[r] = held[r]
<1>0. /\ held \in [ReviewIds -> ReviewStatus] /\ WorkerFits /\ BotFits /\ ReviewsSavedOnce
      /\ DecisionsHold
  BY DEF HeldInv, HeldShape
<1>1. CASE Hold
  <2>1. /\ worker.stage = "authorize" /\ worker.moment \notin reviewed
        /\ held' = [held EXCEPT ![Draft(worker)] = "pending"]
    BY <1>0, <1>1 DEF Hold, WorkerFits
  <2>2. r # Draft(worker)
    BY <1>0, <2>1 DEF ReviewsSavedOnce, Draft
  <2> QED BY <1>0, <2>1, <2>2
<1>2. CASE Supersede
  <2>1. held' = [x \in ReviewIds |-> IF x \in Pending THEN "superseded" ELSE held[x]]
    BY <1>2 DEF Supersede
  <2> QED BY <2>1 DEF Pending
<1>3. CASE Materialize
  <2>1. bot.stage = "materialize" /\ held' = [held EXCEPT ![command.review] = "materialized"]
    BY <1>3 DEF Materialize
  <2>2. r # command.review
    BY <1>0, <2>1 DEF DecisionsHold, Approving
  <2> QED BY <1>0, <2>1, <2>2
<1>4. CASE Dismiss
  <2>1. /\ held[command.review] = "pending"
        /\ held' = [held EXCEPT ![command.review] = "dismissed"]
    BY <1>4 DEF Dismiss, IsHeld
  <2> QED BY <1>0, <2>1
<1>5. \/ Hold \/ Supersede \/ Materialize \/ Dismiss \/ held' = held
  BY Zenon DEF HeldNext, held_vars, ReceiveEvent, ReviewConversation, LinkReview, SendOrHoldBack, ClearLink,
         WorkerDies, Says, Validate, CheckApproval, EnqueueApproved, DismissNothing,
         ClearLinkForOperator, SetPosture, Reply, HeldBotDies, world_vars, bot_frame
<1> QED BY <1>1, <1>2, <1>3, <1>4, <1>5

\* The brain's reviews of newer moments, its automatic replies and the operator's other
\* commands leave what was dismissed or approved as it is (autonomous_send: authorize,
\* supersede_pending_reviews, materialize_review, dismiss_review), unless somebody died.
THEOREM DecisionsAlwaysStand == HeldSpec => DecisionsStand
<1>1. HeldInv /\ [HeldNext]_held_vars =>
        [\A r \in ReviewIds :
           held[r] \in {"dismissed", "materialized"} /\ r.moment \notin cut_moments
             => held'[r] = held[r]]_held_vars
  BY DecidedStays
<1> QED BY <1>1, HeldAlways, PTL DEF HeldSpec, DecisionsStand

------------------------------------------------------------------------------
(* BotEntry: the operator's messages.                                      *)

\* The updates in hand follow one another from the cursor's on.
UpdatesInOrder ==
    /\ \A i \in DOMAIN batch : batch[i] = batch[1] + i - 1 /\ batch[i] <= Len(updates)
    /\ batch # <<>> => batch[1] <= cursor.memory + 1
    /\ cursor.disk = cursor.memory /\ cursor.memory <= Len(updates)
    /\ Len(updates) <= MaxUpdates

\* The update that is being handled is the first one after the cursor.
OneAtATime ==
    /\ bot_stage \in {"onboard", "finish", "answer", "mark"} =>
         batch # <<>> /\ batch[1] = cursor.memory + 1
    /\ bot_stage \in {"onboard", "finish"} => updates[batch[1]] # "photo"
    /\ bot_stage \in {"answer", "mark"} =>
         handled[batch[1]] > 0 \/ updates[batch[1]] = "photo"

\* What was handled is behind the cursor, waits for its answer, or met a trouble.
HandledInOrder ==
    \A i \in 1..MaxUpdates : handled[i] > 0 =>
        \/ i <= cursor.memory \/ i \in cut
        \/ bot_stage \in {"answer", "mark"} /\ i = batch[1]

\* An account that has been taken in is signed in, and waits for no code when Telegram
\* asks for a password too.
SignedIn ==
    registered \/ bot_stage \in {"onboard", "finish"} =>
        /\ telegram.signed_in
        /\ wizard.step = "waiting_code" => ~telegram.two_factors

Runner == UpdatesInOrder /\ OneAtATime /\ HandledInOrder /\ NoneSkipped
            /\ HandledAgainAfterTrouble
BotInv == BotTypeOK /\ Runner /\ SignedIn /\ OnboardingAgrees

\* The rest of a batch in order is in order.
LEMMA RestInOrder ==
    ASSUME BotTypeOK, UpdatesInOrder, batch # <<>>, batch[1] <= cursor.memory + 1
    PROVE  /\ Id = batch[1] /\ Id \in 1..Len(updates) /\ Id \in 1..MaxUpdates
           /\ Tail(batch) \in Seq(1..MaxUpdates)
           /\ \A i \in DOMAIN Tail(batch) : /\ Tail(batch)[i] = Tail(batch)[1] + i - 1
                                            /\ Tail(batch)[i] <= Len(updates)
           /\ Tail(batch) # <<>> => Tail(batch)[1] = Id + 1
<1>1. /\ batch \in Seq(1..MaxUpdates) /\ Len(batch) \in Nat \ {0}
      /\ DOMAIN batch = 1..Len(batch) /\ Len(updates) \in Nat
  BY DEF BotTypeOK
<1>2. \A i \in 1..Len(batch) : /\ batch[i] = batch[1] + i - 1 /\ batch[i] <= Len(updates)
                              /\ batch[i] \in 1..MaxUpdates
  <2>1. \A i \in 1..Len(batch) : batch[i] \in 1..MaxUpdates
    BY <1>1, BotConstantsOK
  <2>2. \A i \in 1..Len(batch) : batch[i] = batch[1] + i - 1 /\ batch[i] <= Len(updates)
    BY <1>1, Zenon DEF UpdatesInOrder
  <2> QED
    BY <2>1, <2>2
<1>3. /\ Tail(batch) \in Seq(1..MaxUpdates) /\ Len(Tail(batch)) = Len(batch) - 1
      /\ \A i \in 1..Len(batch) - 1 : Tail(batch)[i] = batch[i + 1]
  BY <1>1
<1>4. /\ Id = batch[1] /\ Id \in 1..Len(updates) /\ Id \in 1..MaxUpdates
  BY <1>1, <1>2 DEF Id
<1>5. \A i \in 1..Len(batch) - 1 : Tail(batch)[i] = Id + i /\ Tail(batch)[i] <= Len(updates)
  BY <1>1, <1>2, <1>3, <1>4
<1>6. DOMAIN Tail(batch) = 1..Len(batch) - 1
  BY <1>1, <1>3
<1>7. Tail(batch) # <<>> => 1 \in 1..Len(batch) - 1
  BY <1>1, <1>3
<1> QED
  BY <1>1, <1>3, <1>4, <1>5, <1>6, <1>7

\* The message in hand is the one after the cursor.
LEMMA InHand ==
    ASSUME BotTypeOK, Runner, Taking, ~AlreadyProcessed(Id)
    PROVE  /\ batch # <<>> /\ Id = batch[1] /\ Id = cursor.memory + 1
           /\ Id \in 1..MaxUpdates /\ bot_stage = "take"
<1>1. batch # <<>> /\ bot_stage = "take"
  BY DEF Taking
<1>2. Id = batch[1] /\ Id \in 1..MaxUpdates /\ batch[1] <= cursor.memory + 1
  BY <1>1, RestInOrder DEF Runner, UpdatesInOrder
<1>3. cursor.memory \in Nat
  BY DEF BotTypeOK
<1> QED
  BY <1>1, <1>2, <1>3 DEF AlreadyProcessed

------------------------------------------------------------------------------
\* The end of a turn: the message has been handled.
LEMMA HandledRuns ==
    ASSUME BotTypeOK, Runner, Handled, Handling \/ bot_stage = "finish"
    PROVE  Runner' /\ handled' \in [1..MaxUpdates -> Nat]
<1>1. /\ batch # <<>> /\ Id = batch[1] /\ Id = cursor.memory + 1 /\ Id \in 1..MaxUpdates
      /\ bot_stage \notin {"answer", "mark"}
  <2>1. CASE Handling
    BY <2>1, InHand DEF Handling
  <2>2. CASE bot_stage = "finish"
    <3>1. batch # <<>> /\ batch[1] = cursor.memory + 1
      BY <2>2 DEF Runner, OneAtATime
    <3>2. batch[1] <= cursor.memory + 1
      BY <3>1 DEF BotTypeOK
    <3> QED
      BY <2>2, <3>1, <3>2, RestInOrder DEF Runner
  <2> QED
    BY <2>1, <2>2
<1>2. /\ handled' = [handled EXCEPT ![Id] = handled[Id] + 1] /\ bot_stage' = "answer"
      /\ UNCHANGED <<updates, cursor, batch, cut>> /\ handled \in [1..MaxUpdates -> Nat]
      /\ cursor.memory \in Nat /\ cursor.disk = cursor.memory
      /\ cursor.memory <= MaxUpdates
  BY DEF Handled, BotTypeOK, Runner, UpdatesInOrder
<1>3. /\ handled' \in [1..MaxUpdates -> Nat] /\ handled'[Id] = handled[Id] + 1
      /\ \A i \in 1..MaxUpdates : i # Id => handled'[i] = handled[i]
      /\ \A i \in 1..MaxUpdates : handled[i] \in Nat
  BY <1>1, <1>2
<1>4. UpdatesInOrder' /\ OneAtATime'
  <2>1. UpdatesInOrder'
    BY <1>2, Zenon DEF Runner, UpdatesInOrder
  <2>2. handled'[batch[1]] > 0
    BY <1>1, <1>3
  <2> QED
    BY <1>1, <1>2, <2>1, <2>2 DEF OneAtATime
<1>5. HandledInOrder'
  BY <1>1, <1>2, <1>3 DEF Runner, HandledInOrder
<1>6. NoneSkipped'
  BY <1>1, <1>2, <1>3 DEF Runner, NoneSkipped
<1>7. HandledAgainAfterTrouble'
  <2>1. handled[Id] > 0 => Id \in cut
    BY <1>1, <1>2 DEF Runner, HandledInOrder
  <2> QED
    BY <1>1, <1>2, <1>3, <2>1 DEF Runner, HandledAgainAfterTrouble
<1> QED
  BY <1>3, <1>4, <1>5, <1>6, <1>7 DEF Runner

\* A turn that goes on: the account is taken in.
LEMMA OnboardRuns ==
    ASSUME BotTypeOK, Runner, UNCHANGED <<updates, cursor, batch, handled, cut>>,
           \/ Handling /\ bot_stage' = "onboard"
           \/ bot_stage = "onboard" /\ bot_stage' = "finish"
    PROVE  Runner'
<1>1. /\ batch # <<>> /\ batch[1] = cursor.memory + 1
      /\ bot_stage \notin {"answer", "mark"} /\ updates[batch[1]] # "photo"
  <2>1. CASE Handling
    BY <2>1, InHand DEF Handling, Said
  <2>2. CASE bot_stage = "onboard"
    BY <2>2 DEF Runner, OneAtATime
  <2> QED
    BY <2>1, <2>2
<1>2. UpdatesInOrder' /\ OneAtATime'
  BY <1>1 DEF Runner, UpdatesInOrder, OneAtATime
<1>3. HandledInOrder' /\ NoneSkipped' /\ HandledAgainAfterTrouble'
  BY <1>1 DEF Runner, HandledInOrder, NoneSkipped, HandledAgainAfterTrouble
<1> QED
  BY <1>2, <1>3 DEF Runner

\* The steps of a turn, all told.
HandlerStep ==
    \/ OtherTurn \/ NoProgress \/ StartWizard \/ CancelWizard \/ EnterPhone \/ EnterCode
    \/ CodeRefused \/ EnterPassword \/ SaveAccount \/ CompleteWizard

\* A step of a turn leaves the runner as it may be.
LEMMA HandlerRuns ==
    ASSUME BotTypeOK, Runner, HandlerStep
    PROVE  Runner' /\ handled' \in [1..MaxUpdates -> Nat]
<1> USE DEF world
<1>1. \/ Handled /\ (Handling \/ bot_stage = "finish")
      \/ /\ UNCHANGED <<updates, cursor, batch, handled, cut>>
         /\ \/ Handling /\ bot_stage' = "onboard"
            \/ bot_stage = "onboard" /\ bot_stage' = "finish"
  <2>1. CASE OtherTurn \/ NoProgress \/ StartWizard \/ CancelWizard \/ EnterPhone \/ CodeRefused
    BY <2>1, Zenon DEF OtherTurn, NoProgress, StartWizard, CancelWizard, EnterPhone, CodeRefused
  <2>2. CASE EnterCode
    BY <2>2 DEF EnterCode
  <2>3. CASE EnterPassword
    BY <2>3 DEF EnterPassword
  <2>4. CASE SaveAccount \/ CompleteWizard
    BY <2>4 DEF SaveAccount, CompleteWizard
  <2> QED
    BY <2>1, <2>2, <2>3, <2>4 DEF HandlerStep
<1>2. CASE Handled /\ (Handling \/ bot_stage = "finish")
  BY <1>2, HandledRuns
<1>3. CASE /\ UNCHANGED <<updates, cursor, batch, handled, cut>>
           /\ \/ Handling /\ bot_stage' = "onboard"
              \/ bot_stage = "onboard" /\ bot_stage' = "finish"
  BY <1>3, OnboardRuns DEF BotTypeOK
<1> QED
  BY <1>1, <1>2, <1>3

------------------------------------------------------------------------------
\* The runner's steps between the turns.
RunnerStep ==
    \/ Receive \/ CodeExpires \/ GetUpdates \/ PollAgain \/ SkipProcessed \/ SkipUnsupported
    \/ HandlerRaises \/ AnswerSent \/ AnswerFails \/ MarkProcessed \/ BotDies

\* So does a step of the runner.
LEMMA RunnerRuns ==
    ASSUME BotTypeOK, Runner, RunnerStep
    PROVE  Runner' /\ BotTypeOK'
<1> USE BotConstantsOK DEF world
<1>0. /\ updates \in Seq(Texts) /\ Len(updates) \in Nat /\ cursor.memory \in 0..MaxUpdates
      /\ cursor.disk = cursor.memory /\ cursor.memory <= Len(updates)
      /\ Len(updates) <= MaxUpdates /\ MaxUpdates \in Nat
      /\ cursor \in [disk : 0..MaxUpdates, memory : 0..MaxUpdates]
      /\ batch \in Seq(1..MaxUpdates) /\ handled \in [1..MaxUpdates -> Nat]
      /\ failures \in 0..MaxFailures /\ bot_deaths \in 0..MaxBotDeaths
  BY DEF BotTypeOK, Runner, UpdatesInOrder
<1>e. <<>> \in Seq(1..MaxUpdates) /\ DOMAIN <<>> = {}
  OBVIOUS
<1>1. CASE Receive
  <2>1. PICK t \in Texts : updates' = Append(updates, t)
    BY <1>1 DEF Receive
  <2>2. /\ updates' \in Seq(Texts) /\ Len(updates') = Len(updates) + 1
        /\ Len(updates') <= MaxUpdates
        /\ \A i \in 1..Len(updates) : updates'[i] = updates[i]
    BY <1>0, <1>1, <2>1 DEF Receive
  <2>3. UNCHANGED <<cursor, batch, bot_stage, wizard, telegram, registered, bot_deaths,
                    failures, handled, cut>>
    BY <1>1 DEF Receive
  <2>4. BotTypeOK'
    BY <2>2, <2>3 DEF BotTypeOK
  <2>5. \A i \in DOMAIN batch : batch[i] \in 1..Len(updates)
    <3>1. \A i \in DOMAIN batch : batch[i] \in 1..MaxUpdates
      BY <1>0
    <3>2. \A i \in DOMAIN batch : batch[i] <= Len(updates)
      BY Zenon DEF Runner, UpdatesInOrder
    <3> QED
      BY <1>0, <3>1, <3>2
  <2>6. UpdatesInOrder'
    <3>1. \A i \in DOMAIN batch : batch[i] = batch[1] + i - 1 /\ batch[i] <= Len(updates')
      BY <1>0, <2>2, <2>5 DEF Runner, UpdatesInOrder
    <3>2. batch # <<>> => batch[1] <= cursor.memory + 1
      BY DEF Runner, UpdatesInOrder
    <3>3. cursor.disk = cursor.memory /\ cursor.memory <= Len(updates')
      BY <1>0, <2>2
    <3> QED BY <2>2, <2>3, <3>1, <3>2, <3>3 DEF UpdatesInOrder
  <2>7. batch # <<>> => 1 \in DOMAIN batch
    BY <1>0
  <2>8. OneAtATime'
    BY <1>0, <2>2, <2>3, <2>5, <2>7 DEF Runner, OneAtATime
  <2>9. HandledInOrder' /\ NoneSkipped' /\ HandledAgainAfterTrouble'
    <3>1. HandledInOrder' /\ HandledAgainAfterTrouble'
      BY <2>3 DEF Runner, HandledInOrder, HandledAgainAfterTrouble
    <3>2. NoneSkipped'
      <4>1. \A i \in 1..cursor.disk : i \in 1..Len(updates)
        BY <1>0
      <4> QED
        BY <2>2, <2>3, <4>1 DEF Runner, NoneSkipped
    <3> QED
      BY <3>1, <3>2
  <2> QED
    BY <2>4, <2>6, <2>8, <2>9 DEF Runner
<1>2. CASE CodeExpires
  <2>1. UNCHANGED <<updates, cursor, batch, bot_stage, wizard, registered, bot_deaths,
                    failures, handled, cut>>
    BY <1>2 DEF CodeExpires
  <2>2. telegram' \in [hash : Nat, good : BOOLEAN, two_factors : BOOLEAN, signed_in : BOOLEAN]
    BY <1>2 DEF CodeExpires, BotTypeOK
  <2> QED
    BY <2>1, <2>2 DEF BotTypeOK, Runner, UpdatesInOrder, OneAtATime, HandledInOrder,
                      NoneSkipped, HandledAgainAfterTrouble
<1>3. CASE GetUpdates
  <2>1. PICK first \in {cursor.memory, cursor.memory + 1} \ {0} :
          batch' = [i \in 1..(Len(updates) + 1 - first) |-> first + i - 1]
    BY <1>3 DEF GetUpdates
  <2>2. /\ bot_stage = "poll" /\ bot_stage' = "take" /\ Len(updates) > cursor.memory
        /\ UNCHANGED <<updates, cursor, wizard, telegram, registered, bot_deaths, failures,
                       handled, cut>>
    BY <1>3 DEF GetUpdates
  <2>3. first \in 1..Len(updates) /\ first <= cursor.memory + 1
    BY <1>0, <2>2
  <2> DEFINE n == Len(updates) + 1 - first
  <2>4. n \in Nat \ {0} /\ \A i \in 1..n : first + i - 1 \in 1..Len(updates)
    BY <1>0, <2>3
  <2>5. batch' \in [1..n -> 1..MaxUpdates]
    <3>1. \A i \in 1..n : first + i - 1 \in 1..MaxUpdates
      BY <1>0, <2>4
    <3>2. batch' = [i \in 1..n |-> first + i - 1]
      BY <2>1
    <3> HIDE DEF n
    <3> QED BY <3>1, <3>2
  <2>6. batch' \in Seq(1..MaxUpdates) /\ DOMAIN batch' = 1..n
    <3> HIDE DEF n
    <3> QED BY <2>4, <2>5
  <2>7. /\ \A i \in DOMAIN batch' : batch'[i] = first + i - 1 /\ batch'[i] <= Len(updates)
        /\ batch'[1] = first
    BY <1>0, <2>1, <2>3, <2>4, <2>6
  <2>8. UpdatesInOrder'
    BY <1>0, <2>2, <2>3, <2>7 DEF UpdatesInOrder
  <2>9. BotTypeOK'
    BY <2>2, <2>6 DEF BotTypeOK, BotStages
  <2> QED
    BY <2>2, <2>8, <2>9 DEF Runner, OneAtATime, HandledInOrder, NoneSkipped,
                            HandledAgainAfterTrouble
<1>4. CASE PollAgain
  BY <1>4 DEF PollAgain, BotTypeOK, BotStages, Runner, UpdatesInOrder, OneAtATime,
              HandledInOrder, NoneSkipped, HandledAgainAfterTrouble
<1>5. CASE SkipProcessed
  <2>1. /\ batch # <<>> /\ bot_stage = "take" /\ batch' = Tail(batch) /\ Id <= cursor.memory
        /\ UNCHANGED <<updates, cursor, bot_stage, wizard, telegram, registered, bot_deaths,
                       failures, handled, cut>>
    BY <1>5 DEF SkipProcessed, Taking, AlreadyProcessed
  <2>2. batch[1] <= cursor.memory + 1
    BY <2>1 DEF Runner, UpdatesInOrder
  <2>r. /\ Id \in 1..MaxUpdates /\ Tail(batch) \in Seq(1..MaxUpdates)
        /\ \A i \in DOMAIN Tail(batch) : /\ Tail(batch)[i] = Tail(batch)[1] + i - 1
                                         /\ Tail(batch)[i] <= Len(updates)
        /\ Tail(batch) # <<>> => Tail(batch)[1] = Id + 1
    BY <2>1, <2>2, RestInOrder DEF Runner
  <2>i. Id + 1 <= cursor.memory + 1
    BY <1>0, <2>1, <2>r
  <2>3. UpdatesInOrder'
    BY <1>0, <2>1, <2>r, <2>i, Zenon DEF UpdatesInOrder
  <2>4. BotTypeOK'
    BY <2>1, <2>r DEF BotTypeOK
  <2> QED
    BY <2>1, <2>3, <2>4 DEF Runner, OneAtATime, HandledInOrder, NoneSkipped,
                            HandledAgainAfterTrouble
<1>6. CASE SkipUnsupported
  <2>1. /\ batch # <<>> /\ Id = batch[1] /\ Id = cursor.memory + 1 /\ updates[Id] = "photo"
        /\ bot_stage = "take" /\ bot_stage' = "mark"
        /\ UNCHANGED <<updates, cursor, batch, wizard, telegram, registered, bot_deaths,
                       failures, handled, cut>>
    BY <1>6, InHand DEF SkipUnsupported, Said
  <2> QED
    BY <2>1 DEF BotTypeOK, BotStages, Runner, UpdatesInOrder, OneAtATime, HandledInOrder,
                NoneSkipped, HandledAgainAfterTrouble
<1>7. CASE HandlerRaises
  <2>1. /\ bot_stage = "take" /\ batch' = <<>> /\ failures' = failures + 1
        /\ failures < MaxFailures
        /\ UNCHANGED <<updates, cursor, bot_stage, wizard, telegram, registered, bot_deaths,
                       handled, cut>>
    BY <1>7 DEF HandlerRaises, Handling, Taking, RestOfBatch
  <2>2. failures' \in 0..MaxFailures
    BY <1>0, <2>1
  <2> QED
    BY <1>e, <2>1, <2>2 DEF BotTypeOK, Runner, UpdatesInOrder, OneAtATime, HandledInOrder,
                      NoneSkipped, HandledAgainAfterTrouble
<1>8. CASE AnswerSent
  BY <1>8 DEF AnswerSent, BotTypeOK, BotStages, Runner, UpdatesInOrder, OneAtATime,
              HandledInOrder, NoneSkipped, HandledAgainAfterTrouble
<1>9. CASE AnswerFails
  <2>1. /\ bot_stage = "answer" /\ bot_stage' = "take" /\ batch' = <<>>
        /\ failures' = failures + 1 /\ failures < MaxFailures /\ cut' = cut \cup {Id}
        /\ UNCHANGED <<updates, cursor, wizard, telegram, registered, bot_deaths, handled>>
    BY <1>9 DEF AnswerFails, RestOfBatch
  <2>2. batch # <<>> /\ batch[1] <= cursor.memory + 1
    BY <1>0, <2>1 DEF Runner, OneAtATime
  <2>3. Id = batch[1] /\ Id \in 1..MaxUpdates
    BY <2>2, RestInOrder DEF Runner
  <2>4. failures' \in 0..MaxFailures
    BY <1>0, <2>1
  <2>5. BotTypeOK'
    BY <1>e, <2>1, <2>3, <2>4 DEF BotTypeOK, BotStages
  <2> QED
    BY <1>e, <2>1, <2>3, <2>5 DEF Runner, UpdatesInOrder, OneAtATime, HandledInOrder,
                      NoneSkipped, HandledAgainAfterTrouble
<1>10. CASE MarkProcessed
  <2>1. /\ bot_stage = "mark" /\ bot_stage' = "take" /\ batch' = Tail(batch)
        /\ cursor' = [disk |-> Id, memory |-> Id]
        /\ UNCHANGED <<updates, wizard, telegram, registered, bot_deaths, failures, handled,
                       cut>>
    BY <1>10 DEF MarkProcessed
  <2>2. batch # <<>> /\ batch[1] = cursor.memory + 1 /\ batch[1] <= cursor.memory + 1
    BY <1>0, <2>1 DEF Runner, OneAtATime
  <2>3. Id = cursor.memory + 1 /\ Id = batch[1] /\ Id \in 1..Len(updates) /\ Id \in 1..MaxUpdates
    BY <2>2, RestInOrder DEF Runner
  <2>r. /\ Tail(batch) \in Seq(1..MaxUpdates)
        /\ \A i \in DOMAIN Tail(batch) : /\ Tail(batch)[i] = Tail(batch)[1] + i - 1
                                         /\ Tail(batch)[i] <= Len(updates)
        /\ Tail(batch) # <<>> => Tail(batch)[1] = Id + 1
    BY <2>2, RestInOrder DEF Runner
  <2>c. /\ cursor'.memory = Id /\ cursor'.disk = Id /\ Id <= Len(updates)
        /\ Tail(batch) # <<>> => Tail(batch)[1] <= Id + 1
    <3>1. cursor'.memory = Id /\ cursor'.disk = Id
      BY <2>1
    <3>2. Id <= Len(updates) /\ Id + 1 <= Id + 1
      BY <1>0, <2>3
    <3> QED
      BY <2>r, <3>1, <3>2
  <2>4. UpdatesInOrder'
    BY <1>0, <2>1, <2>r, <2>c, Zenon DEF UpdatesInOrder
  <2>5. BotTypeOK'
    <3>1. cursor' \in [disk : 0..MaxUpdates, memory : 0..MaxUpdates]
      BY <1>0, <2>1, <2>3
    <3> QED
      BY <2>1, <2>r, <3>1 DEF BotTypeOK, BotStages
  <2>6. OneAtATime' /\ HandledAgainAfterTrouble'
    BY <2>1 DEF Runner, OneAtATime, HandledAgainAfterTrouble
  <2>7. HandledInOrder'
    <3>1. \A i \in 1..MaxUpdates : handled[i] > 0 => i <= cursor.memory \/ i \in cut \/ i = Id
      BY <2>3 DEF Runner, HandledInOrder
    <3>2. \A i \in 1..MaxUpdates : i <= cursor.memory \/ i = Id => i <= Id
      BY <1>0, <2>3
    <3> QED
      BY <2>1, <2>c, <3>1, <3>2 DEF HandledInOrder
  <2>8. NoneSkipped'
    <3>1. \A i \in 1..cursor.memory : updates[i] # "photo" => handled[i] > 0
      BY <1>0 DEF Runner, NoneSkipped
    <3>2. updates[Id] # "photo" => handled[Id] > 0
      BY <2>1, <2>3 DEF Runner, OneAtATime
    <3>3. \A i \in 1..Id : i \in 1..cursor.memory \/ i = Id
      BY <1>0, <2>3
    <3> QED
      BY <2>1, <2>c, <3>1, <3>2, <3>3 DEF NoneSkipped
  <2> QED
    BY <2>4, <2>5, <2>6, <2>7, <2>8 DEF Runner
<1>11. CASE BotDies
  <2>1. /\ bot_stage' = "poll" /\ batch' = <<>> /\ cursor' = cursor
        /\ bot_deaths' = bot_deaths + 1 /\ bot_deaths < MaxBotDeaths
        /\ UNCHANGED <<updates, wizard, telegram, registered, failures, handled>>
    BY <1>0, <1>11 DEF BotDies
  <2>2. /\ cut \subseteq cut' /\ cut' \subseteq 1..MaxUpdates
        /\ bot_stage \in {"answer", "mark"} => batch[1] \in cut'
    <3>1. CASE bot_stage \in {"onboard", "finish", "answer", "mark"}
      <4>1. batch # <<>> /\ batch[1] <= cursor.memory + 1
        BY <1>0, <3>1 DEF Runner, OneAtATime
      <4>2. Id = batch[1] /\ Id \in 1..MaxUpdates
        BY <4>1, RestInOrder DEF Runner
      <4> QED
        BY <1>11, <3>1, <4>2 DEF BotDies, BotTypeOK
    <3>2. CASE bot_stage \notin {"onboard", "finish", "answer", "mark"}
      BY <1>11, <3>2 DEF BotDies, BotTypeOK
    <3> QED
      BY <3>1, <3>2
  <2>3. bot_deaths' \in 0..MaxBotDeaths
    BY <1>0, <2>1
  <2>4. BotTypeOK'
    BY <1>e, <2>1, <2>2, <2>3 DEF BotTypeOK, BotStages
  <2> QED
    BY <1>e, <2>1, <2>2, <2>4 DEF Runner, UpdatesInOrder, OneAtATime, HandledInOrder,
                      NoneSkipped, HandledAgainAfterTrouble
<1> QED
  BY <1>1, <1>2, <1>3, <1>4, <1>5, <1>6, <1>7, <1>8, <1>9, <1>10, <1>11 DEF RunnerStep

------------------------------------------------------------------------------
Records ==
    /\ wizard \in [step : Steps, hash : Nat]
    /\ telegram \in [hash : Nat, good : BOOLEAN, two_factors : BOOLEAN, signed_in : BOOLEAN]
    /\ registered \in BOOLEAN

\* What a turn does to the wizard, Telegram and the registry.
LEMMA WizardSteps ==
    ASSUME BotTypeOK, SignedIn, OnboardingAgrees, HandlerStep
    PROVE  Records' /\ SignedIn' /\ OnboardingAgrees' /\ bot_stage' \in BotStages
<1> USE DEF world, BotStages
<1>0. Records
  BY DEF BotTypeOK, Records
<1>h. Handled => bot_stage' = "answer" /\ cut' = cut
  BY DEF Handled
<1>t. Handling => bot_stage = "take"
  BY DEF Handling, Taking
<1>n. /\ NewCode \in [hash : Nat, good : BOOLEAN, two_factors : BOOLEAN, signed_in : BOOLEAN]
      /\ NewCode.two_factors = telegram.two_factors
      /\ NewCode.signed_in = telegram.signed_in /\ telegram.hash + 1 \in Nat
  <2> DEFINE h == telegram.hash + 1
  <2>1. h \in Nat
    BY <1>0 DEF Records
  <2> HIDE DEF h
  <2>2. NewCode = [telegram EXCEPT !.hash = h, !.good = TRUE]
    BY DEF NewCode, h
  <2> QED
    BY <1>0, <2>1, <2>2 DEF Records, h
<1>1. CASE OtherTurn \/ NoProgress
  BY <1>0, <1>1, <1>h, <1>t
     DEF OtherTurn, NoProgress, Records, SignedIn, OnboardingAgrees, Active
<1>2. CASE StartWizard
  BY <1>0, <1>2, <1>h, <1>t
     DEF StartWizard, Records, SignedIn, OnboardingAgrees, Active, Steps
<1>3. CASE CancelWizard
  <2>1. wizard' = [wizard EXCEPT !.step = "cancelled"] /\ UNCHANGED <<telegram, registered>>
        /\ bot_stage' = "answer" /\ cut' = cut
    BY <1>3, <1>h DEF CancelWizard
  <2>2. wizard'.step = "cancelled" /\ wizard' \in [step : Steps, hash : Nat]
    BY <1>0, <2>1 DEF Records, Steps
  <2> QED
    BY <1>0, <2>1, <2>2 DEF Records, SignedIn, OnboardingAgrees, Active
<1>4. CASE EnterPhone
  <2>1. /\ ~registered /\ registered' = registered /\ bot_stage' = "answer"
        /\ wizard' = [step |-> "waiting_code", hash |-> telegram.hash + 1]
        /\ telegram' = NewCode
    BY <1>4, <1>h DEF EnterPhone
  <2>2. Records'
    BY <1>0, <1>n, <2>1 DEF Records, Steps
  <2> QED
    BY <2>1, <2>2 DEF SignedIn, OnboardingAgrees
<1>5. CASE EnterCode
  <2>1. /\ registered' = registered /\ bot_stage = "take" /\ wizard.step = "waiting_code"
        /\ telegram' = [telegram EXCEPT !.good = FALSE, !.signed_in = ~telegram.two_factors]
    BY <1>5, <1>t DEF EnterCode
  <2>2. /\ telegram' \in [hash : Nat, good : BOOLEAN, two_factors : BOOLEAN,
                         signed_in : BOOLEAN]
        /\ telegram'.two_factors = telegram.two_factors
        /\ telegram'.signed_in = ~telegram.two_factors
    BY <1>0, <2>1 DEF Records
  <2>3. CASE ~telegram.two_factors
    <3>1. wizard' = wizard /\ bot_stage' = "onboard" /\ cut' = cut
      BY <1>5, <2>3 DEF EnterCode, CodeIsEnough
    <3> QED
      BY <1>0, <2>1, <2>2, <2>3, <3>1 DEF Records, SignedIn, OnboardingAgrees, Active
  <2>4. CASE telegram.two_factors
    <3>1. /\ wizard' = [wizard EXCEPT !.step = "waiting_password"]
          /\ bot_stage' = "answer" /\ cut' = cut
      BY <1>5, <1>h, <2>4 DEF EnterCode, CodeIsEnough
    <3>2. wizard' \in [step : Steps, hash : Nat]
      BY <1>0, <3>1 DEF Records, Steps
    <3>3. ~registered
      BY <2>1, <2>4 DEF SignedIn
    <3> QED
      BY <1>0, <2>1, <2>2, <3>1, <3>2, <3>3 DEF Records, SignedIn, OnboardingAgrees
  <2> QED
    BY <2>3, <2>4
<1>6. CASE CodeRefused
  <2>1. /\ registered' = registered /\ bot_stage = "take" /\ wizard.step = "waiting_code"
        /\ bot_stage' = "answer" /\ cut' = cut
    BY <1>6, <1>h, <1>t DEF CodeRefused
  <2>2. \/ UNCHANGED <<wizard, telegram>>
        \/ telegram' = NewCode /\ wizard' = [wizard EXCEPT !.hash = telegram.hash + 1]
        \/ wizard' = [step |-> "waiting_phone", hash |-> 0] /\ UNCHANGED telegram
    BY <1>6 DEF CodeRefused
  <2>3. /\ Records' /\ telegram'.two_factors = telegram.two_factors
        /\ telegram'.signed_in = telegram.signed_in
        /\ wizard'.step \in {wizard.step, "waiting_phone"}
    <3>1. CASE UNCHANGED <<wizard, telegram>>
      BY <1>0, <2>1, <3>1 DEF Records
    <3>2. CASE telegram' = NewCode /\ wizard' = [wizard EXCEPT !.hash = telegram.hash + 1]
      <4>1. wizard' \in [step : Steps, hash : Nat] /\ wizard'.step = wizard.step
        BY <1>0, <1>n, <3>2 DEF Records
      <4> QED
        BY <1>0, <1>n, <2>1, <3>2, <4>1 DEF Records
    <3>3. CASE wizard' = [step |-> "waiting_phone", hash |-> 0] /\ UNCHANGED telegram
      BY <1>0, <2>1, <3>3 DEF Records, Steps
    <3> QED
      BY <2>2, <3>1, <3>2, <3>3
  <2> QED
    BY <2>1, <2>3 DEF SignedIn, OnboardingAgrees, Active
<1>7. CASE EnterPassword
  <2>1. /\ UNCHANGED <<wizard, registered>> /\ bot_stage = "take"
        /\ wizard.step = "waiting_password" /\ cut' = cut
        /\ \/ /\ telegram' = [telegram EXCEPT !.signed_in = TRUE]
              /\ bot_stage' = "onboard"
           \/ telegram' = telegram /\ bot_stage' = "answer"
    BY <1>7, <1>h, <1>t DEF EnterPassword
  <2>2. Records' /\ (telegram' = telegram \/ telegram'.signed_in)
    BY <1>0, <2>1 DEF Records
  <2> QED
    BY <1>0, <2>1, <2>2 DEF Records, SignedIn, OnboardingAgrees, Active
<1>8. CASE SaveAccount
  BY <1>0, <1>8 DEF SaveAccount, Records, SignedIn, OnboardingAgrees, Active
<1>9. CASE CompleteWizard
  <2>1. /\ wizard' = [wizard EXCEPT !.step = "completed"] /\ UNCHANGED <<telegram, registered>>
        /\ bot_stage' = "answer" /\ bot_stage = "finish"
    BY <1>9, <1>h DEF CompleteWizard
  <2>2. wizard'.step = "completed" /\ wizard' \in [step : Steps, hash : Nat]
    BY <1>0, <2>1 DEF Records, Steps
  <2> QED
    BY <1>0, <2>1, <2>2 DEF Records, SignedIn, OnboardingAgrees, Active
<1> QED
  BY <1>1, <1>2, <1>3, <1>4, <1>5, <1>6, <1>7, <1>8, <1>9 DEF HandlerStep

\* The runner leaves them alone, but for a code that expires.
LEMMA WizardRests ==
    ASSUME BotTypeOK, Runner, SignedIn, OnboardingAgrees, RunnerStep
    PROVE  SignedIn' /\ OnboardingAgrees'
<1> USE DEF world
<1>1. CASE CodeExpires
  <2>1. /\ telegram'.signed_in = telegram.signed_in
        /\ telegram'.two_factors = telegram.two_factors
        /\ UNCHANGED <<wizard, registered, bot_stage, cut>>
    BY <1>1 DEF CodeExpires, BotTypeOK
  <2> QED
    BY <2>1 DEF SignedIn, OnboardingAgrees, Active
<1>2. CASE Receive \/ GetUpdates \/ PollAgain \/ SkipProcessed \/ SkipUnsupported \/ HandlerRaises
            \/ AnswerSent \/ AnswerFails \/ MarkProcessed
  <2>1. /\ UNCHANGED <<wizard, telegram, registered>> /\ cut \subseteq cut'
        /\ bot_stage' = bot_stage \/ bot_stage' \in {"take", "poll", "mark"}
        /\ bot_stage = "finish" => bot_stage' = "finish"
    BY <1>2 DEF Receive, GetUpdates, PollAgain, SkipProcessed, SkipUnsupported, HandlerRaises,
                AnswerSent, AnswerFails, MarkProcessed, Taking, Handling
  <2> QED
    BY <2>1 DEF SignedIn, OnboardingAgrees, Active
<1>3. CASE BotDies
  <2>1. /\ UNCHANGED <<wizard, telegram, registered>> /\ cut \subseteq cut'
        /\ bot_stage' = "poll" /\ (bot_stage = "finish" => cut' # {})
    BY <1>3 DEF BotDies
  <2> QED
    BY <2>1 DEF SignedIn, OnboardingAgrees, Active
<1> QED
  BY <1>1, <1>2, <1>3 DEF RunnerStep

\* Every step of the bot keeps the invariant.
LEMMA BotStep == BotInv /\ [BotNext]_bot_vars => BotInv'
<1> SUFFICES ASSUME BotInv, [BotNext]_bot_vars PROVE BotInv'
  OBVIOUS
<1>1. CASE RunnerStep
  BY <1>1, RunnerRuns, WizardRests DEF BotInv
<1>2. CASE HandlerStep
  <2>1. Runner' /\ handled' \in [1..MaxUpdates -> Nat] /\ Records' /\ SignedIn'
        /\ OnboardingAgrees' /\ bot_stage' \in BotStages
    BY <1>2, HandlerRuns, WizardSteps DEF BotInv
  <2>2. UNCHANGED <<updates, cursor, batch, bot_deaths, failures, cut>>
    BY <1>2 DEF HandlerStep, OtherTurn, NoProgress, StartWizard, CancelWizard, EnterPhone,
       EnterCode, CodeRefused, EnterPassword, SaveAccount, CompleteWizard, Handled, world
  <2> QED
    BY <2>1, <2>2 DEF BotInv, BotTypeOK, Records
<1>3. CASE UNCHANGED bot_vars
  BY <1>3 DEF bot_vars, BotInv, BotTypeOK, Runner, UpdatesInOrder, OneAtATime, HandledInOrder,
     NoneSkipped, HandledAgainAfterTrouble, SignedIn, OnboardingAgrees, Active
<1> QED
  BY <1>1, <1>2, <1>3 DEF BotNext, RunnerStep, HandlerStep

\* The bot starts with nothing received.
LEMMA BotStart == BotInit => BotInv
<1> SUFFICES ASSUME BotInit PROVE BotInv
  OBVIOUS
<1>1. /\ updates \in Seq(Texts) /\ batch \in Seq(1..MaxUpdates) /\ DOMAIN batch = {}
      /\ Len(updates) = 0
  BY DEF BotInit
<1>2. BotTypeOK
  <2>1. /\ cursor \in [disk : 0..MaxUpdates, memory : 0..MaxUpdates]
        /\ wizard \in [step : Steps, hash : Nat]
        /\ telegram \in [hash : Nat, good : BOOLEAN, two_factors : BOOLEAN, signed_in : BOOLEAN]
        /\ handled \in [1..MaxUpdates -> Nat]
        /\ bot_deaths \in 0..MaxBotDeaths /\ failures \in 0..MaxFailures
    BY BotConstantsOK DEF BotInit, Steps
  <2> QED
    BY <1>1, <2>1 DEF BotInit, BotTypeOK, BotStages
<1>3. Runner
  BY <1>1, BotConstantsOK DEF BotInit, Runner, UpdatesInOrder, OneAtATime, HandledInOrder,
     NoneSkipped, HandledAgainAfterTrouble
<1>4. SignedIn /\ OnboardingAgrees
  BY DEF BotInit, SignedIn, OnboardingAgrees, Active
<1> QED
  BY <1>2, <1>3, <1>4 DEF BotInv

\* Whatever raises, fails or dies, and however often, no message of the operator is
\* passed over, none is handled twice without a trouble, and the wizard agrees with
\* Telegram and the registry.
THEOREM TurnsSurvive == BotSpec => [](BotTypeOK /\ TurnsSurviveTrouble)
<1>1. BotInv => BotTypeOK /\ TurnsSurviveTrouble
  BY DEF BotInv, Runner, TurnsSurviveTrouble
<1> QED
  BY <1>1, BotStart, BotStep, PTL DEF BotSpec

------------------------------------------------------------------------------
(* The inbound listener: the inductive invariant.                          *)

SendRecord ==
    [stage : {"ready", "load", "write", "deliver"}, message : Message \cup {NoMessage},
     thread : Message \cup {NoMessage}, copy : Seq(Message)]
ListenerTask ==
    [stage : {"idle", "remember", "project", "index", "bind"}, event : Event \cup {NoEvent}]

SendShape ==
    /\ posted \subseteq Message /\ send \in [Sender -> SendRecord]
    /\ references \in Seq(Message) /\ Len(references) <= ReferenceLimit
    /\ recorded \in Seq(Message)
StoreShape ==
    /\ log \in Seq(Event) /\ keys \in Seq(Event) /\ Len(keys) <= DedupeLimit
    /\ unremembered \subseteq Event /\ task \in ListenerTask
    /\ task.event \in Event <=> task.stage # "idle"
    /\ task.stage \in {"project", "index", "bind"} => Target[task.event] \in Message
ThreadShape ==
    /\ threads \in [Message -> Thread \cup {NoRecord}] /\ indexed \subseteq Message
    /\ links \subseteq Event /\ applied \in [Event -> Nat] /\ unbound \subseteq Event
    /\ deliveries \in 0..MaxDeliveries /\ crashes \in 0..MaxCrashes /\ controls \in 0..MaxControls

\* A sender has one message in hand, which nobody else sends and nobody has recorded.
SendersFit ==
    /\ \A s \in Sender :
         /\ send[s].stage \in {"load", "write"} => send[s].message \in posted
         /\ send[s].stage # "ready" /\ send[s].thread # NoMessage => threads[send[s].thread] \in Thread
         /\ send[s].stage = "deliver" => send[s].thread # NoMessage
    /\ \A s, r \in Sender :
         send[s].stage \in {"load", "write"} /\ send[r].stage \in {"load", "write"} /\ s # r
           => send[s].message # send[r].message
    /\ \A i \in DOMAIN recorded :
         /\ recorded[i] \in posted
         /\ \A s \in Sender : send[s].stage \in {"load", "write"} => send[s].message # recorded[i]

\* Whatever is or will be on file as a reference has been recorded.
Written(seq) == \A i \in DOMAIN seq : \E j \in DOMAIN recorded : recorded[j] = seq[i]
FilesFit ==
    Written(references) /\ \A s \in Sender : send[s].stage = "write" => Written(send[s].copy)

\* If senders do not overlap, the references are the newest of what was recorded.
ReferencesFit ==
    SendersDontOverlap =>
      /\ references = Newest(recorded, ReferenceLimit)
      /\ \A s, r \in Sender : send[s].stage = "write" /\ send[r].stage = "write" => s = r
      /\ \A s \in Sender : send[s].stage = "write" => send[s].copy = references

\* The events logged after the i-th.
Later(i) == {log[k] : k \in (i + 1) .. Len(log)}
\* The i-th event of the log is remembered, and every key after its own was logged after it.
Kept(i) ==
    \E k \in DOMAIN keys :
      keys[k] = log[i] /\ \A m \in DOMAIN keys : m > k => keys[m] \in Later(i)
KeysFit ==
    /\ \A k, m \in DOMAIN keys : keys[k] = keys[m] => k = m
    /\ task.stage = "remember" =>
         log # <<>> /\ log[Len(log)] = task.event /\ ~IsRemembered(task.event)
    /\ \A i \in DOMAIN log :
         \/ log[i] \in unremembered \/ Kept(i) \/ Cardinality(Later(i)) >= DedupeLimit
         \/ task.stage = "remember" /\ i = Len(log)

\* What an event has done to its thread is known by its link, or its projection was cut off.
AppliedFits ==
    \A e \in Event :
      /\ applied[e] # 0 => \/ e \in links \cup unbound
                           \/ task.stage \in {"index", "bind"} /\ task.event = e
      /\ applied[e] > 1 => e \in unbound

ListenerInv ==
    /\ SendShape /\ StoreShape /\ ThreadShape
    /\ SendersFit /\ FilesFit /\ ReferencesFit /\ KeysFit /\ LoggedAgainOnlyWhenForgotten /\ AppliedFits

------------------------------------------------------------------------------
(* The inbound listener: sequences cut down to their newest entries.       *)

\* The newest entries.
LEMMA NewestFits ==
    ASSUME NEW S, NEW seq \in Seq(S), NEW n \in Nat \ {0}
    PROVE  /\ Newest(seq, n) \in Seq(S)
           /\ Len(Newest(seq, n)) = IF Len(seq) > n THEN n ELSE Len(seq)
           /\ \A i \in 1..Len(Newest(seq, n)) :
                Newest(seq, n)[i] = seq[i + (IF Len(seq) > n THEN Len(seq) - n ELSE 0)]
<1> DEFINE m == IF Len(seq) > n THEN Len(seq) - n + 1 ELSE 1
           d == IF Len(seq) > n THEN Len(seq) - n ELSE 0
<1>1. /\ Len(seq) \in Nat /\ m \in Nat /\ d \in Nat /\ m = d + 1 /\ d <= Len(seq)
      /\ Len(seq) - d = IF Len(seq) > n THEN n ELSE Len(seq)
      /\ Newest(seq, n) = SubSeq(seq, m, Len(seq))
  BY DEF Newest
<1> HIDE DEF m, d
<1>2. \A j \in m..Len(seq) : seq[j] \in S
  BY <1>1
<1>3. /\ SubSeq(seq, m, Len(seq)) \in Seq(S)
      /\ Len(SubSeq(seq, m, Len(seq))) = IF m <= Len(seq) THEN Len(seq) - m + 1 ELSE 0
      /\ \A i \in 1..(Len(seq) - m + 1) : SubSeq(seq, m, Len(seq))[i] = seq[m + i - 1]
  BY <1>1, <1>2, SubSeqProperties
<1>4. Len(SubSeq(seq, m, Len(seq))) = Len(seq) - d
  BY <1>1, <1>3
<1>5. ASSUME NEW i \in 1..(Len(seq) - d) PROVE SubSeq(seq, m, Len(seq))[i] = seq[i + d]
  <2>1. i \in 1..(Len(seq) - m + 1) /\ m + i - 1 = i + d
    BY <1>1
  <2> QED BY <1>3, <2>1
<1> QED BY <1>1, <1>3, <1>4, <1>5 DEF d

\* The newest of the newest and one more are the newest of all.
LEMMA NewestOfNewest ==
    ASSUME NEW S, NEW seq \in Seq(S), NEW n \in Nat \ {0}, NEW x \in S
    PROVE  Newest(Append(Newest(seq, n), x), n) = Newest(Append(seq, x), n)
<1> DEFINE w == Newest(seq, n)
           a == Append(w, x)
           b == Append(seq, x)
           d == IF Len(seq) > n THEN Len(seq) - n ELSE 0
<1>1. /\ w \in Seq(S) /\ Len(w) = (IF Len(seq) > n THEN n ELSE Len(seq)) /\ Len(seq) \in Nat
      /\ \A i \in 1..Len(w) : w[i] = seq[i + d]
  BY NewestFits
<1> HIDE DEF w
<1>2. /\ a \in Seq(S) /\ Len(a) = Len(w) + 1 /\ a[Len(w) + 1] = x /\ \A i \in 1..Len(w) : a[i] = w[i]
      /\ b \in Seq(S) /\ Len(b) = Len(seq) + 1 /\ b[Len(seq) + 1] = x
      /\ \A i \in 1..Len(seq) : b[i] = seq[i]
  BY <1>1
<1> HIDE DEF a, b
<1>3. /\ Newest(a, n) \in Seq(S) /\ Newest(b, n) \in Seq(S)
      /\ Len(Newest(a, n)) = IF Len(a) > n THEN n ELSE Len(a)
      /\ Len(Newest(b, n)) = IF Len(b) > n THEN n ELSE Len(b)
      /\ \A i \in 1..Len(Newest(a, n)) : Newest(a, n)[i] = a[i + (IF Len(a) > n THEN Len(a) - n ELSE 0)]
      /\ \A i \in 1..Len(Newest(b, n)) : Newest(b, n)[i] = b[i + (IF Len(b) > n THEN Len(b) - n ELSE 0)]
  BY <1>2, NewestFits
<1>4. Len(Newest(a, n)) = Len(Newest(b, n))
  BY <1>1, <1>2, <1>3
<1>5. ASSUME NEW i \in 1..Len(Newest(a, n)) PROVE Newest(a, n)[i] = Newest(b, n)[i]
  <2>1. CASE Len(seq) < n
    <3>1. Len(w) = Len(seq) /\ d = 0
      BY <1>1, <2>1
    <3>2. Newest(a, n)[i] = a[i] /\ Newest(b, n)[i] = b[i] /\ i \in 1..(Len(seq) + 1)
      BY <1>2, <1>3, <1>4, <2>1, <3>1
    <3> HIDE DEF d
    <3> QED BY <1>1, <1>2, <3>1, <3>2
  <2>2. CASE Len(seq) >= n
    <3>1. Len(w) = n /\ d = Len(seq) - n /\ d \in Nat
      BY <1>1, <2>2
    <3>2. /\ Newest(a, n)[i] = a[i + 1] /\ Newest(b, n)[i] = b[i + d + 1] /\ i \in 1..n
      <4>1. Len(a) = n + 1 /\ Len(b) = Len(seq) + 1 /\ Len(a) > n /\ Len(b) > n
        BY <1>1, <1>2, <2>2, <3>1
      <4>2. /\ Len(a) - n = 1 /\ Len(b) - n = d + 1
        BY <1>1, <3>1, <4>1
      <4>3. i \in 1..n /\ i \in 1..Len(Newest(b, n))
        BY <1>3, <1>4, <4>1
      <4>4. Newest(a, n)[i] = a[i + 1] /\ Newest(b, n)[i] = b[i + (d + 1)]
        BY <1>3, <4>1, <4>2, <4>3
      <4>5. i + (d + 1) = i + d + 1
        BY <3>1, <4>3
      <4> QED BY <4>3, <4>4, <4>5
    <3> HIDE DEF d
    <3>3. CASE i = n
      BY <1>2, <3>1, <3>2, <3>3
    <3>4. CASE i # n
      <4>1. i + 1 \in 1..Len(w) /\ i + d + 1 \in 1..Len(seq)
        BY <1>1, <3>1, <3>2, <3>4
      <4>2. a[i + 1] = w[i + 1] /\ w[i + 1] = seq[i + 1 + d] /\ b[i + d + 1] = seq[i + d + 1]
        BY <1>1, <1>2, <4>1 DEF d
      <4>3. i + 1 + d = i + d + 1
        BY <3>1, <3>2
      <4> QED BY <3>2, <4>2, <4>3
    <3> QED BY <3>3, <3>4
  <2> QED BY <1>1, <2>1, <2>2
<1> DEFINE p == Newest(a, n)  q == Newest(b, n)
<1>6. p \in Seq(S) /\ q \in Seq(S) /\ Len(p) = Len(q) /\ \A i \in 1..Len(p) : p[i] = q[i]
  BY <1>3, <1>4, <1>5
<1>7. p = q
  <2> HIDE DEF p, q
  <2> QED BY <1>6
<1> QED BY <1>7 DEF a, b, w

\* An entry that is not there is not removed.
LEMMA NothingToRemove ==
    ASSUME NEW S, NEW seq \in Seq(S), NEW x, \A i \in 1..Len(seq) : seq[i] # x
    PROVE  RemoveFirst(seq, x) = seq
  BY Zenon DEF RemoveFirst


\* The invariant in three parts: what senders do, what the listener stores, what threads hold.
SendPart == SendShape /\ SendersFit /\ FilesFit /\ ReferencesFit
StorePart == StoreShape /\ KeysFit /\ LoggedAgainOnlyWhenForgotten
ThreadPart == ThreadShape /\ AppliedFits

\* Nothing a sender does or relies on changes.
LEMMA SendersStay ==
    ASSUME SendPart, UNCHANGED send_vars,
           \A t \in Message : threads[t] \in Thread => threads'[t] \in Thread
    PROVE  SendPart'
<1>1. UNCHANGED <<posted, send, references, recorded>>
  BY DEF send_vars
<1>2. SendShape'
  BY <1>1 DEF SendPart, SendShape
<1>3. SendersFit'
  <2>1. \A s \in Sender : /\ send[s].thread \in Message \cup {NoMessage}
    BY DEF SendPart, SendShape, SendRecord
  <2>2. \A s \in Sender : send[s].stage # "ready" /\ send[s].thread # NoMessage
                            => threads'[send[s].thread] \in Thread
    BY <2>1 DEF SendPart, SendersFit
  <2> QED BY <1>1, <2>2 DEF SendPart, SendersFit
<1>4. FilesFit' /\ ReferencesFit'
  BY <1>1 DEF SendPart, FilesFit, Written, ReferencesFit, Newest
<1> QED BY <1>2, <1>3, <1>4 DEF SendPart

\* Nothing the listener stores changes.
LEMMA StoreStays ==
    ASSUME StorePart, UNCHANGED <<store_vars, task>>
    PROVE  StorePart'
<1>1. UNCHANGED <<log, keys, unremembered, task>>
  BY DEF store_vars
<1>2. StoreShape'
  BY <1>1 DEF StorePart, StoreShape
<1>3. KeysFit'
  BY <1>1 DEF StorePart, KeysFit, Kept, Later, IsRemembered
<1>4. LoggedAgainOnlyWhenForgotten'
  BY <1>1 DEF StorePart, LoggedAgainOnlyWhenForgotten
<1> QED BY <1>2, <1>3, <1>4 DEF StorePart

\* No event changes its thread.
LEMMA AppliedStays ==
    ASSUME AppliedFits, UNCHANGED <<task, links, applied, unbound>>
    PROVE  AppliedFits'
  BY DEF AppliedFits

------------------------------------------------------------------------------
(* The inbound listener: senders.                                          *)

\* Post.
LEMMA PostKeeps ==
    ASSUME ListenerInv, NEW s \in Sender, NEW m \in Message, NEW t \in Message \cup {NoMessage},
           Post(s, m, t)
    PROVE  ListenerInv'
<1> DEFINE r == [send[s] EXCEPT !.stage = "load", !.message = m, !.thread = t]
<1>1. /\ SendPart /\ StorePart /\ ThreadPart /\ SendShape /\ SendersFit
      /\ send[s].stage = "ready" /\ m \notin posted /\ posted' = posted \cup {m}
      /\ t # NoMessage => threads[t] \in Thread
      /\ send' = [send EXCEPT ![s] = r]
      /\ UNCHANGED <<references, recorded, log, keys, unremembered, task, threads, indexed, links,
                     applied, deliveries, crashes, controls, unbound>>
  BY DEF ListenerInv, SendPart, StorePart, ThreadPart, ThreadShape, Post, store_vars, thread_vars,
         bound_vars
<1>2. /\ r \in SendRecord /\ r.stage = "load" /\ r.message = m /\ r.thread = t
  BY <1>1 DEF SendShape, SendRecord
<1> HIDE DEF r
<1>3. send'[s] = r /\ \A q \in Sender : q # s => send'[q] = send[q]
  BY <1>1 DEF SendShape
<1>4. SendShape'
  BY <1>1, <1>2 DEF SendShape
<1>5. SendersFit'
  <2>1. \A q \in Sender : /\ send'[q].stage \in {"load", "write"} => send'[q].message \in posted'
                          /\ send'[q].stage # "ready" /\ send'[q].thread # NoMessage
                               => threads'[send'[q].thread] \in Thread
                          /\ send'[q].stage = "deliver" => send'[q].thread # NoMessage
    BY <1>1, <1>2, <1>3 DEF SendersFit
  <2>2. ASSUME NEW q \in Sender, NEW u \in Sender, q # u,
               send'[q].stage \in {"load", "write"}, send'[u].stage \in {"load", "write"}
        PROVE  send'[q].message # send'[u].message
    BY <1>1, <1>2, <1>3, <2>2 DEF SendersFit
  <2>3. ASSUME NEW i \in DOMAIN recorded
        PROVE  /\ recorded[i] \in posted'
               /\ \A q \in Sender : send'[q].stage \in {"load", "write"} => send'[q].message # recorded[i]
    BY <1>1, <1>2, <1>3 DEF SendersFit
  <2> QED BY <1>1, <2>1, <2>2, <2>3 DEF SendersFit
<1>6. FilesFit' /\ ReferencesFit'
  BY <1>1, <1>2, <1>3 DEF SendPart, FilesFit, Written, ReferencesFit, Newest
<1>7. StorePart'
  BY <1>1, StoreStays DEF store_vars
<1>8. ThreadPart'
  BY <1>1 DEF ThreadPart, ThreadShape, AppliedFits
<1> QED BY <1>4, <1>5, <1>6, <1>7, <1>8 DEF ListenerInv, SendPart, StorePart, ThreadPart

\* A sender goes on with the message it has in hand.
LEMMA SenderGoesOn ==
    ASSUME SendPart, NEW s \in Sender, NEW r \in SendRecord, send[s].stage # "ready",
           send' = [send EXCEPT ![s] = r], r.message = send[s].message, r.thread = send[s].thread,
           r.stage \in {"load", "write"} => send[s].stage \in {"load", "write"},
           r.stage = "deliver" => r.thread # NoMessage,
           UNCHANGED <<posted, threads>>
    PROVE  /\ send' \in [Sender -> SendRecord]
           /\ send'[s] = r /\ \A q \in Sender : q # s => send'[q] = send[q]
           /\ \A q \in Sender : /\ send'[q].stage \in {"load", "write"} => send'[q].message \in posted'
                                /\ send'[q].stage # "ready" /\ send'[q].thread # NoMessage
                                     => threads'[send'[q].thread] \in Thread
                                /\ send'[q].stage = "deliver" => send'[q].thread # NoMessage
           /\ \A q, u \in Sender :
                send'[q].stage \in {"load", "write"} /\ send'[u].stage \in {"load", "write"} /\ q # u
                  => send'[q].message # send'[u].message
<1>1. send' \in [Sender -> SendRecord] /\ send'[s] = r /\ \A q \in Sender : q # s => send'[q] = send[q]
  BY DEF SendPart, SendShape
<1>2. SendersFit
  BY DEF SendPart
<1>3. \A q \in Sender : /\ send'[q].stage \in {"load", "write"} => send'[q].message \in posted'
                        /\ send'[q].stage # "ready" /\ send'[q].thread # NoMessage
                             => threads'[send'[q].thread] \in Thread
                        /\ send'[q].stage = "deliver" => send'[q].thread # NoMessage
  BY <1>1, <1>2 DEF SendersFit
<1>4. ASSUME NEW q \in Sender, NEW u \in Sender, q # u,
             send'[q].stage \in {"load", "write"}, send'[u].stage \in {"load", "write"}
      PROVE  send'[q].message # send'[u].message
  BY <1>1, <1>2, <1>4 DEF SendersFit
<1> QED BY <1>1, <1>3, <1>4

\* LoadReferences.
LEMMA LoadReferencesKeeps ==
    ASSUME ListenerInv, NEW s \in Sender, LoadReferences(s)
    PROVE  ListenerInv'
<1> DEFINE r == [send[s] EXCEPT !.stage = "write", !.copy = references]
<1>1. /\ SendPart /\ StorePart /\ ThreadPart /\ SendShape /\ SendersFit /\ FilesFit /\ ReferencesFit
      /\ send[s].stage = "load" /\ send[s] \in SendRecord
      /\ SendersDontOverlap => \A q \in Sender : send[q].stage # "write"
      /\ UNCHANGED <<posted, references, recorded, log, keys, unremembered, task, threads, indexed,
                     links, applied, deliveries, crashes, controls, unbound>>
  BY DEF ListenerInv, SendPart, StorePart, ThreadPart, SendShape, LoadReferences, store_vars,
         thread_vars, bound_vars
<1>2. send' = [send EXCEPT ![s] = r]
  BY <1>1 DEF LoadReferences, SendShape, SendRecord
<1>3. /\ r \in SendRecord /\ r.stage = "write" /\ r.message = send[s].message
      /\ r.thread = send[s].thread /\ r.copy = references
  BY <1>1 DEF SendShape, SendRecord
<1> HIDE DEF r
<1>4. /\ send' \in [Sender -> SendRecord]
      /\ send'[s] = r /\ \A q \in Sender : q # s => send'[q] = send[q]
      /\ \A q \in Sender : /\ send'[q].stage \in {"load", "write"} => send'[q].message \in posted'
                           /\ send'[q].stage # "ready" /\ send'[q].thread # NoMessage
                                => threads'[send'[q].thread] \in Thread
                           /\ send'[q].stage = "deliver" => send'[q].thread # NoMessage
      /\ \A q, u \in Sender :
           send'[q].stage \in {"load", "write"} /\ send'[u].stage \in {"load", "write"} /\ q # u
             => send'[q].message # send'[u].message
  BY <1>1, <1>2, <1>3, SenderGoesOn
<1>5. SendShape'
  BY <1>1, <1>4 DEF SendShape
<1>6. SendersFit'
  <2>1. ASSUME NEW i \in DOMAIN recorded
        PROVE  /\ recorded[i] \in posted'
               /\ \A q \in Sender : send'[q].stage \in {"load", "write"} => send'[q].message # recorded[i]
    BY <1>1, <1>3, <1>4 DEF SendersFit
  <2> QED BY <1>1, <1>4, <2>1 DEF SendersFit
<1>7. FilesFit'
  BY <1>1, <1>3, <1>4 DEF FilesFit, Written
<1>8. ReferencesFit'
  BY <1>1, <1>3, <1>4 DEF ReferencesFit, Newest
<1>9. StorePart'
  BY <1>1, StoreStays DEF store_vars
<1>10. ThreadPart'
  BY <1>1 DEF ThreadPart, ThreadShape, AppliedFits
<1> QED BY <1>5, <1>6, <1>7, <1>8, <1>9, <1>10 DEF ListenerInv, SendPart, StorePart, ThreadPart

\* WriteReferences.
LEMMA WriteReferencesKeeps ==
    ASSUME ListenerInv, NEW s \in Sender, WriteReferences(s)
    PROVE  ListenerInv'
<1> DEFINE m == send[s].message
           c == send[s].copy
           r == IF send[s].thread = NoMessage THEN Ready ELSE [send[s] EXCEPT !.stage = "deliver"]
<1>1. /\ SendPart /\ StorePart /\ ThreadPart /\ SendShape /\ SendersFit /\ FilesFit /\ ReferencesFit
      /\ send[s].stage = "write" /\ send[s] \in SendRecord
      /\ references' = Remembered(c, m) /\ recorded' = Append(recorded, m)
      /\ UNCHANGED <<posted, log, keys, unremembered, task, threads, indexed,
                     links, applied, deliveries, crashes, controls, unbound>>
  BY DEF ListenerInv, SendPart, StorePart, ThreadPart, SendShape, WriteReferences, store_vars,
         thread_vars, bound_vars
<1>2. send' = [send EXCEPT ![s] = r]
  BY <1>1 DEF WriteReferences, SendShape, SendRecord
<1>3. /\ c \in Seq(Message) /\ m \in posted /\ m \in Message /\ recorded \in Seq(Message)
      /\ Written(c) /\ \A j \in DOMAIN recorded : recorded[j] # m
  BY <1>1 DEF SendShape, SendRecord, SendersFit, FilesFit
<1>4. /\ r \in SendRecord /\ r.stage \in {"ready", "deliver"}
      /\ r.stage = "deliver" => /\ r.thread # NoMessage /\ r.thread = send[s].thread
                                /\ threads[r.thread] \in Thread
  <2>1. Ready \in SendRecord /\ Ready.stage = "ready"
    BY DEF Ready, SendRecord
  <2>2. CASE send[s].thread = NoMessage
    BY <2>1, <2>2
  <2>3. CASE send[s].thread # NoMessage
    BY <1>1, <2>3 DEF SendRecord, SendersFit
  <2> QED BY <2>2, <2>3
<1> HIDE DEF r, c, m
<1>5. send'[s] = r /\ (\A q \in Sender : q # s => send'[q] = send[q]) /\ send' \in [Sender -> SendRecord]
  BY <1>1, <1>2, <1>4 DEF SendShape
<1>6. RemoveFirst(c, m) = c
  <2>1. \A i \in 1..Len(c) : c[i] # m
    BY <1>3 DEF Written
  <2> QED BY <1>3, <2>1, NothingToRemove
<1>7. references' = Newest(Append(c, m), ReferenceLimit)
  BY <1>1, <1>6 DEF Remembered
<1>8. /\ Append(c, m) \in Seq(Message) /\ Len(Append(c, m)) = Len(c) + 1
      /\ Append(c, m)[Len(c) + 1] = m /\ \A i \in 1..Len(c) : Append(c, m)[i] = c[i]
      /\ recorded' \in Seq(Message) /\ Len(recorded') = Len(recorded) + 1
      /\ recorded'[Len(recorded) + 1] = m /\ \A i \in 1..Len(recorded) : recorded'[i] = recorded[i]
      /\ Len(c) \in Nat /\ Len(recorded) \in Nat
  BY <1>1, <1>3
<1>9. /\ references' \in Seq(Message) /\ Len(references') <= ReferenceLimit
      /\ \A i \in DOMAIN references' : \E k \in 1..(Len(c) + 1) : references'[i] = Append(c, m)[k]
  <2> DEFINE a == Append(c, m)  n == ReferenceLimit
  <2>1. n \in Nat \ {0}
    BY InboundConstantsOK
  <2>2. a \in Seq(Message) /\ Len(a) = Len(c) + 1
    BY <1>8
  <2> HIDE DEF a, n
  <2>3. /\ Newest(a, n) \in Seq(Message)
        /\ Len(Newest(a, n)) = IF Len(a) > n THEN n ELSE Len(a)
        /\ \A i \in 1..Len(Newest(a, n)) :
             Newest(a, n)[i] = a[i + (IF Len(a) > n THEN Len(a) - n ELSE 0)]
    BY <2>1, <2>2, NewestFits
  <2>4. \A i \in 1..Len(Newest(a, n)) : i + (IF Len(a) > n THEN Len(a) - n ELSE 0) \in 1..(Len(c) + 1)
    BY <1>8, <2>1, <2>2, <2>3
  <2>5. Len(Newest(a, n)) <= n
    BY <1>8, <2>1, <2>2, <2>3
  <2>6. references' = Newest(a, n)
    BY <1>7 DEF a, n
  <2>7. \A i \in DOMAIN references' : \E k \in 1..(Len(c) + 1) : references'[i] = a[k]
    <3> SUFFICES ASSUME NEW i \in DOMAIN references'
                 PROVE  \E k \in 1..(Len(c) + 1) : references'[i] = a[k]
      OBVIOUS
    <3> DEFINE k == i + (IF Len(a) > n THEN Len(a) - n ELSE 0)
    <3>1. i \in 1..Len(Newest(a, n))
      BY <2>3, <2>6
    <3>2. k \in 1..(Len(c) + 1) /\ Newest(a, n)[i] = a[k]
      BY <2>3, <2>4, <3>1
    <3> HIDE DEF k
    <3> QED BY <2>6, <3>2
  <2> QED BY <2>3, <2>5, <2>6, <2>7 DEF a, n
<1>10. SendShape'
  BY <1>1, <1>5, <1>8, <1>9 DEF SendShape
<1>11. SendersFit'
  <2>1. \A q \in Sender : /\ send'[q].stage \in {"load", "write"} => send'[q].message \in posted'
                          /\ send'[q].stage # "ready" /\ send'[q].thread # NoMessage
                               => threads'[send'[q].thread] \in Thread
                          /\ send'[q].stage = "deliver" => send'[q].thread # NoMessage
    BY <1>1, <1>4, <1>5 DEF SendersFit
  <2>2. ASSUME NEW q \in Sender, NEW u \in Sender, q # u,
               send'[q].stage \in {"load", "write"}, send'[u].stage \in {"load", "write"}
        PROVE  send'[q].message # send'[u].message
    BY <1>1, <1>4, <1>5, <2>2 DEF SendersFit
  <2>3. ASSUME NEW i \in DOMAIN recorded'
        PROVE  /\ recorded'[i] \in posted'
               /\ \A q \in Sender : send'[q].stage \in {"load", "write"} => send'[q].message # recorded'[i]
    <3>1. CASE i = Len(recorded) + 1
      <4>1. recorded'[i] = m
        BY <1>8, <3>1
      <4>2. \A q \in Sender : send'[q].stage \in {"load", "write"} => send'[q].message # m
        BY <1>1, <1>4, <1>5 DEF SendersFit, m
      <4> QED BY <1>1, <1>3, <4>1, <4>2
    <3>2. CASE i # Len(recorded) + 1
      <4>1. i \in DOMAIN recorded /\ recorded'[i] = recorded[i]
        BY <1>3, <1>8, <3>2
      <4> QED BY <1>1, <1>4, <1>5, <4>1 DEF SendersFit
    <3> QED BY <3>1, <3>2
  <2> QED BY <2>1, <2>2, <2>3 DEF SendersFit
<1>12. FilesFit'
  <2>1. \A i \in DOMAIN recorded : \E j \in DOMAIN recorded' : recorded'[j] = recorded[i]
    BY <1>3, <1>8
  <2>2. \E j \in DOMAIN recorded' : recorded'[j] = m
    BY <1>3, <1>8
  <2>3. \A k \in 1..(Len(c) + 1) : \E j \in DOMAIN recorded' : recorded'[j] = Append(c, m)[k]
    <3> SUFFICES ASSUME NEW k \in 1..(Len(c) + 1)
                 PROVE  \E j \in DOMAIN recorded' : recorded'[j] = Append(c, m)[k]
      OBVIOUS
    <3>1. CASE k = Len(c) + 1
      BY <1>8, <2>2, <3>1
    <3>2. CASE k # Len(c) + 1
      <4>1. k \in 1..Len(c) /\ k \in DOMAIN c
        BY <1>3, <1>8, <3>2
      <4>2. PICK i \in DOMAIN recorded : recorded[i] = c[k]
        BY <1>3, <4>1 DEF Written
      <4>3. Append(c, m)[k] = c[k]
        BY <1>8, <4>1
      <4> QED BY <2>1, <4>2, <4>3
    <3> QED BY <3>1, <3>2
  <2>4. \A i \in DOMAIN references' : \E j \in DOMAIN recorded' : recorded'[j] = references'[i]
    BY <1>9, <2>3
  <2>5. \A q \in Sender : send'[q].stage = "write" =>
          \A i \in DOMAIN send'[q].copy : \E j \in DOMAIN recorded' : recorded'[j] = send'[q].copy[i]
    <3> SUFFICES ASSUME NEW q \in Sender, send'[q].stage = "write", NEW i \in DOMAIN send'[q].copy
                 PROVE  \E j \in DOMAIN recorded' : recorded'[j] = send'[q].copy[i]
      OBVIOUS
    <3>1. q # s /\ send'[q] = send[q]
      BY <1>4, <1>5
    <3>2. \E j \in DOMAIN recorded : recorded[j] = send[q].copy[i]
      BY <1>1, <3>1 DEF FilesFit, Written
    <3> QED BY <2>1, <3>1, <3>2
  <2> QED BY <2>4, <2>5 DEF FilesFit, Written
<1>13. ReferencesFit'
  <2> SUFFICES ASSUME SendersDontOverlap
               PROVE  /\ references' = Newest(recorded', ReferenceLimit)
                      /\ \A q, u \in Sender : send'[q].stage = "write" /\ send'[u].stage = "write" => q = u
                      /\ \A q \in Sender : send'[q].stage = "write" => send'[q].copy = references'
    BY DEF ReferencesFit, Newest
  <2>1. /\ references = Newest(recorded, ReferenceLimit) /\ c = references
        /\ \A q \in Sender : q # s => send[q].stage # "write"
    BY <1>1 DEF ReferencesFit, c
  <2>2. ReferenceLimit \in Nat \ {0}
    BY InboundConstantsOK
  <2>3. Newest(Append(Newest(recorded, ReferenceLimit), m), ReferenceLimit) =
          Newest(Append(recorded, m), ReferenceLimit)
    BY <1>3, <2>2, NewestOfNewest
  <2>4. references' = Newest(recorded', ReferenceLimit)
    BY <1>1, <1>7, <2>1, <2>3
  <2>5. \A q \in Sender : send'[q].stage # "write"
    BY <1>4, <1>5, <2>1
  <2> QED BY <2>4, <2>5
<1>14. StorePart'
  BY <1>1, StoreStays DEF store_vars
<1>15. ThreadPart'
  BY <1>1 DEF ThreadPart, ThreadShape, AppliedFits
<1> QED BY <1>10, <1>11, <1>12, <1>13, <1>14, <1>15 DEF ListenerInv, SendPart, StorePart, ThreadPart

\* A sender is done, or an operator speaks: a thread is saved.
LEMMA SaveThreadFits ==
    ASSUME ThreadPart, NEW t \in Message, NEW record \in Thread, SaveThread(t, record),
           UNCHANGED <<task, links, applied, unbound>>,
           deliveries' = deliveries, crashes' = crashes, controls' \in 0..MaxControls
    PROVE  ThreadPart' /\ \A u \in Message : threads[u] \in Thread => threads'[u] \in Thread
<1>1. ThreadShape' /\ \A u \in Message : threads[u] \in Thread => threads'[u] \in Thread
  BY DEF ThreadPart, ThreadShape, SaveThread, RefreshIndexes
<1> QED BY <1>1, AppliedStays DEF ThreadPart

\* Deliver.
LEMMA DeliverKeeps ==
    ASSUME ListenerInv, NEW s \in Sender, Deliver(s)
    PROVE  ListenerInv'
<1> DEFINE t == send[s].thread
           record == [threads[t] EXCEPT !.last_outbound = send[s].message, !.follow_up = TRUE]
<1>1. /\ SendPart /\ StorePart /\ ThreadPart /\ SendShape /\ SendersFit /\ FilesFit /\ ReferencesFit
      /\ send[s].stage = "deliver" /\ send[s] \in SendRecord /\ SaveThread(t, record)
      /\ send' = [send EXCEPT ![s] = Ready]
      /\ UNCHANGED <<posted, references, recorded, log, keys, unremembered, task,
                     links, applied, deliveries, crashes, controls, unbound>>
  BY DEF ListenerInv, SendPart, StorePart, ThreadPart, SendShape, Deliver, store_vars, bound_vars
<1>2. t \in Message /\ threads[t] \in Thread
  BY <1>1 DEF SendersFit, SendRecord
<1>3. record \in Thread
  BY <1>1, <1>2 DEF Thread, SendRecord
<1> HIDE DEF t, record
<1>4. ThreadPart' /\ \A u \in Message : threads[u] \in Thread => threads'[u] \in Thread
  <2>1. controls' \in 0..MaxControls
    BY <1>1 DEF ThreadPart, ThreadShape
  <2> QED BY <1>1, <1>2, <1>3, <2>1, SaveThreadFits
<1>5. Ready \in SendRecord /\ Ready.stage = "ready"
  BY DEF Ready, SendRecord
<1>6. send'[s] = Ready /\ (\A q \in Sender : q # s => send'[q] = send[q]) /\ send' \in [Sender -> SendRecord]
  BY <1>1, <1>5 DEF SendShape
<1>7. SendShape'
  BY <1>1, <1>6 DEF SendShape
<1>8. SendersFit'
  <2>1. \A q \in Sender : /\ send'[q].stage \in {"load", "write"} => send'[q].message \in posted'
                          /\ send'[q].stage # "ready" /\ send'[q].thread # NoMessage
                               => threads'[send'[q].thread] \in Thread
                          /\ send'[q].stage = "deliver" => send'[q].thread # NoMessage
    <3> SUFFICES ASSUME NEW q \in Sender, send'[q].stage # "ready"
                 PROVE  /\ send'[q].stage \in {"load", "write"} => send'[q].message \in posted'
                        /\ send'[q].thread # NoMessage => threads'[send'[q].thread] \in Thread
                        /\ send'[q].stage = "deliver" => send'[q].thread # NoMessage
      OBVIOUS
    <3>1. q # s /\ send'[q] = send[q] /\ send[q].thread \in Message \cup {NoMessage}
      BY <1>1, <1>5, <1>6 DEF SendShape, SendRecord
    <3> QED BY <1>1, <1>4, <3>1 DEF SendersFit
  <2>2. ASSUME NEW q \in Sender, NEW u \in Sender, q # u,
               send'[q].stage \in {"load", "write"}, send'[u].stage \in {"load", "write"}
        PROVE  send'[q].message # send'[u].message
    BY <1>1, <1>5, <1>6, <2>2 DEF SendersFit
  <2>3. ASSUME NEW i \in DOMAIN recorded
        PROVE  /\ recorded[i] \in posted'
               /\ \A q \in Sender : send'[q].stage \in {"load", "write"} => send'[q].message # recorded[i]
    BY <1>1, <1>5, <1>6 DEF SendersFit
  <2> QED BY <1>1, <2>1, <2>2, <2>3 DEF SendersFit
<1>9. FilesFit' /\ ReferencesFit'
  BY <1>1, <1>5, <1>6 DEF FilesFit, Written, ReferencesFit, Newest
<1>10. StorePart'
  BY <1>1, StoreStays DEF store_vars
<1> QED BY <1>4, <1>7, <1>8, <1>9, <1>10 DEF ListenerInv, SendPart, StorePart, ThreadPart

------------------------------------------------------------------------------
(* The inbound listener: what it stores.                                   *)

\* An event is delivered.
LEMMA DeliveryFits ==
    ASSUME ThreadPart, deliveries < MaxDeliveries, deliveries' = deliveries + 1,
           UNCHANGED <<threads, indexed, links, applied, unbound, crashes, controls>>
    PROVE  ThreadShape'
<1>1. deliveries' \in 0..MaxDeliveries
  BY InboundConstantsOK DEF ThreadPart, ThreadShape
<1> QED BY <1>1 DEF ThreadPart, ThreadShape

\* The events logged after one that is followed by another.
LEMMA LaterGrows ==
    ASSUME log \in Seq(Event), NEW e \in Event, log' = Append(log, e), NEW i \in 1..Len(log)
    PROVE  /\ Later(i)' = Later(i) \cup {e} /\ IsFiniteSet(Later(i)) /\ IsFiniteSet(Later(i)')
           /\ Cardinality(Later(i)) \in Nat /\ Cardinality(Later(i)') \in Nat
           /\ Cardinality(Later(i)') >= Cardinality(Later(i))
<1>1. /\ Len(log) \in Nat /\ Len(log') = Len(log) + 1 /\ log'[Len(log) + 1] = e
      /\ \A k \in 1..Len(log) : log'[k] = log[k]
  OBVIOUS
<1>2. (i + 1)..Len(log') = ((i + 1)..Len(log)) \cup {Len(log) + 1}
  BY <1>1
<1>3. Later(i)' = Later(i) \cup {e}
  <2>1. Later(i)' = {log'[k] : k \in (i + 1)..Len(log')}
    BY DEF Later
  <2>2. \A k \in (i + 1)..Len(log) : k \in 1..Len(log)
    BY <1>1
  <2> QED BY <1>1, <1>2, <2>1, <2>2 DEF Later
<1>4. IsFiniteSet(Later(i)) /\ IsFiniteSet(Later(i) \cup {e})
  <2> DEFINE D == (i + 1)..Len(log)
             f == [k \in D |-> log[k]]
  <2>1. IsFiniteSet(D)
    BY <1>1, FS_Interval
  <2>2. f \in Surjection(D, Later(i))
    BY DEF Surjection, Later
  <2>3. IsFiniteSet(Later(i))
    BY <2>1, <2>2, FS_Surjection
  <2> QED BY <2>3, FS_AddElement
<1>5. /\ Cardinality(Later(i)) \in Nat /\ Cardinality(Later(i) \cup {e}) \in Nat
      /\ Cardinality(Later(i)) <= Cardinality(Later(i) \cup {e})
  BY <1>4, FS_CardinalityType, FS_Subset
<1> QED BY <1>3, <1>4, <1>5

\* The keys that follow a key, with one more that is none of them, count as many.
LEMMA KeysCount ==
    ASSUME NEW q \in Seq(Event), NEW n \in Nat \ {0}, Len(q) = n,
           \A k, m \in 1..Len(q) : q[k] = q[m] => k = m,
           NEW e \in Event, \A k \in 1..Len(q) : q[k] # e,
           NEW T, IsFiniteSet(T), e \in T, \A k \in 1..Len(q) : k > 1 => q[k] \in T
    PROVE  Cardinality(T) >= n
<1> DEFINE f == [k \in 1..n |-> IF k = 1 THEN e ELSE q[k]]
<1>1. f \in Injection(1..n, T)
  <2>1. f \in [1..n -> T]
    OBVIOUS
  <2>2. ASSUME NEW k \in 1..n, NEW m \in 1..n, f[k] = f[m] PROVE k = m
    BY <2>2
  <2> QED BY <2>1, <2>2 DEF Injection, IsInjective
<1>2. Cardinality(1..n) <= Cardinality(T)
  BY <1>1, FS_Injection
<1>3. Cardinality(1..n) = n /\ Cardinality(T) \in Nat
  BY FS_Interval, FS_CardinalityType
<1> QED BY <1>2, <1>3

\* Ingest.
LEMMA IngestKeeps ==
    ASSUME ListenerInv, NEW e \in Event, Ingest(e)
    PROVE  ListenerInv'
<1>1. /\ SendPart /\ StorePart /\ ThreadPart /\ StoreShape /\ KeysFit /\ LoggedAgainOnlyWhenForgotten
      /\ log \in Seq(Event) /\ keys \in Seq(Event) /\ task.stage = "idle" /\ ~IsRemembered(e)
      /\ log' = Append(log, e) /\ task' = [stage |-> "remember", event |-> e]
      /\ deliveries < MaxDeliveries /\ deliveries' = deliveries + 1
      /\ UNCHANGED <<posted, send, references, recorded, keys, unremembered, threads, indexed, links,
                     applied, crashes, controls, unbound>>
  BY DEF ListenerInv, SendPart, StorePart, ThreadPart, StoreShape, Ingest, Delivered, send_vars,
         thread_vars
<1>2. /\ log' \in Seq(Event) /\ Len(log) \in Nat /\ Len(log') = Len(log) + 1
      /\ log'[Len(log) + 1] = e /\ \A k \in 1..Len(log) : log'[k] = log[k]
      /\ DOMAIN log = 1..Len(log) /\ DOMAIN log' = 1..(Len(log) + 1)
  BY <1>1
<1>3. task' \in ListenerTask /\ task'.stage = "remember" /\ task'.event = e
  BY <1>1 DEF ListenerTask
<1>4. StoreShape'
  BY <1>1, <1>2, <1>3 DEF StoreShape
<1>5. \A i \in 1..Len(log) :
        /\ Later(i)' = Later(i) \cup {e} /\ IsFiniteSet(Later(i)) /\ IsFiniteSet(Later(i)')
        /\ Cardinality(Later(i)) \in Nat /\ Cardinality(Later(i)') \in Nat
        /\ Cardinality(Later(i)') >= Cardinality(Later(i))
  BY <1>1, LaterGrows
<1>6. KeysFit'
  <2>1. \A k, m \in DOMAIN keys' : keys'[k] = keys'[m] => k = m
    BY <1>1 DEF KeysFit
  <2>2. log' # <<>> /\ log'[Len(log')] = task'.event /\ ~IsRemembered(task.event)'
    BY <1>1, <1>2, <1>3 DEF IsRemembered
  <2>3. ASSUME NEW i \in DOMAIN log'
        PROVE  \/ log'[i] \in unremembered' \/ Kept(i)' \/ Cardinality(Later(i)') >= DedupeLimit
               \/ task'.stage = "remember" /\ i = Len(log')
    <3>1. CASE i = Len(log) + 1
      BY <1>2, <1>3, <3>1
    <3>2. CASE i # Len(log) + 1
      <4>1. i \in 1..Len(log) /\ log'[i] = log[i]
        BY <1>2, <3>2
      <4>2. log[i] \in unremembered \/ Kept(i) \/ Cardinality(Later(i)) >= DedupeLimit
        BY <1>1, <1>2, <4>1 DEF KeysFit
      <4>3. Kept(i) => Kept(i)'
        BY <1>1, <1>5, <4>1 DEF Kept
      <4>4. Cardinality(Later(i)) >= DedupeLimit => Cardinality(Later(i)') >= DedupeLimit
        BY <1>5, <4>1, InboundConstantsOK
      <4> QED BY <1>1, <4>1, <4>2, <4>3, <4>4
    <3> QED BY <3>1, <3>2
  <2>4. \A i \in DOMAIN log' :
          \/ log'[i] \in unremembered' \/ Kept(i)' \/ Cardinality(Later(i))' >= DedupeLimit
          \/ task'.stage = "remember" /\ i = Len(log')
    BY <2>3
  <2> QED BY <2>1, <2>2, <2>4 DEF KeysFit
<1>7. LoggedAgainOnlyWhenForgotten'
  <2> SUFFICES ASSUME NEW i \in DOMAIN log', NEW j \in DOMAIN log', i < j, log'[i] = log'[j],
                      log'[i] \notin unremembered'
               PROVE  Cardinality({log'[k] : k \in (i + 1) .. (j - 1)}) >= DedupeLimit
    BY DEF LoggedAgainOnlyWhenForgotten
  <2>1. i \in 1..Len(log) /\ log'[i] = log[i] /\ i \in Nat /\ j \in 1..(Len(log) + 1)
    BY <1>2
  <2>2. {log'[k] : k \in (i + 1) .. (j - 1)} = {log[k] : k \in (i + 1) .. (j - 1)}
    <3>1. \A k \in (i + 1) .. (j - 1) : k \in 1..Len(log)
      BY <1>2, <2>1
    <3> QED BY <1>2, <3>1
  <2>3. CASE j = Len(log) + 1
    <3>1. log[i] = e /\ log[i] \notin unremembered
      BY <1>1, <1>2, <2>1, <2>3
    <3>2. ~Kept(i)
      BY <1>1, <3>1 DEF Kept, IsRemembered
    <3>3. Cardinality(Later(i)) >= DedupeLimit
      BY <1>1, <1>2, <2>1, <3>1, <3>2 DEF KeysFit
    <3>4. j - 1 = Len(log)
      BY <1>2, <2>3
    <3> QED BY <2>2, <3>3, <3>4 DEF Later
  <2>4. CASE j # Len(log) + 1
    <3>1. j \in 1..Len(log) /\ log'[j] = log[j]
      <4>1. Len(log) \in Nat /\ j \in 1..(Len(log) + 1) /\ j # Len(log) + 1
        BY <1>2, <2>1, <2>4
      <4>2. j \in 1..Len(log)
        BY <4>1
      <4> QED BY <1>2, <4>2
    <3>2. log[i] = log[j] /\ log[i] \notin unremembered
      BY <1>1, <2>1, <3>1
    <3> QED BY <1>1, <1>2, <2>1, <2>2, <3>1, <3>2 DEF LoggedAgainOnlyWhenForgotten
  <2> QED BY <2>3, <2>4
<1>8. SendPart'
  BY <1>1, SendersStay DEF send_vars
<1>9. ThreadShape'
  BY <1>1, DeliveryFits
<1>10. AppliedFits'
  BY <1>1, <1>3 DEF ThreadPart, AppliedFits
<1> QED BY <1>4, <1>6, <1>7, <1>8, <1>9, <1>10 DEF ListenerInv, SendPart, StorePart, ThreadPart

\* Discard.
LEMMA DiscardKeeps ==
    ASSUME ListenerInv, NEW e \in Event, Discard(e)
    PROVE  ListenerInv'
<1>1. /\ SendPart /\ StorePart /\ ThreadPart /\ deliveries < MaxDeliveries /\ deliveries' = deliveries + 1
      /\ UNCHANGED <<posted, send, references, recorded, log, keys, unremembered, task, threads,
                     indexed, links, applied, crashes, controls, unbound>>
  BY DEF ListenerInv, SendPart, StorePart, ThreadPart, Discard, Delivered, send_vars, store_vars,
         thread_vars
<1>2. SendPart' /\ StorePart'
  BY <1>1, SendersStay, StoreStays DEF send_vars, store_vars
<1>3. ThreadShape' /\ AppliedFits'
  BY <1>1, DeliveryFits, AppliedStays DEF ThreadPart
<1> QED BY <1>2, <1>3 DEF ListenerInv, SendPart, StorePart, ThreadPart

\* Remember.
LEMMA RememberKeeps ==
    ASSUME ListenerInv, Remember
    PROVE  ListenerInv'
<1> DEFINE e == task.event
           a == Append(keys, e)
           n == DedupeLimit
           d == IF Len(a) > n THEN Len(a) - n ELSE 0
<1>1. /\ SendPart /\ StorePart /\ ThreadPart /\ StoreShape /\ KeysFit /\ LoggedAgainOnlyWhenForgotten
      /\ log \in Seq(Event) /\ keys \in Seq(Event) /\ task.stage = "remember" /\ task \in ListenerTask
      /\ e \in Event /\ log # <<>> /\ log[Len(log)] = e /\ ~IsRemembered(e) /\ Len(keys) <= n
      /\ keys' = WithKey(e)
      /\ task' = (IF Routed(e) THEN [task EXCEPT !.stage = "project"] ELSE Idle)
      /\ UNCHANGED <<posted, send, references, recorded, log, unremembered, threads, indexed, links,
                     applied, deliveries, crashes, controls, unbound>>
  BY DEF ListenerInv, SendPart, StorePart, ThreadPart, StoreShape, KeysFit, Remember, send_vars,
         thread_vars, bound_vars
<1>2. /\ task' \in ListenerTask /\ task'.stage \in {"idle", "project"}
      /\ task'.event \in Event <=> task'.stage # "idle"
      /\ task'.stage = "project" => task'.event = e /\ Target[e] \in Message
  <2>1. CASE Routed(e)
    <3>1. task' = [task EXCEPT !.stage = "project"] /\ Target[e] \in Message
      BY <1>1, <2>1, InboundConstantsOK DEF Routed
    <3> QED BY <1>1, <3>1 DEF ListenerTask
  <2>2. CASE ~Routed(e)
    BY <1>1, <2>2, InboundConstantsOK DEF ListenerTask, Idle
  <2> QED BY <2>1, <2>2
<1>3. n \in Nat \ {0} /\ Len(keys) \in Nat
  BY <1>1, InboundConstantsOK
<1>4. keys' = Newest(a, n)
  <2>1. \A i \in 1..Len(keys) : keys[i] # e
    BY <1>1 DEF IsRemembered
  <2>2. RemoveFirst(keys, e) = keys
    BY <1>1, <2>1, NothingToRemove
  <2> QED BY <1>1, <2>2 DEF WithKey
<1>5. /\ a \in Seq(Event) /\ Len(a) = Len(keys) + 1 /\ a[Len(keys) + 1] = e
      /\ \A k \in 1..Len(keys) : a[k] = keys[k]
  BY <1>1
<1> HIDE DEF a, n, e
<1>6. /\ keys' \in Seq(Event) /\ Len(keys') = (IF Len(a) > n THEN n ELSE Len(a))
      /\ \A k \in 1..Len(keys') : keys'[k] = a[k + d]
  BY <1>3, <1>4, <1>5, NewestFits
<1>7. /\ d \in {0, 1} /\ Len(keys') = Len(keys) + 1 - d /\ Len(keys') <= n
      /\ d = 1 => Len(keys) = n
  BY <1>1, <1>3, <1>5, <1>6
<1> HIDE DEF d
<1>8. /\ DOMAIN keys' = 1..(Len(keys) + 1 - d) /\ DOMAIN keys = 1..Len(keys)
      /\ \A k \in DOMAIN keys' : k + d \in 1..(Len(keys) + 1) /\ keys'[k] = a[k + d]
  BY <1>1, <1>3, <1>6, <1>7
<1>9. d \in Nat /\ d <= 1 /\ Len(keys) \in Nat /\ (d = 1 => Len(keys) = n)
  BY <1>3, <1>7
<1>10. DOMAIN keys' = 1..(Len(keys) + 1 - d) /\ DOMAIN keys = 1..Len(keys)
  BY <1>8
<1>11. StoreShape'
  BY <1>1, <1>2, <1>6, <1>7 DEF StoreShape, n
<1>12. ASSUME NEW k \in 1..(Len(keys) + 1), NEW m \in 1..(Len(keys) + 1), a[k] = a[m]
       PROVE  k = m
  <2>1. \A i \in 1..Len(keys) : a[i] # e
    BY <1>1, <1>5 DEF IsRemembered
  <2>2. CASE k = Len(keys) + 1
    <3>1. ~(m \in 1..Len(keys))
      BY <1>5, <1>12, <2>1, <2>2
    <3> QED BY <1>3, <2>2, <3>1
  <2>3. CASE m = Len(keys) + 1
    <3>1. ~(k \in 1..Len(keys))
      BY <1>5, <1>12, <2>1, <2>3
    <3> QED BY <1>3, <2>3, <3>1
  <2>4. CASE k \in 1..Len(keys) /\ m \in 1..Len(keys)
    BY <1>1, <1>5, <1>8, <1>12, <2>4 DEF KeysFit
  <2> QED BY <1>3, <2>2, <2>3, <2>4
<1>13. KeysFit'
  <2>1. \A k, m \in DOMAIN keys' : keys'[k] = keys'[m] => k = m
    <3> SUFFICES ASSUME NEW k \in DOMAIN keys', NEW m \in DOMAIN keys', keys'[k] = keys'[m] PROVE k = m
      OBVIOUS
    <3>1. k + d \in 1..(Len(keys) + 1) /\ m + d \in 1..(Len(keys) + 1) /\ a[k + d] = a[m + d]
      BY <1>8
    <3>2. k + d = m + d
      BY <1>12, <3>1
    <3> QED BY <1>9, <1>10, <3>2
  <2>2. ASSUME NEW i \in DOMAIN log
        PROVE  log[i] \in unremembered \/ Kept(i)' \/ Cardinality(Later(i)) >= n
    <3>1. i \in 1..Len(log) /\ Len(log) \in Nat /\ Later(i)' = Later(i)
      BY <1>1 DEF Later
    <3>2. CASE i = Len(log)
      <4>1. Len(keys) + 1 - d \in DOMAIN keys' /\ keys'[Len(keys) + 1 - d] = log[i]
        <5>1. Len(keys) + 1 - d \in DOMAIN keys' /\ (Len(keys) + 1 - d) + d = Len(keys) + 1
          <6>1. d = 0 \/ (d = 1 /\ Len(keys) \in Nat \ {0})
            BY <1>3, <1>9
          <6>2. Len(keys) + 1 - d >= 1 /\ (Len(keys) + 1 - d) + d = Len(keys) + 1
            BY <1>9, <6>1
          <6> QED BY <1>9, <1>10, <6>2
        <5> QED BY <1>1, <1>5, <1>8, <3>2, <5>1
      <4>2. \A m \in DOMAIN keys' : ~(m > Len(keys) + 1 - d)
        BY <1>9, <1>10
      <4> QED BY <1>1, <4>1, <4>2 DEF Kept
    <3>3. CASE i # Len(log) /\ Kept(i)
      <4>1. PICK k \in DOMAIN keys : keys[k] = log[i] /\ \A m \in DOMAIN keys : m > k => keys[m] \in Later(i)
        BY <3>3 DEF Kept
      <4>2. e \in Later(i)
        <5>1. Len(log) \in (i + 1)..Len(log)
          BY <3>1, <3>3
        <5> QED BY <1>1, <5>1 DEF Later
      <4>3. \A m \in 1..(Len(keys) + 1) : m > k => a[m] \in Later(i)
        BY <1>3, <1>5, <1>8, <4>1, <4>2
      <4>4. CASE k > d
        <5>1. k - d \in DOMAIN keys' /\ (k - d) + d = k
          BY <1>9, <1>10, <4>4
        <5>2. keys'[k - d] = log[i]
          BY <1>5, <1>8, <4>1, <5>1
        <5>3. \A m \in DOMAIN keys' : m > k - d => keys'[m] \in Later(i)
          <6> SUFFICES ASSUME NEW m \in DOMAIN keys', m > k - d PROVE keys'[m] \in Later(i)
            OBVIOUS
          <6>1. m + d \in 1..(Len(keys) + 1) /\ m + d > k
            BY <1>9, <1>10
          <6> QED BY <1>8, <4>3, <6>1
        <5> QED BY <1>1, <3>1, <5>1, <5>2, <5>3 DEF Kept
      <4>5. CASE ~(k > d)
        <5>1. k = 1 /\ d = 1 /\ Len(keys) = n
          BY <1>9, <1>10, <4>5
        <5>2. IsFiniteSet(Later(i))
          <6> DEFINE D == (i + 1)..Len(log)
                     f == [j \in D |-> log[j]]
          <6>1. IsFiniteSet(D)
            BY <3>1, FS_Interval
          <6>2. f \in Surjection(D, Later(i))
            BY DEF Surjection, Later
          <6> QED BY <6>1, <6>2, FS_Surjection
        <5>3. \A j \in 1..Len(keys) : j > 1 => keys[j] \in Later(i)
          BY <1>8, <4>1, <5>1
        <5>4. /\ \A j, m \in 1..Len(keys) : keys[j] = keys[m] => j = m
              /\ \A j \in 1..Len(keys) : keys[j] # e
          BY <1>1, <1>8 DEF KeysFit, IsRemembered
        <5>5. Cardinality(Later(i)) >= n
          BY <1>1, <1>3, <4>2, <5>1, <5>2, <5>3, <5>4, KeysCount
        <5> QED BY <5>5
      <4> QED BY <4>4, <4>5
    <3>4. CASE i # Len(log) /\ ~Kept(i)
      BY <1>1, <3>4 DEF KeysFit, n
    <3> QED BY <3>2, <3>3, <3>4
  <2>3. \A i \in DOMAIN log' :
          log'[i] \in unremembered' \/ Kept(i)' \/ Cardinality(Later(i))' >= DedupeLimit
    <3>1. \A i \in DOMAIN log : Later(i)' = Later(i)
      BY <1>1 DEF Later
    <3> QED BY <1>1, <2>2, <3>1 DEF n
  <2>4. task'.stage # "remember"
    BY <1>2
  <2> QED BY <2>1, <2>3, <2>4 DEF KeysFit
<1>14. LoggedAgainOnlyWhenForgotten'
  BY <1>1 DEF LoggedAgainOnlyWhenForgotten
<1>15. SendPart'
  BY <1>1, SendersStay DEF send_vars
<1>16. ThreadPart'
  BY <1>1, <1>2 DEF ThreadPart, ThreadShape, AppliedFits
<1> QED BY <1>11, <1>13, <1>14, <1>15, <1>16 DEF ListenerInv, SendPart, StorePart, ThreadPart

------------------------------------------------------------------------------
(* The inbound listener: projections.                                      *)

\* Threads of a projection.
LEMMA EventFits ==
    ASSUME ThreadShape, StoreShape, task.stage \in {"project", "index", "bind"}
    PROVE  /\ task.event \in Event /\ Target[task.event] \in Message
           /\ Applied(FoundOrNew(Target[task.event]), task.event) \in Thread
<1> DEFINE t == Target[task.event]
           r == FoundOrNew(t)
<1>1. task.event \in Event /\ t \in Message
  BY DEF StoreShape
<1>2. r \in Thread
  <2>1. [status |-> "active", last_event_id |-> NoEvent, follow_up |-> FALSE,
         last_outbound |-> NoMessage] \in Thread
    BY DEF Thread
  <2>2. threads[t] # NoRecord => threads[t] \in Thread
    BY <1>1 DEF ThreadShape
  <2> QED BY <2>1, <2>2 DEF FoundOrNew
<1> HIDE DEF r
<1>3. Applied(r, task.event) \in Thread
  BY <1>1, <1>2 DEF Applied, Thread
<1> QED BY <1>1, <1>3 DEF r, t

\* The listener goes on with its event: nothing it stores changes.
LEMMA ProjectionGoesOn ==
    ASSUME StorePart, UNCHANGED store_vars, task.stage \in {"project", "index", "bind"},
           task' = Idle \/ (\E st \in {"index", "bind"} : task' = [task EXCEPT !.stage = st])
    PROVE  StorePart'
<1>1. UNCHANGED <<log, keys, unremembered>>
  BY DEF store_vars
<1>2. /\ task' \in ListenerTask /\ task'.stage # "remember"
      /\ task'.event \in Event <=> task'.stage # "idle"
      /\ task'.stage \in {"project", "index", "bind"} => Target[task'.event] \in Message
  <2>1. task \in ListenerTask /\ task.event \in Event /\ Target[task.event] \in Message
    BY DEF StorePart, StoreShape
  <2>2. CASE task' = Idle
    BY <2>2, InboundConstantsOK DEF Idle, ListenerTask
  <2>3. CASE \E st \in {"index", "bind"} : task' = [task EXCEPT !.stage = st]
    BY <2>1, <2>3 DEF ListenerTask
  <2> QED BY <2>2, <2>3
<1>3. StoreShape'
  BY <1>1, <1>2 DEF StorePart, StoreShape
<1>4. KeysFit'
  BY <1>1, <1>2 DEF StorePart, KeysFit, Kept, Later, IsRemembered
<1>5. LoggedAgainOnlyWhenForgotten'
  BY <1>1 DEF StorePart, LoggedAgainOnlyWhenForgotten
<1> QED BY <1>3, <1>4, <1>5 DEF StorePart

\* AlreadyProjected.
LEMMA AlreadyProjectedKeeps ==
    ASSUME ListenerInv, AlreadyProjected
    PROVE  ListenerInv'
<1>1. /\ SendPart /\ StorePart /\ ThreadPart /\ task.stage = "project" /\ task' = Idle
      /\ UNCHANGED store_vars /\ UNCHANGED send_vars
      /\ UNCHANGED <<threads, indexed, links, applied, deliveries, crashes, controls, unbound>>
  BY DEF ListenerInv, SendPart, StorePart, ThreadPart, AlreadyProjected, thread_vars, bound_vars
<1>2. SendPart' /\ StorePart'
  BY <1>1, SendersStay, ProjectionGoesOn
<1>3. ThreadPart'
  BY <1>1 DEF ThreadPart, ThreadShape, AppliedFits
<1> QED BY <1>2, <1>3 DEF ListenerInv, SendPart, StorePart, ThreadPart

\* SaveEvent.
LEMMA SaveEventKeeps ==
    ASSUME ListenerInv, SaveEvent
    PROVE  ListenerInv'
<1> DEFINE e == task.event
           t == Target[e]
           r == Applied(FoundOrNew(t), e)
<1>1. /\ SendPart /\ StorePart /\ ThreadPart /\ ThreadShape /\ AppliedFits /\ StoreShape
      /\ task.stage = "project" /\ e \notin links
      /\ threads' = [threads EXCEPT ![t] = r] /\ applied' = [applied EXCEPT ![e] = @ + 1]
      /\ task' = [task EXCEPT !.stage = "index"] /\ task \in ListenerTask
      /\ UNCHANGED store_vars /\ UNCHANGED send_vars
      /\ UNCHANGED <<indexed, links, deliveries, crashes, controls, unbound>>
  BY DEF ListenerInv, SendPart, StorePart, ThreadPart, StoreShape, SaveEvent, IsLinked, bound_vars
<1>2. e \in Event /\ t \in Message /\ r \in Thread
  BY <1>1, EventFits
<1>3. task'.stage = "index" /\ task'.event = e
  BY <1>1 DEF ListenerTask
<1> HIDE DEF e, t, r
<1>4. \A u \in Message : threads[u] \in Thread => threads'[u] \in Thread
  BY <1>1, <1>2 DEF ThreadShape
<1>5. SendPart' /\ StorePart'
  BY <1>1, <1>4, SendersStay, ProjectionGoesOn
<1>6. ThreadShape'
  BY <1>1, <1>2 DEF ThreadShape
<1>7. AppliedFits'
  <2> SUFFICES ASSUME NEW f \in Event
               PROVE  /\ applied'[f] # 0 => \/ f \in links' \cup unbound'
                                            \/ task'.stage \in {"index", "bind"} /\ task'.event = f
                      /\ applied'[f] > 1 => f \in unbound'
    BY DEF AppliedFits
  <2>1. CASE f = e
    <3>1. applied[e] \in Nat /\ applied'[e] = applied[e] + 1
      BY <1>1, <1>2 DEF ThreadShape
    <3>2. applied[e] # 0 => e \in unbound
      BY <1>1, <1>2 DEF AppliedFits
    <3> QED BY <1>1, <1>3, <2>1, <3>1, <3>2
  <2>2. CASE f # e
    <3>1. applied'[f] = applied[f]
      BY <1>1, <2>2 DEF ThreadShape
    <3> QED BY <1>1, <3>1 DEF AppliedFits
  <2> QED BY <2>1, <2>2
<1> QED BY <1>5, <1>6, <1>7 DEF ListenerInv, SendPart, StorePart, ThreadPart

\* SaveIndexes.
LEMMA SaveIndexesKeeps ==
    ASSUME ListenerInv, SaveIndexes
    PROVE  ListenerInv'
<1>1. /\ SendPart /\ StorePart /\ ThreadPart /\ ThreadShape /\ AppliedFits /\ StoreShape
      /\ task.stage = "index" /\ indexed' = indexed \cup {Target[task.event]}
      /\ task' = [task EXCEPT !.stage = "bind"] /\ task \in ListenerTask
      /\ UNCHANGED store_vars /\ UNCHANGED send_vars
      /\ UNCHANGED <<threads, links, applied, deliveries, crashes, controls, unbound>>
  BY DEF ListenerInv, SendPart, StorePart, ThreadPart, StoreShape, SaveIndexes, bound_vars
<1>2. Target[task.event] \in Message
  BY <1>1, EventFits
<1>3. SendPart' /\ StorePart'
  BY <1>1, SendersStay, ProjectionGoesOn
<1>4. ThreadShape'
  BY <1>1, <1>2 DEF ThreadShape
<1>5. task'.stage = "bind" /\ task'.event = task.event
  BY <1>1 DEF ListenerTask
<1>6. AppliedFits'
  BY <1>1, <1>5 DEF AppliedFits
<1> QED BY <1>3, <1>4, <1>6 DEF ListenerInv, SendPart, StorePart, ThreadPart

\* BindEvent.
LEMMA BindEventKeeps ==
    ASSUME ListenerInv, BindEvent
    PROVE  ListenerInv'
<1>1. /\ SendPart /\ StorePart /\ ThreadPart /\ ThreadShape /\ AppliedFits /\ StoreShape
      /\ task.stage = "bind" /\ links' = links \cup {task.event} /\ task' = Idle
      /\ UNCHANGED store_vars /\ UNCHANGED send_vars
      /\ UNCHANGED <<threads, indexed, applied, deliveries, crashes, controls, unbound>>
  BY DEF ListenerInv, SendPart, StorePart, ThreadPart, BindEvent, bound_vars
<1>2. task.event \in Event
  BY <1>1, EventFits
<1>3. SendPart' /\ StorePart'
  BY <1>1, SendersStay, ProjectionGoesOn
<1>4. ThreadShape' /\ AppliedFits'
  BY <1>1, <1>2 DEF ThreadShape, AppliedFits
<1> QED BY <1>3, <1>4 DEF ListenerInv, SendPart, StorePart, ThreadPart

\* Interrupt.
LEMMA InterruptKeeps ==
    ASSUME ListenerInv, Interrupt
    PROVE  ListenerInv'
<1>1. /\ SendPart /\ StorePart /\ ThreadPart /\ ThreadShape /\ AppliedFits /\ StoreShape /\ KeysFit
      /\ LoggedAgainOnlyWhenForgotten
      /\ task.stage # "idle" /\ crashes < MaxCrashes /\ crashes' = crashes + 1 /\ task' = Idle
      /\ unremembered' = (IF task.stage = "remember" THEN unremembered \cup {task.event} ELSE unremembered)
      /\ unbound' = (IF task.stage \in {"index", "bind"} THEN unbound \cup {task.event} ELSE unbound)
      /\ task.event \in Event
      /\ UNCHANGED <<posted, send, references, recorded, log, keys, threads, indexed, links, applied,
                     deliveries, controls>>
  BY DEF ListenerInv, SendPart, StorePart, ThreadPart, StoreShape, Interrupt, send_vars,
     thread_vars
<1>2. task' \in ListenerTask /\ task'.stage = "idle" /\ task'.event \notin Event
  BY <1>1, InboundConstantsOK DEF Idle, ListenerTask
<1>3. crashes' \in 0..MaxCrashes
  BY <1>1, InboundConstantsOK DEF ThreadShape
<1>4. StoreShape' /\ ThreadShape'
  BY <1>1, <1>2, <1>3 DEF StoreShape, ThreadShape
<1>5. KeysFit'
  <2>1. ASSUME NEW i \in DOMAIN log
        PROVE  log[i] \in unremembered' \/ Kept(i)' \/ Cardinality(Later(i)) >= DedupeLimit
    <3>1. Kept(i)' = Kept(i)
      BY <1>1 DEF Kept, Later
    <3> QED BY <1>1, <3>1 DEF KeysFit
  <2>2. \A i \in DOMAIN log : Later(i)' = Later(i)
    BY <1>1 DEF Later
  <2>3. \A i \in DOMAIN log' :
          log'[i] \in unremembered' \/ Kept(i)' \/ Cardinality(Later(i))' >= DedupeLimit
    BY <1>1, <2>1, <2>2
  <2> QED BY <1>1, <1>2, <2>3 DEF KeysFit
<1>6. LoggedAgainOnlyWhenForgotten'
  BY <1>1 DEF LoggedAgainOnlyWhenForgotten
<1>7. SendPart'
  BY <1>1, SendersStay DEF send_vars
<1>8. AppliedFits'
  BY <1>1, <1>2 DEF AppliedFits
<1> QED BY <1>4, <1>5, <1>6, <1>7, <1>8 DEF ListenerInv, SendPart, StorePart, ThreadPart

------------------------------------------------------------------------------
(* The inbound listener: the operator, and the theorems.                   *)

\* Pause and Resume.
LEMMA OperatorKeepsThreads ==
    ASSUME ListenerInv, NEW t \in Message, Pause(t) \/ Resume(t)
    PROVE  ListenerInv'
<1> DEFINE r(st) == [threads[t] EXCEPT !.status = st]
<1>1. /\ SendPart /\ StorePart /\ ThreadPart /\ ThreadShape
      /\ threads[t] # NoRecord /\ controls < MaxControls /\ controls' = controls + 1
      /\ \E st \in {"paused", "active"} : SaveThread(t, r(st))
      /\ UNCHANGED <<posted, send, references, recorded, log, keys, unremembered, task, links, applied,
                     deliveries, crashes, unbound>>
  BY DEF ListenerInv, SendPart, StorePart, ThreadPart, Pause, Resume, store_vars
<1>2. threads[t] \in Thread /\ controls' \in 0..MaxControls
  BY <1>1, InboundConstantsOK DEF ThreadShape
<1>3. PICK st \in {"paused", "active"} : SaveThread(t, r(st))
  BY <1>1
<1>4. r(st) \in Thread
  BY <1>2 DEF Thread
<1>5. ThreadPart' /\ \A u \in Message : threads[u] \in Thread => threads'[u] \in Thread
  <2> HIDE DEF r
  <2> QED BY <1>1, <1>2, <1>3, <1>4, SaveThreadFits
<1>6. SendPart' /\ StorePart'
  BY <1>1, <1>5, SendersStay, StoreStays DEF send_vars, store_vars
<1> QED BY <1>5, <1>6 DEF ListenerInv, SendPart, StorePart, ThreadPart

\* Nothing has been sent or delivered.
LEMMA ListenerStart == InboundInit => ListenerInv
<1> SUFFICES ASSUME InboundInit PROVE ListenerInv
  OBVIOUS
<1>1. /\ 0 \in 0..MaxDeliveries /\ 0 \in 0..MaxCrashes /\ 0 \in 0..MaxControls
      /\ Len(<<>>) = 0 /\ 0 <= DedupeLimit /\ 0 <= ReferenceLimit
      /\ ReferenceLimit \in Nat \ {0}
  BY InboundConstantsOK
<1>2. Ready \in SendRecord /\ Ready.stage = "ready" /\ <<>> \in Seq(Message) /\ <<>> \in Seq(Event)
  BY DEF Ready, SendRecord
<1>3. Idle \in ListenerTask /\ Idle.stage = "idle" /\ Idle.event \notin Event
  BY InboundConstantsOK DEF Idle, ListenerTask
<1>4. SendShape /\ StoreShape /\ ThreadShape
  BY <1>1, <1>2, <1>3 DEF InboundInit, SendShape, StoreShape, ThreadShape
<1>5. SendersFit /\ FilesFit
  BY <1>2 DEF InboundInit, SendersFit, FilesFit, Written
<1>6. ReferencesFit
  <2>1. Newest(<<>>, ReferenceLimit) = <<>>
    <3>1. /\ Newest(<<>>, ReferenceLimit) \in Seq(Message)
          /\ Len(Newest(<<>>, ReferenceLimit)) = IF Len(<<>>) > ReferenceLimit THEN ReferenceLimit ELSE Len(<<>>)
      BY <1>1, <1>2, NewestFits
    <3> QED BY <1>1, <3>1
  <2> QED BY <1>2, <2>1 DEF InboundInit, ReferencesFit
<1>7. KeysFit /\ LoggedAgainOnlyWhenForgotten
  BY <1>3 DEF InboundInit, KeysFit, LoggedAgainOnlyWhenForgotten
<1>8. AppliedFits
  BY DEF InboundInit, AppliedFits
<1> QED BY <1>4, <1>5, <1>6, <1>7, <1>8 DEF ListenerInv

\* Every step keeps the invariant.
LEMMA ListenerStep == ListenerInv /\ [InboundNext]_inbound_vars => ListenerInv'
<1> SUFFICES ASSUME ListenerInv, [InboundNext]_inbound_vars PROVE ListenerInv'
  OBVIOUS
<1>1. CASE UNCHANGED inbound_vars
  <2>1. /\ SendPart /\ StorePart /\ ThreadPart
        /\ UNCHANGED send_vars /\ UNCHANGED <<store_vars, task>>
        /\ UNCHANGED <<threads, indexed, links, applied, unbound, deliveries, crashes, controls>>
    BY <1>1 DEF ListenerInv, SendPart, StorePart, ThreadPart, inbound_vars, send_vars, store_vars
  <2>2. SendPart' /\ StorePart'
    BY <2>1, SendersStay, StoreStays
  <2>3. ThreadPart'
    BY <2>1 DEF ThreadPart, ThreadShape, AppliedFits
  <2> QED BY <2>2, <2>3 DEF ListenerInv, SendPart, StorePart, ThreadPart
<1>2. CASE InboundNext
  BY <1>2, PostKeeps, LoadReferencesKeeps, WriteReferencesKeeps, DeliverKeeps, IngestKeeps,
     DiscardKeeps,
     RememberKeeps, AlreadyProjectedKeeps, SaveEventKeeps, SaveIndexesKeeps, BindEventKeeps,
     InterruptKeeps, OperatorKeepsThreads DEF InboundNext, Listener
<1> QED BY <1>1, <1>2

\* The invariant holds throughout.
LEMMA ListenerAlways == InboundSpec => []ListenerInv
  BY ListenerStart, ListenerStep, PTL DEF InboundSpec

\* What senders and the listener hold and store is well typed, and the references and the keys
\* are never more than their limits (record_outbound_message, ListenerState.remember).
THEOREM ListenerTypes == InboundSpec => []InboundTypeOK
<1>1. ListenerInv => InboundTypeOK
  BY DEF ListenerInv, SendShape, StoreShape, ThreadShape, InboundTypeOK, SendRecord, ListenerTask
<1> QED BY <1>1, ListenerAlways, PTL

\* Telegram may deliver an event again at any time, and the listener may die between any two
\* of its saves: an event is logged again only if that cut it off or enough others came in
\* between, and changes its thread again only if its link was cut off (append_inbound_event,
\* project_event).
THEOREM RepetitionsStayHarmless == InboundSpec => []RepetitionsAreHarmless
<1>1. ListenerInv => RepetitionsAreHarmless
  BY DEF ListenerInv, AppliedFits, RepetitionsAreHarmless, AppliedOnce
<1> QED BY <1>1, ListenerAlways, PTL

\* If senders do not overlap, an answer to any of the newest messages recorded is recognised,
\* whatever else is sent and delivered meanwhile (record_outbound_message).
THEOREM AnswersAreRecognised == InboundSpec => []AnswersRecognised
<1>1. ASSUME ListenerInv, SendersDontOverlap, NEW e \in Event, NEW i \in DOMAIN recorded,
             recorded[i] = Target[e], i > Len(recorded) - ReferenceLimit
      PROVE  Accepted(e)
  <2> DEFINE n == ReferenceLimit
             d == IF Len(recorded) > n THEN Len(recorded) - n ELSE 0
  <2>1. /\ recorded \in Seq(Message) /\ references = Newest(recorded, n) /\ n \in Nat \ {0}
        /\ Len(recorded) \in Nat /\ i \in 1..Len(recorded)
    BY <1>1, InboundConstantsOK DEF ListenerInv, SendShape, ReferencesFit
  <2>2. /\ references \in Seq(Message) /\ Len(references) = IF Len(recorded) > n THEN n ELSE Len(recorded)
        /\ \A k \in 1..Len(references) : references[k] = recorded[k + d]
    BY <2>1, NewestFits
  <2>3. d \in Nat /\ i - d \in 1..Len(references) /\ (i - d) + d = i
    <3>1. Len(references) = IF Len(recorded) > n THEN n ELSE Len(recorded)
      BY <2>2
    <3>2. n \in Nat \ {0} /\ Len(recorded) \in Nat /\ i \in 1..Len(recorded)
          /\ i > Len(recorded) - n
      BY <1>1, <2>1
    <3> QED BY <3>1, <3>2
  <2> HIDE DEF d, n
  <2>4. references[i - d] = recorded[i] /\ i - d \in DOMAIN references
    BY <2>2, <2>3
  <2> QED BY <1>1, <2>4 DEF Accepted, InReferences
<1>2. ListenerInv => AnswersRecognised
  BY <1>1 DEF AnswersRecognised
<1> QED BY <1>2, ListenerAlways, PTL

------------------------------------------------------------------------------
(* Managed accounts: the inductive invariant.                              *)

Outcomes == {"join", "start", "refused"}
JobRecord ==
    [stage : Stages, action : Outcomes \cup {"none", "onboard"}, account : Members \cup {"none"},
     record : Account, copy : [Members -> Account]]

RegistryShape ==
    /\ registry \in [Members -> Account] /\ torn \in BOOLEAN
    /\ at_work \in [Processes -> JobRecord]
    /\ day \in 1..MaxDays /\ calls \in 0..MaxCalls /\ write_deaths \in 0..MaxWriteDeaths
    /\ joined \in [Members -> Nat] /\ started \in [Members -> Nat]
    /\ onboarded \subseteq Members /\ raced \in BOOLEAN

\* Only live workers call Telegram, each for one account at a time.
JobsFit ==
    \A p \in Processes :
      /\ at_work[p].stage # "rest" => at_work[p].account \in Members
      /\ at_work[p].stage = "call" => at_work[p].action \in {"join", "start"}
      /\ at_work[p].stage = "load" => at_work[p].action \in Outcomes
      /\ InTheFile(p) => at_work[p].action \in Outcomes \cup {"onboard"}
      /\ at_work[p].stage # "rest" /\ at_work[p].action \in Outcomes => p \in JoinWorkers

\* Undisturbed, one process at a time is in the file, and only it may have emptied it.
OneInTheFile ==
    /\ \A p, q \in Processes : InTheFile(p) /\ InTheFile(q) => p = q
    /\ torn => \E p \in Processes : at_work[p].stage = "write"

\* What a process in the file is about to write follows from what the file holds.
InStep(p) ==
    LET w == at_work[p]  r == registry[w.account] IN
    /\ w.stage \in {"call", "load"} => r.known
    /\ InTheFile(p) => IF w.action = "onboard"
                       THEN ~r.known /\ w.record = [Missing EXCEPT !.known = TRUE, !.onboarded = day]
                       ELSE r.known /\ w.record = Marked(r, w.action)
    /\ w.stage \in {"empty", "write"} => w.copy = registry

\* Workers that are joining with an account, and those whose join the file does not count yet.
Joining(a, stages) ==
    {p \in Processes : /\ at_work[p].stage \in stages
                       /\ at_work[p].account = a /\ at_work[p].action = "join"}
Calling(a) == Joining(a, {"call"})
Uncounted(a) == Joining(a, {"load", "list", "empty", "write"})
Limit(a) == JoinLimits[Ramp(registry[a])]

\* The file counts every join but those in hand, and no worker began one it had no room for.
JoinsCounted(a) ==
    IF registry[a].known
    THEN /\ registry[a].onboarded \in 1..day
         /\ joined[a] <= Refreshed(registry[a]).joins + Cardinality(Uncounted(a))
         /\ joined[a] + Cardinality(Calling(a)) <= Limit(a) + Cardinality(JoinWorkers) - 1
    ELSE joined[a] = 0

RegistryInv ==
    /\ RegistryShape /\ JobsFit
    /\ Undisturbed => /\ OneInTheFile /\ OnboardedStays
                      /\ \A p \in Processes : InStep(p)
                      /\ \A a \in Members : JoinsCounted(a)

------------------------------------------------------------------------------
(* Managed accounts: records.                                              *)

\* What an outcome makes of a record.
LEMMA MarkedFits ==
    ASSUME NEW r \in Account, NEW action \in Outcomes, day \in 1..MaxDays
    PROVE  /\ Marked(r, action) \in Account
           /\ Marked(r, action).known = r.known
           /\ Marked(r, action).onboarded = r.onboarded
           /\ Refreshed(Marked(r, action)).joins =
                Refreshed(r).joins + (IF action = "join" THEN 1 ELSE 0)
<1> DEFINE f == Refreshed(r)
<1>1. day \in Nat /\ day # 0 /\ 0 \in 0..MaxDays /\ day \in 0..MaxDays
  BY AccountConstantsOK
<1>2. /\ f \in Account /\ f.known = r.known /\ f.onboarded = r.onboarded
      /\ f.window # day => f.joins = 0 /\ f.window = 0
  BY <1>1 DEF Refreshed, Account, Ledger
<1> HIDE DEF f
<1>3. \A s \in Account : /\ Counted(s) \in Account /\ Counted(s).known = s.known
                         /\ Counted(s).onboarded = s.onboarded
                         /\ Counted(s).joins = s.joins /\ Counted(s).window = s.window
  BY DEF Counted, Account, Ledger
<1>4. CASE action = "join"
  <2> DEFINE s == [f EXCEPT !.joins = @ + 1, !.window = day, !.healthy = TRUE]
  <2>1. /\ s \in Account /\ s.known = r.known /\ s.onboarded = r.onboarded
        /\ s.joins = f.joins + 1 /\ s.window = day
    <3>1. f.joins + 1 \in Nat
      BY <1>2 DEF Account
    <3> DEFINE n == f.joins + 1
    <3> HIDE DEF n
    <3>2. n \in Nat /\ s = [f EXCEPT !.joins = n, !.window = day, !.healthy = TRUE]
      BY <3>1 DEF n
    <3>3. /\ s \in Account /\ s.known = r.known /\ s.onboarded = r.onboarded
          /\ s.joins = n /\ s.window = day
      <4> HIDE DEF s
      <4> QED BY <1>1, <1>2, <3>2, Zenon DEF Account
    <3> QED BY <3>3 DEF n
  <2>2. Marked(r, action) = Counted(s)
    BY <1>4 DEF Marked, f
  <2> HIDE DEF s
  <2> QED BY <1>3, <1>4, <2>1, <2>2 DEF Refreshed, f
<1>5. CASE action = "start"
  <2> DEFINE s == [f EXCEPT !.healthy = TRUE]
  <2>1. /\ s \in Account /\ s.known = r.known /\ s.onboarded = r.onboarded
        /\ s.joins = f.joins /\ s.window = f.window
    BY <1>1, <1>2 DEF Account
  <2>2. Marked(r, action) = Counted(s)
    BY <1>5 DEF Marked, f
  <2> HIDE DEF s
  <2>3. Refreshed(Counted(s)).joins = f.joins
    BY <1>1, <1>2, <1>3, <2>1 DEF Refreshed, Account
  <2> QED BY <1>2, <1>3, <1>5, <2>1, <2>2, <2>3 DEF Account, f
<1>6. CASE action = "refused"
  <2> DEFINE s == [f EXCEPT !.healthy = FALSE]
  <2>1. /\ s \in Account /\ s.known = r.known /\ s.onboarded = r.onboarded
        /\ s.joins = f.joins /\ s.window = f.window
    BY <1>1, <1>2 DEF Account
  <2>2. Marked(r, action) = s
    BY <1>6 DEF Marked, f
  <2> HIDE DEF s
  <2>3. Refreshed(s).joins = f.joins
    BY <1>1, <1>2, <2>1 DEF Refreshed, Account
  <2> QED BY <1>2, <1>6, <2>1, <2>2, <2>3 DEF Account, f
<1> QED BY <1>4, <1>5, <1>6 DEF Outcomes

\* A new account.
LEMMA NewAccountFits ==
    ASSUME day \in 1..MaxDays
    PROVE  LET r == [Missing EXCEPT !.known = TRUE, !.onboarded = day]
           IN  r \in Account /\ r.known /\ r.onboarded = day /\ Missing \in Account
<1>1. day \in 0..MaxDays /\ 0 \in 0..MaxDays /\ 0 \in Nat
  BY AccountConstantsOK
<1>2. Missing \in Account
  BY <1>1 DEF Missing, NoLedger, Account, Ledger
<1> DEFINE r == [Missing EXCEPT !.known = TRUE, !.onboarded = day]
<1>3. r.known /\ r.onboarded = day
  BY DEF Missing
<1>4. r \in Account
  BY <1>1, <1>2, Zenon DEF Account
<1> QED BY <1>2, <1>3, <1>4

\* The sets of workers that join are finite, and together no larger than all.
LEMMA JoinersFit ==
    ASSUME JobsFit, NEW a \in Members
    PROVE  /\ Calling(a) \subseteq JoinWorkers /\ Uncounted(a) \subseteq JoinWorkers
           /\ IsFiniteSet(Calling(a)) /\ IsFiniteSet(Uncounted(a))
           /\ Cardinality(Calling(a)) \in Nat /\ Cardinality(Uncounted(a)) \in Nat
           /\ Cardinality(JoinWorkers) \in Nat
<1>1. Calling(a) \subseteq JoinWorkers /\ Uncounted(a) \subseteq JoinWorkers
  BY DEF JobsFit, Calling, Uncounted, Joining, Outcomes
<1> QED BY <1>1, AccountConstantsOK, FS_Subset, FS_CardinalityType

\* A process is at work on a join of the account.
IsJoining(p, a, stages) ==
    at_work[p].stage \in stages /\ at_work[p].account = a /\ at_work[p].action = "join"

\* One process moves on: it joins or leaves the workers that join, or neither.
LEMMA JoinersMove ==
    ASSUME JobsFit, NEW p \in Processes, NEW a \in Members,
           NEW stages \in SUBSET {"call", "load", "list", "empty", "write"},
           \A q \in Processes : q # p => at_work'[q] = at_work[q]
    PROVE  Cardinality(Joining(a, stages))' =
             IF IsJoining(p, a, stages)
             THEN Cardinality(Joining(a, stages)) - (IF IsJoining(p, a, stages)' THEN 0 ELSE 1)
             ELSE Cardinality(Joining(a, stages)) + (IF IsJoining(p, a, stages)' THEN 1 ELSE 0)
<1> DEFINE J == Joining(a, stages)
<1>1. J \subseteq JoinWorkers
  BY DEF JobsFit, Joining, Outcomes
<1>2. IsFiniteSet(J) /\ Cardinality(J) \in Nat
  BY <1>1, AccountConstantsOK, FS_Subset, FS_CardinalityType
<1>3. p \in J <=> IsJoining(p, a, stages)
  BY DEF Joining, IsJoining
<1>4. J' = IF IsJoining(p, a, stages)' THEN J \cup {p} ELSE J \ {p}
  BY DEF Joining, IsJoining
<1>5. /\ p \notin J => Cardinality(J \cup {p}) = Cardinality(J) + 1
      /\ p \in J => Cardinality(J \ {p}) = Cardinality(J) - 1
  BY <1>2, FS_AddElement, FS_RemoveElement
<1>6. /\ p \in J => J \cup {p} = J
      /\ p \notin J => J \ {p} = J
  OBVIOUS
<1> DEFINE c == Cardinality(J)  K == Joining(a, stages)'
<1>7. Cardinality(K) =
        IF p \in J THEN c - (IF IsJoining(p, a, stages)' THEN 0 ELSE 1)
        ELSE c + (IF IsJoining(p, a, stages)' THEN 1 ELSE 0)
  <2>1. c \in Nat
    BY <1>2
  <2>2. K = IF IsJoining(p, a, stages)' THEN J \cup {p} ELSE J \ {p}
    BY <1>4
  <2>3. CASE IsJoining(p, a, stages)'
    <3>1. K = J \cup {p}
      BY <2>2, <2>3
    <3> HIDE DEF K, J
    <3>2. /\ p \in J => Cardinality(K) = c
          /\ p \notin J => Cardinality(K) = c + 1
      BY <1>5, <1>6, <3>1
    <3> HIDE DEF c
    <3> QED BY <2>1, <2>3, <3>2
  <2>4. CASE ~IsJoining(p, a, stages)'
    <3>1. K = J \ {p}
      BY <2>2, <2>4
    <3> HIDE DEF K, J
    <3>2. /\ p \in J => Cardinality(K) = c - 1
          /\ p \notin J => Cardinality(K) = c
      BY <1>5, <1>6, <3>1
    <3> HIDE DEF c
    <3> QED BY <2>1, <2>4, <3>2
  <2> QED BY <2>3, <2>4
<1> QED BY <1>3, <1>7

\* A process calls Telegram, or has a join in hand that is not counted yet.
CallsNow(p, a) == IsJoining(p, a, {"call"})
InHandNow(p, a) == IsJoining(p, a, {"load", "list", "empty", "write"})

\* The same of those that call and of those whose join is not counted.
LEMMA BothMove ==
    ASSUME JobsFit, NEW p \in Processes, NEW a \in Members,
           \A q \in Processes : q # p => at_work'[q] = at_work[q]
    PROVE  /\ (CallsNow(p, a) <=> CallsNow(p, a)') => Cardinality(Calling(a))' = Cardinality(Calling(a))
           /\ CallsNow(p, a) /\ ~CallsNow(p, a)' => Cardinality(Calling(a))' = Cardinality(Calling(a)) - 1
           /\ ~CallsNow(p, a) /\ CallsNow(p, a)' => Cardinality(Calling(a))' = Cardinality(Calling(a)) + 1
           /\ (InHandNow(p, a) <=> InHandNow(p, a)') => Cardinality(Uncounted(a))' = Cardinality(Uncounted(a))
           /\ InHandNow(p, a) /\ ~InHandNow(p, a)' => Cardinality(Uncounted(a))' = Cardinality(Uncounted(a)) - 1
           /\ ~InHandNow(p, a) /\ InHandNow(p, a)' => Cardinality(Uncounted(a))' = Cardinality(Uncounted(a)) + 1
<1> DEFINE All == SUBSET {"call", "load", "list", "empty", "write"}
<1>1. {"call"} \in All /\ {"load", "list", "empty", "write"} \in All
  OBVIOUS
<1>2. \A stages \in All :
        Cardinality(Joining(a, stages))' =
             IF IsJoining(p, a, stages)
             THEN Cardinality(Joining(a, stages)) - (IF IsJoining(p, a, stages)' THEN 0 ELSE 1)
             ELSE Cardinality(Joining(a, stages)) + (IF IsJoining(p, a, stages)' THEN 1 ELSE 0)
  BY JoinersMove
<1> HIDE DEF All
<1>3. /\ Cardinality(Calling(a))' =
           IF CallsNow(p, a) THEN Cardinality(Calling(a)) - (IF CallsNow(p, a)' THEN 0 ELSE 1)
           ELSE Cardinality(Calling(a)) + (IF CallsNow(p, a)' THEN 1 ELSE 0)
      /\ Cardinality(Uncounted(a))' =
           IF InHandNow(p, a) THEN Cardinality(Uncounted(a)) - (IF InHandNow(p, a)' THEN 0 ELSE 1)
           ELSE Cardinality(Uncounted(a)) + (IF InHandNow(p, a)' THEN 1 ELSE 0)
  BY <1>1, <1>2 DEF Calling, Uncounted, CallsNow, InHandNow
<1>4. Cardinality(Calling(a)) \in Nat /\ Cardinality(Uncounted(a)) \in Nat
  BY JoinersFit
<1> QED BY <1>3, <1>4

\* A worker at rest is one more than those that join.
LEMMA OneMoreJoins ==
    ASSUME JobsFit, NEW p \in JoinWorkers, at_work[p].stage = "rest", NEW a \in Members
    PROVE  Cardinality(Calling(a)) + Cardinality(Uncounted(a)) + 1 <= Cardinality(JoinWorkers)
<1> DEFINE B == Calling(a) \cup Uncounted(a)
<1>1. /\ Calling(a) \subseteq JoinWorkers /\ Uncounted(a) \subseteq JoinWorkers
      /\ IsFiniteSet(Calling(a)) /\ IsFiniteSet(Uncounted(a))
      /\ Cardinality(Calling(a)) \in Nat /\ Cardinality(Uncounted(a)) \in Nat
      /\ Cardinality(JoinWorkers) \in Nat
  BY JoinersFit
<1>2. Calling(a) \cap Uncounted(a) = {} /\ p \notin B
  BY DEF Calling, Uncounted, Joining
<1>3. Cardinality({}) = 0
  BY FS_EmptySet
<1>4. IsFiniteSet(B) /\ Cardinality(B) = Cardinality(Calling(a)) + Cardinality(Uncounted(a))
  <2>1. /\ IsFiniteSet(B)
        /\ Cardinality(B) = Cardinality(Calling(a)) + Cardinality(Uncounted(a))
                              - Cardinality(Calling(a) \cap Uncounted(a))
    BY <1>1, FS_Union
  <2>2. Cardinality(Calling(a) \cap Uncounted(a)) = 0
    BY <1>2, <1>3
  <2> QED BY <1>1, <2>1, <2>2
<1>5. IsFiniteSet(B \cup {p}) /\ Cardinality(B \cup {p}) = Cardinality(B) + 1
  BY <1>2, <1>4, FS_AddElement
<1>6. B \cup {p} \subseteq JoinWorkers
  BY <1>1
<1>7. Cardinality(B \cup {p}) <= Cardinality(JoinWorkers)
  BY <1>6, AccountConstantsOK, FS_Subset
<1> QED BY <1>1, <1>4, <1>5, <1>7

\* Limits are positive, on every day after the onboarding.
LEMMA RampFits ==
    ASSUME NEW d \in Nat, NEW o \in 1..d
    PROVE  LET i == d + 1 - o
           IN  JoinLimits[IF i > Len(JoinLimits) THEN Len(JoinLimits) ELSE i] \in Nat \ {0}
<1> DEFINE i == d + 1 - o
           n == IF i > Len(JoinLimits) THEN Len(JoinLimits) ELSE i
<1>1. i \in Nat /\ 1 <= i /\ Len(JoinLimits) \in Nat \ {0}
  BY AccountConstantsOK
<1> HIDE DEF i
<1>2. n \in 1..Len(JoinLimits)
  BY <1>1
<1> HIDE DEF n
<1>3. JoinLimits[n] \in Nat \ {0}
  BY <1>2, AccountConstantsOK
<1> QED BY <1>3 DEF n, i

\* An account that is known has a positive limit.
LEMMA LimitsFit ==
    ASSUME RegistryShape, NEW a \in Members, registry[a].onboarded \in 1..day
    PROVE  Limit(a) \in Nat \ {0}
<1>1. day \in Nat
  BY AccountConstantsOK DEF RegistryShape
<1> QED BY <1>1, RampFits DEF Limit, Ramp

\* The counts that the invariant compares.
LEMMA CountsFit ==
    ASSUME RegistryShape, JobsFit, NEW a \in Members
    PROVE  /\ joined[a] \in Nat /\ Refreshed(registry[a]).joins \in Nat
           /\ Cardinality(Calling(a)) \in Nat /\ Cardinality(Uncounted(a)) \in Nat
           /\ Cardinality(JoinWorkers) \in Nat
<1>1. joined[a] \in Nat /\ registry[a] \in Account
  BY DEF RegistryShape
<1>2. Refreshed(registry[a]).joins \in Nat
  BY <1>1 DEF Refreshed, Account
<1> QED BY <1>1, <1>2, JoinersFit

\* A process that is done.
LEMMA RestFits ==
    ASSUME RegistryShape, JobsFit, NEW p \in Processes, at_work' = [at_work EXCEPT ![p] = AtRest],
           registry' \in [Members -> Account], torn' \in BOOLEAN, raced' \in BOOLEAN,
           onboarded' \subseteq Members, write_deaths' \in 0..MaxWriteDeaths,
           UNCHANGED <<day, calls, joined, started>>
    PROVE  RegistryShape' /\ JobsFit'
<1>1. Missing \in Account
  BY NewAccountFits DEF RegistryShape
<1>2. AtRest \in JobRecord /\ AtRest.stage = "rest"
  BY <1>1 DEF AtRest, JobRecord, Stages
<1>3. at_work' \in [Processes -> JobRecord]
  BY <1>2 DEF RegistryShape
<1>4. at_work'[p] = AtRest /\ \A q \in Processes : q # p => at_work'[q] = at_work[q]
  BY DEF RegistryShape
<1>5. RegistryShape'
  BY <1>3 DEF RegistryShape
<1>6. JobsFit'
  BY <1>2, <1>4 DEF JobsFit, InTheFile
<1> QED BY <1>5, <1>6

------------------------------------------------------------------------------
(* Managed accounts: the calls of live workers.                            *)

\* Nobody is in the file for a process that only calls.
LEMMA HandsStay ==
    ASSUME RegistryShape, NEW p \in Processes,
           \A q \in Processes : q # p => at_work'[q] = at_work[q],
           UNCHANGED <<registry, day>>
    PROVE  \A q \in Processes : q # p /\ InStep(q) => InStep(q)'
<1> SUFFICES ASSUME NEW q \in Processes, q # p, InStep(q) PROVE InStep(q)'
  OBVIOUS
<1>1. /\ at_work'[q] = at_work[q] /\ registry' = registry /\ day' = day
      /\ registry[at_work[q].account]' = registry[at_work[q].account]
  OBVIOUS
<1>2. Marked(registry[at_work[q].account], at_work[q].action)' =
        Marked(registry[at_work[q].account], at_work[q].action)
  BY <1>1 DEF Marked, Counted, Refreshed
<1>3. InTheFile(q)' = InTheFile(q)
  BY <1>1 DEF InTheFile
<1> QED BY <1>1, <1>2, <1>3 DEF InStep

\* The counts of a file that stays as it is.
LEMMA CountsStay ==
    ASSUME UNCHANGED <<registry, day>>, NEW a \in Members
    PROVE  /\ Refreshed(registry[a])' = Refreshed(registry[a])
           /\ Limit(a)' = Limit(a)
  BY DEF Refreshed, Limit, Ramp

\* Begin.
LEMMA BeginKeeps ==
    ASSUME RegistryInv, NEW p \in Processes, NEW a \in Members, NEW action \in {"join", "start"},
           Begin(p, a, action)
    PROVE  RegistryInv'
<1> DEFINE w == [at_work[p] EXCEPT !.stage = "call", !.action = action, !.account = a]
<1>1. /\ RegistryShape /\ JobsFit /\ p \in JoinWorkers /\ at_work[p].stage = "rest" /\ calls < MaxCalls
      /\ calls' = calls + 1 /\ at_work[p] \in JobRecord
      /\ UNCHANGED <<registry, torn, day, write_deaths, joined, started, onboarded, raced>>
  BY DEF RegistryInv, RegistryShape, Begin
<1>2. at_work' = [at_work EXCEPT ![p] = w]
  BY <1>1 DEF Begin, RegistryShape, JobRecord
<1>3. /\ w \in JobRecord /\ w.stage = "call" /\ w.action = action /\ w.account = a
  BY <1>1 DEF JobRecord, Stages, Outcomes
<1> HIDE DEF w
<1>4. at_work'[p] = w /\ \A q \in Processes : q # p => at_work'[q] = at_work[q]
  BY <1>1, <1>2 DEF RegistryShape
<1>5. RegistryShape'
  <2>1. calls' \in 0..MaxCalls
    BY <1>1, AccountConstantsOK DEF RegistryShape
  <2>2. at_work' \in [Processes -> JobRecord]
    BY <1>1, <1>2, <1>3 DEF RegistryShape
  <2> QED BY <1>1, <2>1, <2>2 DEF RegistryShape
<1>6. JobsFit'
  BY <1>1, <1>3, <1>4 DEF JobsFit, InTheFile, Outcomes
<1>7. ASSUME Undisturbed'
      PROVE  /\ OneInTheFile' /\ OnboardedStays' /\ \A q \in Processes : InStep(q)'
             /\ \A b \in Members : JoinsCounted(b)'
  <2>1. /\ Undisturbed /\ OneInTheFile /\ OnboardedStays /\ \A q \in Processes : InStep(q)
        /\ \A b \in Members : JoinsCounted(b)
    BY <1>1, <1>7 DEF Undisturbed, RegistryInv
  <2>2. OneInTheFile' /\ OnboardedStays'
    BY <1>1, <1>3, <1>4, <1>7, <2>1 DEF OneInTheFile, OnboardedStays, InTheFile
  <2>3. /\ registry[a].known /\ InFile[a] = registry[a]
        /\ action = "join" => Refreshed(registry[a]).joins < Limit(a)
    <3>1. InFile[a].known
      BY DEF Begin, MayJoin, MayStart
    <3>2. InFile[a] = registry[a]
      BY <3>1 DEF InFile, Missing
    <3> QED BY <3>1, <3>2 DEF Begin, MayJoin, Limit
  <2>4. \A q \in Processes : InStep(q)'
    <3>1. InStep(p)'
      BY <1>1, <1>3, <1>4, <2>3 DEF InStep, InTheFile
    <3> QED BY <1>1, <1>4, <2>1, <3>1, HandsStay
  <2>5. ASSUME NEW b \in Members PROVE JoinsCounted(b)'
    <3>1. /\ Cardinality(Uncounted(b))' = Cardinality(Uncounted(b))
          /\ b = a /\ action = "join" =>
               Cardinality(Calling(b))' = Cardinality(Calling(b)) + 1
          /\ ~(b = a /\ action = "join") =>
               Cardinality(Calling(b))' = Cardinality(Calling(b))
      <4>1. /\ ~InHandNow(p, b) /\ ~InHandNow(p, b)' /\ ~CallsNow(p, b)
            /\ CallsNow(p, b)' <=> b = a /\ action = "join"
        BY <1>1, <1>3, <1>4 DEF CallsNow, InHandNow, IsJoining
      <4> QED BY <1>1, <1>4, <4>1, BothMove, CountsFit
    <3>2. /\ joined[b] \in Nat /\ Refreshed(registry[b]).joins \in Nat
          /\ Cardinality(Calling(b)) \in Nat /\ Cardinality(Uncounted(b)) \in Nat
          /\ Cardinality(JoinWorkers) \in Nat
      BY <1>1, CountsFit
    <3>3. Refreshed(registry[b])' = Refreshed(registry[b]) /\ Limit(b)' = Limit(b)
      BY <1>1, CountsStay
    <3>4. JoinsCounted(b)
      BY <2>1
    <3>5. CASE ~registry[b].known
      BY <1>1, <3>4, <3>5 DEF JoinsCounted
    <3>6. CASE registry[b].known
      <4>1. Limit(b) \in Nat \ {0}
        BY <1>1, <3>4, <3>6, LimitsFit DEF JoinsCounted
      <4>2. joined[b] + Cardinality(Calling(b))' <= Limit(b) + Cardinality(JoinWorkers) - 1
        <5>1. CASE b = a /\ action = "join"
          <6>1. Cardinality(Calling(b)) + Cardinality(Uncounted(b)) + 1 <= Cardinality(JoinWorkers)
            BY <1>1, OneMoreJoins
          <6>2. /\ Refreshed(registry[b]).joins < Limit(b)
                /\ joined[b] <= Refreshed(registry[b]).joins + Cardinality(Uncounted(b))
            BY <2>3, <3>4, <3>6, <5>1 DEF JoinsCounted
          <6>3. Cardinality(Calling(b))' = Cardinality(Calling(b)) + 1
            BY <3>1, <5>1
          <6> QED BY <3>2, <4>1, <6>1, <6>2, <6>3
        <5>2. CASE ~(b = a /\ action = "join")
          BY <3>1, <3>4, <3>6, <5>2 DEF JoinsCounted
        <5> QED BY <5>1, <5>2
      <4> QED BY <1>1, <3>1, <3>3, <3>4, <3>6, <4>2 DEF JoinsCounted
    <3> QED BY <3>5, <3>6
  <2> QED BY <2>2, <2>4, <2>5
<1> QED BY <1>5, <1>6, <1>7 DEF RegistryInv

\* Called.
LEMMA CalledKeeps ==
    ASSUME RegistryInv, NEW p \in Processes, Called(p)
    PROVE  RegistryInv'
<1> DEFINE a == at_work[p].account
           act == at_work[p].action
           w == at_work'[p]
<1>1. /\ RegistryShape /\ JobsFit /\ at_work[p].stage = "call" /\ at_work[p] \in JobRecord
      /\ a \in Members /\ act \in {"join", "start"} /\ p \in JoinWorkers
      /\ UNCHANGED <<registry, torn, day, calls, write_deaths, onboarded, raced>>
  BY DEF RegistryInv, RegistryShape, JobsFit, Called, Outcomes
<1>2. /\ w = [at_work[p] EXCEPT !.stage = "load"] \/ w = [at_work[p] EXCEPT !.stage = "load", !.action = "refused"]
      /\ \A q \in Processes : q # p => at_work'[q] = at_work[q]
      /\ at_work' = [at_work EXCEPT ![p] = w]
  BY <1>1 DEF Called, RegistryShape, JobRecord
<1>3. /\ w \in JobRecord /\ w.stage = "load" /\ w.action \in {act, "refused"} /\ w.account = a
  BY <1>1, <1>2 DEF JobRecord, Stages, Outcomes
<1>4. /\ joined' \in [Members -> Nat] /\ started' \in [Members -> Nat]
      /\ \A b \in Members : b # a \/ w.action # "join" => joined'[b] = joined[b]
      /\ w.action = "join" => joined'[a] = joined[a] \/ joined'[a] = joined[a] + 1
  <2>1. joined \in [Members -> Nat] /\ started \in [Members -> Nat]
    BY <1>1 DEF RegistryShape
  <2>2. CASE /\ joined' = [joined EXCEPT ![a] = @ + (IF act = "join" THEN 1 ELSE 0)]
             /\ started' = [started EXCEPT ![a] = @ + (IF act = "start" THEN 1 ELSE 0)]
             /\ at_work' = [at_work EXCEPT ![p].stage = "load"]
    <3>1. w.action = act
      BY <1>1, <2>2 DEF RegistryShape, JobRecord
    <3> HIDE DEF w, a, act
    <3> QED BY <1>1, <2>1, <2>2, <3>1
  <2>3. CASE UNCHANGED <<joined, started>>
    BY <2>1, <2>3
  <2> QED BY <2>2, <2>3 DEF Called
<1> HIDE DEF w
<1>5. RegistryShape'
  <2>1. at_work' \in [Processes -> JobRecord]
    BY <1>1, <1>2, <1>3 DEF RegistryShape
  <2> QED BY <1>1, <1>4, <2>1 DEF RegistryShape
<1>6. JobsFit'
  <2>1. w.action \in Outcomes
    BY <1>1, <1>3 DEF Outcomes
  <2> QED BY <1>1, <1>2, <1>3, <2>1 DEF JobsFit, InTheFile, w
<1>7. ASSUME Undisturbed'
      PROVE  /\ OneInTheFile' /\ OnboardedStays' /\ \A q \in Processes : InStep(q)'
             /\ \A b \in Members : JoinsCounted(b)'
  <2>1. /\ Undisturbed /\ OneInTheFile /\ OnboardedStays /\ \A q \in Processes : InStep(q)
        /\ \A b \in Members : JoinsCounted(b)
    BY <1>1, <1>7 DEF Undisturbed, RegistryInv
  <2>2. OneInTheFile' /\ OnboardedStays'
    BY <1>1, <1>2, <1>3, <1>7, <2>1 DEF OneInTheFile, OnboardedStays, InTheFile, w
  <2>3. registry[a].known
    BY <1>1, <2>1 DEF InStep
  <2>4. \A q \in Processes : InStep(q)'
    <3>1. InStep(p)'
      BY <1>1, <1>3, <2>3 DEF InStep, InTheFile, w
    <3> QED BY <1>1, <1>2, <2>1, <3>1, HandsStay
  <2>5. ASSUME NEW b \in Members PROVE JoinsCounted(b)'
    <3>1. /\ ~InHandNow(p, b)
          /\ InHandNow(p, b)' <=> b = a /\ w.action = "join"
          /\ CallsNow(p, b) <=> b = a /\ act = "join"
          /\ ~CallsNow(p, b)'
      BY <1>1, <1>3 DEF CallsNow, InHandNow, IsJoining, w
    <3>2. /\ joined[b] \in Nat /\ Refreshed(registry[b]).joins \in Nat
          /\ Cardinality(Calling(b)) \in Nat /\ Cardinality(Uncounted(b)) \in Nat
          /\ Cardinality(JoinWorkers) \in Nat
      BY <1>1, CountsFit
    <3>3. Refreshed(registry[b])' = Refreshed(registry[b]) /\ Limit(b)' = Limit(b)
      BY <1>1, CountsStay
    <3>4. JoinsCounted(b)
      BY <2>1
    <3>5. /\ Cardinality(Calling(b))' = IF b = a /\ act = "join" THEN Cardinality(Calling(b)) - 1
                                        ELSE Cardinality(Calling(b))
          /\ Cardinality(Uncounted(b))' = IF b = a /\ w.action = "join" THEN Cardinality(Uncounted(b)) + 1
                                          ELSE Cardinality(Uncounted(b))
      <4>1. /\ CallsNow(p, b) => Cardinality(Calling(b))' = Cardinality(Calling(b)) - 1
            /\ ~CallsNow(p, b) => Cardinality(Calling(b))' = Cardinality(Calling(b))
            /\ InHandNow(p, b)' => Cardinality(Uncounted(b))' = Cardinality(Uncounted(b)) + 1
            /\ ~InHandNow(p, b)' => Cardinality(Uncounted(b))' = Cardinality(Uncounted(b))
        BY <1>1, <1>2, <3>1, BothMove
      <4> HIDE DEF a, act
      <4> QED BY <3>1, <4>1
    <3>6. joined'[b] = joined[b] \/ (b = a /\ w.action = "join" /\ act = "join" /\ joined'[b] = joined[b] + 1)
      BY <1>1, <1>3, <1>4
    <3>7. joined'[b] \in Nat /\ (w.action = "join" => act = "join")
      BY <1>1, <1>3, <1>4
    <3>8. CASE ~registry[b].known
      <4>1. b # a
        BY <2>3, <3>8
      <4> QED BY <1>1, <1>4, <3>4, <3>8, <4>1 DEF JoinsCounted
    <3>9. CASE registry[b].known
      <4>1. Limit(b) \in Nat \ {0}
        BY <1>1, <3>4, <3>9, LimitsFit DEF JoinsCounted
      <4>2. /\ joined'[b] <= Refreshed(registry[b]).joins + Cardinality(Uncounted(b))'
            /\ joined'[b] + Cardinality(Calling(b))' <= Limit(b) + Cardinality(JoinWorkers) - 1
        <5>1. /\ joined[b] <= Refreshed(registry[b]).joins + Cardinality(Uncounted(b))
              /\ joined[b] + Cardinality(Calling(b)) <= Limit(b) + Cardinality(JoinWorkers) - 1
          BY <3>4, <3>9 DEF JoinsCounted
        <5> QED BY <3>2, <3>5, <3>6, <3>7, <4>1, <5>1
      <4> QED BY <1>1, <3>3, <3>4, <3>9, <4>2 DEF JoinsCounted
    <3> QED BY <3>8, <3>9
  <2> QED BY <2>2, <2>4, <2>5
<1> QED BY <1>5, <1>6, <1>7 DEF RegistryInv

------------------------------------------------------------------------------
(* Managed accounts: AccountRegistry.save_account.                         *)

\* A process takes its next step in the file; the file stays as it is.
GoesOnInFile(p, w) ==
    /\ at_work[p].stage \in {"load", "list", "empty"}
    /\ at_work' = [at_work EXCEPT ![p] = w]
    /\ w \in JobRecord /\ w.stage \in {"list", "empty", "write"}
    /\ w.account = at_work[p].account /\ w.action = at_work[p].action
    /\ UNCHANGED <<registry, day, calls, write_deaths, joined, started, onboarded>>

\* A step in the file keeps what holds of the file and of those at work.
LEMMA FileStepKeeps ==
    ASSUME RegistryInv, NEW p \in Processes, NEW w, GoesOnInFile(p, w),
           torn' \in BOOLEAN, raced' \in BOOLEAN
    PROVE  /\ RegistryShape' /\ JobsFit'
           /\ Undisturbed => /\ OnboardedStays' /\ \A q \in Processes : q # p => InStep(q)'
                             /\ \A b \in Members : JoinsCounted(b)'
<1>1. /\ RegistryShape /\ JobsFit
      /\ at_work'[p] = w /\ \A q \in Processes : q # p => at_work'[q] = at_work[q]
      /\ UNCHANGED <<registry, day, calls, write_deaths, joined, started, onboarded>>
  BY DEF RegistryInv, RegistryShape, GoesOnInFile
<1>2. RegistryShape'
  <2>1. at_work' \in [Processes -> JobRecord]
    BY <1>1 DEF RegistryShape, GoesOnInFile
  <2> QED BY <1>1, <2>1 DEF RegistryShape
<1>3. JobsFit'
  <2>1. at_work[p].action \in Outcomes \cup {"onboard"}
    BY <1>1 DEF JobsFit, GoesOnInFile, InTheFile
  <2> QED BY <1>1, <2>1 DEF JobsFit, InTheFile, GoesOnInFile
<1>4. ASSUME Undisturbed PROVE OnboardedStays' /\ \A q \in Processes : q # p => InStep(q)'
  <2>1. OnboardedStays /\ \A q \in Processes : InStep(q)
    BY <1>4 DEF RegistryInv
  <2>2. OnboardedStays'
    BY <1>1, <1>4, <2>1 DEF OnboardedStays
  <2> QED BY <1>1, <2>1, <2>2, HandsStay
<1>5. ASSUME Undisturbed, NEW b \in Members PROVE JoinsCounted(b)'
  <2>1. JoinsCounted(b)
    BY <1>5 DEF RegistryInv
  <2>2. /\ ~CallsNow(p, b) /\ ~CallsNow(p, b)'
        /\ at_work[p].stage # "load" => (InHandNow(p, b)' <=> InHandNow(p, b))
        /\ at_work[p].stage = "load" => (InHandNow(p, b)' <=> InHandNow(p, b))
    BY <1>1 DEF CallsNow, InHandNow, IsJoining, GoesOnInFile
  <2>3. /\ Cardinality(Calling(b)) \in Nat /\ Cardinality(Uncounted(b)) \in Nat
    BY <1>1, CountsFit
  <2>4. /\ Cardinality(Calling(b))' = Cardinality(Calling(b))
        /\ Cardinality(Uncounted(b))' = Cardinality(Uncounted(b))
    BY <1>1, <2>2, <2>3, BothMove
  <2>5. Refreshed(registry[b])' = Refreshed(registry[b]) /\ Limit(b)' = Limit(b)
    BY <1>1, CountsStay
  <2> QED BY <1>1, <2>1, <2>4, <2>5 DEF JoinsCounted
<1> QED BY <1>2, <1>3, <1>4, <1>5

\* Load.
LEMMA LoadKeeps ==
    ASSUME RegistryInv, NEW p \in Processes, Load(p)
    PROVE  RegistryInv'
<1> DEFINE r == InFile[at_work[p].account]
           w == [at_work[p] EXCEPT !.stage = "list", !.record = Marked(r, at_work[p].action)]
<1>1. /\ RegistryShape /\ JobsFit /\ at_work[p].stage = "load" /\ at_work[p] \in JobRecord
      /\ at_work[p].account \in Members /\ at_work[p].action \in Outcomes
      /\ raced' = RacedBy(p) /\ raced' \in BOOLEAN /\ torn' \in BOOLEAN
      /\ UNCHANGED <<registry, torn, day, calls, write_deaths, joined, started, onboarded>>
  BY DEF RegistryInv, RegistryShape, JobsFit, Load, RacedBy
<1>2. CASE r.known
  <2>1. at_work' = [at_work EXCEPT ![p] = w]
    BY <1>1, <1>2 DEF Load, RegistryShape
  <2>2. r \in Account
    BY <1>1, NewAccountFits DEF InFile, RegistryShape
  <2> HIDE DEF r
  <2>3. Marked(r, at_work[p].action) \in Account
    BY <1>1, <2>2, MarkedFits DEF RegistryShape
  <2>4. /\ w \in JobRecord /\ w.stage = "list" /\ w.account = at_work[p].account
        /\ w.action = at_work[p].action /\ w.record = Marked(r, at_work[p].action)
    BY <1>1, <2>3 DEF JobRecord, Stages
  <2> HIDE DEF w
  <2>5. GoesOnInFile(p, w)
    BY <1>1, <2>1, <2>4 DEF GoesOnInFile
  <2>6. /\ RegistryShape' /\ JobsFit'
        /\ Undisturbed => /\ OnboardedStays' /\ \A q \in Processes : q # p => InStep(q)'
                          /\ \A b \in Members : JoinsCounted(b)'
    BY <1>1, <2>5, FileStepKeeps
  <2>7. ASSUME Undisturbed'
        PROVE  Undisturbed /\ OneInTheFile' /\ InStep(p)'
    <3>1. /\ Undisturbed /\ ~torn /\ \A q \in Processes : q # p => ~InTheFile(q)
      BY <1>1, <2>7 DEF Undisturbed, RacedBy, Others
    <3>2. InStep(p)
      BY <3>1 DEF RegistryInv
    <3>3. r = registry[at_work[p].account] /\ r.known
      BY <1>1, <3>1, <3>2 DEF InStep, InFile, r
    <3>4. at_work'[p] = w /\ \A q \in Processes : q # p => at_work'[q] = at_work[q]
      BY <1>1, <2>1 DEF RegistryShape
    <3>5. OneInTheFile'
      BY <1>1, <3>1, <3>4 DEF OneInTheFile, InTheFile
    <3>6. InStep(p)'
      <4>1. /\ w.action # "onboard" /\ w.record = Marked(registry[w.account], w.action)
            /\ registry[w.account].known
        BY <1>1, <2>4, <3>3 DEF Outcomes
      <4>2. Marked(registry[at_work[p].account], at_work[p].action)' = Marked(registry[w.account], w.action)
        BY <1>1, <3>4 DEF Marked, Counted, Refreshed
      <4> QED BY <1>1, <2>4, <3>4, <4>1, <4>2 DEF InStep
    <3> QED BY <3>1, <3>5, <3>6
  <2> QED BY <2>6, <2>7 DEF RegistryInv
<1>3. CASE ~r.known
  <2>1. at_work' = [at_work EXCEPT ![p] = AtRest]
    BY <1>1, <1>3 DEF Load, RegistryShape
  <2>2. RegistryShape' /\ JobsFit'
    <3>1. /\ registry' \in [Members -> Account] /\ onboarded' \subseteq Members
          /\ write_deaths' \in 0..MaxWriteDeaths
      BY <1>1 DEF RegistryShape
    <3> QED BY <1>1, <2>1, <3>1, RestFits
  <2>3. ~Undisturbed'
    <3> SUFFICES ASSUME Undisturbed' PROVE FALSE
      OBVIOUS
    <3>1. Undisturbed /\ ~torn
      BY <1>1 DEF Undisturbed, RacedBy
    <3>2. InStep(p)
      BY <3>1 DEF RegistryInv
    <3> QED BY <1>1, <1>3, <3>1, <3>2 DEF InStep, InFile
  <2> QED BY <2>2, <2>3 DEF RegistryInv
<1> QED BY <1>2, <1>3

\* ListAccounts.
LEMMA ListAccountsKeeps ==
    ASSUME RegistryInv, NEW p \in Processes, ListAccounts(p)
    PROVE  RegistryInv'
<1> DEFINE w == [at_work[p] EXCEPT !.stage = "empty", !.copy = InFile]
<1>1. /\ RegistryShape /\ JobsFit /\ at_work[p].stage = "list" /\ at_work[p] \in JobRecord
      /\ raced' = RacedBy(p) /\ raced' \in BOOLEAN /\ torn' \in BOOLEAN
      /\ UNCHANGED <<registry, torn, day, calls, write_deaths, joined, started, onboarded>>
  BY DEF RegistryInv, RegistryShape, ListAccounts, RacedBy
<1>2. at_work' = [at_work EXCEPT ![p] = w]
  BY <1>1 DEF ListAccounts, RegistryShape, JobRecord
<1>3. InFile \in [Members -> Account]
  BY <1>1, NewAccountFits DEF InFile, RegistryShape
<1>4. /\ w \in JobRecord /\ w.stage = "empty" /\ w.account = at_work[p].account
      /\ w.action = at_work[p].action /\ w.record = at_work[p].record /\ w.copy = InFile
  BY <1>1, <1>3 DEF JobRecord, Stages
<1> HIDE DEF w
<1>5. GoesOnInFile(p, w)
  BY <1>1, <1>2, <1>4 DEF GoesOnInFile
<1>6. /\ RegistryShape' /\ JobsFit'
      /\ Undisturbed => /\ OnboardedStays' /\ \A q \in Processes : q # p => InStep(q)'
                        /\ \A b \in Members : JoinsCounted(b)'
  BY <1>1, <1>5, FileStepKeeps
<1>7. ASSUME Undisturbed'
      PROVE  Undisturbed /\ OneInTheFile' /\ InStep(p)'
  <2>1. Undisturbed /\ ~torn /\ \A q \in Processes : q # p => ~InTheFile(q)
    BY <1>1, <1>7 DEF Undisturbed, RacedBy, Others
  <2>2. InStep(p)
    BY <2>1 DEF RegistryInv
  <2>3. at_work'[p] = w /\ \A q \in Processes : q # p => at_work'[q] = at_work[q]
    BY <1>1, <1>2 DEF RegistryShape
  <2>4. OneInTheFile'
    BY <1>1, <2>1, <2>3 DEF OneInTheFile, InTheFile
  <2>5. InFile = registry
    BY <2>1 DEF InFile
  <2>6. InStep(p)'
    <3>1. registry' = registry /\ day' = day /\ at_work'[p].copy = registry
          /\ at_work'[p].stage = "empty" /\ at_work'[p].account = at_work[p].account
          /\ at_work'[p].action = at_work[p].action /\ at_work'[p].record = at_work[p].record
      BY <1>1, <1>4, <2>3, <2>5
    <3> DEFINE a == at_work[p].account
               marked == Marked(registry[a], at_work[p].action)
    <3>2. registry'[a] = registry[a] /\ marked' = marked
      BY <3>1 DEF Marked, Counted, Refreshed
    <3> QED BY <1>1, <2>2, <3>1, <3>2 DEF InStep, InTheFile
  <2> QED BY <2>1, <2>4, <2>6
<1> QED BY <1>6, <1>7 DEF RegistryInv

\* EmptyFile.
LEMMA EmptyFileKeeps ==
    ASSUME RegistryInv, NEW p \in Processes, EmptyFile(p)
    PROVE  RegistryInv'
<1> DEFINE w == [at_work[p] EXCEPT !.stage = "write"]
<1>1. /\ RegistryShape /\ JobsFit /\ at_work[p].stage = "empty" /\ at_work[p] \in JobRecord
      /\ raced' \in BOOLEAN /\ torn' \in BOOLEAN
      /\ UNCHANGED <<registry, day, calls, write_deaths, joined, started, onboarded, raced>>
  BY DEF RegistryInv, RegistryShape, EmptyFile
<1>2. at_work' = [at_work EXCEPT ![p] = w]
  BY <1>1 DEF EmptyFile, RegistryShape
<1>3. /\ w \in JobRecord /\ w.stage = "write" /\ w.account = at_work[p].account
      /\ w.action = at_work[p].action /\ w.record = at_work[p].record /\ w.copy = at_work[p].copy
  BY <1>1 DEF JobRecord, Stages
<1> HIDE DEF w
<1>4. GoesOnInFile(p, w)
  BY <1>1, <1>2, <1>3 DEF GoesOnInFile
<1>5. /\ RegistryShape' /\ JobsFit'
      /\ Undisturbed => /\ OnboardedStays' /\ \A q \in Processes : q # p => InStep(q)'
                        /\ \A b \in Members : JoinsCounted(b)'
  BY <1>1, <1>4, FileStepKeeps
<1>6. ASSUME Undisturbed'
      PROVE  Undisturbed /\ OneInTheFile' /\ InStep(p)'
  <2>1. Undisturbed
    BY <1>1, <1>6 DEF Undisturbed
  <2>2. InStep(p) /\ OneInTheFile
    BY <2>1 DEF RegistryInv
  <2>3. at_work'[p] = w /\ \A q \in Processes : q # p => at_work'[q] = at_work[q]
    BY <1>1, <1>2 DEF RegistryShape
  <2>4. OneInTheFile'
    BY <1>1, <1>3, <2>2, <2>3 DEF OneInTheFile, InTheFile
  <2>5. InStep(p)'
    <3>1. registry' = registry /\ day' = day /\ at_work'[p].copy = at_work[p].copy
          /\ at_work'[p].stage = "write" /\ at_work'[p].account = at_work[p].account
          /\ at_work'[p].action = at_work[p].action /\ at_work'[p].record = at_work[p].record
      BY <1>1, <1>3, <2>3
    <3> DEFINE a == at_work[p].account
               marked == Marked(registry[a], at_work[p].action)
    <3>2. registry'[a] = registry[a] /\ marked' = marked
      BY <3>1 DEF Marked, Counted, Refreshed
    <3> QED BY <1>1, <2>2, <3>1, <3>2 DEF InStep, InTheFile
  <2> QED BY <2>1, <2>4, <2>5
<1> QED BY <1>5, <1>6 DEF RegistryInv

\* WriteFile.
LEMMA WriteFileKeeps ==
    ASSUME RegistryInv, NEW p \in Processes, WriteFile(p)
    PROVE  RegistryInv'
<1> DEFINE a == at_work[p].account
           r == at_work[p].record
           act == at_work[p].action
<1>1. /\ RegistryShape /\ JobsFit /\ at_work[p].stage = "write" /\ at_work[p] \in JobRecord
      /\ a \in Members /\ r \in Account /\ at_work[p].copy \in [Members -> Account]
      /\ act \in Outcomes \cup {"onboard"} /\ InTheFile(p)
      /\ torn' = FALSE /\ registry' = [at_work[p].copy EXCEPT ![a] = r]
      /\ at_work' = [at_work EXCEPT ![p] = AtRest]
      /\ onboarded' = IF act = "onboard" THEN onboarded \cup {a} ELSE onboarded
      /\ UNCHANGED <<day, calls, write_deaths, joined, started, raced>>
  BY DEF RegistryInv, RegistryShape, JobsFit, InTheFile, WriteFile, Saved, JobRecord
<1>2. RegistryShape' /\ JobsFit'
  <2>1. /\ registry' \in [Members -> Account] /\ torn' \in BOOLEAN /\ raced' \in BOOLEAN
        /\ onboarded' \subseteq Members /\ write_deaths' \in 0..MaxWriteDeaths
    BY <1>1 DEF RegistryShape
  <2> QED BY <1>1, <2>1, RestFits
<1>3. /\ at_work'[p] = AtRest /\ AtRest.stage = "rest"
      /\ \A q \in Processes : q # p => at_work'[q] = at_work[q]
  BY <1>1 DEF RegistryShape, AtRest
<1> HIDE DEF a, r, act
<1>4. ASSUME Undisturbed'
      PROVE  /\ OneInTheFile' /\ OnboardedStays' /\ \A q \in Processes : InStep(q)'
             /\ \A b \in Members : JoinsCounted(b)'
  <2>1. /\ Undisturbed /\ OneInTheFile /\ OnboardedStays /\ \A q \in Processes : InStep(q)
        /\ \A b \in Members : JoinsCounted(b)
    BY <1>1, <1>4 DEF Undisturbed, RegistryInv
  <2>2. /\ registry' = [registry EXCEPT ![a] = r] /\ r.known
        /\ act = "onboard" => ~registry[a].known /\ r = [Missing EXCEPT !.known = TRUE, !.onboarded = day]
        /\ act # "onboard" => registry[a].known /\ r = Marked(registry[a], act)
    <3>1. InStep(p)
      BY <2>1
    <3>2. /\ act = "onboard" => ~registry[a].known /\ r = [Missing EXCEPT !.known = TRUE, !.onboarded = day]
          /\ act # "onboard" => registry[a].known /\ r = Marked(registry[a], act)
          /\ at_work[p].copy = registry
      BY <1>1, <3>1 DEF InStep, a, r, act
    <3>3. act # "onboard" => r.known
      BY <1>1, <3>2, MarkedFits DEF RegistryShape
    <3>4. act = "onboard" => r.known
      BY <1>1, <3>2, NewAccountFits DEF RegistryShape
    <3> QED BY <1>1, <3>2, <3>3, <3>4
  <2>3. /\ registry'[a] = r /\ \A b \in Members : b # a => registry'[b] = registry[b]
    BY <1>1, <2>2 DEF RegistryShape
  <2>4. OneInTheFile'
    BY <1>1, <1>3, <2>1 DEF OneInTheFile, InTheFile
  <2>5. OnboardedStays'
    <3>1. \A b \in onboarded : registry[b].known
      BY <2>1 DEF OnboardedStays
    <3>2. \A b \in onboarded' : registry'[b].known
      BY <1>1, <2>2, <2>3, <3>1 DEF RegistryShape
    <3> QED BY <3>2 DEF OnboardedStays
  <2>6. ASSUME NEW q \in Processes PROVE InStep(q)'
    <3>1. CASE q = p
      BY <1>3, <3>1 DEF InStep, InTheFile
    <3>2. CASE q # p
      <4>1. at_work'[q] = at_work[q] /\ InStep(q) /\ ~InTheFile(q)
        BY <1>1, <1>3, <2>1, <3>2 DEF OneInTheFile
      <4>2. at_work[q].stage \in {"call", "load"} => registry'[at_work[q].account].known
        <5>1. at_work[q].stage \in {"call", "load"} =>
                at_work[q].account \in Members /\ registry[at_work[q].account].known
          BY <1>1, <4>1 DEF InStep, JobsFit
        <5> QED BY <2>2, <2>3, <5>1
      <4> QED BY <4>1, <4>2 DEF InStep, InTheFile
    <3> QED BY <3>1, <3>2
  <2>7. ASSUME NEW b \in Members PROVE JoinsCounted(b)'
    <3>1. JoinsCounted(b)
      BY <2>1
    <3>2. /\ joined[b] \in Nat /\ Refreshed(registry[b]).joins \in Nat
          /\ Cardinality(Calling(b)) \in Nat /\ Cardinality(Uncounted(b)) \in Nat
          /\ Cardinality(JoinWorkers) \in Nat
      BY <1>1, CountsFit
    <3>3. /\ ~CallsNow(p, b) /\ ~CallsNow(p, b)' /\ ~InHandNow(p, b)'
          /\ InHandNow(p, b) <=> b = a /\ act = "join"
      BY <1>1, <1>3 DEF CallsNow, InHandNow, IsJoining, a, act
    <3>4. /\ Cardinality(Calling(b))' = Cardinality(Calling(b))
          /\ b = a /\ act = "join" => Cardinality(Uncounted(b))' = Cardinality(Uncounted(b)) - 1
          /\ ~(b = a /\ act = "join") => Cardinality(Uncounted(b))' = Cardinality(Uncounted(b))
      BY <1>1, <1>3, <3>3, BothMove
    <3>5. CASE b # a
      <4>1. registry'[b] = registry[b] /\ day' = day
        BY <1>1, <2>3, <3>5
      <4>2. Refreshed(registry[b])' = Refreshed(registry[b]) /\ Limit(b)' = Limit(b)
        BY <4>1 DEF Refreshed, Limit, Ramp
      <4> QED BY <1>1, <3>1, <3>4, <3>5, <4>1, <4>2 DEF JoinsCounted
    <3>6. CASE b = a /\ act # "onboard"
      <4>1. /\ registry[b].known /\ registry'[b] = Marked(registry[b], act) /\ day' = day
            /\ registry[b] \in Account /\ act \in Outcomes
        BY <1>1, <2>2, <2>3, <3>6 DEF RegistryShape
      <4>2. /\ registry'[b].known /\ registry'[b].onboarded = registry[b].onboarded
            /\ Refreshed(Marked(registry[b], act)).joins =
                 Refreshed(registry[b]).joins + (IF act = "join" THEN 1 ELSE 0)
        BY <1>1, <4>1, MarkedFits DEF RegistryShape
      <4>3. Refreshed(registry[b])' = Refreshed(Marked(registry[b], act)) /\ Limit(b)' = Limit(b)
        BY <4>1, <4>2 DEF Refreshed, Limit, Ramp
      <4>4. /\ registry[b].onboarded \in 1..day
            /\ joined[b] <= Refreshed(registry[b]).joins + Cardinality(Uncounted(b))
            /\ joined[b] + Cardinality(Calling(b)) <= Limit(b) + Cardinality(JoinWorkers) - 1
        BY <3>1, <4>1 DEF JoinsCounted
      <4>5. joined[b] <= Refreshed(registry[b])'.joins + Cardinality(Uncounted(b))'
        <5>1. CASE act = "join"
          BY <3>2, <3>4, <3>6, <4>2, <4>3, <4>4, <5>1
        <5>2. CASE act # "join"
          BY <3>2, <3>4, <3>6, <4>2, <4>3, <4>4, <5>2
        <5> QED BY <5>1, <5>2
      <4> QED BY <1>1, <3>4, <4>1, <4>2, <4>3, <4>4, <4>5 DEF JoinsCounted
    <3>7. CASE b = a /\ act = "onboard"
      <4>1. /\ ~registry[b].known /\ registry'[b] = [Missing EXCEPT !.known = TRUE, !.onboarded = day]
        BY <2>2, <2>3, <3>7
      <4>2. joined[b] = 0 /\ registry'[b].known /\ registry'[b].onboarded = day
        BY <1>1, <3>1, <4>1, NewAccountFits DEF JoinsCounted, RegistryShape
      <4>3. Cardinality(Calling(b)) = 0
        <5>1. Calling(b) = {}
          BY <2>1, <4>1 DEF Calling, Joining, InStep
        <5> QED BY <5>1, FS_EmptySet
      <4>4. /\ joined'[b] \in Nat /\ Refreshed(registry[b])'.joins \in Nat
            /\ Cardinality(Uncounted(b))' \in Nat
        <5>1. registry'[b] \in Account
          BY <1>2 DEF RegistryShape
        <5>2. Refreshed(registry[b])'.joins \in Nat
          BY <5>1 DEF Refreshed, Account
        <5> QED BY <1>1, <3>2, <3>4, <3>7, <5>2
      <4>5. registry'[b].onboarded \in 1..day' /\ day' = day
        BY <1>1, <4>2, AccountConstantsOK DEF RegistryShape
      <4>6. Limit(b)' \in Nat \ {0}
        <5>1. day' \in Nat
          BY <1>1, AccountConstantsOK DEF RegistryShape
        <5> QED BY <4>5, <5>1, RampFits DEF Limit, Ramp
      <4>7. /\ joined'[b] <= Refreshed(registry[b])'.joins + Cardinality(Uncounted(b))'
            /\ joined'[b] + Cardinality(Calling(b))' <= Limit(b)' + Cardinality(JoinWorkers) - 1
        <5>1. joined'[b] = 0 /\ Cardinality(Calling(b))' = 0
          BY <1>1, <3>4, <4>2, <4>3
        <5> QED BY <3>2, <4>4, <4>6, <5>1
      <4> QED BY <4>2, <4>5, <4>7 DEF JoinsCounted
    <3> QED BY <3>5, <3>6, <3>7
  <2> QED BY <2>4, <2>5, <2>6, <2>7
<1> QED BY <1>2, <1>4 DEF RegistryInv

\* ProcessDies.
LEMMA ProcessDiesKeeps ==
    ASSUME RegistryInv, NEW p \in Processes, ProcessDies(p)
    PROVE  RegistryInv'
<1>1. /\ RegistryShape /\ JobsFit /\ write_deaths < MaxWriteDeaths
      /\ write_deaths' = write_deaths + 1 /\ at_work' = [at_work EXCEPT ![p] = AtRest]
      /\ UNCHANGED <<registry, torn, day, calls, joined, started, onboarded, raced>>
  BY DEF RegistryInv, ProcessDies
<1>2. write_deaths' \in 0..MaxWriteDeaths /\ write_deaths' # 0
  BY <1>1, AccountConstantsOK DEF RegistryShape
<1>3. /\ registry' \in [Members -> Account] /\ torn' \in BOOLEAN /\ raced' \in BOOLEAN
      /\ onboarded' \subseteq Members
  BY <1>1 DEF RegistryShape
<1>4. RegistryShape' /\ JobsFit'
  BY <1>1, <1>2, <1>3, RestFits
<1> QED BY <1>2, <1>4 DEF RegistryInv, Undisturbed

------------------------------------------------------------------------------
(* Managed accounts: the wizard and the days.                              *)

\* OnboardAccount.
LEMMA OnboardAccountKeeps ==
    ASSUME RegistryInv, NEW a \in Members, OnboardAccount(a)
    PROVE  RegistryInv'
<1> DEFINE r == [Missing EXCEPT !.known = TRUE, !.onboarded = day]
           w == [AtRest EXCEPT !.stage = "list", !.action = "onboard", !.account = a, !.record = r]
<1>1. /\ RegistryShape /\ JobsFit /\ at_work[Bot].stage = "rest" /\ ~InFile[a].known
      /\ calls' = (IF a \in onboarded THEN calls + 1 ELSE calls)
      /\ a \notin onboarded \/ calls < MaxCalls
      /\ raced' = RacedBy(Bot) /\ Bot \in Processes
      /\ at_work' = [at_work EXCEPT ![Bot] = w]
      /\ UNCHANGED <<registry, torn, day, write_deaths, joined, started, onboarded>>
  BY DEF RegistryInv, OnboardAccount, Processes
<1>2. r \in Account /\ Missing \in Account /\ r.known /\ r.onboarded = day
  BY <1>1, NewAccountFits DEF RegistryShape
<1> HIDE DEF r
<1>3. /\ w \in JobRecord /\ w.stage = "list" /\ w.action = "onboard" /\ w.account = a /\ w.record = r
  BY <1>2 DEF AtRest, JobRecord, Stages
<1> HIDE DEF w
<1>4. at_work'[Bot] = w /\ \A q \in Processes : q # Bot => at_work'[q] = at_work[q]
  BY <1>1 DEF RegistryShape
<1>5. RegistryShape'
  <2>1. calls' \in 0..MaxCalls
    BY <1>1, AccountConstantsOK DEF RegistryShape
  <2>2. at_work' \in [Processes -> JobRecord]
    BY <1>1, <1>3 DEF RegistryShape
  <2> QED BY <1>1, <2>1, <2>2 DEF RegistryShape, RacedBy
<1>6. JobsFit'
  BY <1>1, <1>3, <1>4 DEF JobsFit, InTheFile, Outcomes
<1>7. ASSUME Undisturbed'
      PROVE  /\ OneInTheFile' /\ OnboardedStays' /\ \A q \in Processes : InStep(q)'
             /\ \A b \in Members : JoinsCounted(b)'
  <2>1. /\ Undisturbed /\ ~torn /\ \A q \in Processes : q # Bot => ~InTheFile(q)
    BY <1>1, <1>7 DEF Undisturbed, RacedBy, Others
  <2>2. /\ OneInTheFile /\ OnboardedStays /\ \A q \in Processes : InStep(q)
        /\ \A b \in Members : JoinsCounted(b)
    BY <2>1 DEF RegistryInv
  <2>3. OneInTheFile'
    BY <1>1, <2>1, <1>4 DEF OneInTheFile, InTheFile
  <2>4. OnboardedStays'
    BY <1>1, <2>1, <2>2 DEF OnboardedStays
  <2>5. \A q \in Processes : InStep(q)'
    <3>1. ~registry[a].known
      BY <1>1, <2>1 DEF InFile
    <3>2. InStep(Bot)'
      BY <1>1, <1>3, <1>4, <3>1 DEF InStep, InTheFile, r
    <3> QED BY <1>1, <1>4, <2>2, <3>2, HandsStay
  <2>6. ASSUME NEW b \in Members PROVE JoinsCounted(b)'
    <3>1. /\ ~CallsNow(Bot, b) /\ ~CallsNow(Bot, b)' /\ ~InHandNow(Bot, b) /\ ~InHandNow(Bot, b)'
      BY <1>1, <1>3, <1>4 DEF CallsNow, InHandNow, IsJoining
    <3>2. /\ Cardinality(Calling(b))' = Cardinality(Calling(b))
          /\ Cardinality(Uncounted(b))' = Cardinality(Uncounted(b))
      BY <1>1, <1>4, <3>1, BothMove
    <3>3. Refreshed(registry[b])' = Refreshed(registry[b]) /\ Limit(b)' = Limit(b)
      BY <1>1, CountsStay
    <3> QED BY <1>1, <2>2, <3>2, <3>3 DEF JoinsCounted
  <2> QED BY <2>3, <2>4, <2>5, <2>6
<1> QED BY <1>5, <1>6, <1>7 DEF RegistryInv

\* DayPasses.
LEMMA DayPassesKeeps ==
    ASSUME RegistryInv, DayPasses
    PROVE  RegistryInv'
<1>1. /\ RegistryShape /\ JobsFit /\ day < MaxDays /\ day' = day + 1
      /\ \A p \in Processes : at_work[p].stage = "rest"
      /\ joined' = [a \in Members |-> 0] /\ started' = [a \in Members |-> 0]
      /\ registry' = [a \in Members |-> [registry[a] EXCEPT !.healthy = TRUE, !.ledger.count = 0]]
      /\ UNCHANGED <<torn, at_work, calls, write_deaths, onboarded, raced>>
  BY DEF RegistryInv, DayPasses
<1>2. \A a \in Members :
        /\ registry'[a] \in Account /\ registry'[a].known = registry[a].known
        /\ registry'[a].onboarded = registry[a].onboarded
  <2> SUFFICES ASSUME NEW a \in Members
               PROVE  /\ registry'[a] \in Account /\ registry'[a].known = registry[a].known
                      /\ registry'[a].onboarded = registry[a].onboarded
    OBVIOUS
  <2>1. registry[a] \in Account /\ registry'[a] = [registry[a] EXCEPT !.healthy = TRUE, !.ledger.count = 0]
    BY <1>1 DEF RegistryShape
  <2> DEFINE l == [registry[a].ledger EXCEPT !.count = 0]
  <2>2. l \in Ledger
    BY <2>1 DEF Account, Ledger
  <2>3. registry'[a] = [registry[a] EXCEPT !.healthy = TRUE, !.ledger = l]
    BY <2>1 DEF Account, Ledger
  <2> HIDE DEF l
  <2> QED BY <2>1, <2>2, <2>3, Zenon DEF Account
<1>3. RegistryShape'
  <2>1. day' \in 1..MaxDays
    <3>1. day \in 1..MaxDays /\ MaxDays \in Nat /\ day < MaxDays /\ day' = day + 1
      BY <1>1, AccountConstantsOK DEF RegistryShape
    <3> QED BY <3>1
  <2>2. registry' \in [Members -> Account] /\ joined' \in [Members -> Nat] /\ started' \in [Members -> Nat]
    BY <1>1, <1>2
  <2> QED BY <1>1, <2>1, <2>2 DEF RegistryShape
<1>4. JobsFit'
  BY <1>1 DEF JobsFit, InTheFile
<1>5. day \in Nat /\ day' \in Nat
  <2>1. day \in 1..MaxDays /\ MaxDays \in Nat /\ day' = day + 1
    BY <1>1, AccountConstantsOK DEF RegistryShape
  <2> QED BY <2>1
<1>6. ASSUME Undisturbed'
      PROVE  /\ OneInTheFile' /\ OnboardedStays' /\ \A q \in Processes : InStep(q)'
             /\ \A b \in Members : JoinsCounted(b)'
  <2>1. /\ Undisturbed /\ OneInTheFile /\ OnboardedStays /\ \A b \in Members : JoinsCounted(b)
    BY <1>1, <1>6 DEF Undisturbed, RegistryInv
  <2>2. OneInTheFile'
    BY <1>1, <2>1 DEF OneInTheFile, InTheFile
  <2>3. OnboardedStays'
    BY <1>1, <1>2, <2>1 DEF OnboardedStays, RegistryShape
  <2>4. \A q \in Processes : InStep(q)'
    BY <1>1 DEF InStep, InTheFile
  <2>5. ASSUME NEW b \in Members PROVE JoinsCounted(b)'
    <3>1. CASE ~registry[b].known
      BY <1>1, <1>2, <3>1 DEF JoinsCounted
    <3>2. CASE registry[b].known
      <4>1. registry'[b].known /\ registry'[b].onboarded \in 1..day'
        <5>1. registry[b].onboarded \in 1..day
          BY <2>1, <3>2 DEF JoinsCounted
        <5>2. registry[b].onboarded \in 1..(day + 1)
          BY <1>5, <5>1
        <5> QED BY <1>1, <1>2, <3>2, <5>2
      <4>2. Limit(b)' \in Nat \ {0}
        BY <1>5, <4>1, RampFits DEF Limit, Ramp
      <4>3. Refreshed(registry[b])'.joins \in Nat /\ Cardinality(JoinWorkers) \in Nat
        <5>1. registry'[b] \in Account
          BY <1>2
        <5>2. Refreshed(registry[b])'.joins \in Nat
          BY <5>1 DEF Refreshed, Account
        <5> QED BY <1>1, <5>2, JoinersFit
      <4>4. Cardinality(Calling(b))' = 0 /\ Cardinality(Uncounted(b))' = 0
        <5>1. Calling(b)' = {} /\ Uncounted(b)' = {}
          BY <1>1 DEF Calling, Uncounted, Joining
        <5> QED BY <5>1, FS_EmptySet
      <4>5. joined'[b] = 0
        BY <1>1
      <4>6. /\ joined'[b] <= Refreshed(registry[b])'.joins + Cardinality(Uncounted(b))'
            /\ joined'[b] + Cardinality(Calling(b))' <= Limit(b)' + Cardinality(JoinWorkers) - 1
        BY <4>2, <4>3, <4>4, <4>5
      <4> QED BY <4>1, <4>6 DEF JoinsCounted
    <3> QED BY <3>1, <3>2
  <2> QED BY <2>2, <2>3, <2>4, <2>5
<1> QED BY <1>3, <1>4, <1>6 DEF RegistryInv

------------------------------------------------------------------------------
(* Managed accounts: the theorems.                                         *)

\* The registry begins empty.
LEMMA RegistryStart == AccountInit => RegistryInv
<1> SUFFICES ASSUME AccountInit PROVE RegistryInv
  OBVIOUS
<1>1. day \in 1..MaxDays /\ day \in Nat /\ calls \in 0..MaxCalls /\ write_deaths \in 0..MaxWriteDeaths
  BY AccountConstantsOK DEF AccountInit
<1>2. Missing \in Account
  BY <1>1, NewAccountFits
<1>3. AtRest \in JobRecord /\ AtRest.stage = "rest" /\ ~Missing.known
  BY <1>2 DEF AtRest, JobRecord, Stages, Missing
<1>4. RegistryShape
  BY <1>1, <1>2, <1>3 DEF AccountInit, RegistryShape
<1>5. JobsFit
  BY <1>3 DEF AccountInit, JobsFit, InTheFile
<1>6. OneInTheFile /\ OnboardedStays /\ \A p \in Processes : InStep(p)
  BY <1>3 DEF AccountInit, OneInTheFile, OnboardedStays, InStep, InTheFile
<1>7. \A a \in Members : JoinsCounted(a)
  BY <1>3 DEF AccountInit, JoinsCounted
<1> QED BY <1>4, <1>5, <1>6, <1>7 DEF RegistryInv

\* Every step keeps the invariant.
LEMMA RegistryStep == RegistryInv /\ [AccountNext]_account_vars => RegistryInv'
<1> SUFFICES ASSUME RegistryInv, [AccountNext]_account_vars PROVE RegistryInv'
  OBVIOUS
<1>1. CASE UNCHANGED account_vars
  <2>1. /\ UNCHANGED <<registry, torn, at_work, day, calls, write_deaths, joined, started, onboarded, raced>>
    BY <1>1 DEF account_vars
  <2>2. RegistryShape' /\ JobsFit'
    BY <2>1 DEF RegistryInv, RegistryShape, JobsFit, InTheFile
  <2>3. Undisturbed' => OneInTheFile' /\ OnboardedStays'
    BY <2>1 DEF RegistryInv, Undisturbed, OneInTheFile, OnboardedStays, InTheFile
  <2>4. Undisturbed' => \A p \in Processes : InStep(p)'
    <3> SUFFICES ASSUME Undisturbed', NEW p \in Processes PROVE InStep(p)'
      OBVIOUS
    <3>1. InStep(p) /\ at_work'[p] = at_work[p] /\ registry[at_work[p].account]' = registry[at_work[p].account]
      BY <2>1 DEF RegistryInv, Undisturbed
    <3>2. Marked(registry[at_work[p].account], at_work[p].action)' =
            Marked(registry[at_work[p].account], at_work[p].action)
      BY <2>1 DEF Marked, Counted, Refreshed
    <3>3. InTheFile(p)' = InTheFile(p)
      BY <2>1 DEF InTheFile
    <3> QED BY <2>1, <3>1, <3>2, <3>3 DEF InStep
  <2>5. Undisturbed' => \A a \in Members : JoinsCounted(a)'
    BY <2>1 DEF RegistryInv, Undisturbed, JoinsCounted, Calling, Uncounted, Joining, Refreshed,
                Limit, Ramp
  <2> QED BY <2>2, <2>3, <2>4, <2>5 DEF RegistryInv
<1>2. CASE AccountNext
  BY <1>2, BeginKeeps, CalledKeeps, LoadKeeps, ListAccountsKeeps, EmptyFileKeeps, WriteFileKeeps,
     ProcessDiesKeeps, OnboardAccountKeeps, DayPassesKeeps DEF AccountNext
<1> QED BY <1>1, <1>2

\* The invariant holds throughout.
LEMMA RegistryAlways == AccountSpec => []RegistryInv
  BY RegistryStart, RegistryStep, PTL DEF AccountSpec

\* The registry, and what each process makes of it, is well typed, races and deaths included
\* (AccountRegistry, AccountWarmUpService).
THEOREM RegistryTypes == AccountSpec => []AccountTypeOK
<1>1. RegistryInv => AccountTypeOK
  BY DEF RegistryInv, RegistryShape, AccountTypeOK, JobRecord
<1> QED BY <1>1, RegistryAlways, PTL

\* While no two processes are in accounts.json at a time and none dies, an onboarded account
\* stays in the registry, and an account joins no more in a day than its warm-up allows but
\* for one call of each other worker that was under way (save_account, mark_join_success).
THEOREM RegistryIsKept == AccountSpec => []RegistryKeepsAccounts
<1>1. ASSUME RegistryInv PROVE RegistryKeepsAccounts
  <2>1. Undisturbed => OnboardedStays
    BY <1>1 DEF RegistryInv
  <2>2. OnboardedStays
    BY <2>1 DEF OnboardedStays
  <2>3. ASSUME Undisturbed, NEW a \in Members, registry[a].known
        PROVE  joined[a] <= JoinLimits[Ramp(registry[a])] + Cardinality(JoinWorkers) - 1
    <3>1. RegistryShape /\ JobsFit /\ JoinsCounted(a)
      BY <1>1, <2>3 DEF RegistryInv
    <3>2. /\ joined[a] \in Nat /\ Cardinality(Calling(a)) \in Nat /\ Cardinality(JoinWorkers) \in Nat
      BY <3>1, CountsFit
    <3>3. Limit(a) \in Nat \ {0}
      BY <2>3, <3>1, LimitsFit DEF JoinsCounted
    <3>4. joined[a] + Cardinality(Calling(a)) <= Limit(a) + Cardinality(JoinWorkers) - 1
      BY <2>3, <3>1 DEF JoinsCounted
    <3>5. joined[a] <= Limit(a) + Cardinality(JoinWorkers) - 1
      BY <3>2, <3>3, <3>4
    <3> QED BY <3>5 DEF Limit
  <2> QED BY <2>2, <2>3 DEF RegistryKeepsAccounts, JoinsAreBounded
<1> QED BY <1>1, RegistryAlways, PTL

------------------------------------------------------------------------------
(* Campaign signals: the inductive invariant.                              *)

ReportRecord == [stage : {"none", "save", "refresh"}, id : SignalIds \cup {0}, copy : Signal]
ReviewUnderWay ==
    [stage : {"none", "agent", "cursor", "signals"}, ids : SUBSET SignalIds, seen : [SignalIds -> Nat],
     left : SUBSET SignalIds, copies : [SignalIds -> Signal], attention : Attention,
     resolve : BOOLEAN, at : Nat]
ItemOfSignals == [status : ItemStatus, names : SUBSET SignalIds]

SignalShape ==
    /\ signals \in [SignalIds -> Signal] /\ last_reviewed \subseteq SignalIds
    /\ observation \in ItemOfSignals /\ signal_clock \in Nat
    /\ reporter \in [Reporters -> ReportRecord]
    /\ observer \in ReviewUnderWay /\ observer.left \subseteq observer.ids
    /\ reports \in 0..MaxReports /\ observations \in 0..MaxObservations
    /\ signal_deaths \in 0..MaxSignalDeaths
    /\ reported \in [SignalIds -> Nat] /\ shown \in [SignalIds -> Nat]
    /\ crossed_signals \subseteq SignalIds /\ cut_signals \subseteq SignalIds

\* A signal has the number of a report made, and as many occurrences as reports at most.
ReportsFit ==
    /\ \A i \in SignalIds :
         /\ signals[i].occurrences <= reports
         /\ signals[i].state # "absent" => signals[i].occurrences >= 1
         /\ i > reports => signals[i] = NoSignal
    /\ \A p \in Reporters : reporter[p].stage # "none" =>
         /\ reporter[p].id \in 1..reports /\ reporter[p].copy.state = "unresolved"
         /\ reporter[p].copy.occurrences \in 1..reports

\* A review looks at signals that are stored; what it has looked at was there.
ObservationsFit ==
    /\ observer.stage # "none" => \A i \in observer.ids :
         i <= reports /\ signals[i].state # "absent" /\ observer.seen[i] >= 1
    /\ observer.stage \in {"cursor", "signals"} => \A i \in observer.ids :
         observer.copies[i].occurrences \in 1..reports /\ shown[i] >= 1
    /\ \A i \in last_reviewed : shown[i] >= 1

SignalsStored == SignalShape /\ ReportsFit /\ ObservationsFit

\* With reports that do not overlap one process reports, and what it holds of a signal is
\* what the file holds, unless a review was under way meanwhile.
HandsFit ==
    /\ \A p, q \in Reporters : reporter[p].stage # "none" /\ reporter[q].stage # "none" => p = q
    /\ \A p \in Reporters : reporter[p].stage # "none" /\ reporter[p].id \notin crossed_signals =>
         /\ observer.stage = "none"
         /\ reporter[p].stage = "save" =>
              reporter[p].copy.occurrences = signals[reporter[p].id].occurrences + 1
         /\ reporter[p].stage = "refresh" => reporter[p].copy = signals[reporter[p].id]

\* Of a signal that was not reported meanwhile a review has seen all there is.
SeenFits ==
    /\ \A i \in SignalIds \ crossed_signals : signals[i].occurrences = reported[i]
    /\ \A i \in observer.ids \ crossed_signals :
         /\ observer.stage = "agent" => observer.seen[i] >= reported[i]
         /\ observer.stage \in {"cursor", "signals"} => shown[i] >= reported[i]
         /\ observer.stage \in {"cursor", "signals"} /\ i \in observer.left =>
              observer.copies[i].occurrences = reported[i]

\* A signal that presses, that no review has shown and that no process has in hand.
Waiting(i) ==
    /\ i \notin crossed_signals \cup cut_signals /\ Presses(signals[i]) /\ shown[i] = 0
    /\ \A p \in Reporters : reporter[p].stage # "none" => reporter[p].id # i
WaitingIsNamed ==
    \A i \in SignalIds : Waiting(i) =>
      /\ OpenItem /\ i \in observation.names
      /\ observer.stage = "none" \/ (observer.stage = "agent" /\ i \in observer.ids)

SignalsFit == HandsFit /\ SeenFits /\ ReviewedWasSeen /\ WaitingIsNamed
SignalInv == SignalsStored /\ SignalsFit

------------------------------------------------------------------------------
(* Campaign signals: what is stored, action by action.                     *)

\* A record of a signal with one field changed is one.
LEMMA SignalFieldFits ==
    ASSUME NEW s \in Signal
    PROVE  /\ \A n \in 0..MaxReports, t \in Nat :
                [s EXCEPT !.occurrences = n, !.happened = t] \in Signal
           /\ \A t \in Nat, st \in {"unresolved", "reviewed"} :
                [s EXCEPT !.reviewed_at = t, !.state = st] \in Signal
BY Zenon DEF Signal

\* What is known of a signal's record.
LEMMA RecordFits ==
    ASSUME SignalsStored, NEW i \in SignalIds
    PROVE  /\ i \in Nat /\ reports \in Nat /\ MaxReports \in Nat /\ reports <= MaxReports
           /\ signals[i] \in Signal /\ signals[i].occurrences \in 0..reports
           /\ signals[i].state # "absent" => signals[i].occurrences >= 1 /\ i \in 1..reports
           /\ i > reports => signals[i] = NoSignal
<1>1. i \in 1..MaxReports /\ reports \in 0..MaxReports /\ MaxReports \in Nat
  BY SignalConstantsOK DEF SignalsStored, SignalShape, SignalIds
<1>2. signals[i] \in Signal /\ signals[i].occurrences \in Nat
  BY DEF SignalsStored, SignalShape, Signal
<1>3. /\ signals[i].occurrences <= reports
      /\ signals[i].state # "absent" => signals[i].occurrences >= 1
      /\ i > reports => signals[i] = NoSignal
  BY DEF SignalsStored, ReportsFit
<1>4. NoSignal.state = "absent"
  BY DEF NoSignal
<1>5. signals[i].state # "absent" => ~(i > reports)
  BY <1>3, <1>4
<1> QED BY <1>1, <1>2, <1>3, <1>5

\* What upsert has in hand: the signal stored, or a new one.
UpsertOf(k, i) ==
    IF i \in Matching(k) THEN signals[i] ELSE [NoSignal EXCEPT !.key = k, !.state = "unresolved"]

\* It is unresolved, and has the occurrences that are stored.
LEMMA StoredAsFits ==
    ASSUME SignalsStored, reports < MaxReports, NEW k \in SignalKeys, NEW i \in StoredAs(k)
    PROVE  /\ i \in 1..(reports + 1) /\ i \in SignalIds
           /\ UpsertOf(k, i) \in Signal /\ UpsertOf(k, i).state = "unresolved"
           /\ UpsertOf(k, i).occurrences = signals[i].occurrences
           /\ UpsertOf(k, i).occurrences \in 0..reports
<1>1. reports \in Nat /\ MaxReports \in Nat /\ reports + 1 \in SignalIds /\ reports + 1 > reports
  BY SignalConstantsOK DEF SignalsStored, SignalShape, SignalIds
<1>2. CASE i \in Matching(k)
  <2>1. i \in SignalIds /\ UpsertOf(k, i) = signals[i] /\ signals[i].state = "unresolved"
    BY <1>2 DEF Matching, UpsertOf
  <2> QED BY <1>1, <2>1, RecordFits
<1>3. CASE i \notin Matching(k)
  <2>1. i = reports + 1
    BY <1>3 DEF StoredAs
  <2>2. signals[i] = NoSignal
    BY <1>1, <2>1, RecordFits
  <2>3. /\ UpsertOf(k, i) = [NoSignal EXCEPT !.key = k, !.state = "unresolved"]
        /\ NoSignal.occurrences = 0
    BY <1>3 DEF UpsertOf, NoSignal
  <2>4. /\ [NoSignal EXCEPT !.key = k, !.state = "unresolved"] \in Signal
        /\ [NoSignal EXCEPT !.key = k, !.state = "unresolved"].state = "unresolved"
        /\ [NoSignal EXCEPT !.key = k, !.state = "unresolved"].occurrences = 0
    <3>1. NoSignal \in Signal /\ NoSignal.occurrences = 0
      BY <1>1 DEF NoSignal, Signal
    <3>2. [NoSignal EXCEPT !.key = k, !.state = "unresolved"] \in Signal
      BY <3>1, Zenon DEF Signal
    <3> QED BY <3>1, <3>2 DEF Signal
  <2>5. /\ UpsertOf(k, i) \in Signal /\ UpsertOf(k, i).state = "unresolved"
        /\ UpsertOf(k, i).occurrences = 0 /\ signals[i].occurrences = 0
    BY <2>2, <2>3, <2>4
  <2>6. i \in 1..(reports + 1) /\ i \in SignalIds /\ 0 \in 0..reports
    BY <1>1, <2>1
  <2> QED BY <2>5, <2>6
<1> QED BY <1>2, <1>3

\* The signal in hand has one occurrence more.
LEMMA OneMoreFits ==
    ASSUME SignalsStored, reports < MaxReports, NEW s \in Signal, s.occurrences \in 0..reports,
           NEW t \in Nat
    PROVE  /\ [s EXCEPT !.occurrences = @ + 1, !.happened = t] \in Signal
           /\ [s EXCEPT !.occurrences = @ + 1, !.happened = t].state = s.state
           /\ [s EXCEPT !.occurrences = @ + 1, !.happened = t].occurrences = s.occurrences + 1
           /\ s.occurrences + 1 \in 1..(reports + 1)
<1>1. reports \in Nat /\ MaxReports \in Nat
  BY SignalConstantsOK DEF SignalsStored, SignalShape
<1>2. s.occurrences + 1 \in 0..MaxReports /\ s.occurrences + 1 \in 1..(reports + 1)
  BY <1>1
<1> QED BY <1>2, SignalFieldFits DEF Signal

\* Report, of the signal i with the key k.
HasInHand(p, k, i) ==
    /\ reporter' = [reporter EXCEPT ![p] = [stage |-> "save", id |-> i,
            copy |-> [UpsertOf(k, i) EXCEPT !.occurrences = @ + 1, !.happened = signal_clock + 1]]]
    /\ crossed_signals' = IF observer.stage # "none" THEN crossed_signals \cup {i} ELSE crossed_signals

\* Nobody has reported, and no review was made.
LEMMA SignalsStart == ASSUME SignalInit PROVE SignalsStored
<1>1. NoSignal \in Signal
  BY SignalConstantsOK DEF NoSignal, Signal
<1>2. Silent \in ReportRecord
  BY <1>1 DEF Silent, ReportRecord
<1>3. NoObservation \in ReviewUnderWay /\ NoObservation.left = {} /\ NoObservation.stage = "none"
  BY <1>1 DEF NoObservation, ReviewUnderWay, Attention
<1>4. SignalShape
  BY <1>1, <1>2, <1>3, SignalConstantsOK DEF SignalInit, SignalShape, ItemOfSignals, ItemStatus
<1> QED
  BY <1>3, <1>4, SignalConstantsOK DEF SignalInit, SignalsStored, ReportsFit, ObservationsFit,
     NoSignal, Silent

\* Report has a signal in hand, the stored ones stay.
LEMMA ReportStored == ASSUME NEW p \in Reporters, SignalsStored, Report(p) PROVE SignalsStored'
<1>1. PICK k \in SignalKeys : \E i \in StoredAs(k) : HasInHand(p, k, i)
  BY Zenon DEF Report, HasInHand, UpsertOf
<1>2. PICK i \in StoredAs(k) : HasInHand(p, k, i)
  BY <1>1
<1> DEFINE c == [UpsertOf(k, i) EXCEPT !.occurrences = @ + 1, !.happened = signal_clock + 1]
<1>3. /\ reporter' = [reporter EXCEPT ![p] = [stage |-> "save", id |-> i, copy |-> c]]
      /\ crossed_signals' = IF observer.stage # "none" THEN crossed_signals \cup {i}
                            ELSE crossed_signals
  BY <1>2 DEF HasInHand
<1>4. /\ reports \in Nat /\ reports' = reports + 1 /\ reports' \in 0..MaxReports
      /\ signal_clock + 1 \in Nat /\ signal_clock' \in Nat
  BY SignalConstantsOK DEF Report, SignalsStored, SignalShape
<1>5. /\ i \in 1..reports' /\ i \in SignalIds /\ c \in Signal /\ c.state = "unresolved"
      /\ c.occurrences \in 1..reports'
  <2>1. reports < MaxReports
    BY DEF Report
  <2>2. /\ i \in 1..(reports + 1) /\ i \in SignalIds /\ UpsertOf(k, i) \in Signal
        /\ UpsertOf(k, i).state = "unresolved" /\ UpsertOf(k, i).occurrences \in 0..reports
    BY <2>1, <1>2, StoredAsFits
  <2>3. /\ c \in Signal /\ c.state = UpsertOf(k, i).state
        /\ c.occurrences \in 1..(reports + 1)
    BY <1>4, <2>1, <2>2, OneMoreFits
  <2> QED BY <1>4, <2>2, <2>3
<1> HIDE DEF c
<1>6. reporter' \in [Reporters -> ReportRecord] /\ reporter'[p].id = i /\ reporter'[p].copy = c
  BY <1>3, <1>5 DEF SignalsStored, SignalShape, ReportRecord, c
<1>7. \A q \in Reporters : q # p => reporter'[q] = reporter[q]
  BY <1>3 DEF SignalsStored, SignalShape
<1>8. SignalShape'
  BY <1>3, <1>4, <1>5, <1>6 DEF Report, SignalsStored, SignalShape
<1>9. ReportsFit'
  <2>1. \A q \in Reporters : reporter'[q].stage # "none" =>
          /\ reporter'[q].id \in 1..reports' /\ reporter'[q].copy.state = "unresolved"
          /\ reporter'[q].copy.occurrences \in 1..reports'
    BY <1>4, <1>5, <1>6, <1>7 DEF SignalsStored, ReportsFit
  <2>2. \A j \in SignalIds : /\ signals'[j].occurrences <= reports'
                             /\ signals'[j].state # "absent" => signals'[j].occurrences >= 1
                             /\ j > reports' => signals'[j] = NoSignal
    BY <1>4 DEF Report, SignalsStored, SignalShape, ReportsFit, Signal, SignalIds
  <2> QED BY <2>1, <2>2 DEF ReportsFit
<1>10. ObservationsFit'
  <2>1. UNCHANGED <<observer, signals, shown, last_reviewed>> /\ ObservationsFit
    BY DEF Report, SignalsStored
  <2>2. \A j \in observer.ids : j \in Nat
    BY SignalConstantsOK DEF SignalsStored, SignalShape, ReviewUnderWay, SignalIds
  <2>3. \A n : n \in 1..reports => n \in 1..reports'
    BY <1>4
  <2>4. \A n \in Nat : n <= reports => n <= reports'
    BY <1>4
  <2> QED BY <2>1, <2>2, <2>3, <2>4 DEF ObservationsFit
<1> QED BY <1>8, <1>9, <1>10 DEF SignalsStored

\* SaveReported stores what the process has in hand.
LEMMA SaveReportedStored ==
    ASSUME NEW p \in Reporters, SignalsStored, SaveReported(p) PROVE SignalsStored'
<1> DEFINE i == reporter[p].id  c == reporter[p].copy
<1>1. /\ i \in 1..reports /\ i \in SignalIds /\ c \in Signal /\ c.state = "unresolved"
      /\ c.occurrences \in 1..reports /\ reports \in Nat
  <2>1. reporter[p] \in ReportRecord /\ reporter[p].stage # "none"
    BY DEF SaveReported, SignalsStored, SignalShape
  <2>2. reports \in 0..MaxReports /\ MaxReports \in Nat
    BY SignalConstantsOK DEF SignalsStored, SignalShape
  <2> QED BY <2>1, <2>2 DEF SignalsStored, ReportsFit, ReportRecord, SignalIds
<1>2. /\ signals' = [signals EXCEPT ![i] = c] /\ reported' = [reported EXCEPT ![i] = @ + 1]
      /\ reporter' = [reporter EXCEPT ![p].stage = "refresh"]
      /\ crossed_signals' = IF observer.stage # "none" THEN crossed_signals \cup {i} ELSE crossed_signals
      /\ UNCHANGED <<last_reviewed, observation, signal_clock, observer, reports, observations,
                     signal_deaths, shown, cut_signals>>
  BY DEF SaveReported
<1> HIDE DEF i, c
<1>3. SignalShape'
  BY <1>1, <1>2 DEF SignalsStored, SignalShape, ReportRecord
<1>4. \A j \in SignalIds : signals'[j] = IF j = i THEN c ELSE signals[j]
  BY <1>2 DEF SignalsStored, SignalShape
<1>5. ReportsFit'
  <2>1. \A q \in Reporters : reporter'[q].stage # "none" =>
          /\ reporter[q].stage # "none"
          /\ reporter'[q].id = reporter[q].id /\ reporter'[q].copy = reporter[q].copy
    BY <1>2 DEF SaveReported, SignalsStored, SignalShape, ReportRecord
  <2>2. i <= reports /\ c.occurrences <= reports /\ c.occurrences >= 1
    BY <1>1
  <2>3. \A j \in SignalIds : /\ signals'[j].occurrences <= reports
                             /\ signals'[j].state # "absent" => signals'[j].occurrences >= 1
                             /\ j > reports => signals'[j] = NoSignal
    BY <1>1, <1>4, <2>2 DEF SignalsStored, ReportsFit
  <2> QED BY <1>2, <2>1, <2>3 DEF SignalsStored, ReportsFit
<1>6. ObservationsFit'
  <2>1. \A j \in SignalIds : signals[j].state # "absent" => signals'[j].state # "absent"
    BY <1>1, <1>4
  <2>2. observer.ids \subseteq SignalIds
    BY DEF SignalsStored, SignalShape, ReviewUnderWay
  <2> QED BY <1>2, <2>1, <2>2 DEF SignalsStored, ObservationsFit
<1> QED BY <1>3, <1>5, <1>6 DEF SignalsStored

\* The signals named are signals.
LEMMA BatchFits ==
    /\ UnresolvedSignals \subseteq SignalIds /\ Batch \subseteq SignalIds /\ ToName \subseteq SignalIds
    /\ Batch \subseteq UnresolvedSignals
BY DEF UnresolvedSignals, Batch, ToName

\* The item is an item, whatever signals it names.
LEMMA EnsuredFits ==
    ASSUME SignalShape, NEW ids \in SUBSET SignalIds PROVE EnsuredItem(ids) \in ItemOfSignals
BY DEF SignalShape, EnsuredItem, ItemOfSignals, ItemStatus, OpenItem

\* RefreshItem changes no signal.
LEMMA RefreshItemStored ==
    ASSUME NEW p \in Reporters, SignalsStored, RefreshItem(p) PROVE SignalsStored'
<1>1. /\ observation' = observation \/ observation' = EnsuredItem(ToName)
      /\ crossed_signals' = crossed_signals \/ crossed_signals' = crossed_signals \cup ToName
      /\ reporter' = [reporter EXCEPT ![p] = Silent]
      /\ UNCHANGED <<signals, last_reviewed, signal_clock, observer, reports, observations,
                     signal_deaths, reported, shown, cut_signals>>
  BY Zenon DEF RefreshItem
<1>2. Silent \in ReportRecord /\ Silent.stage = "none"
  BY SignalConstantsOK DEF Silent, ReportRecord, NoSignal, Signal
<1>3. SignalShape'
  <2>1. observation' \in ItemOfSignals
    BY <1>1, BatchFits, EnsuredFits DEF SignalsStored, SignalShape
  <2>2. crossed_signals' \subseteq SignalIds
    BY <1>1, BatchFits DEF SignalsStored, SignalShape
  <2> QED BY <1>1, <1>2, <2>1, <2>2 DEF SignalsStored, SignalShape
<1>4. \A q \in Reporters : reporter'[q].stage # "none" => reporter'[q] = reporter[q]
  BY <1>1, <1>2 DEF SignalsStored, SignalShape
<1>5. ReportsFit' /\ ObservationsFit'
  BY <1>1, <1>4 DEF SignalsStored, ReportsFit, ObservationsFit
<1> QED BY <1>3, <1>5 DEF SignalsStored

\* ReporterDies forgets what the process had in hand.
LEMMA ReporterDiesStored ==
    ASSUME NEW p \in Reporters, SignalsStored, ReporterDies(p) PROVE SignalsStored'
<1>1. /\ signal_deaths' = signal_deaths + 1 /\ signal_deaths < MaxSignalDeaths
      /\ cut_signals' = cut_signals \cup {reporter[p].id}
      /\ reporter' = [reporter EXCEPT ![p] = Silent] /\ reporter[p].stage # "none"
      /\ UNCHANGED <<signals, last_reviewed, observation, signal_clock, observer, reports,
                     observations, reported, shown, crossed_signals>>
  BY DEF ReporterDies
<1>2. Silent \in ReportRecord /\ Silent.stage = "none"
  BY SignalConstantsOK DEF Silent, ReportRecord, NoSignal, Signal
<1>3. SignalShape'
  <2>1. signal_deaths' \in 0..MaxSignalDeaths
    BY <1>1, SignalConstantsOK DEF SignalsStored, SignalShape
  <2>2. reporter[p].id \in SignalIds
    BY <1>1, SignalConstantsOK DEF SignalsStored, SignalShape, ReportsFit, SignalIds
  <2> QED BY <1>1, <1>2, <2>1, <2>2 DEF SignalsStored, SignalShape
<1>4. \A q \in Reporters : reporter'[q].stage # "none" => reporter'[q] = reporter[q]
  BY <1>1, <1>2 DEF SignalsStored, SignalShape
<1>5. ReportsFit' /\ ObservationsFit'
  BY <1>1, <1>4 DEF SignalsStored, ReportsFit, ObservationsFit
<1> QED BY <1>3, <1>5 DEF SignalsStored

\* ReviewBegins looks at signals that are stored.
LEMMA ReviewBeginsStored == ASSUME SignalsStored, ReviewBegins PROVE SignalsStored'
<1> DEFINE waiting == observation.status \in {"pending", "in_progress"}
           pressing == {i \in Batch : Presses(signals[i])}
           item == IF waiting THEN observation ELSE EnsuredItem(pressing)
           named == item.names \cap UnresolvedSignals
           ids == IF named # {} THEN named ELSE Batch
           o == [NoObservation EXCEPT !.stage = "agent", !.ids = ids,
                     !.seen = [i \in SignalIds |-> IF i \in ids THEN signals[i].occurrences ELSE 0]]
<1>1. /\ observations' = observations + 1 /\ observations < MaxObservations
      /\ \/ observation' = [status |-> "completed", names |-> {}] /\ observer' = observer
         \/ observation' = [status |-> "in_progress", names |-> ids] /\ observer' = o
      /\ crossed_signals' = crossed_signals
           \cup {reporter[p].id : p \in {q \in Reporters : reporter[q].stage # "none"}}
      /\ UNCHANGED <<signals, last_reviewed, signal_clock, reporter, reports, signal_deaths,
                     reported, shown, cut_signals>>
      /\ observer.stage = "none"
  BY Zenon DEF ReviewBegins
<1>2. ids \subseteq UnresolvedSignals /\ ids \subseteq SignalIds
  BY BatchFits
<1> HIDE DEF ids
<1>3. /\ o \in ReviewUnderWay /\ o.stage = "agent" /\ o.ids = ids /\ o.left = {}
      /\ \A i \in ids : o.seen[i] = signals[i].occurrences
  <2>1. NoObservation \in ReviewUnderWay /\ NoObservation.left = {}
    BY SignalConstantsOK DEF NoObservation, ReviewUnderWay, Attention, NoSignal, Signal
  <2> DEFINE looked_at == [i \in SignalIds |-> IF i \in ids THEN signals[i].occurrences ELSE 0]
  <2>2. looked_at \in [SignalIds -> Nat] /\ \A i \in ids : looked_at[i] = signals[i].occurrences
    BY <1>2, SignalConstantsOK DEF SignalsStored, SignalShape, Signal
  <2> HIDE DEF looked_at
  <2>3. o \in ReviewUnderWay
    BY <1>2, <2>1, <2>2, Zenon DEF ReviewUnderWay, looked_at
  <2>4. o.stage = "agent" /\ o.ids = ids /\ o.left = {} /\ o.seen = looked_at
    BY <2>1 DEF ReviewUnderWay, looked_at
  <2> QED BY <2>2, <2>3, <2>4
<1> HIDE DEF o
<1>4. SignalShape'
  <2>1. observations' \in 0..MaxObservations
    BY <1>1, SignalConstantsOK DEF SignalsStored, SignalShape
  <2>2. observation' \in ItemOfSignals
    BY <1>1, <1>2 DEF ItemOfSignals, ItemStatus
  <2>3. observer' \in ReviewUnderWay /\ observer'.left \subseteq observer'.ids
    BY <1>1, <1>3 DEF SignalsStored, SignalShape
  <2>4. \A p \in Reporters : reporter[p].stage # "none" => reporter[p].id \in SignalIds
    BY SignalConstantsOK DEF SignalsStored, SignalShape, ReportsFit, SignalIds
  <2>5. crossed_signals' \subseteq SignalIds
    BY <1>1, <2>4 DEF SignalsStored, SignalShape
  <2> QED BY <1>1, <2>1, <2>2, <2>3, <2>5 DEF SignalsStored, SignalShape
<1>5. ReportsFit'
  BY <1>1 DEF SignalsStored, ReportsFit
<1>6. ObservationsFit'
  <2>1. \A i \in ids : i <= reports /\ signals[i].state # "absent" /\ signals[i].occurrences >= 1
    BY <1>2, RecordFits DEF UnresolvedSignals
  <2>2. CASE observer' = observer
    BY <1>1, <2>2 DEF SignalsStored, ObservationsFit
  <2>3. CASE observer' = o
    BY <1>1, <1>3, <2>1, <2>3 DEF SignalsStored, ObservationsFit
  <2> QED BY <1>1, <2>2, <2>3
<1> QED BY <1>4, <1>5, <1>6 DEF SignalsStored

\* ReviewFails: the item escalates.
LEMMA ReviewFailsStored == ASSUME SignalsStored, ReviewFails PROVE SignalsStored'
<1>1. NoObservation \in ReviewUnderWay /\ NoObservation.left = {} /\ NoObservation.stage = "none"
  BY SignalConstantsOK DEF NoObservation, ReviewUnderWay, Attention, NoSignal, Signal
<1>2. /\ observation' = [status |-> "escalated", names |-> observer.ids] /\ observer' = NoObservation
      /\ UNCHANGED <<signals, last_reviewed, signal_clock, reporter, reports, observations,
                     signal_deaths, reported, shown, crossed_signals, cut_signals>>
  BY DEF ReviewFails, signal_history
<1>3. observation' \in ItemOfSignals
  BY <1>2 DEF SignalsStored, SignalShape, ReviewUnderWay, ItemOfSignals, ItemStatus
<1>4. SignalShape'
  BY <1>1, <1>2, <1>3 DEF SignalsStored, SignalShape
<1>5. ReportsFit' /\ ObservationsFit'
  BY <1>1, <1>2 DEF SignalsStored, ReportsFit, ObservationsFit
<1> QED BY <1>4, <1>5 DEF SignalsStored

\* SaveResult, with the operator's attention and the resolution the model asks for.
ResultIs(a, b) ==
    observer' = [observer EXCEPT !.stage = "cursor", !.copies = signals, !.left = observer.ids,
                    !.at = signal_clock + 1, !.attention = a, !.resolve = b]

\* What a review holds after its result is saved.
LEMMA ResultFits ==
    ASSUME SignalsStored, SaveResult
    PROVE  /\ observer' \in ReviewUnderWay /\ observer'.stage = "cursor"
           /\ observer'.ids = observer.ids /\ observer'.left = observer.ids
           /\ observer'.copies = signals /\ observer.stage = "agent"
           /\ UNCHANGED <<signals, last_reviewed, observation, reporter, reports, observations,
                          signal_deaths, reported, crossed_signals, cut_signals>>
           /\ signal_clock' \in Nat /\ shown' \in [SignalIds -> Nat]
           /\ \A i \in SignalIds : shown'[i] = IF i \in observer.ids THEN observer.seen[i] ELSE shown[i]
<1>1. PICK a \in Attention : \E b \in BOOLEAN : ResultIs(a, b)
  <2>1. PICK a \in Attention, r \in BOOLEAN : ResultIs(a, a # "required" /\ ~r)
    BY Zenon DEF SaveResult, ResultIs
  <2>2. (a # "required" /\ ~r) \in BOOLEAN
    OBVIOUS
  <2> QED BY <2>1, <2>2
<1>2. PICK b \in BOOLEAN : ResultIs(a, b)
  BY <1>1
<1>3. /\ signal_clock' = signal_clock + 1 /\ observer.stage = "agent"
      /\ shown' = [i \in SignalIds |-> IF i \in observer.ids THEN observer.seen[i] ELSE shown[i]]
      /\ UNCHANGED <<signals, last_reviewed, observation, reporter, reports, observations,
                     signal_deaths, reported, crossed_signals, cut_signals>>
  BY DEF SaveResult
<1>4. /\ observer \in ReviewUnderWay /\ signals \in [SignalIds -> Signal] /\ signal_clock + 1 \in Nat
      /\ observer.ids \in SUBSET SignalIds
  BY DEF SignalsStored, SignalShape, ReviewUnderWay
<1>5. observer' \in ReviewUnderWay
  BY <1>2, <1>4, Zenon DEF ResultIs, ReviewUnderWay
<1>6. /\ observer'.stage = "cursor" /\ observer'.ids = observer.ids
      /\ observer'.left = observer.ids /\ observer'.copies = signals
  BY <1>2, <1>4 DEF ResultIs, ReviewUnderWay
<1>7. shown' \in [SignalIds -> Nat]
  BY <1>3 DEF SignalsStored, SignalShape, ReviewUnderWay
<1> QED BY <1>3, <1>4, <1>5, <1>6, <1>7

\* SaveResult: the occurrences the model was told of have been seen.
LEMMA SaveResultStored == ASSUME SignalsStored, SaveResult PROVE SignalsStored'
<1>1. SignalShape'
  BY ResultFits DEF SignalsStored, SignalShape
<1>2. ReportsFit'
  BY ResultFits DEF SignalsStored, ReportsFit
<1>3. \A i \in observer.ids : /\ i \in SignalIds /\ i <= reports /\ signals[i].state # "absent"
                              /\ observer.seen[i] >= 1
  BY ResultFits DEF SignalsStored, SignalShape, ReviewUnderWay, ObservationsFit
<1>4. \A i \in observer.ids : signals[i].occurrences \in 1..reports
  <2> SUFFICES ASSUME NEW i \in observer.ids PROVE signals[i].occurrences \in 1..reports
    OBVIOUS
  <2> QED BY <1>3, RecordFits
<1>5. ObservationsFit'
  <2>1. /\ observer'.ids = observer.ids /\ observer'.copies = signals /\ observer'.stage = "cursor"
        /\ UNCHANGED <<signals, reports, last_reviewed>>
    BY ResultFits
  <2>2. \A i \in SignalIds : shown'[i] = IF i \in observer.ids THEN observer.seen[i] ELSE shown[i]
    BY ResultFits
  <2>3. \A i \in observer.ids : shown'[i] >= 1
    BY <1>3, <2>2
  <2>4. \A i \in last_reviewed : i \in SignalIds /\ shown[i] >= 1
    BY DEF SignalsStored, SignalShape, ObservationsFit
  <2>5. \A i \in last_reviewed : shown'[i] >= 1
    BY <2>2, <2>3, <2>4
  <2>6. \A i \in observer.ids : i <= reports /\ signals[i].state # "absent" /\ observer'.seen[i] >= 1
    <3>1. observer'.seen = observer.seen
      <4>1. PICK a \in Attention, r \in BOOLEAN : ResultIs(a, a # "required" /\ ~r)
        BY Zenon DEF SaveResult, ResultIs
      <4> QED BY <4>1 DEF ResultIs, SignalsStored, SignalShape, ReviewUnderWay
    <3> QED BY <1>3, <3>1
  <2> QED BY <1>4, <2>1, <2>3, <2>5, <2>6 DEF ObservationsFit
<1> QED BY <1>1, <1>2, <1>5 DEF SignalsStored

\* SaveCursor: what was reviewed has been seen.
LEMMA SaveCursorStored == ASSUME SignalsStored, SaveCursor PROVE SignalsStored'
<1>1. /\ last_reviewed' = observer.ids /\ observer.stage = "cursor"
      /\ observer' = [observer EXCEPT !.stage = "signals"]
      /\ UNCHANGED <<signals, observation, signal_clock, reporter, reports, observations,
                     signal_deaths, reported, shown, crossed_signals, cut_signals>>
  BY DEF SaveCursor, signal_history
<1>2. /\ observer' \in ReviewUnderWay /\ observer'.stage = "signals" /\ observer'.ids = observer.ids
      /\ observer'.left = observer.left /\ observer'.seen = observer.seen
      /\ observer'.copies = observer.copies /\ observer.ids \subseteq SignalIds
  BY <1>1 DEF SignalsStored, SignalShape, ReviewUnderWay
<1>3. SignalShape' /\ ReportsFit'
  BY <1>1, <1>2 DEF SignalsStored, SignalShape, ReportsFit
<1>4. ObservationsFit'
  BY <1>1, <1>2 DEF SignalsStored, ObservationsFit
<1> QED BY <1>3, <1>4 DEF SignalsStored

\* The signal a review writes, over whatever it has become.
Reviewed(i, s) ==
    /\ signals' = [signals EXCEPT ![i] = s] /\ s \in Signal /\ s.state \in {"unresolved", "reviewed"}
    /\ s.occurrences = observer.copies[i].occurrences
    /\ observer' = [observer EXCEPT !.left = @ \ {i}]
    /\ s.state = "reviewed" => observer.resolve

\* SaveSignal writes one of the signals reviewed.
LEMMA SaveSignalFits ==
    ASSUME SignalsStored, SaveSignal
    PROVE  /\ observer.stage = "signals" /\ \E i \in observer.left, s \in Signal : Reviewed(i, s)
           /\ UNCHANGED <<last_reviewed, observation, signal_clock, reporter, reports, observations,
                          signal_deaths, reported, shown, crossed_signals, cut_signals>>
<1>1. PICK i \in observer.left :
        /\ signals' = [signals EXCEPT ![i] = [observer.copies[i] EXCEPT
                 !.reviewed_at = observer.at,
                 !.state = IF observer.resolve THEN "reviewed" ELSE "unresolved"]]
        /\ observer' = [observer EXCEPT !.left = @ \ {i}]
  BY Zenon DEF SaveSignal
<1> DEFINE st == IF observer.resolve THEN "reviewed" ELSE "unresolved"
           s == [observer.copies[i] EXCEPT !.reviewed_at = observer.at, !.state = st]
<1>2. observer.copies[i] \in Signal /\ observer.at \in Nat
  BY <1>1 DEF SignalsStored, SignalShape, ReviewUnderWay
<1>3. st \in {"unresolved", "reviewed"} /\ (st = "reviewed" => observer.resolve)
  OBVIOUS
<1>4. /\ signals' = [signals EXCEPT ![i] = s] /\ observer' = [observer EXCEPT !.left = @ \ {i}]
  BY <1>1
<1> HIDE DEF st
<1>5. s \in Signal
  BY <1>2, <1>3, SignalFieldFits
<1>6. s.state = st /\ s.occurrences = observer.copies[i].occurrences
  BY <1>2 DEF Signal
<1> HIDE DEF s
<1>7. Reviewed(i, s)
  BY <1>3, <1>4, <1>5, <1>6 DEF Reviewed
<1> QED BY <1>5, <1>7 DEF SaveSignal, signal_history

\* SaveSignal: the signal stays stored, with the occurrences that were read.
LEMMA SaveSignalStored == ASSUME SignalsStored, SaveSignal PROVE SignalsStored'
<1>1. observer.stage = "signals" /\ \E i \in observer.left, s \in Signal : Reviewed(i, s)
  BY SaveSignalFits
<1>2. PICK i \in observer.left, s \in Signal : Reviewed(i, s)
  BY <1>1
<1>3. UNCHANGED <<last_reviewed, observation, signal_clock, reporter, reports, observations,
                  signal_deaths, reported, shown, crossed_signals, cut_signals>>
  BY SaveSignalFits
<1>4. /\ i \in observer.ids /\ i \in SignalIds /\ i <= reports /\ s.occurrences \in 1..reports
      /\ s.state # "absent"
  BY <1>1, <1>2 DEF Reviewed, SignalsStored, SignalShape, ReviewUnderWay, ObservationsFit
<1>5. /\ observer' \in ReviewUnderWay /\ observer'.stage = observer.stage
      /\ observer'.ids = observer.ids /\ observer'.left = observer.left \ {i}
      /\ observer'.seen = observer.seen /\ observer'.copies = observer.copies
  BY <1>2 DEF Reviewed, SignalsStored, SignalShape, ReviewUnderWay
<1>6. signals' \in [SignalIds -> Signal] /\ \A j \in SignalIds : signals'[j] = IF j = i THEN s ELSE signals[j]
  BY <1>2, <1>4 DEF Reviewed, SignalsStored, SignalShape
<1>7. SignalShape'
  BY <1>3, <1>5, <1>6 DEF SignalsStored, SignalShape
<1>8. ReportsFit'
  <2>1. reports \in Nat /\ s.occurrences <= reports /\ s.occurrences >= 1 /\ i \in Nat
    BY <1>4, SignalConstantsOK DEF SignalsStored, SignalShape, SignalIds
  <2>2. \A j \in SignalIds : /\ signals'[j].occurrences <= reports
                             /\ signals'[j].state # "absent" => signals'[j].occurrences >= 1
                             /\ j > reports => signals'[j] = NoSignal
    BY <1>4, <1>6, <2>1 DEF SignalsStored, ReportsFit
  <2> QED BY <1>3, <2>2 DEF SignalsStored, ReportsFit
<1>9. ObservationsFit'
  <2>1. \A j \in SignalIds : signals[j].state # "absent" => signals'[j].state # "absent"
    BY <1>4, <1>6
  <2>2. observer.ids \subseteq SignalIds
    BY DEF SignalsStored, SignalShape, ReviewUnderWay
  <2> QED BY <1>3, <1>5, <2>1, <2>2 DEF SignalsStored, ObservationsFit
<1> QED BY <1>7, <1>8, <1>9 DEF SignalsStored

\* FinishItem and ObserverDies: the review is over.
LEMMA ReviewOverStored ==
    ASSUME SignalsStored, FinishItem \/ ObserverDies PROVE SignalsStored'
<1>1. NoObservation \in ReviewUnderWay /\ NoObservation.left = {} /\ NoObservation.stage = "none"
  BY SignalConstantsOK DEF NoObservation, ReviewUnderWay, Attention, NoSignal, Signal
<1>2. /\ observer' = NoObservation
      /\ UNCHANGED <<signals, last_reviewed, signal_clock, reporter, reports, observations,
                     reported, shown, crossed_signals, cut_signals>>
  BY DEF FinishItem, ObserverDies, signal_history
<1>3. observation' \in ItemOfSignals
  BY DEF FinishItem, ObserverDies, SignalsStored, SignalShape, ReviewUnderWay, ItemOfSignals,
     ItemStatus
<1>4. signal_deaths' \in 0..MaxSignalDeaths
  BY SignalConstantsOK DEF FinishItem, ObserverDies, SignalsStored, SignalShape
<1>5. SignalShape'
  BY <1>1, <1>2, <1>3, <1>4 DEF SignalsStored, SignalShape
<1>6. ReportsFit' /\ ObservationsFit'
  BY <1>1, <1>2 DEF SignalsStored, ReportsFit, ObservationsFit
<1> QED BY <1>5, <1>6 DEF SignalsStored

\* Whatever happens, what is stored fits.
LEMMA StoredKept == ASSUME SignalsStored, [SignalNext]_signal_vars PROVE SignalsStored'
<1>1. CASE UNCHANGED signal_vars
  BY <1>1 DEF signal_vars, SignalsStored, SignalShape, ReportsFit, ObservationsFit
<1>2. CASE SignalNext
  BY <1>2, ReportStored, SaveReportedStored, RefreshItemStored, ReporterDiesStored,
     ReviewBeginsStored,
     ReviewFailsStored, SaveResultStored, SaveCursorStored, SaveSignalStored, ReviewOverStored
     DEF SignalNext
<1> QED BY <1>1, <1>2

\* Every variable of the signals has its type.
THEOREM SignalTypes == SignalSpec => []SignalTypeOK
<1>1. SignalInit => SignalsStored
  BY SignalsStart
<1>2. SignalsStored /\ [SignalNext]_signal_vars => SignalsStored'
  BY StoredKept
<1>3. SignalsStored => SignalTypeOK
  BY DEF SignalsStored, SignalShape, ItemOfSignals, ReportRecord, ReviewUnderWay, SignalTypeOK
<1> QED BY <1>1, <1>2, <1>3, PTL DEF SignalSpec

------------------------------------------------------------------------------
(* Campaign signals: no signal goes by, action by action.                  *)

\* A signal that waits belongs to the batch, and to what a refresh names.
LEMMA WaitingInBatch ==
    ASSUME SignalsStored, NEW i \in SignalIds, Waiting(i) PROVE i \in Batch /\ i \in ToName
<1>1. i \in UnresolvedSignals
  BY DEF Waiting, Presses, UnresolvedSignals
<1>2. i \notin last_reviewed
  BY DEF Waiting, SignalsStored, ObservationsFit
<1> QED BY <1>1, <1>2 DEF Batch, ToName, Waiting

\* Nobody has reported: nothing waits.
LEMMA SignalsFitStart == ASSUME SignalInit PROVE SignalsFit
<1>1. \A i \in SignalIds : signals[i] = NoSignal /\ reported[i] = 0 /\ shown[i] = 0
  BY DEF SignalInit
<1>2. NoSignal.state = "absent" /\ NoSignal.occurrences = 0
  BY DEF NoSignal
<1>3. HandsFit
  BY DEF SignalInit, HandsFit, Silent
<1>4. SeenFits
  BY <1>1, <1>2 DEF SignalInit, SeenFits, NoObservation
<1>5. ReviewedWasSeen /\ WaitingIsNamed
  BY <1>1, <1>2 DEF ReviewedWasSeen, WaitingIsNamed, Waiting, Presses
<1> QED BY <1>3, <1>4, <1>5 DEF SignalsFit

\* Report: what the process has in hand is what the file holds, with one occurrence more.
LEMMA ReportFits ==
    ASSUME ReportsDontOverlap, NEW p \in Reporters, SignalInv, Report(p) PROVE SignalsFit'
<1>1. PICK k \in SignalKeys : \E i \in StoredAs(k) : HasInHand(p, k, i)
  BY Zenon DEF Report, HasInHand, UpsertOf
<1>2. PICK i \in StoredAs(k) : HasInHand(p, k, i)
  BY <1>1
<1> DEFINE c == [UpsertOf(k, i) EXCEPT !.occurrences = @ + 1, !.happened = signal_clock + 1]
<1>3. /\ reporter' = [reporter EXCEPT ![p] = [stage |-> "save", id |-> i, copy |-> c]]
      /\ crossed_signals' = IF observer.stage # "none" THEN crossed_signals \cup {i} ELSE crossed_signals
  BY <1>2 DEF HasInHand
<1>4. i \in SignalIds /\ c.occurrences = signals[i].occurrences + 1
  <2>1. /\ reports < MaxReports /\ signal_clock + 1 \in Nat
    BY DEF Report, SignalInv, SignalsStored, SignalShape
  <2>2. /\ i \in SignalIds /\ UpsertOf(k, i) \in Signal /\ SignalsStored
        /\ UpsertOf(k, i).occurrences = signals[i].occurrences
        /\ UpsertOf(k, i).occurrences \in 0..reports
    BY <1>2, <2>1, StoredAsFits DEF SignalInv
  <2>3. c.occurrences = UpsertOf(k, i).occurrences + 1
    BY <2>1, <2>2, OneMoreFits
  <2> QED BY <2>2, <2>3
<1> HIDE DEF c
<1>5. /\ \A q \in Reporters : reporter[q].stage = "none"
      /\ UNCHANGED <<signals, last_reviewed, observation, observer, reported, shown, cut_signals>>
  BY DEF Report
<1>6. /\ reporter'[p].stage = "save" /\ reporter'[p].id = i /\ reporter'[p].copy = c
      /\ \A q \in Reporters : q # p => reporter'[q].stage = "none"
  BY <1>3, <1>5 DEF SignalInv, SignalsStored, SignalShape
<1>7. crossed_signals \subseteq crossed_signals' /\ (observer.stage # "none" => i \in crossed_signals')
  BY <1>3
<1>8. HandsFit'
  BY <1>4, <1>5, <1>6, <1>7 DEF HandsFit
<1>9. SeenFits' /\ ReviewedWasSeen'
  BY <1>5, <1>7 DEF SignalInv, SignalsFit, SeenFits, ReviewedWasSeen
<1>10. WaitingIsNamed'
  <2>1. \A j \in SignalIds : Waiting(j)' => Waiting(j)
    BY <1>5, <1>7 DEF Waiting, Presses
  <2> QED BY <1>5, <2>1 DEF SignalInv, SignalsFit, WaitingIsNamed, OpenItem
<1> QED BY <1>8, <1>9, <1>10 DEF SignalsFit

\* SaveReported: the file holds what the process has in hand.
LEMMA SaveReportedFits ==
    ASSUME NEW p \in Reporters, SignalInv, SaveReported(p) PROVE SignalsFit'
<1> DEFINE i == reporter[p].id  c == reporter[p].copy
<1>1. /\ reporter[p].stage = "save" /\ i \in SignalIds /\ c.state = "unresolved"
      /\ reporter[p] \in ReportRecord
  BY SignalConstantsOK DEF SaveReported, SignalInv, SignalsStored, SignalShape, ReportsFit,
     SignalIds
<1>2. /\ signals' = [signals EXCEPT ![i] = c] /\ reported' = [reported EXCEPT ![i] = @ + 1]
      /\ reporter' = [reporter EXCEPT ![p].stage = "refresh"]
      /\ crossed_signals' = IF observer.stage # "none" THEN crossed_signals \cup {i} ELSE crossed_signals
      /\ UNCHANGED <<last_reviewed, observation, observer, shown, cut_signals>>
  BY DEF SaveReported
<1>3. \A q \in Reporters : reporter[q].stage # "none" => q = p
  BY <1>1 DEF SignalInv, SignalsFit, HandsFit
<1>4. \A j \in SignalIds : /\ signals'[j] = IF j = i THEN c ELSE signals[j]
                           /\ reported'[j] = IF j = i THEN reported[i] + 1 ELSE reported[j]
  BY <1>2 DEF SignalInv, SignalsStored, SignalShape
<1>5. /\ reporter'[p].stage = "refresh" /\ reporter'[p].id = i /\ reporter'[p].copy = c
      /\ \A q \in Reporters : q # p => reporter'[q].stage = "none"
  BY <1>1, <1>2, <1>3 DEF SignalInv, SignalsStored, SignalShape, ReportRecord
<1>6. /\ crossed_signals \subseteq crossed_signals'
      /\ i \notin crossed_signals' => observer.stage = "none" /\ i \notin crossed_signals
  BY <1>2
<1>7. i \notin crossed_signals => c.occurrences = signals[i].occurrences + 1
  BY <1>1 DEF SignalInv, SignalsFit, HandsFit
<1> HIDE DEF i, c
<1>8. HandsFit'
  BY <1>1, <1>2, <1>4, <1>5, <1>6 DEF HandsFit
<1>9. SeenFits'
  <2>1. \A j \in SignalIds \ crossed_signals : signals[j].occurrences = reported[j]
    BY DEF SignalInv, SignalsFit, SeenFits
  <2>2. \A j \in SignalIds \ crossed_signals' : signals'[j].occurrences = reported'[j]
    BY <1>1, <1>4, <1>6, <1>7, <2>1
  <2>3. \A j \in observer.ids \ crossed_signals' :
          j \in SignalIds /\ j \notin crossed_signals /\ (observer.stage = "none" \/ reported'[j] = reported[j])
    BY <1>4, <1>6 DEF SignalInv, SignalsStored, SignalShape, ReviewUnderWay
  <2> QED BY <1>2, <2>2, <2>3 DEF SignalInv, SignalsFit, SeenFits
<1>10. ReviewedWasSeen'
  <2>1. \A j \in SignalIds : signals'[j].state = "reviewed" =>
          signals[j].state = "reviewed" /\ reported'[j] = reported[j]
    BY <1>1, <1>4
  <2> QED BY <1>2, <1>6, <2>1 DEF SignalInv, SignalsFit, ReviewedWasSeen
<1>11. WaitingIsNamed'
  <2> SUFFICES ASSUME NEW j \in SignalIds, Waiting(j)'
               PROVE  /\ OpenItem' /\ j \in observation'.names
                      /\ observer'.stage = "none" \/ (observer'.stage = "agent" /\ j \in observer'.ids)
    BY DEF WaitingIsNamed
  <2>1. j # i /\ \A q \in Reporters : reporter[q].stage # "none" => reporter[q].id # j
    BY <1>3, <1>5 DEF Waiting, i
  <2>2. Waiting(j)
    BY <1>2, <1>4, <1>6, <2>1 DEF Waiting, Presses
  <2> QED BY <1>2, <2>2 DEF SignalInv, SignalsFit, WaitingIsNamed, OpenItem
<1> QED BY <1>8, <1>9, <1>10, <1>11 DEF SignalsFit

\* An item that is refreshed is open and names what it is refreshed with.
LEMMA EnsuredIsOpen ==
    ASSUME NEW ids, observation' = EnsuredItem(ids) PROVE OpenItem' /\ observation'.names = ids
BY DEF EnsuredItem, OpenItem

\* RefreshItem: the signal in hand is named if it presses, and so is every other that waits.
LEMMA RefreshItemFits ==
    ASSUME NEW p \in Reporters, SignalInv, RefreshItem(p) PROVE SignalsFit'
<1> DEFINE i == reporter[p].id
<1>1. /\ reporter[p].stage = "refresh" /\ i \in SignalIds
  BY SignalConstantsOK DEF RefreshItem, SignalInv, SignalsStored, SignalShape, ReportsFit,
     SignalIds
<1>2. /\ observation' = IF Presses(reporter[p].copy) /\ ToName # {} THEN EnsuredItem(ToName) ELSE observation
      /\ crossed_signals' = IF observer.stage # "none" THEN crossed_signals \cup ToName ELSE crossed_signals
      /\ reporter' = [reporter EXCEPT ![p] = Silent]
      /\ UNCHANGED <<signals, last_reviewed, observer, reported, shown, cut_signals>>
  BY Zenon DEF RefreshItem
<1>3. \A q \in Reporters : reporter'[q].stage = "none" /\ (reporter[q].stage # "none" => q = p)
  BY <1>1, <1>2 DEF SignalInv, SignalsStored, SignalShape, SignalsFit, HandsFit, Silent
<1>4. crossed_signals \subseteq crossed_signals'
  BY <1>2
<1>5. HandsFit'
  BY <1>3 DEF HandsFit
<1>6. SeenFits' /\ ReviewedWasSeen'
  BY <1>2, <1>4 DEF SignalInv, SignalsFit, SeenFits, ReviewedWasSeen
<1>7. WaitingIsNamed'
  <2> SUFFICES ASSUME NEW j \in SignalIds, Waiting(j)'
               PROVE  /\ OpenItem' /\ j \in observation'.names
                      /\ observer'.stage = "none" \/ (observer'.stage = "agent" /\ j \in observer'.ids)
    BY DEF WaitingIsNamed
  <2>1. /\ j \notin crossed_signals \cup cut_signals /\ Presses(signals[j]) /\ shown[j] = 0
    BY <1>2, <1>4 DEF Waiting, Presses
  <2>2. CASE j # i
    <3>1. Waiting(j)
      BY <1>3, <2>1, <2>2 DEF Waiting
    <3>2. /\ OpenItem /\ j \in observation.names
          /\ observer.stage = "none" \/ (observer.stage = "agent" /\ j \in observer.ids)
      BY <3>1 DEF SignalInv, SignalsFit, WaitingIsNamed
    <3>3. CASE observation' = observation
      BY <1>2, <3>2, <3>3 DEF OpenItem
    <3>4. CASE observation' = EnsuredItem(ToName)
      BY <1>2, <3>1, <3>2, <3>4, WaitingInBatch, EnsuredIsOpen DEF SignalInv
    <3> QED BY <1>2, <3>3, <3>4
  <2>3. CASE j = i
    <3>1. observer.stage = "none" /\ reporter[p].copy = signals[j]
      BY <1>1, <2>1, <2>3 DEF SignalInv, SignalsFit, HandsFit
    <3>2. j \in ToName
      <4>1. j \in UnresolvedSignals
        BY <2>1 DEF Presses, UnresolvedSignals
      <4>2. j \notin last_reviewed
        BY <2>1 DEF SignalInv, SignalsStored, ObservationsFit
      <4> QED BY <2>1, <4>1, <4>2 DEF Batch, ToName
    <3>3. observation' = EnsuredItem(ToName)
      BY <1>2, <2>1, <3>1, <3>2
    <3> QED BY <1>2, <3>1, <3>2, <3>3, EnsuredIsOpen
  <2> QED BY <2>2, <2>3
<1> QED BY <1>5, <1>6, <1>7 DEF SignalsFit

\* ReporterDies: the signal it had in hand is cut off.
LEMMA ReporterDiesFits ==
    ASSUME NEW p \in Reporters, SignalInv, ReporterDies(p) PROVE SignalsFit'
<1>1. /\ reporter[p].stage # "none" /\ cut_signals' = cut_signals \cup {reporter[p].id}
      /\ reporter' = [reporter EXCEPT ![p] = Silent]
      /\ UNCHANGED <<signals, last_reviewed, observation, observer, reported, shown, crossed_signals>>
  BY DEF ReporterDies
<1>2. \A q \in Reporters : reporter'[q].stage = "none" /\ (reporter[q].stage # "none" => q = p)
  BY <1>1 DEF SignalInv, SignalsStored, SignalShape, SignalsFit, HandsFit, Silent
<1>3. HandsFit'
  BY <1>2 DEF HandsFit
<1>4. SeenFits' /\ ReviewedWasSeen'
  BY <1>1 DEF SignalInv, SignalsFit, SeenFits, ReviewedWasSeen
<1>5. WaitingIsNamed'
  <2>1. \A j \in SignalIds : Waiting(j)' => Waiting(j)
    BY <1>1, <1>2 DEF Waiting, Presses
  <2> QED BY <1>1, <2>1 DEF SignalInv, SignalsFit, WaitingIsNamed, OpenItem
<1> QED BY <1>3, <1>4, <1>5 DEF SignalsFit

\* ReviewBegins: it looks at every signal that waits.
LEMMA ReviewBeginsFits == ASSUME SignalInv, ReviewBegins PROVE SignalsFit'
<1> DEFINE waiting == observation.status \in {"pending", "in_progress"}
           pressing == {i \in Batch : Presses(signals[i])}
           item == IF waiting THEN observation ELSE EnsuredItem(pressing)
           named == item.names \cap UnresolvedSignals
           ids == IF named # {} THEN named ELSE Batch
           o == [NoObservation EXCEPT !.stage = "agent", !.ids = ids,
                     !.seen = [i \in SignalIds |-> IF i \in ids THEN signals[i].occurrences ELSE 0]]
           inHand == {reporter[p].id : p \in {q \in Reporters : reporter[q].stage # "none"}}
<1>1. /\ \/ ids = {} /\ observation' = [status |-> "completed", names |-> {}] /\ observer' = observer
         \/ observation' = [status |-> "in_progress", names |-> ids] /\ observer' = o
      /\ crossed_signals' = crossed_signals \cup inHand /\ observer.stage = "none"
      /\ UNCHANGED <<signals, last_reviewed, reporter, reported, shown, cut_signals>>
  BY Zenon DEF ReviewBegins
<1>2. \A j \in SignalIds : Waiting(j) => j \in ids
  <2> SUFFICES ASSUME NEW j \in SignalIds, Waiting(j) PROVE j \in named
    OBVIOUS
  <2>1. j \in Batch /\ j \in UnresolvedSignals /\ Presses(signals[j])
    BY WaitingInBatch, BatchFits DEF SignalInv, Waiting
  <2>2. CASE waiting
    BY <2>1, <2>2 DEF SignalInv, SignalsFit, WaitingIsNamed
  <2>3. CASE ~waiting
    <3>1. item.names = pressing
      BY <2>3 DEF EnsuredItem
    <3> QED BY <2>1, <3>1
  <2> QED BY <2>2, <2>3
<1>3. ids \subseteq SignalIds
  BY BatchFits
<1> HIDE DEF ids
<1>4. /\ o.stage = "agent" /\ o.ids = ids
      /\ \A i \in ids : o.seen[i] = signals[i].occurrences
  <2> DEFINE looked_at == [i \in SignalIds |-> IF i \in ids THEN signals[i].occurrences ELSE 0]
  <2>1. \A i \in ids : looked_at[i] = signals[i].occurrences
    BY <1>3
  <2>2. NoObservation \in ReviewUnderWay
    BY SignalConstantsOK DEF NoObservation, ReviewUnderWay, Attention, NoSignal, Signal
  <2> HIDE DEF looked_at
  <2>3. o.stage = "agent" /\ o.ids = ids /\ o.seen = looked_at
    BY <2>2 DEF ReviewUnderWay, looked_at
  <2> QED BY <2>1, <2>3
<1> HIDE DEF o
<1>5. /\ crossed_signals \subseteq crossed_signals'
      /\ \A p \in Reporters : reporter[p].stage # "none" => reporter[p].id \in crossed_signals'
  BY <1>1
<1>6. HandsFit'
  BY <1>1, <1>5 DEF SignalInv, SignalsFit, HandsFit
<1>7. SeenFits'
  <2>1. \A i \in SignalIds \ crossed_signals' : signals'[i].occurrences = reported'[i]
    BY <1>1, <1>5 DEF SignalInv, SignalsFit, SeenFits
  <2>2. CASE observer' = observer
    BY <1>1, <2>1, <2>2 DEF SeenFits
  <2>3. CASE observer' = o
    <3>1. \A i \in ids \ crossed_signals' : o.seen[i] >= reported[i]
      BY <1>1, <1>3, <1>4, <2>1 DEF SignalInv, SignalsStored, SignalShape
    <3> QED BY <1>1, <1>4, <2>1, <2>3, <3>1 DEF SeenFits
  <2> QED BY <1>1, <2>2, <2>3
<1>8. ReviewedWasSeen'
  BY <1>1, <1>5 DEF SignalInv, SignalsFit, ReviewedWasSeen
<1>9. WaitingIsNamed'
  <2>1. \A j \in SignalIds : Waiting(j)' => Waiting(j)
    BY <1>1, <1>5 DEF Waiting, Presses
  <2>2. \A j \in SignalIds : Waiting(j)' => j \in ids /\ ids # {}
    BY <1>2, <2>1
  <2> QED BY <1>1, <1>4, <2>2 DEF WaitingIsNamed, OpenItem
<1> QED BY <1>6, <1>7, <1>8, <1>9 DEF SignalsFit

\* ReviewFails and ObserverDies: what waits is still named by an open item.
LEMMA ReviewCutOff ==
    ASSUME SignalInv, ReviewFails \/ ObserverDies PROVE SignalsFit'
<1>1. /\ observer' = NoObservation /\ observer.stage # "none"
      /\ UNCHANGED <<signals, last_reviewed, reporter, reported, shown, crossed_signals, cut_signals>>
  BY DEF ReviewFails, ObserverDies, signal_history
<1>2. NoObservation.stage = "none" /\ NoObservation.ids = {}
  BY DEF NoObservation
<1>3. HandsFit' /\ SeenFits' /\ ReviewedWasSeen'
  BY <1>1, <1>2 DEF SignalInv, SignalsFit, HandsFit, SeenFits, ReviewedWasSeen
<1>4. WaitingIsNamed'
  <2> SUFFICES ASSUME NEW j \in SignalIds, Waiting(j)' PROVE OpenItem' /\ j \in observation'.names
    BY <1>1, <1>2 DEF WaitingIsNamed
  <2>1. Waiting(j)
    BY <1>1 DEF Waiting, Presses
  <2>2. OpenItem /\ j \in observation.names /\ j \in observer.ids
    BY <1>1, <2>1 DEF SignalInv, SignalsFit, WaitingIsNamed
  <2> QED BY <2>2 DEF ReviewFails, ObserverDies, OpenItem
<1> QED BY <1>3, <1>4 DEF SignalsFit

\* SaveResult: nothing waits any more.
LEMMA SaveResultFits == ASSUME SignalInv, SaveResult PROVE SignalsFit'
<1>1. /\ observer'.stage = "cursor" /\ observer'.ids = observer.ids /\ observer'.left = observer.ids
      /\ observer'.copies = signals /\ observer.stage = "agent"
      /\ UNCHANGED <<signals, last_reviewed, observation, reporter, reported, crossed_signals, cut_signals>>
      /\ \A i \in SignalIds : shown'[i] = IF i \in observer.ids THEN observer.seen[i] ELSE shown[i]
  BY ResultFits DEF SignalInv
<1>2. /\ observer.ids \subseteq SignalIds
      /\ \A i \in observer.ids : observer.seen[i] >= 1 /\ observer.seen[i] \in Nat
  BY <1>1 DEF SignalInv, SignalsStored, SignalShape, ReviewUnderWay, ObservationsFit
<1>3. \A i \in observer.ids \ crossed_signals :
        observer.seen[i] >= reported[i] /\ signals[i].occurrences = reported[i]
  BY <1>1, <1>2 DEF SignalInv, SignalsFit, SeenFits
<1>4. HandsFit'
  BY <1>1 DEF SignalInv, SignalsFit, HandsFit
<1>5. SeenFits'
  <2>1. \A i \in SignalIds \ crossed_signals : signals[i].occurrences = reported[i]
    BY DEF SignalInv, SignalsFit, SeenFits
  <2>2. \A i \in observer.ids \ crossed_signals : shown'[i] >= reported[i]
    BY <1>1, <1>2, <1>3
  <2> QED BY <1>1, <1>3, <2>1, <2>2 DEF SeenFits
<1>6. ReviewedWasSeen'
  <2>1. \A i \in SignalIds : signals[i].state = "reviewed" /\ i \notin crossed_signals => shown[i] >= reported[i]
    BY DEF SignalInv, SignalsFit, ReviewedWasSeen
  <2> QED BY <1>1, <1>3, <2>1 DEF ReviewedWasSeen
<1>7. WaitingIsNamed'
  <2>1. ASSUME NEW j \in SignalIds, Waiting(j)' PROVE FALSE
    <3>1. shown'[j] = 0
      BY <2>1 DEF Waiting
    <3>2. j \notin observer.ids /\ shown[j] = 0
      BY <1>1, <1>2, <3>1
    <3>3. Waiting(j)
      BY <1>1, <2>1, <3>2 DEF Waiting, Presses
    <3> QED BY <1>1, <3>2, <3>3 DEF SignalInv, SignalsFit, WaitingIsNamed
  <2> QED BY <2>1 DEF WaitingIsNamed
<1> QED BY <1>4, <1>5, <1>6, <1>7 DEF SignalsFit

\* SaveCursor changes no signal.
LEMMA SaveCursorFits == ASSUME SignalInv, SaveCursor PROVE SignalsFit'
<1>1. /\ observer.stage = "cursor" /\ observer' = [observer EXCEPT !.stage = "signals"]
      /\ UNCHANGED <<signals, observation, reporter, reported, shown, crossed_signals, cut_signals>>
  BY DEF SaveCursor, signal_history
<1>2. /\ observer'.stage = "signals" /\ observer'.ids = observer.ids
      /\ observer'.left = observer.left /\ observer'.copies = observer.copies
  BY <1>1 DEF SignalInv, SignalsStored, SignalShape, ReviewUnderWay
<1>3. HandsFit' /\ SeenFits' /\ ReviewedWasSeen'
  BY <1>1, <1>2 DEF SignalInv, SignalsFit, HandsFit, SeenFits, ReviewedWasSeen
<1>4. WaitingIsNamed'
  <2>1. \A j \in SignalIds : ~Waiting(j)
    BY <1>1 DEF SignalInv, SignalsFit, WaitingIsNamed
  <2>2. \A j \in SignalIds : Waiting(j)' => Waiting(j)
    BY <1>1 DEF Waiting, Presses
  <2> QED BY <2>1, <2>2 DEF WaitingIsNamed
<1> QED BY <1>3, <1>4 DEF SignalsFit

\* SaveSignal puts a signal aside when all there is of it has been seen.
LEMMA SaveSignalKeepsFit == ASSUME SignalInv, SaveSignal PROVE SignalsFit'
<1>1. observer.stage = "signals" /\ \E i \in observer.left, s \in Signal : Reviewed(i, s)
  BY SaveSignalFits DEF SignalInv
<1>2. PICK i \in observer.left, s \in Signal : Reviewed(i, s)
  BY <1>1
<1>3. UNCHANGED <<last_reviewed, observation, reporter, reported, shown, crossed_signals, cut_signals>>
  BY SaveSignalFits DEF SignalInv
<1>4. /\ i \in observer.ids /\ i \in SignalIds /\ shown[i] >= 1
      /\ s.occurrences = observer.copies[i].occurrences
  BY <1>1, <1>2 DEF Reviewed, SignalInv, SignalsStored, SignalShape, ReviewUnderWay, ObservationsFit
<1>5. /\ observer'.stage = "signals" /\ observer'.ids = observer.ids
      /\ observer'.left = observer.left \ {i} /\ observer'.copies = observer.copies
  BY <1>1, <1>2 DEF Reviewed, SignalInv, SignalsStored, SignalShape, ReviewUnderWay
<1>6. \A j \in SignalIds : signals'[j] = IF j = i THEN s ELSE signals[j]
  BY <1>2, <1>4 DEF Reviewed, SignalInv, SignalsStored, SignalShape
<1>7. i \notin crossed_signals => s.occurrences = reported[i] /\ shown[i] >= reported[i]
  BY <1>1, <1>2, <1>4 DEF SignalInv, SignalsFit, SeenFits
<1>8. HandsFit'
  <2>1. \A p \in Reporters : reporter[p].stage # "none" => reporter[p].id \in crossed_signals
    BY <1>1 DEF SignalInv, SignalsFit, HandsFit
  <2> QED BY <1>3, <2>1 DEF SignalInv, SignalsFit, HandsFit
<1>9. SeenFits'
  <2>1. \A j \in SignalIds \ crossed_signals : signals'[j].occurrences = reported[j]
    BY <1>6, <1>7 DEF SignalInv, SignalsFit, SeenFits
  <2> QED BY <1>1, <1>3, <1>5, <2>1 DEF SignalInv, SignalsFit, SeenFits
<1>10. ReviewedWasSeen'
  BY <1>3, <1>6, <1>7 DEF SignalInv, SignalsFit, ReviewedWasSeen
<1>11. WaitingIsNamed'
  <2>1. ASSUME NEW j \in SignalIds, Waiting(j)' PROVE FALSE
    <3>1. shown[j] = 0 /\ j # i
      BY <1>3, <1>4, <2>1 DEF Waiting
    <3>2. Waiting(j)
      BY <1>3, <1>6, <2>1, <3>1 DEF Waiting, Presses
    <3> QED BY <1>1, <3>2 DEF SignalInv, SignalsFit, WaitingIsNamed
  <2> QED BY <2>1 DEF WaitingIsNamed
<1> QED BY <1>8, <1>9, <1>10, <1>11 DEF SignalsFit

\* FinishItem: what has come to be named meanwhile was reported meanwhile.
LEMMA FinishItemFits == ASSUME SignalInv, FinishItem PROVE SignalsFit'
<1>1. /\ observer' = NoObservation /\ observer.stage = "signals"
      /\ UNCHANGED <<signals, last_reviewed, reporter, reported, shown, crossed_signals, cut_signals>>
  BY DEF FinishItem, signal_history
<1>2. NoObservation.stage = "none" /\ NoObservation.ids = {}
  BY DEF NoObservation
<1>3. HandsFit' /\ SeenFits' /\ ReviewedWasSeen'
  BY <1>1, <1>2 DEF SignalInv, SignalsFit, HandsFit, SeenFits, ReviewedWasSeen
<1>4. WaitingIsNamed'
  <2>1. \A j \in SignalIds : ~Waiting(j)
    BY <1>1 DEF SignalInv, SignalsFit, WaitingIsNamed
  <2>2. \A j \in SignalIds : Waiting(j)' => Waiting(j)
    BY <1>1 DEF Waiting, Presses
  <2> QED BY <2>1, <2>2 DEF WaitingIsNamed
<1> QED BY <1>3, <1>4 DEF SignalsFit

\* Whatever happens, with reports that do not overlap.
LEMMA SignalsKept ==
    ASSUME ReportsDontOverlap, SignalInv, [SignalNext]_signal_vars PROVE SignalInv'
<1>1. SignalsStored'
  BY StoredKept DEF SignalInv
<1>2. CASE UNCHANGED signal_vars
  BY <1>2 DEF signal_vars, SignalInv, SignalsFit, SignalsStored, HandsFit, SeenFits,
     ReviewedWasSeen,
              WaitingIsNamed, Waiting, Presses, OpenItem, SignalShape, ReportsFit, ObservationsFit
<1>3. CASE SignalNext
  <2>1. SignalsFit'
    BY <1>3, ReportFits, SaveReportedFits, RefreshItemFits, ReporterDiesFits, ReviewBeginsFits,
       ReviewCutOff, SaveResultFits, SaveCursorFits, SaveSignalKeepsFit, FinishItemFits DEF SignalNext
  <2> QED BY <1>1, <2>1 DEF SignalInv
<1> QED BY <1>2, <1>3

\* No signal goes by: what presses is named for a review, and nothing is put aside that
\* no review has looked at, while reports do not overlap each other or a review.
THEOREM SignalsAreReviewed ==
    ASSUME ReportsDontOverlap PROVE SignalSpec => []NoSignalGoesBy
<1>1. SignalInit => SignalInv
  BY SignalsStart, SignalsFitStart DEF SignalInv
<1>2. SignalInv /\ [SignalNext]_signal_vars => SignalInv'
  BY SignalsKept
<1>3. SignalInv => NoSignalGoesBy
  <2> SUFFICES ASSUME SignalInv PROVE PressureIsNamed
    BY DEF SignalInv, SignalsFit, NoSignalGoesBy
  <2>1. \A i \in SignalIds \ crossed_signals : signals[i].occurrences = reported[i]
    BY DEF SignalInv, SignalsFit, SeenFits
  <2> QED BY <2>1 DEF PressureIsNamed, SignalInv, SignalsFit, WaitingIsNamed, Waiting, Presses, UnresolvedSignals
<1> QED BY <1>1, <1>2, <1>3, PTL DEF SignalSpec

------------------------------------------------------------------------------
(* The run: the parts side by side.                                        *)

\* A step of the run moves one part, and the parts it does not move stand still.
LEMMA ConversationPartSteps ==
    ConversationNext =>
      /\ [InboundNext]_inbound_vars /\ [PipelineNext]_pipeline_vars /\ [HeldNext]_held_vars
      /\ [SignalNext]_signal_vars /\ [BotNext]_bot_vars /\ [AccountNext]_account_vars
BY DEF ConversationNext

\* What a run may do is what each of the parts may do, so every theorem about a part holds
\* of the run.
THEOREM ConversationKeepsParts ==
    ConversationSpec => /\ InboundSpec /\ PipelineSpec /\ HeldSpec
                        /\ SignalSpec /\ BotSpec /\ AccountSpec
<1> DEFINE all == <<inbound_vars, pipeline_vars, held_vars, signal_vars, bot_vars,
                    account_vars, part>>
<1>1. ConversationInit => /\ InboundInit /\ PipelineInit /\ HeldInit
                          /\ SignalInit /\ BotInit /\ AccountInit
  BY DEF ConversationInit
<1>2. [ConversationNext]_all =>
        /\ [InboundNext]_inbound_vars /\ [PipelineNext]_pipeline_vars /\ [HeldNext]_held_vars
        /\ [SignalNext]_signal_vars /\ [BotNext]_bot_vars /\ [AccountNext]_account_vars
  BY ConversationPartSteps
<1> QED
  BY <1>1, <1>2, PTL DEF ConversationSpec, InboundSpec, PipelineSpec, HeldSpec, SignalSpec,
                         BotSpec, AccountSpec

\* Whichever part a run explores, its files, its processes and its counters keep their types.
THEOREM ConversationTypes == ConversationSpec => []ConversationTypeOK
<1>1. InboundTypeOK /\ PipelineTypeOK /\ HeldTypeOK /\ SignalTypeOK /\ BotTypeOK /\ AccountTypeOK
        => ConversationTypeOK
  BY DEF ConversationTypeOK
<1> QED
  BY <1>1, ConversationKeepsParts, ListenerTypes, PipelineTypes, HeldTypes, SignalTypes,
     TurnsSurvive, RegistryTypes, PTL

\* What the run checks of small instances holds of all of them: the promises of the listener,
\* of the pipeline, of held replies, of signals, of the bot and of the accounts, together.
THEOREM ConversationPromises ==
    ASSUME WakeupFits, ReportsDontOverlap
    PROVE  ConversationSpec => /\ [](AnswersRecognised /\ RepetitionsAreHarmless)
                               /\ [](ReadyLeadIsCarried /\ RepliesAreWelcome)
                               /\ []OperatorIsObeyed /\ DecisionsStand /\ []NoSignalGoesBy
                               /\ []TurnsSurviveTrouble /\ []RegistryKeepsAccounts
BY ConversationKeepsParts, AnswersAreRecognised, RepetitionsStayHarmless, LeadsAreCarried,
   RepliesStayWelcome, OperatorAlwaysObeyed, DecisionsAlwaysStand, SignalsAreReviewed, TurnsSurvive,
   RegistryIsKept, PTL
==============================================================================
