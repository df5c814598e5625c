---------------------------- MODULE CampaignProofs ----------------------------
(***************************************************************************)
(* What holds of a campaign's plans, of its compiled intents, of the       *)
(* alerts about it and of the policy file for any schedules, advice,       *)
(* clerks, proposals, troubles, refreshes, answers, workers and orders;    *)
(* and that the run which puts these parts and the prepared execution side *)
(* by side keeps each part's promises.                                     *)
(*                                                                         *)
(* Intents: two clerks never have the same task or record in hand, so the  *)
(* only way a record loses the status its effect gave it is a save over    *)
(* another; and an action that came of a place in a task uses up the one   *)
(* passage, first or repeated, in which its clerk was at that place.       *)
(*                                                                         *)
(* Alerts: times decide what is still to be delivered, so the invariant    *)
(* says how they are ordered: none is later than the clock, and no         *)
(* delivery has the time of a refresh that is still to be saved.  A        *)
(* refresh alone always carries the state on file, and announces it.       *)
(*                                                                         *)
(* Planning: the program decides which draft the operator is shown, and    *)
(* whether one was approved, by comparing times.  The invariant says that  *)
(* no two drafts have the same time and no approval the time of a draft,   *)
(* that the bot's agent works on open work, that only an approval          *)
(* completes work, and that a finished step has opened the next one.       *)
(*                                                                         *)
(* Policy file: a process that has read an entry before another replaced   *)
(* it has it among those it missed, and overtakes it by writing; what the  *)
(* others are about to write agrees with the last word.  A worker that has *)
(* found an entry unpaused has its one send after a pause still to come.   *)
(***************************************************************************)
EXTENDS MCCampaign, PreparedExecutionProofs, FiniteSetTheorems, WellFoundedInduction, TLAPS

------------------------------------------------------------------------------
(* Compiled intents: the inductive invariant.                              *)

DeskStage == {"rest", "compile", "read", "write", "apply", "enqueue"}
Storage == [IntentIds -> IntentStatuses]
DeskRecord ==
    [stage : DeskStage, task : 0..MaxTasks, batch : Seq(Proposals), at : Nat, id : 0..MaxIntents,
     status : IntentStatuses, read : Storage \cup {<<>>}]

IntentShape ==
    /\ intent_file \in Storage /\ desk \in [Clerks -> DeskRecord]
    /\ issued \in 0..MaxIntents /\ given \in 0..MaxTasks /\ troubles \in 0..MaxTroubles
    /\ repeats \in [1..MaxTasks -> Nat]
    /\ work \in {"none", "pending", "in_progress", "review_pending"}
    /\ effects \subseteq 1..issued /\ overwritten \in BOOLEAN

\* A clerk has a record in hand.
InHand(c) == desk[c].stage \in {"read", "write", "apply", "enqueue"}

DeskFits(c) ==
    /\ desk[c].at <= Len(desk[c].batch)
    /\ desk[c].stage # "rest" => desk[c].task \in 1..given
    /\ InHand(c) => desk[c].at # 0 /\ desk[c].id \in 1..issued
    /\ desk[c].stage = "write" => desk[c].read \in Storage
    /\ desk[c].stage = "enqueue" => Proposal(c).kind \in Enqueuing

\* No two clerks have the same record in hand, or the same task.
OwnRecords ==
    \A c, d \in Clerks :
      c # d => /\ InHand(c) /\ InHand(d) => desk[c].id # desk[d].id
               /\ desk[c].stage # "rest" /\ desk[d].stage # "rest" => desk[c].task # desk[d].task

\* A record in hand that has had its effect will be saved as applied, and one that is about
\* to have it is on file as accepted.
AppliedInHand ==
    \A c \in Clerks :
      /\ InHand(c) /\ desk[c].id \in effects => desk[c].status = "applied"
      /\ desk[c].stage \in {"apply", "enqueue"} =>
           /\ desk[c].status = "accepted"
           /\ overwritten \/ intent_file[desk[c].id] = "accepted"

\* The actions that came of the proposal at a place of a task.
Copies(t, k) == {o \in enqueued : o.task = t /\ o.at = k}

\* A clerk has still to come to that place, or to queue what is proposed there.
Ahead(c, t, k) ==
    /\ desk[c].stage # "rest" /\ desk[c].task = t
    /\ \/ desk[c].at < k
       \/ desk[c].at = k /\ InHand(c) /\ desk[c].status \in {"proposed", "accepted"}
SpareCopy(t, k) == IF \E c \in Clerks : Ahead(c, t, k) THEN 0 ELSE 1

EnqueuedFit ==
    /\ IsFiniteSet(enqueued)
    /\ \A o \in enqueued :
         /\ o.task \in 1..given /\ o.at \in Nat \ {0}
         /\ o.proposal.key # "none" => o.key = <<"given", 0>>
         /\ o.proposal.key = "none" /\ o.proposal.kind = "enqueue_low_risk"
              => o.key = <<"payload", 0>>
    /\ \A a, o \in enqueued : a.key = o.key => a = o
SameProposal ==
    /\ \A a, o \in enqueued : a.task = o.task /\ a.at = o.at => a.proposal = o.proposal
    /\ \A c \in Clerks, o \in enqueued :
         desk[c].stage # "rest" /\ desk[c].task = o.task => o.proposal = desk[c].batch[o.at]
CopiesFit ==
    \A t \in 1..given, k \in Nat \ {0} :
      Cardinality(Copies(t, k)) <= repeats[t] + SpareCopy(t, k)

IntentInv ==
    /\ IntentShape /\ (\A c \in Clerks : DeskFits(c)) /\ OwnRecords /\ AppliedInHand
    /\ EffectIsOnRecord /\ EnqueuedFit /\ SameProposal /\ CopiesFit

------------------------------------------------------------------------------
(* The steps.                                                              *)

\* One clerk moves.
Moves(c, r) == r \in DeskRecord /\ desk' = [desk EXCEPT ![c] = r]

\* The other clerks stay where they are.
LEMMA MoveMeans ==
    ASSUME IntentShape, NEW c \in Clerks, NEW r, Moves(c, r)
    PROVE  /\ desk' \in [Clerks -> DeskRecord] /\ desk'[c] = r
           /\ \A d \in Clerks \ {c} : desk'[d] = desk[d]
BY DEF Moves, IntentShape

\* The copies of a proposal are finitely many.
LEMMA CopiesCount ==
    ASSUME EnqueuedFit, NEW t, NEW k
    PROVE  IsFiniteSet(Copies(t, k)) /\ Cardinality(Copies(t, k)) \in Nat
<1>1. Copies(t, k) \subseteq enqueued
  BY DEF Copies
<1> QED BY <1>1, FS_Subset, FS_CardinalityType DEF EnqueuedFit

\* While nothing is queued and no clerk gets ahead of a place again, the copies fit.
LEMMA CopiesKeep ==
    ASSUME IntentInv, enqueued' = enqueued, repeats' = repeats, given' = given,
           \A c \in Clerks, t \in 1..given, k \in Nat \ {0} : Ahead(c, t, k)' => Ahead(c, t, k)
    PROVE  CopiesFit'
<1> SUFFICES ASSUME NEW t \in 1..given, NEW k \in Nat \ {0}
             PROVE  Cardinality(Copies(t, k)) <= repeats[t] + SpareCopy(t, k)'
  BY DEF CopiesFit, Copies
<1>1. Cardinality(Copies(t, k)) <= repeats[t] + SpareCopy(t, k)
  BY DEF IntentInv, CopiesFit
<1>2. Cardinality(Copies(t, k)) \in Nat
  BY CopiesCount DEF IntentInv
<1>3. repeats[t] \in Nat
  BY IntentConstantsOK DEF IntentInv, IntentShape
<1>4. SpareCopy(t, k) = 0 \/ (SpareCopy(t, k) = 1 /\ SpareCopy(t, k)' = 1)
  BY DEF SpareCopy
<1>5. SpareCopy(t, k)' \in {0, 1}
  BY DEF SpareCopy
<1> QED BY <1>1, <1>2, <1>3, <1>4, <1>5

\* A task is taken, given up or begun anew, and a record is made: no record is in hand that
\* was not before, except the new one.
LEMMA EmptyHandKeeps ==
    ASSUME IntentInv, NEW c \in Clerks, NEW r, Moves(c, r), r.stage \in {"rest", "compile"},
           r.at <= Len(r.batch), given' \in 0..MaxTasks, given <= given',
           r.stage = "compile" => \/ r.task = given' /\ given' = given + 1
                                  \/ r.task = desk[c].task /\ desk[c].stage # "rest",
           UNCHANGED <<intent_file, issued, work, enqueued, effects, overwritten>>
    PROVE  /\ \A d \in Clerks : DeskFits(d)'
           /\ OwnRecords' /\ AppliedInHand' /\ EffectIsOnRecord' /\ EnqueuedFit'
<1>1. /\ desk' \in [Clerks -> DeskRecord] /\ desk'[c] = r
      /\ \A d \in Clerks \ {c} : desk'[d] = desk[d]
  BY MoveMeans DEF IntentInv
<1>2. /\ intent_file' = intent_file /\ issued' = issued /\ enqueued' = enqueued
      /\ effects' = effects /\ overwritten' = overwritten
  OBVIOUS
<1>3. given \in Nat /\ given' \in Nat /\ 1..given \subseteq 1..given'
  BY IntentConstantsOK DEF IntentInv, IntentShape
<1>4. /\ ~InHand(c)' /\ \A d \in Clerks \ {c} : InHand(d)' <=> InHand(d)
      /\ \A d \in Clerks \ {c} : Proposal(d)' = Proposal(d)
  BY <1>1 DEF InHand, Proposal
<1>5. r.stage = "compile" => r.task \in 1..given'
  BY <1>3 DEF IntentInv, DeskFits
<1>6. ASSUME NEW d \in Clerks PROVE DeskFits(d)'
  <2>1. CASE d = c
    BY <1>1, <1>4, <1>5, <2>1 DEF DeskFits, InHand
  <2>2. CASE d # c
    BY <1>1, <1>2, <1>3, <1>4, <2>2 DEF IntentInv, DeskFits
  <2> QED BY <2>1, <2>2
<1>7. OwnRecords'
  <2>1. \A d \in Clerks \ {c} : desk[d].stage # "rest" /\ r.stage # "rest" => desk[d].task # r.task
    <3> SUFFICES ASSUME NEW d \in Clerks \ {c}, desk[d].stage # "rest", r.stage = "compile"
                 PROVE  desk[d].task # r.task
      OBVIOUS
    <3>1. desk[d].task \in 1..given
      BY DEF IntentInv, DeskFits
    <3>2. CASE r.task = given + 1
      BY <1>3, <3>1, <3>2
    <3>3. CASE r.task = desk[c].task /\ desk[c].stage # "rest"
      BY <3>3 DEF IntentInv, OwnRecords
    <3> QED BY <3>2, <3>3
  <2> QED BY <1>1, <1>4, <2>1 DEF IntentInv, OwnRecords
<1>8. AppliedInHand'
  BY <1>1, <1>2, <1>4 DEF IntentInv, AppliedInHand, InHand
<1>9. EffectIsOnRecord'
  BY <1>2 DEF IntentInv, EffectIsOnRecord
<1>10. EnqueuedFit'
  BY <1>2, <1>3 DEF IntentInv, EnqueuedFit
<1> QED BY <1>6, <1>7, <1>8, <1>9, <1>10

\* A clerk at rest is one of the shapes of a desk.
LEMMA RestFits ==
    /\ AtRest \in DeskRecord /\ AtRest.stage = "rest" /\ AtRest.at = 0 /\ AtRest.batch = <<>>
<1>1. AtRest = [stage |-> "rest", task |-> 0, batch |-> <<>>, at |-> 0, id |-> 0,
                status |-> "absent", read |-> <<>>]
  BY DEF AtRest
<1>2. <<>> \in Seq(Proposals) /\ 0 \in 0..MaxTasks /\ 0 \in 0..MaxIntents
  BY IntentConstantsOK
<1> QED BY <1>1, <1>2 DEF DeskRecord, DeskStage, IntentStatuses

\* A task at its beginning.
Fresh(t, b) == [AtRest EXCEPT !.stage = "compile", !.task = t, !.batch = b]

\* So is one that has just been given a task.
LEMMA FreshFits ==
    ASSUME NEW t \in 0..MaxTasks, NEW b \in Seq(Proposals)
    PROVE  /\ Fresh(t, b) \in DeskRecord /\ Fresh(t, b).stage = "compile"
           /\ Fresh(t, b).task = t /\ Fresh(t, b).batch = b /\ Fresh(t, b).at = 0
<1>1. AtRest \in DeskRecord /\ AtRest.at = 0
  BY RestFits
<1> QED BY <1>1 DEF DeskRecord, DeskStage, Fresh

\* A new task has no actions yet, so every place in it may still bring one.
LEMMA TakeKeeps ==
    ASSUME IntentInv, NEW c \in Clerks, TakeTask(c)
    PROVE  IntentInv'
<1>1. /\ UNCHANGED <<intent_file, issued, repeats, troubles, overwritten, recurring, work, notes,
                     enqueued, effects>>
      /\ desk[c].stage = "rest" /\ given < MaxTasks /\ given' = given + 1
  BY DEF TakeTask, runtime_vars
<1>2. given \in Nat /\ given' \in 0..MaxTasks /\ given <= given'
  BY <1>1, IntentConstantsOK DEF IntentInv, IntentShape
<1>3. PICK b \in Batches[c] :
        desk' = [desk EXCEPT ![c] = [AtRest EXCEPT !.stage = "compile", !.task = given + 1,
                                                   !.batch = b]]
  BY DEF TakeTask
<1>4. b \in Seq(Proposals)
  BY IntentConstantsOK
<1> DEFINE r == Fresh(given + 1, b)
<1>5. r \in DeskRecord /\ r.stage = "compile" /\ r.task = given' /\ r.batch = b /\ r.at = 0
  <2>1. given + 1 \in 0..MaxTasks /\ given' = given + 1
    BY <1>1, <1>2
  <2> QED BY <2>1, <1>4, FreshFits, Zenon
<1>6. Moves(c, r)
  BY <1>3, <1>5 DEF Moves, Fresh
<1> HIDE DEF r
<1>7. /\ desk' \in [Clerks -> DeskRecord] /\ desk'[c] = r
      /\ \A d \in Clerks \ {c} : desk'[d] = desk[d]
  BY <1>6, MoveMeans DEF IntentInv
<1>8. /\ \A d \in Clerks : DeskFits(d)'
      /\ OwnRecords' /\ AppliedInHand' /\ EffectIsOnRecord' /\ EnqueuedFit'
  <2>1. r.at <= Len(r.batch)
    BY <1>4, <1>5
  <2> QED BY <1>1, <1>2, <1>5, <1>6, <2>1, EmptyHandKeeps
<1>9. IntentShape'
  BY <1>1, <1>2, <1>7 DEF IntentInv, IntentShape
<1>10. \A o \in enqueued : o.task \in 1..given /\ o.task # given'
  BY <1>1, <1>2 DEF IntentInv, EnqueuedFit
<1>11. SameProposal'
  BY <1>1, <1>5, <1>7, <1>10 DEF IntentInv, SameProposal
<1>12. CopiesFit'
  <2> SUFFICES ASSUME NEW t \in 1..given', NEW k \in Nat \ {0}
               PROVE  Cardinality(Copies(t, k)) <= repeats[t] + SpareCopy(t, k)'
    BY <1>1 DEF CopiesFit, Copies
  <2>1. CASE t = given'
    <3>1. Copies(t, k) = {}
      BY <1>10, <2>1 DEF Copies
    <3>2. Cardinality(Copies(t, k)) = 0
      BY <3>1, FS_EmptySet
    <3>3. SpareCopy(t, k)' \in {0, 1} /\ repeats[t] \in Nat
      <4>1. t \in 1..MaxTasks
        BY <1>1, <1>2, <2>1
      <4> QED BY <4>1 DEF SpareCopy, IntentInv, IntentShape
    <3> QED BY <3>2, <3>3
  <2>2. CASE t # given'
    <3>1. t \in 1..given
      BY <1>1, <1>2, <2>2
    <3>2. Cardinality(Copies(t, k)) <= repeats[t] + SpareCopy(t, k)
      BY <3>1 DEF IntentInv, CopiesFit
    <3>3. \A d \in Clerks : Ahead(d, t, k)' <=> Ahead(d, t, k)
      <4>1. ~Ahead(c, t, k)' /\ ~Ahead(c, t, k)
        BY <1>1, <1>5, <1>7, <2>2 DEF Ahead
      <4>2. \A d \in Clerks \ {c} : Ahead(d, t, k)' <=> Ahead(d, t, k)
        BY <1>7 DEF Ahead, InHand
      <4> QED BY <4>1, <4>2
    <3>4. SpareCopy(t, k)' = SpareCopy(t, k)
      BY <3>3 DEF SpareCopy
    <3> QED BY <3>2, <3>4
  <2> QED BY <2>1, <2>2
<1> QED BY <1>8, <1>9, <1>11, <1>12 DEF IntentInv

\* A task is given up when all of it has been seen.
LEMMA AnswerKeeps ==
    ASSUME IntentInv, NEW c \in Clerks, Answer(c)
    PROVE  IntentInv'
<1>1. UNCHANGED <<intent_file, issued, given, repeats, troubles, overwritten, recurring, work, notes,
                  enqueued, effects>>
  BY DEF Answer, runtime_vars, task_vars
<1>2. Moves(c, AtRest) /\ AtRest.stage = "rest" /\ AtRest.at <= Len(AtRest.batch)
  BY RestFits DEF Moves, Answer
<1>3. /\ desk' \in [Clerks -> DeskRecord] /\ desk'[c] = AtRest
      /\ \A d \in Clerks \ {c} : desk'[d] = desk[d]
  BY <1>2, MoveMeans DEF IntentInv
<1>4. given \in Nat /\ given' \in 0..MaxTasks /\ given <= given'
  BY <1>1, IntentConstantsOK DEF IntentInv, IntentShape
<1>5. /\ \A d \in Clerks : DeskFits(d)'
      /\ OwnRecords' /\ AppliedInHand' /\ EffectIsOnRecord' /\ EnqueuedFit'
  BY <1>1, <1>2, <1>4, EmptyHandKeeps
<1>6. IntentShape'
  BY <1>1, <1>3 DEF IntentInv, IntentShape
<1>7. SameProposal'
  BY <1>1, <1>2, <1>3 DEF IntentInv, SameProposal
<1>8. CopiesFit'
  <2>1. \A d \in Clerks, t \in 1..given, k \in Nat \ {0} : Ahead(d, t, k)' => Ahead(d, t, k)
    BY <1>2, <1>3 DEF Ahead, InHand
  <2> QED BY <1>1, <2>1, CopiesKeep
<1> QED BY <1>5, <1>6, <1>7, <1>8 DEF IntentInv

\* A task begun anew may bring one more copy of each of its proposals.
LEMMA TroubleKeeps ==
    ASSUME IntentInv, NEW c \in Clerks, Trouble(c)
    PROVE  IntentInv'
<1> DEFINE r == Fresh(desk[c].task, desk[c].batch)
<1>1. /\ UNCHANGED <<intent_file, issued, given, overwritten, recurring, work, notes, enqueued,
                     effects>>
      /\ desk[c].stage # "rest" /\ troubles < MaxTroubles /\ troubles' = troubles + 1
      /\ repeats' = [repeats EXCEPT ![desk[c].task] = @ + 1]
      /\ desk' = [desk EXCEPT ![c] = r]
  BY DEF Trouble, runtime_vars, Fresh
<1>2. given \in Nat /\ given' \in 0..MaxTasks /\ given <= given' /\ troubles' \in 0..MaxTroubles
  BY <1>1, IntentConstantsOK DEF IntentInv, IntentShape
<1>3. desk[c] \in DeskRecord /\ desk[c].task \in 1..given
  BY <1>1 DEF IntentInv, IntentShape, DeskFits
<1>4. desk[c].batch \in Seq(Proposals) /\ desk[c].task \in 0..MaxTasks /\ desk[c].task \in 1..MaxTasks
  BY <1>1, <1>2, <1>3 DEF DeskRecord
<1>5. /\ r \in DeskRecord /\ r.stage = "compile" /\ r.task = desk[c].task
      /\ r.batch = desk[c].batch /\ r.at = 0
  <2>1. PICK t \in 0..MaxTasks, b \in Seq(Proposals) : t = desk[c].task /\ b = desk[c].batch
    BY <1>4
  <2>2. /\ Fresh(t, b) \in DeskRecord /\ Fresh(t, b).stage = "compile" /\ Fresh(t, b).task = t
        /\ Fresh(t, b).batch = b /\ Fresh(t, b).at = 0
    BY FreshFits
  <2> QED BY <2>1, <2>2
<1>6. Moves(c, r)
  BY <1>1, <1>5 DEF Moves
<1> HIDE DEF r
<1>7. /\ desk' \in [Clerks -> DeskRecord] /\ desk'[c] = r
      /\ \A d \in Clerks \ {c} : desk'[d] = desk[d]
  BY <1>6, MoveMeans DEF IntentInv
<1>8. /\ \A d \in Clerks : DeskFits(d)'
      /\ OwnRecords' /\ AppliedInHand' /\ EffectIsOnRecord' /\ EnqueuedFit'
  <2>1. r.at <= Len(r.batch)
    BY <1>4, <1>5
  <2> QED BY <1>1, <1>2, <1>5, <1>6, <2>1, EmptyHandKeeps
<1>9. /\ repeats' \in [1..MaxTasks -> Nat] /\ repeats'[desk[c].task] = repeats[desk[c].task] + 1
      /\ \A t \in 1..MaxTasks \ {desk[c].task} : repeats'[t] = repeats[t]
  BY <1>1, <1>4 DEF IntentInv, IntentShape
<1>10. IntentShape'
  BY <1>1, <1>2, <1>7, <1>9 DEF IntentInv, IntentShape
<1>11. SameProposal'
  BY <1>1, <1>5, <1>7 DEF IntentInv, SameProposal
<1>12. CopiesFit'
  <2> SUFFICES ASSUME NEW t \in 1..given, NEW k \in Nat \ {0}
               PROVE  Cardinality(Copies(t, k)) <= repeats'[t] + SpareCopy(t, k)'
    BY <1>1 DEF CopiesFit, Copies
  <2>1. Cardinality(Copies(t, k)) <= repeats[t] + SpareCopy(t, k)
    BY DEF IntentInv, CopiesFit
  <2>2. Cardinality(Copies(t, k)) \in Nat /\ repeats[t] \in Nat /\ t \in 1..MaxTasks
    <3>1. t \in 1..MaxTasks
      BY <1>1, <1>2, IntentConstantsOK
    <3> QED BY <3>1, CopiesCount DEF IntentInv, IntentShape
  <2>3. SpareCopy(t, k)' \in {0, 1} /\ SpareCopy(t, k) \in {0, 1}
    BY DEF SpareCopy
  <2>4. CASE t = desk[c].task
    BY <1>9, <2>1, <2>2, <2>3, <2>4
  <2>5. CASE t # desk[c].task
    <3>1. \A d \in Clerks : Ahead(d, t, k)' => Ahead(d, t, k)
      BY <1>5, <1>7, <2>5 DEF Ahead, InHand
    <3>2. SpareCopy(t, k) = 0 \/ SpareCopy(t, k)' = 1
      BY <3>1 DEF SpareCopy
    <3> QED BY <1>9, <2>1, <2>2, <2>3, <2>5, <3>2
  <2> QED BY <2>4, <2>5
<1> QED BY <1>8, <1>10, <1>11, <1>12 DEF IntentInv

\* A clerk who goes on with its task disturbs neither what is queued nor the others' tasks.
OwnTasks ==
    \A c, d \in Clerks :
      c # d /\ desk[c].stage # "rest" /\ desk[d].stage # "rest" => desk[c].task # desk[d].task

GoesOn(c, r) ==
    /\ Moves(c, r) /\ desk[c].stage # "rest" /\ r.stage # "rest"
    /\ r.task = desk[c].task /\ r.batch = desk[c].batch /\ given' = given

\* A clerk that goes on keeps its task, and nobody else has it.
LEMMA GoingOn ==
    ASSUME IntentInv, NEW c \in Clerks, NEW r, GoesOn(c, r)
    PROVE  /\ OwnTasks' /\ OwnTasks
           /\ desk' \in [Clerks -> DeskRecord] /\ desk'[c] = r /\ desk[c] \in DeskRecord
           /\ \A d \in Clerks \ {c} : desk'[d] = desk[d]
           /\ enqueued' = enqueued => EnqueuedFit' /\ SameProposal'
<1>1. /\ desk' \in [Clerks -> DeskRecord] /\ desk'[c] = r
      /\ \A d \in Clerks \ {c} : desk'[d] = desk[d]
  BY MoveMeans DEF GoesOn, IntentInv
<1>2. \A d \in Clerks : /\ desk'[d].task = desk[d].task /\ desk'[d].batch = desk[d].batch
                        /\ desk'[d].stage # "rest" <=> desk[d].stage # "rest"
  BY <1>1 DEF GoesOn
<1>3. OwnTasks
  BY DEF IntentInv, OwnRecords, OwnTasks
<1>4. OwnTasks'
  BY <1>2, <1>3 DEF OwnTasks
<1>5. given' = given
  BY DEF GoesOn
<1>6. enqueued' = enqueued => EnqueuedFit' /\ SameProposal'
  BY <1>2, <1>5 DEF IntentInv, EnqueuedFit, SameProposal
<1> QED BY <1>1, <1>3, <1>4, <1>6 DEF IntentInv, IntentShape

\* The next proposal gets a record no other clerk can name.
LEMMA CompileKeeps ==
    ASSUME IntentInv, NEW c \in Clerks, Compile(c)
    PROVE  IntentInv'
<1> DEFINE r == [desk[c] EXCEPT !.stage = "write", !.at = @ + 1, !.id = issued + 1,
                                !.status = "proposed", !.read = intent_file]
<1>1. /\ intent_file' = intent_file /\ given' = given /\ repeats' = repeats
      /\ troubles' = troubles /\ overwritten' = overwritten /\ work' = work
      /\ enqueued' = enqueued /\ effects' = effects
      /\ desk[c].stage = "compile" /\ desk[c].at < Len(desk[c].batch) /\ issued < MaxIntents
      /\ issued' = issued + 1
  BY DEF Compile, runtime_vars
<1>2. issued \in Nat /\ issued' \in 0..MaxIntents /\ issued' # 0 /\ 1..issued \subseteq 1..issued'
      /\ issued' \notin 1..issued
  BY <1>1, IntentConstantsOK DEF IntentInv, IntentShape
<1>3. desk[c] \in DeskRecord /\ intent_file \in Storage
  BY DEF IntentInv, IntentShape
<1>4. /\ r \in DeskRecord /\ r.stage = "write" /\ r.at = desk[c].at + 1 /\ r.id = issued'
      /\ r.status = "proposed" /\ r.read = intent_file /\ r.task = desk[c].task
      /\ r.batch = desk[c].batch
  <2>1. desk[c].at \in Nat
    BY <1>3 DEF DeskRecord
  <2> DEFINE a == desk[c].at + 1
             i == issued + 1
  <2>2. a \in Nat /\ i \in 0..MaxIntents /\ issued' = i
    BY <1>1, <1>2, <2>1
  <2>3. r = [desk[c] EXCEPT !.stage = "write", !.at = a, !.id = i,
                            !.status = "proposed", !.read = intent_file]
    OBVIOUS
  <2> HIDE DEF r, a, i
  <2>4. /\ r \in DeskRecord /\ r.stage = "write" /\ r.at = a /\ r.id = i
        /\ r.status = "proposed" /\ r.read = intent_file /\ r.task = desk[c].task
        /\ r.batch = desk[c].batch
    BY <1>3, <2>2, <2>3 DEF DeskRecord, DeskStage, IntentStatuses
  <2> QED BY <2>2, <2>4 DEF a
<1>5. Moves(c, r)
  BY <1>4 DEF Moves, Compile
<1> HIDE DEF r
<1>6. GoesOn(c, r)
  BY <1>1, <1>4, <1>5 DEF GoesOn
<1>7. /\ OwnTasks' /\ EnqueuedFit' /\ SameProposal'
      /\ desk' \in [Clerks -> DeskRecord] /\ desk'[c] = r
      /\ \A d \in Clerks \ {c} : desk'[d] = desk[d]
  BY <1>1, <1>6, GoingOn
<1>8. IntentShape'
  BY <1>1, <1>2, <1>7 DEF IntentInv, IntentShape
<1>9. \A d \in Clerks \ {c} : (InHand(d)' <=> InHand(d)) /\ Proposal(d)' = Proposal(d)
  BY <1>7 DEF InHand, Proposal
<1>10. ASSUME NEW d \in Clerks PROVE DeskFits(d)'
  <2>1. CASE d = c
    <3>1. r.at <= Len(r.batch) /\ r.at # 0
      BY <1>1, <1>3, <1>4 DEF DeskRecord
    <3>2. r.id \in 1..issued' /\ r.task \in 1..given'
      BY <1>1, <1>2, <1>4 DEF IntentInv, DeskFits
    <3> QED BY <1>1, <1>3, <1>4, <1>7, <2>1, <3>1, <3>2 DEF DeskFits
  <2>2. CASE d # c
    BY <1>1, <1>2, <1>7, <1>9, <2>2 DEF IntentInv, DeskFits
  <2> QED BY <2>1, <2>2
<1>11. \A d \in Clerks \ {c} : InHand(d) => desk[d].id # issued'
  BY <1>2 DEF IntentInv, DeskFits
<1>12. OwnRecords'
  BY <1>4, <1>7, <1>9, <1>11 DEF IntentInv, OwnRecords, OwnTasks
<1>13. issued' \notin effects
  BY <1>2 DEF IntentInv, IntentShape
<1>14. AppliedInHand'
  BY <1>1, <1>4, <1>7, <1>9, <1>13 DEF IntentInv, AppliedInHand
<1>15. EffectIsOnRecord'
  BY <1>1 DEF IntentInv, EffectIsOnRecord
<1>16. CopiesFit'
  <2>1. desk[c].at \in Nat
    BY <1>3 DEF DeskRecord
  <2>2. ASSUME NEW t \in 1..given, NEW k \in Nat \ {0}, Ahead(c, t, k)' PROVE Ahead(c, t, k)
    BY <1>1, <1>4, <1>7, <2>1, <2>2 DEF Ahead
  <2>3. \A d \in Clerks \ {c}, t \in 1..given, k \in Nat \ {0} : Ahead(d, t, k)' => Ahead(d, t, k)
    BY <1>7, <1>9 DEF Ahead
  <2> QED BY <1>1, <2>2, <2>3, CopiesKeep
<1> QED BY <1>8, <1>10, <1>7, <1>12, <1>14, <1>15, <1>16 DEF IntentInv

\* What happens to a record in hand that has no effect and queues nothing.
Handles(c, r) ==
    /\ GoesOn(c, r) /\ InHand(c) /\ r.at = desk[c].at /\ r.id = desk[c].id
    /\ r.status \in {"proposed", "accepted"} /\ r.stage # "compile"
         => desk[c].status \in {"proposed", "accepted"}
    /\ desk[c].id \in effects => r.stage = "compile" \/ r.status = "applied"
    /\ r.stage = "write" => r.read \in Storage
    /\ r.stage = "enqueue" => Proposal(c).kind \in Enqueuing
    /\ intent_file' \in Storage /\ overwritten' \in BOOLEAN
    /\ r.stage \in {"apply", "enqueue"}
         => r.status = "accepted" /\ (overwritten' \/ intent_file'[r.id] = "accepted")
    /\ \/ overwritten'
       \/ /\ ~overwritten
          /\ \A i \in IntentIds \ {desk[c].id} : intent_file'[i] = intent_file[i]
          /\ desk[c].id \in effects => intent_file'[desk[c].id] \in {"accepted", "applied"}
    /\ issued' = issued /\ repeats' = repeats /\ troubles' = troubles /\ work' = work
    /\ enqueued' = enqueued /\ effects' = effects

\* Whatever becomes of a record in hand, no action comes of it here.
LEMMA HandlingKeeps ==
    ASSUME IntentInv, NEW c \in Clerks, NEW r, Handles(c, r)
    PROVE  IntentInv'
<1>1. /\ GoesOn(c, r) /\ InHand(c) /\ r.at = desk[c].at /\ r.id = desk[c].id
      /\ intent_file' \in Storage /\ overwritten' \in BOOLEAN
      /\ issued' = issued /\ repeats' = repeats /\ troubles' = troubles /\ work' = work
      /\ enqueued' = enqueued /\ effects' = effects /\ given' = given
      /\ r.task = desk[c].task /\ r.batch = desk[c].batch /\ r.stage # "rest"
      /\ desk[c].stage # "rest"
  BY DEF Handles, GoesOn
<1>2. /\ OwnTasks' /\ EnqueuedFit' /\ SameProposal'
      /\ desk' \in [Clerks -> DeskRecord] /\ desk'[c] = r /\ desk[c] \in DeskRecord
      /\ \A d \in Clerks \ {c} : desk'[d] = desk[d]
  BY <1>1, GoingOn
<1>3. IntentShape'
  BY <1>1, <1>2 DEF IntentInv, IntentShape
<1>4. /\ \A d \in Clerks \ {c} : (InHand(d)' <=> InHand(d)) /\ Proposal(d)' = Proposal(d)
      /\ Proposal(c)' = Proposal(c)
  BY <1>1, <1>2 DEF InHand, Proposal
<1>5. ASSUME NEW d \in Clerks PROVE DeskFits(d)'
  <2>1. CASE d = c
    <3>1. /\ desk[c].at <= Len(desk[c].batch) /\ desk[c].task \in 1..given
          /\ desk[c].at # 0 /\ desk[c].id \in 1..issued
      BY <1>1 DEF IntentInv, DeskFits
    <3>2. /\ r.stage = "write" => r.read \in Storage
          /\ r.stage = "enqueue" => Proposal(c).kind \in Enqueuing
      BY DEF Handles
    <3> QED BY <1>1, <1>2, <1>4, <2>1, <3>1, <3>2 DEF DeskFits
  <2>2. CASE d # c
    BY <1>1, <1>2, <1>4, <2>2 DEF IntentInv, DeskFits
  <2> QED BY <2>1, <2>2
<1>6. \A d \in Clerks \ {c} : InHand(d) => desk[d].id # desk[c].id
  BY <1>1 DEF IntentInv, OwnRecords
<1>7. OwnRecords'
  BY <1>1, <1>2, <1>4, <1>6 DEF IntentInv, OwnRecords, OwnTasks
<1>8. \A d \in Clerks : InHand(d) => desk[d].id \in IntentIds
  BY IntentConstantsOK DEF IntentInv, DeskFits, IntentShape, IntentIds
<1>9. AppliedInHand'
  <2>1. ASSUME NEW d \in Clerks, d # c, desk[d].stage \in {"apply", "enqueue"}
        PROVE  overwritten' \/ intent_file'[desk[d].id] = "accepted"
    <3>1. InHand(d) /\ (overwritten \/ intent_file[desk[d].id] = "accepted")
      BY <2>1 DEF InHand, IntentInv, AppliedInHand
    <3>2. desk[d].id \in IntentIds \ {desk[c].id}
      BY <1>6, <1>8, <2>1, <3>1
    <3> QED BY <3>1, <3>2 DEF Handles
  <2>2. InHand(c)' /\ desk[c].id \in effects => r.status = "applied"
    BY <1>2 DEF Handles, InHand
  <2>3. r.stage \in {"apply", "enqueue"}
          => r.status = "accepted" /\ (overwritten' \/ intent_file'[r.id] = "accepted")
    BY DEF Handles
  <2> QED BY <1>1, <1>2, <1>4, <2>1, <2>2, <2>3 DEF IntentInv, AppliedInHand
<1>10. EffectIsOnRecord'
  <2> SUFFICES ASSUME ~overwritten', NEW i \in effects
               PROVE  intent_file'[i] \in {"accepted", "applied"}
    BY <1>1 DEF EffectIsOnRecord
  <2>1. /\ ~overwritten
        /\ \A j \in IntentIds \ {desk[c].id} : intent_file'[j] = intent_file[j]
        /\ desk[c].id \in effects => intent_file'[desk[c].id] \in {"accepted", "applied"}
    BY DEF Handles
  <2>2. i \in IntentIds /\ intent_file[i] \in {"accepted", "applied"}
    BY <2>1, IntentConstantsOK DEF IntentInv, IntentShape, IntentIds, EffectIsOnRecord
  <2> QED BY <2>1, <2>2
<1>11. CopiesFit'
  <2>1. ASSUME NEW t \in 1..given, NEW k \in Nat \ {0}, Ahead(c, t, k)' PROVE Ahead(c, t, k)
    <3>1. InHand(c)' => r.stage # "compile"
      BY <1>2 DEF InHand
    <3> QED BY <1>1, <1>2, <2>1, <3>1 DEF Ahead, Handles
  <2>2. \A d \in Clerks \ {c}, t \in 1..given, k \in Nat \ {0} : Ahead(d, t, k)' => Ahead(d, t, k)
    BY <1>2, <1>4 DEF Ahead
  <2> QED BY <1>1, <2>1, <2>2, CopiesKeep
<1> QED BY <1>2, <1>3, <1>5, <1>7, <1>9, <1>10, <1>11 DEF IntentInv

\* Reading the file changes only what the clerk knows of it.
LEMMA ReadKeeps ==
    ASSUME IntentInv, NEW c \in Clerks, ReadFile(c)
    PROVE  IntentInv'
<1> DEFINE r == [desk[c] EXCEPT !.stage = "write", !.read = intent_file]
<1>1. /\ UNCHANGED <<intent_file, issued, given, repeats, troubles, overwritten, recurring, work,
                     notes, enqueued, effects>>
      /\ desk[c].stage = "read" /\ desk' = [desk EXCEPT ![c] = r]
  BY DEF ReadFile, task_vars, runtime_vars
<1>2. desk[c] \in DeskRecord /\ intent_file \in Storage /\ overwritten \in BOOLEAN
  BY DEF IntentInv, IntentShape
<1>3. /\ r \in DeskRecord /\ r.stage = "write" /\ r.at = desk[c].at /\ r.id = desk[c].id
      /\ r.status = desk[c].status /\ r.read = intent_file /\ r.task = desk[c].task
      /\ r.batch = desk[c].batch
  BY <1>2 DEF DeskRecord, DeskStage
<1> HIDE DEF r
<1>4. InHand(c) /\ desk[c].id \in 1..issued
  BY <1>1 DEF InHand, IntentInv, DeskFits
<1>5. GoesOn(c, r)
  BY <1>1, <1>3 DEF GoesOn, Moves
<1>6. desk[c].id \in effects => desk[c].status = "applied"
  BY <1>4 DEF IntentInv, AppliedInHand
<1>7. overwritten \/ (desk[c].id \in effects => intent_file[desk[c].id] \in {"accepted", "applied"})
  BY DEF IntentInv, EffectIsOnRecord
<1>8. Handles(c, r)
  BY <1>1, <1>2, <1>3, <1>4, <1>5, <1>6, <1>7 DEF Handles
<1> QED BY <1>8, HandlingKeeps

\* A save replaces what was read before, with the status of one record changed.
LEMMA WriteKeeps ==
    ASSUME IntentInv, NEW c \in Clerks, WriteFile(c)
    PROVE  IntentInv'
<1> DEFINE next == AfterSave(c)
           r == [desk[c] EXCEPT !.stage = next.stage, !.status = next.status, !.read = <<>>]
           s == desk[c].status
<1>1. /\ UNCHANGED <<issued, given, repeats, troubles, recurring, work, notes, enqueued, effects>>
      /\ desk[c].stage = "write" /\ desk' = [desk EXCEPT ![c] = r]
      /\ intent_file' = [desk[c].read EXCEPT ![desk[c].id] = s]
      /\ overwritten' = (overwritten \/ intent_file # desk[c].read)
  BY DEF WriteFile, task_vars, runtime_vars
<1>2. desk[c] \in DeskRecord /\ intent_file \in Storage /\ overwritten \in BOOLEAN
  BY DEF IntentInv, IntentShape
<1>3. /\ next.stage \in {"read", "apply", "compile"} /\ next.status \in IntentStatuses
      /\ next.stage = "read" => s = "proposed" /\ next.status \in {"accepted", "rejected"}
      /\ next.stage = "apply" => s = "accepted" /\ next.status = "accepted"
      /\ s \notin {"proposed", "accepted"} => next.stage = "compile"
  <2>1. s \in IntentStatuses
    BY <1>2 DEF DeskRecord
  <2>2. CASE s = "proposed"
    <3>1. next = [stage |-> "read", status |-> IF Valid(Proposal(c)) THEN "accepted" ELSE "rejected"]
      BY <2>2 DEF AfterSave
    <3> QED BY <2>2, <3>1 DEF IntentStatuses
  <2>3. CASE s # "proposed" /\ s = "accepted" /\ ~ (c = "bot" /\ Proposal(c).kind \in Planning)
    <3>1. next = [stage |-> "apply", status |-> s]
      BY <2>3 DEF AfterSave
    <3> QED BY <2>3, <3>1 DEF IntentStatuses
  <2>4. CASE s # "proposed" /\ ~(s = "accepted" /\ ~ (c = "bot" /\ Proposal(c).kind \in Planning))
    <3>1. next = [stage |-> "compile", status |-> s]
      BY <2>4 DEF AfterSave
    <3> QED BY <2>1, <2>4, <3>1
  <2> QED BY <2>2, <2>3, <2>4
<1> HIDE DEF next
<1>4. /\ r \in DeskRecord /\ r.stage = next.stage /\ r.at = desk[c].at /\ r.id = desk[c].id
      /\ r.status = next.status /\ r.task = desk[c].task /\ r.batch = desk[c].batch
  BY <1>2, <1>3 DEF DeskRecord, DeskStage
<1> HIDE DEF r
<1>5. /\ InHand(c) /\ desk[c].id \in 1..issued /\ desk[c].id \in IntentIds /\ desk[c].read \in Storage
  BY <1>1, IntentConstantsOK DEF InHand, IntentInv, DeskFits, IntentShape, IntentIds
<1>6. GoesOn(c, r)
  BY <1>1, <1>3, <1>4 DEF GoesOn, Moves
<1>7. desk[c].id \in effects => s = "applied"
  BY <1>5 DEF IntentInv, AppliedInHand
<1>8. s \in IntentStatuses
  BY <1>2 DEF DeskRecord
<1>9. /\ intent_file' \in Storage /\ intent_file'[desk[c].id] = s
      /\ \A i \in IntentIds \ {desk[c].id} : intent_file'[i] = desk[c].read[i]
  BY <1>1, <1>5, <1>8 DEF Storage
<1>10. overwritten' \in BOOLEAN /\ (~overwritten' => ~overwritten /\ desk[c].read = intent_file)
  BY <1>1, <1>2
<1>11. /\ r.status \in {"proposed", "accepted"} /\ r.stage # "compile"
            => desk[c].status \in {"proposed", "accepted"}
       /\ desk[c].id \in effects => r.stage = "compile" \/ r.status = "applied"
       /\ r.stage # "write" /\ r.stage # "enqueue"
       /\ r.stage \in {"apply", "enqueue"} => r.status = "accepted" /\ intent_file'[r.id] = "accepted"
  BY <1>3, <1>4, <1>7, <1>9
<1>12. \/ overwritten'
       \/ /\ ~overwritten
          /\ \A i \in IntentIds \ {desk[c].id} : intent_file'[i] = intent_file[i]
          /\ desk[c].id \in effects => intent_file'[desk[c].id] \in {"accepted", "applied"}
  BY <1>7, <1>9, <1>10
<1>13. Handles(c, r)
  BY <1>1, <1>4, <1>5, <1>6, <1>9, <1>10, <1>11, <1>12 DEF Handles
<1> QED BY <1>13, HandlingKeeps

\* The policy answers, or the change is refused.
LEMMA RefusalKeeps ==
    ASSUME IntentInv, NEW c \in Clerks, desk[c].stage = "apply",
           \/ Blocked(c)
           \/ /\ desk' = [desk EXCEPT ![c].stage = "enqueue"] /\ Proposal(c).kind \in Enqueuing
              /\ UNCHANGED <<intent_file, overwritten>> /\ UNCHANGED task_vars
              /\ UNCHANGED runtime_vars
    PROVE  IntentInv'
<1>1. UNCHANGED <<intent_file, issued, given, repeats, troubles, overwritten, recurring, work, notes,
                  enqueued, effects>>
  BY DEF Blocked, task_vars, runtime_vars
<1>2. desk[c] \in DeskRecord /\ intent_file \in Storage /\ overwritten \in BOOLEAN
  BY DEF IntentInv, IntentShape
<1>3. InHand(c) /\ desk[c].id \in 1..issued
  BY DEF InHand, IntentInv, DeskFits
<1>4. /\ desk[c].status = "accepted" /\ desk[c].id \notin effects
      /\ overwritten \/ intent_file[desk[c].id] = "accepted"
  BY <1>3 DEF IntentInv, AppliedInHand
<1>5. CASE Blocked(c)
  <2> DEFINE r == [desk[c] EXCEPT !.stage = "read", !.status = "blocked"]
  <2>1. Moves(c, r) /\ r.stage = "read" /\ r.status = "blocked" /\ r.at = desk[c].at
        /\ r.id = desk[c].id /\ r.task = desk[c].task /\ r.batch = desk[c].batch
    BY <1>2, <1>5 DEF Blocked, Outcome, Moves, DeskRecord, DeskStage, IntentStatuses
  <2> HIDE DEF r
  <2>2. Handles(c, r)
    BY <1>1, <1>2, <1>3, <1>4, <2>1 DEF Handles, GoesOn
  <2> QED BY <2>2, HandlingKeeps
<1>6. CASE desk' = [desk EXCEPT ![c].stage = "enqueue"] /\ Proposal(c).kind \in Enqueuing
  <2> DEFINE r == [desk[c] EXCEPT !.stage = "enqueue"]
  <2>1. Moves(c, r) /\ r.stage = "enqueue" /\ r.status = "accepted" /\ r.at = desk[c].at
        /\ r.id = desk[c].id /\ r.task = desk[c].task /\ r.batch = desk[c].batch
    BY <1>2, <1>4, <1>6 DEF Moves, DeskRecord, DeskStage
  <2> HIDE DEF r
  <2>2. Handles(c, r)
    BY <1>1, <1>2, <1>3, <1>4, <1>6, <2>1 DEF Handles, GoesOn
  <2> QED BY <2>2, HandlingKeeps
<1> QED BY <1>5, <1>6

\* A change takes effect while the record is on file as accepted.
LEMMA EffectKeeps ==
    ASSUME IntentInv, NEW c \in Clerks, desk[c].stage \in {"apply", "enqueue"}, Done(c),
           work' \in {"none", "pending", "in_progress", "review_pending"}
    PROVE  /\ IntentShape' /\ (\A d \in Clerks : DeskFits(d)') /\ OwnRecords' /\ AppliedInHand'
           /\ EffectIsOnRecord' /\ OwnTasks /\ given' = given /\ repeats' = repeats
           /\ enqueued' = enqueued => EnqueuedFit' /\ SameProposal'
           /\ desk'[c].status = "applied" /\ desk'[c].at = desk[c].at /\ desk[c].at \in Nat \ {0}
           /\ \A d \in Clerks : /\ desk'[d].task = desk[d].task /\ desk'[d].batch = desk[d].batch
                                /\ desk'[d].stage # "rest" <=> desk[d].stage # "rest"
           /\ \A d \in Clerks \ {c} : desk'[d] = desk[d]
<1> DEFINE r == [desk[c] EXCEPT !.stage = "read", !.status = "applied"]
<1>1. /\ UNCHANGED <<intent_file, issued, given, repeats, troubles, overwritten>>
      /\ effects' = effects \cup {desk[c].id} /\ desk' = [desk EXCEPT ![c] = r]
  BY DEF Done, Outcome, task_vars
<1>2. desk[c] \in DeskRecord /\ intent_file \in Storage /\ overwritten \in BOOLEAN
  BY DEF IntentInv, IntentShape
<1>3. /\ r \in DeskRecord /\ r.stage = "read" /\ r.status = "applied" /\ r.at = desk[c].at
      /\ r.id = desk[c].id /\ r.task = desk[c].task /\ r.batch = desk[c].batch
  BY <1>2 DEF DeskRecord, DeskStage, IntentStatuses
<1> HIDE DEF r
<1>4. InHand(c) /\ desk[c].id \in 1..issued /\ desk[c].at # 0 /\ desk[c].at \in Nat
  BY <1>2 DEF InHand, IntentInv, DeskFits, DeskRecord
<1>5. overwritten \/ intent_file[desk[c].id] = "accepted"
  BY DEF IntentInv, AppliedInHand
<1>6. GoesOn(c, r)
  BY <1>1, <1>3 DEF GoesOn, Moves
<1>7. /\ OwnTasks' /\ OwnTasks /\ (enqueued' = enqueued => EnqueuedFit' /\ SameProposal')
      /\ desk' \in [Clerks -> DeskRecord] /\ desk'[c] = r
      /\ \A d \in Clerks \ {c} : desk'[d] = desk[d]
  BY <1>6, GoingOn
<1>8. IntentShape'
  BY <1>1, <1>4, <1>7 DEF IntentInv, IntentShape
<1>9. /\ \A d \in Clerks \ {c} : (InHand(d)' <=> InHand(d)) /\ Proposal(d)' = Proposal(d)
  BY <1>7 DEF InHand, Proposal
<1>10. ASSUME NEW d \in Clerks PROVE DeskFits(d)'
  <2>1. CASE d = c
    BY <1>1, <1>3, <1>4, <1>7, <2>1 DEF IntentInv, DeskFits
  <2>2. CASE d # c
    BY <1>1, <1>7, <1>9, <2>2 DEF IntentInv, DeskFits
  <2> QED BY <2>1, <2>2
<1>11. \A d \in Clerks \ {c} : InHand(d) => desk[d].id # desk[c].id
  BY <1>4 DEF IntentInv, OwnRecords
<1>12. OwnRecords'
  BY <1>3, <1>7, <1>9, <1>11 DEF IntentInv, OwnRecords, OwnTasks
<1>13. AppliedInHand'
  <2>1. \A d \in Clerks \ {c} : InHand(d) /\ desk[d].id \in effects' => desk[d].id \in effects
    BY <1>1, <1>11
  <2> QED BY <1>1, <1>3, <1>7, <1>9, <2>1 DEF IntentInv, AppliedInHand
<1>14. EffectIsOnRecord'
  BY <1>1, <1>5 DEF IntentInv, EffectIsOnRecord
<1> QED BY <1>1, <1>3, <1>4, <1>7, <1>8, <1>10, <1>12, <1>13, <1>14

\* A change that queues nothing leaves the record applied.
LEMMA ChangeKeeps ==
    ASSUME IntentInv, NEW c \in Clerks, desk[c].stage = "apply", Done(c), enqueued' = enqueued,
           work' \in {"none", "pending", "in_progress", "review_pending"}
    PROVE  IntentInv'
<1>1. /\ IntentShape' /\ (\A d \in Clerks : DeskFits(d)') /\ OwnRecords' /\ AppliedInHand'
      /\ EffectIsOnRecord' /\ given' = given /\ repeats' = repeats
      /\ EnqueuedFit' /\ SameProposal'
      /\ desk'[c].status = "applied" /\ desk'[c].at = desk[c].at
      /\ \A d \in Clerks : /\ desk'[d].task = desk[d].task
                           /\ desk'[d].stage # "rest" <=> desk[d].stage # "rest"
      /\ \A d \in Clerks \ {c} : desk'[d] = desk[d]
  BY EffectKeeps
<1>2. \A d \in Clerks, t \in 1..given, k \in Nat \ {0} : Ahead(d, t, k)' => Ahead(d, t, k)
  BY <1>1 DEF Ahead, InHand
<1>3. CopiesFit'
  BY <1>1, <1>2, CopiesKeep
<1> QED BY <1>1, <1>3 DEF IntentInv

\* A proposal is queued, unless there is an action with its key.
LEMMA EnqueueKeeps ==
    ASSUME IntentInv, NEW c \in Clerks, EnqueueProposed(c)
    PROVE  IntentInv'
<1> DEFINE key == KeyOf(c)
           new == [key |-> key, proposal |-> Proposal(c), task |-> desk[c].task, at |-> desk[c].at]
<1>1. /\ desk[c].stage = "enqueue" /\ Done(c) /\ work' = work
      /\ enqueued' = IF \E a \in enqueued : a.key = key THEN enqueued ELSE enqueued \cup {new}
  BY DEF EnqueueProposed
<1>2. work' \in {"none", "pending", "in_progress", "review_pending"}
  BY <1>1 DEF IntentInv, IntentShape
<1>3. /\ IntentShape' /\ (\A d \in Clerks : DeskFits(d)') /\ OwnRecords' /\ AppliedInHand'
      /\ EffectIsOnRecord' /\ OwnTasks /\ given' = given /\ repeats' = repeats
      /\ enqueued' = enqueued => EnqueuedFit' /\ SameProposal'
      /\ desk'[c].status = "applied" /\ desk'[c].at = desk[c].at /\ desk[c].at \in Nat \ {0}
      /\ \A d \in Clerks : /\ desk'[d].task = desk[d].task /\ desk'[d].batch = desk[d].batch
                           /\ desk'[d].stage # "rest" <=> desk[d].stage # "rest"
      /\ \A d \in Clerks \ {c} : desk'[d] = desk[d]
  BY <1>1, <1>2, EffectKeeps
<1>4. \A d \in Clerks, t \in 1..given, k \in Nat \ {0} : Ahead(d, t, k)' => Ahead(d, t, k)
  BY <1>3 DEF Ahead, InHand
<1>5. CASE enqueued' = enqueued
  BY <1>3, <1>4, <1>5, CopiesKeep DEF IntentInv
<1>6. CASE enqueued' = enqueued \cup {new} /\ ~ \E a \in enqueued : a.key = key
  <2>1. /\ new.key = key /\ new.proposal = Proposal(c) /\ new.task = desk[c].task
        /\ new.at = desk[c].at
    OBVIOUS
  <2>2. /\ Proposal(c).key # "none" => key = <<"given", 0>>
        /\ Proposal(c).key = "none" /\ Proposal(c).kind = "enqueue_low_risk"
             => key = <<"payload", 0>>
    BY DEF KeyOf
  <2>3. desk[c].task \in 1..given /\ desk[c].stage # "rest"
    BY <1>1 DEF IntentInv, DeskFits
  <2> HIDE DEF new, key
  <2>4. EnqueuedFit'
    <3>1. IsFiniteSet(enqueued')
      BY <1>6, FS_AddElement DEF IntentInv, EnqueuedFit
    <3> QED BY <1>3, <1>6, <2>1, <2>2, <2>3, <3>1 DEF IntentInv, EnqueuedFit
  <2>5. SameProposal'
    <3>1. \A o \in enqueued : o.task = new.task /\ o.at = new.at => o.proposal = new.proposal
      BY <2>1, <2>3 DEF IntentInv, SameProposal, Proposal
    <3>2. \A a, o \in enqueued' : a.task = o.task /\ a.at = o.at => a.proposal = o.proposal
      BY <1>6, <3>1 DEF IntentInv, SameProposal
    <3>3. \A d \in Clerks, o \in enqueued :
            desk'[d].stage # "rest" /\ desk'[d].task = o.task => o.proposal = desk'[d].batch[o.at]
      BY <1>3 DEF IntentInv, SameProposal
    <3>4. \A d \in Clerks : desk'[d].stage # "rest" /\ desk'[d].task = new.task => d = c
      BY <1>3, <2>1, <2>3 DEF OwnTasks
    <3>5. new.proposal = desk'[c].batch[new.at]
      BY <1>3, <2>1 DEF Proposal
    <3> QED BY <1>6, <3>2, <3>3, <3>4, <3>5 DEF SameProposal
  <2>6. CopiesFit'
    <3> SUFFICES ASSUME NEW t \in 1..given, NEW k \in Nat \ {0}
                 PROVE  Cardinality(Copies(t, k)') <= repeats[t] + SpareCopy(t, k)'
      BY <1>3 DEF CopiesFit
    <3>1. Cardinality(Copies(t, k)) <= repeats[t] + SpareCopy(t, k)
      BY DEF IntentInv, CopiesFit
    <3>2. IsFiniteSet(Copies(t, k)) /\ Cardinality(Copies(t, k)) \in Nat
      BY CopiesCount DEF IntentInv
    <3>3. repeats[t] \in Nat
      BY IntentConstantsOK DEF IntentInv, IntentShape
    <3>4. SpareCopy(t, k) \in {0, 1} /\ SpareCopy(t, k)' \in {0, 1}
      BY DEF SpareCopy
    <3>5. CASE t = desk[c].task /\ k = desk[c].at
      <4>1. Copies(t, k)' = Copies(t, k) \cup {new}
        BY <1>6, <2>1, <3>5 DEF Copies
      <4> DEFINE n == Cardinality(Copies(t, k))
                 m == Cardinality(Copies(t, k)')
      <4>2. m = IF new \in Copies(t, k) THEN n ELSE n + 1
        BY <3>2, <4>1, FS_AddElement
      <4>3. Ahead(c, t, k)
        BY <1>1, <2>3, <3>5 DEF Ahead, InHand, IntentInv, AppliedInHand
      <4>4. \A d \in Clerks : ~Ahead(d, t, k)'
        BY <1>3, <2>3, <3>5 DEF Ahead, OwnTasks
      <4>5. SpareCopy(t, k) = 0 /\ SpareCopy(t, k)' = 1
        BY <4>3, <4>4 DEF SpareCopy
      <4>6. n \in Nat /\ n <= repeats[t] + SpareCopy(t, k)
        BY <3>1, <3>2
      <4> HIDE DEF n, m
      <4>7. m <= repeats[t] + SpareCopy(t, k)'
        BY <3>3, <4>2, <4>5, <4>6
      <4> QED BY <4>7 DEF m
    <3>6. CASE ~(t = desk[c].task /\ k = desk[c].at)
      <4>1. Copies(t, k)' = Copies(t, k)
        BY <1>6, <2>1, <3>6 DEF Copies
      <4>2. SpareCopy(t, k) = 0 \/ SpareCopy(t, k)' = 1
        BY <1>4 DEF SpareCopy
      <4> QED BY <3>1, <3>2, <3>3, <3>4, <4>1, <4>2
    <3> QED BY <3>5, <3>6
  <2> QED BY <1>3, <2>4, <2>5, <2>6 DEF IntentInv
<1> QED BY <1>1, <1>5, <1>6

------------------------------------------------------------------------------
(* Compiled intents: the theorems.                                         *)

\* The invariant holds at all times.
LEMMA IntentAlways == IntentSpec => []IntentInv
<1>1. IntentInit => IntentInv
  <2> SUFFICES ASSUME IntentInit PROVE IntentInv
    OBVIOUS
  <2>1. \A c \in Clerks : desk[c] = AtRest
    BY DEF IntentInit
  <2>2. IntentShape
    <3>1. desk \in [Clerks -> DeskRecord]
      BY RestFits DEF IntentInit
    <3>2. intent_file \in Storage
      BY DEF IntentInit, Storage, IntentStatuses
    <3>3. /\ issued = 0 /\ given = 0 /\ troubles = 0 /\ repeats = [t \in 1..MaxTasks |-> 0]
          /\ work = "none" /\ effects = {} /\ overwritten = FALSE
      BY DEF IntentInit
    <3>4. /\ issued \in 0..MaxIntents /\ given \in 0..MaxTasks /\ troubles \in 0..MaxTroubles
          /\ repeats \in [1..MaxTasks -> Nat]
      BY <3>3, IntentConstantsOK
    <3> QED BY <3>1, <3>2, <3>3, <3>4 DEF IntentShape
  <2>3. \A c \in Clerks : DeskFits(c) /\ desk[c].stage = "rest"
    BY <2>1, RestFits DEF DeskFits, InHand
  <2>4. OwnRecords /\ AppliedInHand
    BY <2>3 DEF OwnRecords, AppliedInHand, InHand
  <2>5. EffectIsOnRecord /\ EnqueuedFit /\ SameProposal
    BY FS_EmptySet DEF IntentInit, EffectIsOnRecord, EnqueuedFit, SameProposal
  <2>6. CopiesFit
    BY DEF IntentInit, CopiesFit
  <2> QED BY <2>2, <2>3, <2>4, <2>5, <2>6 DEF IntentInv
<1>2. IntentInv /\ [IntentNext]_intent_vars => IntentInv'
  <2> SUFFICES ASSUME IntentInv, [IntentNext]_intent_vars PROVE IntentInv'
    OBVIOUS
  <2>1. CASE UNCHANGED intent_vars
    <3>1. IntentShape' /\ (\A c \in Clerks : DeskFits(c)') /\ OwnRecords'
      BY <2>1 DEF intent_vars, IntentInv, IntentShape, DeskFits, InHand, Proposal, OwnRecords
    <3>2. AppliedInHand' /\ EffectIsOnRecord' /\ EnqueuedFit' /\ SameProposal'
      BY <2>1 DEF intent_vars, IntentInv, InHand, AppliedInHand, EffectIsOnRecord, EnqueuedFit,
                  SameProposal
    <3>3. CopiesFit'
      BY <2>1 DEF intent_vars, IntentInv, InHand, CopiesFit, Copies, SpareCopy, Ahead
    <3> QED BY <3>1, <3>2, <3>3 DEF IntentInv
  <2>2. ASSUME NEW c \in Clerks,
               TakeTask(c) \/ Compile(c) \/ Answer(c) \/ ReadFile(c) \/ WriteFile(c) \/ Trouble(c)
        PROVE  IntentInv'
    BY <2>2, TakeKeeps, CompileKeeps, AnswerKeeps, ReadKeeps, WriteKeeps, TroubleKeeps
  <2>3. ASSUME NEW c \in Clerks, CreateSchedule(c) \/ ChangeSchedule(c) \/ EnsureWork(c)
                                   \/ RequestReview(c) \/ AppendNote(c) \/ ApplyElsewhere(c)
        PROVE  IntentInv'
    <3>1. desk[c].stage = "apply"
      BY <2>3 DEF CreateSchedule, ChangeSchedule, EnsureWork, RequestReview, AppendNote,
                  ApplyElsewhere, Applies
    <3>2. work \in {"none", "pending", "in_progress", "review_pending"}
      BY DEF IntentInv, IntentShape
    <3>3. \/ Blocked(c)
          \/ /\ Done(c) /\ enqueued' = enqueued
             /\ work' \in {"none", "pending", "in_progress", "review_pending"}
      <4>1. CASE CreateSchedule(c) \/ AppendNote(c)
        BY <3>2, <4>1 DEF CreateSchedule, AppendNote
      <4>2. CASE EnsureWork(c)
        BY <3>2, <4>2 DEF EnsureWork
      <4>3. CASE RequestReview(c)
        BY <3>2, <4>3 DEF RequestReview
      <4>4. CASE ApplyElsewhere(c)
        BY <3>2, <4>4 DEF ApplyElsewhere
      <4>5. CASE ChangeSchedule(c)
        BY <3>2, <4>5, Zenon DEF ChangeSchedule
      <4> QED BY <2>3, <4>1, <4>2, <4>3, <4>4, <4>5
    <3> QED BY <3>1, <3>3, RefusalKeeps, ChangeKeeps
  <2>4. ASSUME NEW c \in Clerks, AskPolicy(c) PROVE IntentInv'
    BY <2>4, RefusalKeeps DEF AskPolicy
  <2>5. ASSUME NEW c \in Clerks, EnqueueProposed(c) PROVE IntentInv'
    BY <2>5, EnqueueKeeps
  <2> QED BY <2>1, <2>2, <2>3, <2>4, <2>5 DEF IntentNext
<1> QED BY <1>1, <1>2, PTL DEF IntentSpec

\* Records, clerks and counters keep their types.
THEOREM IntentTypes == IntentSpec => []IntentTypeOK
<1>1. IntentInv => IntentTypeOK
  <2> SUFFICES ASSUME IntentInv PROVE IntentTypeOK
    OBVIOUS
  <2>1. IntentShape /\ \A c \in Clerks : desk[c] \in DeskRecord /\ DeskFits(c)
    BY DEF IntentInv, IntentShape
  <2>2. ASSUME NEW c \in Clerks
        PROVE  /\ desk[c].stage \in {"rest", "compile", "read", "write", "apply", "enqueue"}
               /\ desk[c].at \in 0..Len(desk[c].batch)
               /\ desk[c].status \in IntentStatuses
               /\ desk[c].stage = "enqueue" => Proposal(c).kind \in Enqueuing
    BY <2>1 DEF DeskRecord, DeskStage, DeskFits
  <2> QED BY <2>1, <2>2 DEF IntentTypeOK, IntentShape, Storage
<1> QED BY <1>1, IntentAlways, PTL

\* Unless two saves overlapped, what had an effect is on file as accepted or applied, for
\* any clerks, tasks, proposals and troubles.
THEOREM EffectsAreOnRecord == IntentSpec => []EffectIsOnRecord
<1>1. IntentInv => EffectIsOnRecord
  BY DEF IntentInv
<1> QED BY <1>1, IntentAlways, PTL

\* Every time a task is handed out brings at most one action of each of its proposals, and
\* those with a key, and the low-risk ones, bring one altogether.
THEOREM CopiesAreBounded == IntentSpec => []CopiesBounded
<1>1. IntentInv => CopiesBounded
  <2> SUFFICES ASSUME IntentInv, NEW a \in enqueued
               PROVE  Cardinality(Copies(a.task, a.at))
                        <= IF a.proposal.key # "none" \/ a.proposal.kind = "enqueue_low_risk" THEN 1
                           ELSE 1 + repeats[a.task]
    BY DEF CopiesBounded, Copies
  <2>1. CASE a.proposal.key # "none" \/ a.proposal.kind = "enqueue_low_risk"
    <3>1. \A o \in Copies(a.task, a.at) : o = a
      BY <2>1 DEF IntentInv, SameProposal, EnqueuedFit, Copies
    <3>2. Copies(a.task, a.at) = {a}
      BY <3>1 DEF Copies
    <3>3. Cardinality({a}) = 1
      BY FS_Singleton
    <3> QED BY <2>1, <3>2, <3>3
  <2>2. CASE ~(a.proposal.key # "none" \/ a.proposal.kind = "enqueue_low_risk")
    <3>1. a.task \in 1..given /\ a.at \in Nat \ {0}
      BY DEF IntentInv, EnqueuedFit
    <3>2. Cardinality(Copies(a.task, a.at)) <= repeats[a.task] + SpareCopy(a.task, a.at)
      BY <3>1 DEF IntentInv, CopiesFit
    <3>3. Cardinality(Copies(a.task, a.at)) \in Nat
      BY CopiesCount DEF IntentInv
    <3>4. repeats[a.task] \in Nat
      BY <3>1, IntentConstantsOK DEF IntentInv, IntentShape
    <3>5. SpareCopy(a.task, a.at) \in {0, 1}
      BY DEF SpareCopy
    <3> QED BY <2>2, <3>2, <3>3, <3>4, <3>5
  <2> QED BY <2>1, <2>2
<1> QED BY <1>1, IntentAlways, PTL

------------------------------------------------------------------------------
(* Alerts: the inductive invariant.                                        *)

Reason == Bodies \ {"none"}
OpsRecord ==
    {o \in [status : LoopStatus, summary : Bodies, attention : BOOLEAN] :
       o.status = "blocked" => o.summary # "none"}
AlertFile == [Keys -> Alert]
Drafts == [Keys -> Bodies]
RefreshRecord ==
    [stage : {"none", "draft", "load", "save"}, ops : OpsRecord, drafts : Drafts, now : Nat,
     copy : AlertFile]
AnswerRecord ==
    [stage : {"none", "mark", "save", "send", "acknowledge"}, listed : SUBSET Keys, now : Nat,
     copy : AlertFile, texts : Drafts]

AlertShape ==
    /\ situation \in Situation /\ ops \in OpsRecord /\ alerts \in AlertFile
    /\ alert_clock \in Nat /\ refresher \in [Refreshers -> RefreshRecord]
    /\ answer \in AnswerRecord /\ seen \in Drafts /\ slipped \subseteq Keys
    /\ overlapped \in BOOLEAN
    /\ changes \in 0..MaxChanges /\ refreshes \in 0..MaxRefreshes
    /\ answers \in 0..MaxAnswers /\ alert_deaths \in 0..MaxAlertDeaths

\* A refresh whose drafts are made, with the time it will stamp on what changed.
Stamping(p) == refresher[p].stage \in {"load", "save"}

\* Times are of the past, and no delivery has the time of a refresh under way.
Timely(file) ==
    \A k \in Keys :
      /\ file[k].changed <= alert_clock /\ file[k].delivered <= alert_clock
      /\ \A p \in Refreshers : Stamping(p) => file[k].delivered # refresher[p].now
FilesInTime ==
    /\ Timely(alerts) /\ Timely(answer.copy)
    /\ \A p \in Refreshers : Timely(refresher[p].copy)
StampsInTime ==
    \A p \in Refreshers : /\ refresher[p].now <= alert_clock
                          /\ Stamping(p) => refresher[p].now # 0
DeliveryInTime ==
    answer.stage = "save" =>
      /\ answer.now <= alert_clock
      /\ \A p \in Refreshers : Stamping(p) => answer.now # refresher[p].now
InTime == FilesInTime /\ StampsInTime /\ DeliveryInTime

\* The drafts of a blocked loop announce it.
DraftsAnnounce ==
    \A p \in Refreshers :
      Stamping(p) /\ refresher[p].ops.status = "blocked"
        => \E k \in Keys : refresher[p].drafts[k] # "none"

Refreshing(p) == refresher[p].stage # "none"
Announced == \E k \in Keys : alerts[k].status \in {"open", "acknowledged"}
BlockedIsKnown ==
    ~overlapped =>
      /\ \A p, q \in Refreshers : Refreshing(p) /\ Refreshing(q) => p = q
      /\ \A p \in Refreshers : Refreshing(p) => refresher[p].ops = ops
      /\ ops.status = "blocked" /\ (\A p \in Refreshers : ~Refreshing(p)) => Announced

\* What an answer carries is as it is on file, unless it slipped.
AnswerIsCurrent ==
    /\ answer.stage \in {"none", "acknowledge"} => answer.listed = {}
    /\ \A k \in answer.listed : k \notin slipped => answer.texts[k] = alerts[k].body

AlertInv ==
    AlertShape /\ InTime /\ DraftsAnnounce /\ BlockedIsKnown /\ AnswerIsCurrent /\ CurrentFormWasSeen

------------------------------------------------------------------------------
(* What the operators of the model return.                                 *)

\* A reason to be blocked is never empty.
LEMMA ReasonsFit == \A s \in Situation : Reasons(s) \in Seq(Reason)
<1> SUFFICES ASSUME NEW s \in Situation PROVE Reasons(s) \in Seq(Reason)
  OBVIOUS
<1> DEFINE a == IF s.review # "none" THEN <<s.review>> ELSE <<>>
           b == IF s.escalated THEN <<"escalated">> ELSE <<>>
           c == IF s.schedule = "auto-paused" THEN <<"misses">> ELSE <<>>
           d == IF s.schedule # "active" /\ ~s.capacity THEN <<"undriven">> ELSE <<>>
<1>1. /\ "escalated" \in Reason /\ "misses" \in Reason /\ "undriven" \in Reason
      /\ s.review # "none" => s.review \in Reason
  BY DEF Situation, Reason, Bodies
<1>2. a \in Seq(Reason)
  BY <1>1
<1>3. b \in Seq(Reason)
  BY <1>1
<1>4. c \in Seq(Reason)
  BY <1>1
<1>5. d \in Seq(Reason)
  BY <1>1
<1>6. Reasons(s) = a \o b \o c \o d
  BY DEF Reasons
<1> HIDE DEF a, b, c, d
<1> QED BY <1>2, <1>3, <1>4, <1>5, <1>6

\* A blocked loop has a reason.
LEMMA OpsFit == \A s \in Situation : OpsState(s) \in OpsRecord
<1> SUFFICES ASSUME NEW s \in Situation PROVE OpsState(s) \in OpsRecord
  OBVIOUS
<1>1. Reasons(s) \in Seq(Reason)
  BY ReasonsFit
<1>2. Reasons(s) # <<>> => Reasons(s)[1] \in Reason
  BY <1>1
<1>3. CASE s.paused
  BY <1>3 DEF OpsState, OpsRecord, LoopStatus, Bodies
<1>4. CASE ~s.paused /\ Reasons(s) # <<>>
  <2>1. OpsState(s) = [status |-> "blocked", summary |-> Reasons(s)[1],
                       attention |-> s.review # "none"]
    BY <1>4 DEF OpsState
  <2> QED BY <1>2, <1>4, <2>1 DEF OpsRecord, LoopStatus, Reason
<1>5. CASE ~s.paused /\ Reasons(s) = <<>>
  <2> DEFINE t == IF s.schedule = "active" \/ s.capacity THEN "running" ELSE "idle"
  <2>1. OpsState(s) = [status |-> t, summary |-> "none", attention |-> FALSE]
    BY <1>5 DEF OpsState
  <2>2. t \in {"running", "idle"}
    OBVIOUS
  <2> HIDE DEF t
  <2> QED BY <2>1, <2>2 DEF OpsRecord, LoopStatus, Bodies
<1> QED BY <1>3, <1>4, <1>5

\* Whatever has become of the schedule, a blocked loop gets a draft.
LEMMA DraftsFit ==
    ASSUME NEW o \in OpsRecord, NEW s \in Situation
    PROVE  /\ DraftsFor(o, s) \in Drafts
           /\ o.status = "blocked" => \E k \in Keys : DraftsFor(o, s)[k] # "none"
<1>1. o.summary \in Bodies /\ (o.status = "blocked" => o.summary # "none")
  BY DEF OpsRecord
<1> DEFINE d(k) == CASE k = "operator-review-required" /\ o.attention -> o.summary
                     [] k = "auto-paused-schedule" /\ s.schedule = "auto-paused" -> "misses"
                     [] k = "execution-capacity-risk" /\ s.capacity -> "capacity"
                     [] k = "campaign-loop-blocked" /\ LoopBlocked(o, s) -> o.summary
                     [] OTHER -> "none"
<1>2. ASSUME NEW k \in Keys PROVE d(k) \in Bodies
  BY <1>1 DEF Keys, Bodies
<1>3. DraftsFor(o, s) = [k \in Keys |-> d(k)]
  BY DEF DraftsFor
<1>4. o.attention => d("operator-review-required") = o.summary
  OBVIOUS
<1>5. s.schedule = "auto-paused" => d("auto-paused-schedule") = "misses"
  OBVIOUS
<1>6. LoopBlocked(o, s) => d("campaign-loop-blocked") = o.summary
  OBVIOUS
<1> HIDE DEF d
<1>7. DraftsFor(o, s) \in Drafts
  BY <1>2, <1>3 DEF Drafts
<1>8. ASSUME o.status = "blocked" PROVE \E k \in Keys : d(k) # "none"
  BY <1>1, <1>4, <1>5, <1>6, <1>8 DEF LoopBlocked, Keys
<1> QED BY <1>3, <1>7, <1>8

\* A reconciled record is a record, is unresolved when there is a draft, and is stamped
\* with the time of the refresh, or undelivered, when it is opened.
LEMMA ReconciledFits ==
    ASSUME NEW a \in Alert, NEW body \in Bodies, NEW now \in Nat
    PROVE  /\ Reconciled(a, body, now) \in Alert
           /\ Reconciled(a, body, now).changed \in {a.changed, now}
           /\ Reconciled(a, body, now).delivered \in {a.delivered, 0}
           /\ body # "none" => Reconciled(a, body, now).status \in {"open", "acknowledged"}
           /\ Reconciled(a, body, now).status = "open" /\ Reconciled(a, body, now) # a
                => \/ Reconciled(a, body, now).delivered = 0
                   \/ Reconciled(a, body, now).changed = now
<1> DEFINE r == Reconciled(a, body, now)
<1>1. CASE body = "none" /\ a.status = "absent"
  <2>1. r = a
    BY <1>1 DEF Reconciled
  <2> QED BY <1>1, <2>1
<1>2. CASE body = "none" /\ a.status # "absent"
  <2>1. r = [a EXCEPT !.status = "resolved"]
    BY <1>2 DEF Reconciled
  <2> HIDE DEF r
  <2>2. r \in Alert /\ r.status = "resolved" /\ r.changed = a.changed /\ r.delivered = a.delivered
    BY <2>1 DEF Alert, AlertStatus
  <2> QED BY <1>2, <2>2 DEF r
<1>3. CASE body # "none" /\ a.status = "absent"
  <2>1. r = [status |-> "open", body |-> body, changed |-> now, delivered |-> 0]
    BY <1>3 DEF Reconciled
  <2> HIDE DEF r
  <2>2. r \in Alert /\ r.status = "open" /\ r.changed = now /\ r.delivered = 0
    BY <2>1 DEF Alert, AlertStatus
  <2> QED BY <1>3, <2>2 DEF r
<1>4. CASE body # "none" /\ a.status # "absent" /\ a.body = body /\ a.status # "resolved"
  <2>1. r = a /\ a.status \in AlertStatus
    BY <1>4 DEF Reconciled, Alert
  <2> QED BY <1>4, <2>1 DEF AlertStatus
<1>5. CASE body # "none" /\ a.status # "absent" /\ ~(a.body = body /\ a.status # "resolved")
  <2>1. r = [a EXCEPT !.status = "open", !.body = body, !.changed = now]
    BY <1>5 DEF Reconciled
  <2> HIDE DEF r
  <2>2. r \in Alert /\ r.status = "open" /\ r.changed = now /\ r.delivered = a.delivered
    BY <2>1 DEF Alert, AlertStatus
  <2> QED BY <1>5, <2>2 DEF r
<1> QED BY <1>1, <1>2, <1>3, <1>4, <1>5

\* What everything begins with, and comes back to.
LEMMA AlertRecordsFit ==
    /\ NoAlerts \in AlertFile /\ NoDrafts \in Drafts
    /\ \A k \in Keys : NoAlerts[k].changed = 0 /\ NoAlerts[k].delivered = 0 /\ NoDrafts[k] = "none"
    /\ Resting \in RefreshRecord /\ Resting.stage = "none" /\ Resting.copy = NoAlerts
    /\ Resting.now = 0
    /\ NoAnswer \in AnswerRecord /\ NoAnswer.stage = "none" /\ NoAnswer.listed = {}
    /\ NoAnswer.copy = NoAlerts
<1> DEFINE nothing == [status |-> "absent", body |-> "none", changed |-> 0, delivered |-> 0]
           idle == [status |-> "idle", summary |-> "none", attention |-> FALSE]
<1>1. nothing \in Alert /\ nothing.changed = 0 /\ nothing.delivered = 0
  BY DEF Alert, AlertStatus, Bodies
<1>2. idle \in OpsRecord
  BY DEF OpsRecord, LoopStatus, Bodies
<1>3. NoAlerts = [k \in Keys |-> nothing]
  BY DEF NoAlerts
<1> HIDE DEF nothing
<1>4. NoAlerts \in AlertFile /\ \A k \in Keys : NoAlerts[k].changed = 0 /\ NoAlerts[k].delivered = 0
  BY <1>1, <1>3 DEF AlertFile
<1>5. NoDrafts \in Drafts /\ \A k \in Keys : NoDrafts[k] = "none"
  BY DEF NoDrafts, Drafts, Bodies
<1>6. Resting = [stage |-> "none", ops |-> idle, drafts |-> NoDrafts, now |-> 0, copy |-> NoAlerts]
  BY DEF Resting
<1>7. NoAnswer = [stage |-> "none", listed |-> {}, now |-> 0, copy |-> NoAlerts, texts |-> NoDrafts]
  BY DEF NoAnswer
<1> HIDE DEF idle
<1> QED BY <1>2, <1>4, <1>5, <1>6, <1>7 DEF RefreshRecord, AnswerRecord

------------------------------------------------------------------------------
(* Alerts: the steps.                                                      *)

\* At first nothing is blocked and nobody has been told.
LEMMA AlertStart == AlertInit => AlertInv
<1> SUFFICES ASSUME AlertInit PROVE AlertInv
  OBVIOUS
<1>1. /\ alerts = NoAlerts /\ alert_clock = 0 /\ answer = NoAnswer /\ seen = NoDrafts
      /\ slipped = {} /\ overlapped = FALSE /\ ops = OpsState(situation)
      /\ \A p \in Refreshers : refresher[p] = Resting
  BY DEF AlertInit
<1>2. situation \in Situation
  BY DEF AlertInit, Situation
<1>3. ops \in OpsRecord
  BY <1>1, <1>2, OpsFit
<1>4. refresher \in [Refreshers -> RefreshRecord]
  BY AlertRecordsFit DEF AlertInit
<1>5. /\ changes \in 0..MaxChanges /\ refreshes \in 0..MaxRefreshes
      /\ answers \in 0..MaxAnswers /\ alert_deaths \in 0..MaxAlertDeaths
  BY AlertConstantsOK DEF AlertInit
<1>6. AlertShape
  BY <1>1, <1>2, <1>3, <1>4, <1>5, AlertRecordsFit DEF AlertShape
<1>7. \A p \in Refreshers : ~Stamping(p) /\ ~Refreshing(p)
  BY <1>1, AlertRecordsFit DEF Stamping, Refreshing
<1>8. Timely(NoAlerts)
  BY <1>1, <1>7, AlertRecordsFit DEF Timely
<1>9. InTime
  BY <1>1, <1>7, <1>8, AlertRecordsFit DEF InTime, FilesInTime, StampsInTime, DeliveryInTime
<1>10. ops.status # "blocked"
  <2>1. situation = [paused |-> FALSE, review |-> "none", schedule |-> "active",
                     escalated |-> FALSE, capacity |-> FALSE]
    BY DEF AlertInit
  <2>2. Reasons(situation) = <<>>
    BY <2>1 DEF Reasons
  <2> QED BY <1>1, <2>1, <2>2 DEF OpsState
<1>11. DraftsAnnounce /\ BlockedIsKnown
  BY <1>7, <1>10 DEF DraftsAnnounce, BlockedIsKnown
<1>12. AnswerIsCurrent
  BY <1>1, AlertRecordsFit DEF AnswerIsCurrent
<1>13. CurrentFormWasSeen
  BY <1>1, AlertRecordsFit DEF CurrentFormWasSeen, Unresolved, Deliverable
<1> QED BY <1>6, <1>9, <1>11, <1>12, <1>13 DEF AlertInv

\* What the loop's state is derived from changes: no file does.
LEMMA ChangeKeepsAlerts ==
    ASSUME AlertInv, Change
    PROVE  AlertInv'
<1>1. /\ ops' = ops /\ alerts' = alerts /\ alert_clock' = alert_clock /\ refresher' = refresher
      /\ answer' = answer /\ seen' = seen /\ slipped' = slipped /\ overlapped' = overlapped
      /\ refreshes' = refreshes /\ answers' = answers /\ alert_deaths' = alert_deaths
      /\ situation' \in Situation /\ changes' = changes + 1 /\ changes < MaxChanges
  BY DEF Change
<1>2. changes' \in 0..MaxChanges
  BY <1>1, AlertConstantsOK DEF AlertInv, AlertShape
<1>3. AlertShape'
  BY <1>1, <1>2 DEF AlertInv, AlertShape
<1>4. InTime' /\ DraftsAnnounce'
  BY <1>1 DEF AlertInv, InTime, FilesInTime, StampsInTime, DeliveryInTime, Timely, Stamping,
              DraftsAnnounce
<1>5. BlockedIsKnown' /\ AnswerIsCurrent' /\ CurrentFormWasSeen'
  BY <1>1 DEF AlertInv, BlockedIsKnown, Refreshing, Announced, AnswerIsCurrent,
              CurrentFormWasSeen, Unresolved, Deliverable
<1> QED BY <1>3, <1>4, <1>5 DEF AlertInv

\* One process goes on with its refresh.
Refreshes(p, r) ==
    /\ r \in RefreshRecord /\ refresher' = [refresher EXCEPT ![p] = r]
    /\ UNCHANGED <<situation, answer, changes, answers, alert_deaths, seen>>

\* The other process goes on where it was.
LEMMA RefreshMeans ==
    ASSUME AlertInv, NEW p \in Refreshers, NEW r, Refreshes(p, r)
    PROVE  /\ refresher' \in [Refreshers -> RefreshRecord] /\ refresher'[p] = r
           /\ \A q \in Refreshers \ {p} : /\ refresher'[q] = refresher[q]
                                          /\ Stamping(q)' <=> Stamping(q)
                                          /\ Refreshing(q)' <=> Refreshing(q)
           /\ Stamping(p)' <=> r.stage \in {"load", "save"}
           /\ Refreshing(p)' <=> r.stage # "none"
<1>1. /\ refresher' \in [Refreshers -> RefreshRecord] /\ refresher'[p] = r
      /\ \A q \in Refreshers \ {p} : refresher'[q] = refresher[q]
  BY DEF Refreshes, AlertInv, AlertShape
<1> QED BY <1>1 DEF Stamping, Refreshing

\* No refresh begins to stamp, or changes what it stamps.
NoneBegins ==
    \A q \in Refreshers : /\ refresher'[q].now = refresher[q].now
                          /\ refresher'[q].copy = refresher[q].copy
                          /\ Stamping(q)' => Stamping(q)

\* Times stay in order when no file and no clock changes and no refresh begins to stamp.
LEMMA NoNewStamps ==
    ASSUME AlertInv, alerts' = alerts, answer' = answer, alert_clock' = alert_clock,
           NoneBegins
    PROVE  InTime'
<1>1. ASSUME NEW file, Timely(file)
      PROVE  \A k \in Keys :
               /\ file[k].changed <= alert_clock' /\ file[k].delivered <= alert_clock'
               /\ \A q \in Refreshers : Stamping(q)' => file[k].delivered # refresher'[q].now
  BY <1>1, Zenon DEF Timely, NoneBegins
<1>2. Timely(alerts) /\ Timely(answer.copy) /\ \A q \in Refreshers : Timely(refresher[q].copy)
  BY DEF AlertInv, InTime, FilesInTime
<1>3. Timely(alerts)'
  BY <1>1, <1>2, Zenon DEF Timely, NoneBegins
<1>4. Timely(answer.copy)'
  BY <1>1, <1>2, Zenon DEF Timely, NoneBegins
<1>5. \A q \in Refreshers : Timely(refresher[q].copy)'
  <2> TAKE q \in Refreshers
  <2>1. refresher'[q].copy = refresher[q].copy
    BY DEF NoneBegins
  <2>2. Timely(refresher[q].copy)
    BY <1>2
  <2> QED BY <1>1, <2>1, <2>2, Zenon DEF Timely
<1>6. StampsInTime'
  <2>1. StampsInTime
    BY DEF AlertInv, InTime
  <2> QED BY <2>1, Zenon DEF StampsInTime, NoneBegins
<1>7. DeliveryInTime'
  <2>1. DeliveryInTime
    BY DEF AlertInv, InTime
  <2> QED BY <2>1, Zenon DEF DeliveryInTime, NoneBegins
<1> QED BY <1>3, <1>4, <1>5, <1>6, <1>7 DEF InTime, FilesInTime

\* A refresh begins: it has no drafts yet, and two at a time are overlapped.
LEMMA RecomputeKeeps ==
    ASSUME AlertInv, NEW p \in Refreshers, Recompute(p)
    PROVE  AlertInv'
<1> DEFINE o == OpsState(situation)
           r == [refresher[p] EXCEPT !.stage = "draft", !.ops = o]
<1>1. /\ refresher[p].stage = "none" /\ refreshes < MaxRefreshes /\ refreshes' = refreshes + 1
      /\ overlapped' = (\E q \in Refreshers : refresher[q].stage # "none")
      /\ ops' = o /\ refresher' = [refresher EXCEPT ![p] = r]
      /\ alerts' = alerts /\ alert_clock' = alert_clock /\ slipped' = slipped
      /\ situation' = situation /\ answer' = answer /\ changes' = changes
      /\ answers' = answers /\ alert_deaths' = alert_deaths /\ seen' = seen
  BY DEF Recompute
<1>2. o \in OpsRecord
  BY OpsFit DEF AlertInv, AlertShape
<1>3. refreshes' \in 0..MaxRefreshes
  BY <1>1, AlertConstantsOK DEF AlertInv, AlertShape
<1> HIDE DEF o
<1>4. refresher[p] \in RefreshRecord
  BY DEF AlertInv, AlertShape
<1>5. /\ r \in RefreshRecord /\ r.stage = "draft" /\ r.ops = o /\ r.now = refresher[p].now
      /\ r.copy = refresher[p].copy /\ r.drafts = refresher[p].drafts
  BY <1>2, <1>4 DEF RefreshRecord
<1> HIDE DEF r
<1>6. Refreshes(p, r)
  BY <1>1, <1>5 DEF Refreshes
<1>7. /\ refresher' \in [Refreshers -> RefreshRecord] /\ refresher'[p] = r
      /\ \A q \in Refreshers \ {p} : /\ refresher'[q] = refresher[q]
                                     /\ Stamping(q)' <=> Stamping(q)
                                     /\ Refreshing(q)' <=> Refreshing(q)
      /\ ~Stamping(p)' /\ Refreshing(p)'
  BY <1>5, <1>6, RefreshMeans
<1>8. AlertShape'
  BY <1>1, <1>2, <1>3, <1>7 DEF AlertInv, AlertShape
<1>9. InTime'
  <2>1. NoneBegins
    BY <1>5, <1>7 DEF NoneBegins
  <2> QED BY <1>1, <2>1, NoNewStamps
<1>10. DraftsAnnounce'
  BY <1>7 DEF AlertInv, DraftsAnnounce
<1>11. BlockedIsKnown'
  BY <1>1, <1>5, <1>7 DEF BlockedIsKnown, Refreshing
<1>12. AnswerIsCurrent' /\ CurrentFormWasSeen'
  BY <1>1 DEF AlertInv, AnswerIsCurrent, CurrentFormWasSeen, Unresolved, Deliverable
<1> QED BY <1>8, <1>9, <1>10, <1>11, <1>12 DEF AlertInv

\* The drafts get a time later than everything on file.
LEMMA DraftKeeps ==
    ASSUME AlertInv, NEW p \in Refreshers, DraftAlerts(p)
    PROVE  AlertInv'
<1> DEFINE n == alert_clock + 1
           d == DraftsFor(refresher[p].ops, situation)
           r == [refresher[p] EXCEPT !.stage = "load", !.now = n, !.drafts = d]
<1>1. /\ refresher[p].stage = "draft" /\ alert_clock' = n
      /\ refresher' = [refresher EXCEPT ![p] = r]
      /\ ops' = ops /\ alerts' = alerts /\ slipped' = slipped /\ refreshes' = refreshes
      /\ situation' = situation /\ answer' = answer /\ changes' = changes
      /\ answers' = answers /\ alert_deaths' = alert_deaths /\ seen' = seen
      /\ overlapped' = overlapped
  BY DEF DraftAlerts
<1>2. refresher[p] \in RefreshRecord /\ situation \in Situation /\ alert_clock \in Nat
  BY DEF AlertInv, AlertShape
<1>3. /\ refresher[p].ops \in OpsRecord /\ d \in Drafts
      /\ refresher[p].ops.status = "blocked" => \E k \in Keys : d[k] # "none"
  BY <1>2, DraftsFit DEF RefreshRecord
<1>4. n \in Nat /\ n # 0 /\ \A i \in Nat : i <= alert_clock => i <= n /\ i # n
  BY <1>2
<1> HIDE DEF d, n
<1>5. /\ r \in RefreshRecord /\ r.stage = "load" /\ r.ops = refresher[p].ops /\ r.now = n
      /\ r.copy = refresher[p].copy /\ r.drafts = d
  BY <1>2, <1>3, <1>4 DEF RefreshRecord
<1> HIDE DEF r
<1>6. Refreshes(p, r)
  BY <1>1, <1>5 DEF Refreshes
<1>7. /\ refresher' \in [Refreshers -> RefreshRecord] /\ refresher'[p] = r
      /\ \A q \in Refreshers \ {p} : /\ refresher'[q] = refresher[q]
                                     /\ Stamping(q)' <=> Stamping(q)
                                     /\ Refreshing(q)' <=> Refreshing(q)
      /\ Stamping(p)' /\ Refreshing(p)' /\ Refreshing(p)
  BY <1>1, <1>5, <1>6, RefreshMeans DEF Refreshing
<1>8. AlertShape'
  BY <1>1, <1>4, <1>7 DEF AlertInv, AlertShape
<1>9. ASSUME NEW file \in AlertFile, Timely(file)
      PROVE  \A k \in Keys : /\ file[k].changed <= n /\ file[k].delivered <= n
                             /\ \A q \in Refreshers : Stamping(q)' => file[k].delivered # refresher'[q].now
  <2> SUFFICES ASSUME NEW k \in Keys
               PROVE  /\ file[k].changed <= n /\ file[k].delivered <= n
                      /\ \A q \in Refreshers : Stamping(q)' => file[k].delivered # refresher'[q].now
    OBVIOUS
  <2>1. file[k].changed \in Nat /\ file[k].delivered \in Nat
    BY DEF AlertFile, Alert
  <2>2. file[k].changed <= alert_clock /\ file[k].delivered <= alert_clock
    BY <1>9 DEF Timely
  <2>3. file[k].changed <= n /\ file[k].delivered <= n /\ file[k].delivered # n
    BY <1>4, <2>1, <2>2
  <2> QED BY <1>5, <1>7, <1>9, <2>3 DEF Timely
<1>10. InTime'
  <2>1. /\ alerts \in AlertFile /\ answer.copy \in AlertFile /\ answer.now \in Nat
        /\ \A q \in Refreshers : refresher[q].copy \in AlertFile /\ refresher[q].now \in Nat
    BY DEF AlertInv, AlertShape, AnswerRecord, RefreshRecord
  <2>2. Timely(alerts)' /\ Timely(answer.copy)' /\ \A q \in Refreshers : Timely(refresher[q].copy)'
    <3>1. \A q \in Refreshers : refresher'[q].copy = refresher[q].copy
      BY <1>5, <1>7
    <3>2. Timely(alerts) /\ Timely(answer.copy) /\ \A q \in Refreshers : Timely(refresher[q].copy)
      BY DEF AlertInv, InTime, FilesInTime
    <3> QED BY <1>1, <1>9, <2>1, <3>1, <3>2 DEF Timely
  <2>3. \A q \in Refreshers : refresher'[q].now <= n /\ (Stamping(q)' => refresher'[q].now # 0)
    BY <1>4, <1>5, <1>7, <2>1 DEF AlertInv, InTime, StampsInTime
  <2>4. answer.stage = "save" =>
          answer.now <= n /\ \A q \in Refreshers : Stamping(q)' => answer.now # refresher'[q].now
    BY <1>4, <1>5, <1>7, <2>1 DEF AlertInv, InTime, DeliveryInTime
  <2> QED BY <1>1, <2>2, <2>3, <2>4 DEF InTime, FilesInTime, StampsInTime, DeliveryInTime
<1>11. DraftsAnnounce'
  BY <1>3, <1>5, <1>7 DEF AlertInv, DraftsAnnounce
<1>12. BlockedIsKnown'
  BY <1>1, <1>5, <1>7 DEF AlertInv, BlockedIsKnown
<1>13. AnswerIsCurrent' /\ CurrentFormWasSeen'
  BY <1>1 DEF AlertInv, AnswerIsCurrent, CurrentFormWasSeen, Unresolved, Deliverable
<1> QED BY <1>8, <1>10, <1>11, <1>12, <1>13 DEF AlertInv

\* A refresh reads the file.
LEMMA LoadKeeps ==
    ASSUME AlertInv, NEW p \in Refreshers, LoadAlerts(p)
    PROVE  AlertInv'
<1> DEFINE r == [refresher[p] EXCEPT !.stage = "save", !.copy = alerts]
<1>1. /\ refresher[p].stage = "load" /\ alert_clock' = alert_clock
      /\ refresher' = [refresher EXCEPT ![p] = r]
      /\ ops' = ops /\ alerts' = alerts /\ slipped' = slipped /\ refreshes' = refreshes
      /\ situation' = situation /\ answer' = answer /\ changes' = changes
      /\ answers' = answers /\ alert_deaths' = alert_deaths /\ seen' = seen
      /\ overlapped' = overlapped
  BY DEF LoadAlerts
<1>2. refresher[p] \in RefreshRecord /\ alerts \in AlertFile
  BY DEF AlertInv, AlertShape
<1>3. /\ r \in RefreshRecord /\ r.stage = "save" /\ r.ops = refresher[p].ops
      /\ r.now = refresher[p].now /\ r.copy = alerts /\ r.drafts = refresher[p].drafts
  BY <1>2 DEF RefreshRecord
<1> HIDE DEF r
<1>4. Refreshes(p, r)
  BY <1>1, <1>3 DEF Refreshes
<1>5. /\ refresher' \in [Refreshers -> RefreshRecord] /\ refresher'[p] = r
      /\ \A q \in Refreshers \ {p} : /\ refresher'[q] = refresher[q]
                                     /\ Stamping(q)' <=> Stamping(q)
                                     /\ Refreshing(q)' <=> Refreshing(q)
      /\ Stamping(p)' /\ Stamping(p) /\ Refreshing(p)' /\ Refreshing(p)
  BY <1>1, <1>3, <1>4, RefreshMeans DEF Refreshing, Stamping
<1>6. AlertShape'
  BY <1>1, <1>5 DEF AlertInv, AlertShape
<1>7. \A q \in Refreshers : refresher'[q].now = refresher[q].now /\ (Stamping(q)' <=> Stamping(q))
  BY <1>3, <1>5
<1>8. InTime'
  <2>1. /\ \A q \in Refreshers : /\ refresher'[q].copy \in {alerts, refresher[q].copy}
        /\ alerts' = alerts /\ answer' = answer /\ alert_clock' = alert_clock
    BY <1>1, <1>3, <1>5
  <2>2. FilesInTime'
    BY <1>7, <2>1 DEF AlertInv, InTime, FilesInTime, Timely
  <2>3. StampsInTime' /\ DeliveryInTime'
    BY <1>7, <2>1 DEF AlertInv, InTime, StampsInTime, DeliveryInTime
  <2> QED BY <2>2, <2>3 DEF InTime
<1>9. DraftsAnnounce' /\ BlockedIsKnown'
  BY <1>1, <1>3, <1>5 DEF AlertInv, DraftsAnnounce, BlockedIsKnown, Announced
<1>10. AnswerIsCurrent' /\ CurrentFormWasSeen'
  BY <1>1 DEF AlertInv, AnswerIsCurrent, CurrentFormWasSeen, Unresolved, Deliverable
<1> QED BY <1>6, <1>8, <1>9, <1>10 DEF AlertInv

\* What a refresh saves: the records it read, as its drafts change them.
LEMMA SaveKeeps ==
    ASSUME AlertInv, NEW p \in Refreshers, SaveAlerts(p)
    PROVE  AlertInv'
<1> DEFINE copy == refresher[p].copy
           drafts == refresher[p].drafts
           now == refresher[p].now
<1>1. /\ refresher[p].stage = "save" /\ refresher' = [refresher EXCEPT ![p] = Resting]
      /\ alerts' = [k \in Keys |-> Reconciled(copy[k], drafts[k], now)]
      /\ \A k \in Keys : alerts'[k] # alerts[k] /\ k \notin slipped'
           => answer.stage = "none" /\ copy = alerts /\ ~(alerts[k].delivered > now)
      /\ slipped \subseteq slipped' /\ (slipped \subseteq Keys => slipped' \subseteq Keys)
      /\ ops' = ops /\ alert_clock' = alert_clock /\ refreshes' = refreshes
      /\ situation' = situation /\ answer' = answer /\ changes' = changes
      /\ answers' = answers /\ alert_deaths' = alert_deaths /\ seen' = seen
      /\ overlapped' = overlapped
  BY DEF SaveAlerts
<1>2. /\ refresher[p] \in RefreshRecord /\ copy \in AlertFile /\ drafts \in Drafts /\ now \in Nat
      /\ alerts \in AlertFile /\ alert_clock \in Nat
  BY DEF AlertInv, AlertShape, RefreshRecord
<1>3. Stamping(p) /\ Refreshing(p) /\ Timely(copy) /\ now <= alert_clock
  BY <1>1 DEF AlertInv, InTime, FilesInTime, StampsInTime, Stamping, Refreshing
<1>4. Refreshes(p, Resting)
  BY <1>1, AlertRecordsFit DEF Refreshes
<1>5. /\ refresher' \in [Refreshers -> RefreshRecord] /\ refresher'[p] = Resting
      /\ \A q \in Refreshers \ {p} : /\ refresher'[q] = refresher[q]
                                     /\ Stamping(q)' <=> Stamping(q)
                                     /\ Refreshing(q)' <=> Refreshing(q)
      /\ ~Stamping(p)' /\ ~Refreshing(p)'
  BY <1>4, RefreshMeans, AlertRecordsFit
<1> HIDE DEF copy, drafts, now
<1>6. ASSUME NEW k \in Keys
      PROVE  /\ alerts'[k] \in Alert
             /\ alerts'[k].changed \in {copy[k].changed, now}
             /\ alerts'[k].delivered \in {copy[k].delivered, 0}
             /\ drafts[k] # "none" => alerts'[k].status \in {"open", "acknowledged"}
             /\ alerts'[k].status = "open" /\ alerts'[k] # copy[k]
                  => alerts'[k].delivered = 0 \/ alerts'[k].changed = now
  <2>1. copy[k] \in Alert /\ drafts[k] \in Bodies /\ now \in Nat
    BY <1>2 DEF AlertFile, Drafts
  <2>2. alerts'[k] = Reconciled(copy[k], drafts[k], now)
    BY <1>1
  <2> QED BY <2>1, <2>2, ReconciledFits
<1>7. alerts' \in AlertFile
  <2>1. alerts' = [k \in Keys |-> alerts'[k]]
    BY <1>1
  <2> QED BY <1>6, <2>1 DEF AlertFile
<1>8. AlertShape'
  BY <1>1, <1>5, <1>7 DEF AlertInv, AlertShape
<1>9. \A q \in Refreshers : /\ Stamping(q)' => Stamping(q) /\ refresher'[q].now = refresher[q].now
                            /\ refresher'[q].copy \in {refresher[q].copy, NoAlerts}
                            /\ refresher'[q].now \in {refresher[q].now, 0}
  BY <1>5, AlertRecordsFit
<1>10. InTime'
  <2>1. ASSUME NEW file, Timely(file) \/ file = NoAlerts
        PROVE  \A k \in Keys :
                 /\ file[k].changed <= alert_clock /\ file[k].delivered <= alert_clock
                 /\ \A q \in Refreshers : Stamping(q)' => file[k].delivered # refresher'[q].now
    <3>1. CASE Timely(file)
      BY <1>9, <3>1, Zenon DEF Timely
    <3>2. CASE file = NoAlerts
      BY <1>2, <1>9, <3>2, AlertRecordsFit DEF AlertInv, InTime, StampsInTime
    <3> QED BY <2>1, <3>1, <3>2
  <2>2. Timely(alerts)'
    <3>1. \A q \in Refreshers : Stamping(q)' => 0 # refresher'[q].now
      BY <1>9 DEF AlertInv, InTime, StampsInTime
    <3>2. ASSUME NEW k \in Keys
          PROVE  /\ alerts'[k].changed <= alert_clock /\ alerts'[k].delivered <= alert_clock
                 /\ \A q \in Refreshers : Stamping(q)' => alerts'[k].delivered # refresher'[q].now
      <4>1. /\ copy[k].changed <= alert_clock /\ copy[k].delivered <= alert_clock
            /\ \A q \in Refreshers : Stamping(q)' => copy[k].delivered # refresher'[q].now
        BY <1>3, <2>1
      <4>2. 0 <= alert_clock
        BY <1>2
      <4> QED BY <1>3, <1>6, <3>1, <4>1, <4>2, Zenon
    <3> QED BY <1>1, <3>2, Zenon DEF Timely
  <2>3. Timely(answer.copy)' /\ \A q \in Refreshers : Timely(refresher[q].copy)'
    <3>1. Timely(answer.copy) /\ \A q \in Refreshers : Timely(refresher[q].copy)
      BY DEF AlertInv, InTime, FilesInTime
    <3>2. Timely(answer.copy)'
      BY <1>1, <2>1, <3>1, Zenon DEF Timely
    <3>3. ASSUME NEW q \in Refreshers PROVE Timely(refresher[q].copy)'
      <4>1. Timely(refresher'[q].copy) \/ refresher'[q].copy = NoAlerts
        BY <1>9, <3>1
      <4> QED BY <1>1, <2>1, <4>1, Zenon DEF Timely
    <3> QED BY <3>2, <3>3
  <2>4. \A q \in Refreshers : refresher'[q].now <= alert_clock /\ (Stamping(q)' => refresher'[q].now # 0)
    BY <1>2, <1>9 DEF AlertInv, InTime, StampsInTime
  <2>5. answer.stage = "save" =>
          answer.now <= alert_clock /\ \A q \in Refreshers : Stamping(q)' => answer.now # refresher'[q].now
    BY <1>9 DEF AlertInv, InTime, DeliveryInTime
  <2> QED BY <1>1, <2>2, <2>3, <2>4, <2>5 DEF InTime, FilesInTime, StampsInTime, DeliveryInTime
<1>11. DraftsAnnounce'
  BY <1>5 DEF AlertInv, DraftsAnnounce
<1>12. BlockedIsKnown'
  <2> SUFFICES ASSUME ~overlapped PROVE BlockedIsKnown'
    BY <1>1 DEF BlockedIsKnown
  <2>1. refresher[p].ops = ops /\ \A q \in Refreshers : Refreshing(q) => p = q
    BY <1>3 DEF AlertInv, BlockedIsKnown
  <2>2. \A q \in Refreshers : ~Refreshing(q)'
    BY <1>5, <2>1
  <2>3. ops.status = "blocked" => \E k \in Keys : drafts[k] # "none"
    BY <1>3, <2>1 DEF AlertInv, DraftsAnnounce, drafts
  <2>4. ops.status = "blocked" => Announced'
    BY <1>6, <2>3, Zenon DEF Announced
  <2> QED BY <1>1, <2>2, <2>4 DEF BlockedIsKnown
<1>13. AnswerIsCurrent'
  BY <1>1 DEF AlertInv, AlertShape, AnswerRecord, AnswerIsCurrent
<1>14. CurrentFormWasSeen'
  <2> SUFFICES ASSUME NEW k \in Keys, Unresolved(k)', ~Deliverable(k)', k \notin answer.listed,
                      k \notin slipped'
               PROVE  seen[k] = alerts'[k].body
    BY <1>1 DEF CurrentFormWasSeen
  <2>1. CASE alerts'[k] = alerts[k]
    BY <1>1, <2>1 DEF AlertInv, CurrentFormWasSeen, Unresolved, Deliverable
  <2>2. CASE alerts'[k] # alerts[k]
    <3>1. copy = alerts /\ ~(alerts[k].delivered > now)
      BY <1>1, <2>2
    <3>2. alerts[k].delivered \in Nat /\ alerts[k].delivered # now
      BY <1>2, <1>3, <3>1 DEF AlertFile, Alert, Timely, now
    <3>3. /\ alerts'[k].delivered = 0 \/ alerts'[k].changed = now
          /\ alerts'[k].delivered \in {alerts[k].delivered, 0}
      BY <1>6, <2>2, <3>1 DEF Unresolved
    <3>4. alerts'[k].delivered = 0 \/ alerts'[k].changed > alerts'[k].delivered
      BY <1>2, <3>1, <3>2, <3>3
    <3> QED BY <3>4 DEF Deliverable, Unresolved
  <2> QED BY <2>1, <2>2
<1> QED BY <1>8, <1>10, <1>11, <1>12, <1>13, <1>14 DEF AlertInv

\* The bot goes on with its answer.
Answers(a) ==
    /\ a \in AnswerRecord /\ answer' = a
    /\ UNCHANGED <<situation, ops, refresher, changes, refreshes>>

\* What does not depend on the answer, or on what an answer saves, stays as it was.
LEMMA AnswerMeans ==
    ASSUME AlertInv, NEW a, Answers(a), alerts' \in AlertFile, alert_clock' \in Nat,
           seen' \in Drafts, slipped' \subseteq Keys, overlapped' \in BOOLEAN,
           answers' \in 0..MaxAnswers, alert_deaths' \in 0..MaxAlertDeaths,
           ~overlapped' => ~overlapped /\ (Announced => Announced')
    PROVE  /\ AlertShape' /\ DraftsAnnounce' /\ BlockedIsKnown'
           /\ \A q \in Refreshers : Stamping(q)' <=> Stamping(q)
<1>1. /\ answer' \in AnswerRecord /\ situation' = situation /\ ops' = ops
      /\ refresher' = refresher /\ changes' = changes /\ refreshes' = refreshes
  BY DEF Answers
<1>2. AlertShape'
  BY <1>1 DEF AlertInv, AlertShape
<1>3. DraftsAnnounce' /\ \A q \in Refreshers : Stamping(q)' <=> Stamping(q)
  BY <1>1 DEF AlertInv, DraftsAnnounce, Stamping
<1>4. BlockedIsKnown'
  BY <1>1 DEF AlertInv, BlockedIsKnown, Refreshing
<1> QED BY <1>2, <1>3, <1>4

\* Times stay in order when an answer changes no clock: what it saves is Timely, and
\* so is what it keeps.
LEMMA SameClock ==
    ASSUME AlertInv, refresher' = refresher, alert_clock' = alert_clock,
           Timely(alerts'), Timely(answer'.copy), answer'.stage # "save"
    PROVE  InTime'
<1>1. \A q \in Refreshers : (Stamping(q)' <=> Stamping(q)) /\ refresher'[q] = refresher[q]
  BY DEF Stamping
<1>2. ASSUME NEW file, Timely(file)
      PROVE  \A k \in Keys :
               /\ file[k].changed <= alert_clock' /\ file[k].delivered <= alert_clock'
               /\ \A q \in Refreshers : Stamping(q)' => file[k].delivered # refresher'[q].now
  BY <1>1, <1>2, Zenon DEF Timely
<1>3. Timely(alerts)'
  BY <1>2, Zenon DEF Timely
<1>4. Timely(answer.copy)'
  BY <1>2, Zenon DEF Timely
<1>5. \A q \in Refreshers : Timely(refresher[q].copy)'
  <2>1. \A q \in Refreshers : Timely(refresher[q].copy)
    BY DEF AlertInv, InTime, FilesInTime
  <2> QED BY <1>1, <1>2, <2>1, Zenon DEF Timely
<1>6. StampsInTime' /\ DeliveryInTime'
  BY <1>1 DEF AlertInv, InTime, StampsInTime, DeliveryInTime
<1> QED BY <1>3, <1>4, <1>5, <1>6 DEF InTime, FilesInTime

\* Nothing is late in an empty file.
LEMMA NoAlertsTimely == ASSUME AlertInv PROVE Timely(NoAlerts)
  BY AlertRecordsFit DEF Timely, AlertInv, AlertShape, InTime, StampsInTime

\* An answer begins: nothing it lists has changed since.
LEMMA ListKeeps ==
    ASSUME AlertInv, BotFree, NEW keys \in SUBSET Keys, List(keys)
    PROVE  AlertInv'
<1> DEFINE t == [k \in Keys |-> IF k \in keys THEN alerts[k].body ELSE "none"]
           a == [NoAnswer EXCEPT !.stage = "mark", !.listed = keys, !.texts = t]
<1>1. /\ answer.stage = "none" /\ answers < MaxAnswers /\ answers' = answers + 1
      /\ answer' = a /\ alerts' = alerts /\ alert_clock' = alert_clock /\ refresher' = refresher
      /\ situation' = situation /\ ops' = ops /\ changes' = changes /\ refreshes' = refreshes
      /\ alert_deaths' = alert_deaths /\ seen' = seen /\ slipped' = slipped
      /\ overlapped' = overlapped
  BY DEF BotFree, List
<1>2. \A k \in Keys : alerts[k].body \in Bodies
  BY DEF AlertInv, AlertShape, AlertFile, Alert
<1>3. t \in Drafts /\ \A k \in keys : t[k] = alerts[k].body
  BY <1>2 DEF Drafts, Bodies
<1> HIDE DEF t
<1>4. /\ a \in AnswerRecord /\ a.stage = "mark" /\ a.listed = keys /\ a.texts = t
      /\ a.copy = NoAlerts
  BY <1>3, AlertRecordsFit DEF AnswerRecord
<1> HIDE DEF a
<1>5. answers' \in 0..MaxAnswers
  BY <1>1, AlertConstantsOK DEF AlertInv, AlertShape
<1>6. AlertShape' /\ DraftsAnnounce' /\ BlockedIsKnown'
  <2>1. Answers(a)
    BY <1>1, <1>4 DEF Answers
  <2>2. /\ alerts' \in AlertFile /\ alert_clock' \in Nat /\ seen' \in Drafts /\ slipped' \subseteq Keys
        /\ overlapped' \in BOOLEAN /\ alert_deaths' \in 0..MaxAlertDeaths
        /\ ~overlapped' => ~overlapped /\ (Announced => Announced')
    BY <1>1 DEF AlertInv, AlertShape, Announced
  <2> QED BY <1>5, <2>1, <2>2, AnswerMeans
<1>7. InTime'
  <2>1. Timely(alerts') /\ Timely(answer'.copy) /\ answer'.stage # "save"
    BY <1>1, <1>4, NoAlertsTimely DEF AlertInv, InTime, FilesInTime
  <2> QED BY <1>1, <2>1, SameClock
<1>8. AnswerIsCurrent'
  BY <1>1, <1>3, <1>4 DEF AnswerIsCurrent
<1>9. CurrentFormWasSeen'
  <2>1. answer.listed = {}
    BY <1>1 DEF AlertInv, AnswerIsCurrent
  <2> QED BY <1>1, <2>1 DEF AlertInv, CurrentFormWasSeen, Unresolved, Deliverable
<1> QED BY <1>6, <1>7, <1>8, <1>9 DEF AlertInv

\* The bot reads the file to acknowledge what is open.
LEMMA AcknowledgeKeeps ==
    ASSUME AlertInv, AcknowledgeAll
    PROVE  AlertInv'
<1> DEFINE a == [NoAnswer EXCEPT !.stage = "acknowledge", !.copy = alerts]
<1>1. /\ answer.stage = "none" /\ answers < MaxAnswers /\ answers' = answers + 1
      /\ answer' = a /\ alerts' = alerts /\ alert_clock' = alert_clock /\ refresher' = refresher
      /\ situation' = situation /\ ops' = ops /\ changes' = changes /\ refreshes' = refreshes
      /\ alert_deaths' = alert_deaths /\ seen' = seen /\ slipped' = slipped
      /\ overlapped' = overlapped
  BY DEF BotFree, AcknowledgeAll
<1>2. alerts \in AlertFile /\ Timely(alerts)
  BY DEF AlertInv, AlertShape, InTime, FilesInTime
<1>3. a \in AnswerRecord /\ a.stage = "acknowledge" /\ a.listed = {} /\ a.copy = alerts
  BY <1>2, AlertRecordsFit DEF AnswerRecord
<1> HIDE DEF a
<1>4. answers' \in 0..MaxAnswers
  BY <1>1, AlertConstantsOK DEF AlertInv, AlertShape
<1>5. AlertShape' /\ DraftsAnnounce' /\ BlockedIsKnown'
  <2>1. Answers(a)
    BY <1>1, <1>3 DEF Answers
  <2>2. /\ alerts' \in AlertFile /\ alert_clock' \in Nat /\ seen' \in Drafts /\ slipped' \subseteq Keys
        /\ overlapped' \in BOOLEAN /\ alert_deaths' \in 0..MaxAlertDeaths
        /\ ~overlapped' => ~overlapped /\ (Announced => Announced')
    BY <1>1 DEF AlertInv, AlertShape, Announced
  <2> QED BY <1>4, <2>1, <2>2, AnswerMeans
<1>6. InTime'
  <2>1. Timely(alerts') /\ Timely(answer'.copy) /\ answer'.stage # "save"
    BY <1>1, <1>2, <1>3
  <2> QED BY <1>1, <2>1, SameClock
<1>7. AnswerIsCurrent' /\ CurrentFormWasSeen'
  <2>1. answer.listed = {}
    BY <1>1 DEF AlertInv, AnswerIsCurrent
  <2> QED BY <1>1, <1>3, <2>1 DEF AlertInv, AnswerIsCurrent, CurrentFormWasSeen, Unresolved, Deliverable
<1> QED BY <1>5, <1>6, <1>7 DEF AlertInv

\* Nothing stays open once all is acknowledged.
LEMMA AcknowledgedKeeps ==
    ASSUME AlertInv, SaveAcknowledged
    PROVE  AlertInv'
<1> DEFINE copy == answer.copy
           new(k) == IF copy[k].status = "open" THEN [copy[k] EXCEPT !.status = "acknowledged"]
                     ELSE copy[k]
<1>1. /\ answer.stage = "acknowledge" /\ alerts' = [k \in Keys |-> new(k)]
      /\ slipped \subseteq slipped' /\ (slipped \subseteq Keys => slipped' \subseteq Keys)
      /\ overlapped' = (overlapped \/ copy # alerts)
      /\ answer' = NoAnswer /\ alert_clock' = alert_clock /\ refresher' = refresher
      /\ situation' = situation /\ ops' = ops /\ changes' = changes /\ refreshes' = refreshes
      /\ answers' = answers /\ alert_deaths' = alert_deaths /\ seen' = seen
  BY DEF SaveAcknowledged
<1>2. copy \in AlertFile /\ Timely(copy)
  BY DEF AlertInv, AlertShape, AnswerRecord, InTime, FilesInTime
<1> HIDE DEF copy
<1>3. ASSUME NEW k \in Keys
      PROVE  /\ new(k) \in Alert /\ new(k).status # "open"
             /\ new(k).changed = copy[k].changed /\ new(k).delivered = copy[k].delivered
             /\ copy[k].status \in {"open", "acknowledged"} => new(k).status = "acknowledged"
  <2>1. copy[k] \in Alert
    BY <1>2 DEF AlertFile
  <2> QED BY <2>1 DEF Alert, AlertStatus
<1> HIDE DEF new
<1>4. alerts' \in AlertFile /\ \A k \in Keys : alerts'[k] = new(k)
  BY <1>1, <1>3 DEF AlertFile
<1>5. AlertShape' /\ DraftsAnnounce' /\ BlockedIsKnown'
  <2>1. Answers(NoAnswer)
    BY <1>1, AlertRecordsFit DEF Answers
  <2>2. /\ alert_clock' \in Nat /\ seen' \in Drafts /\ slipped' \subseteq Keys
        /\ overlapped' \in BOOLEAN /\ alert_deaths' \in 0..MaxAlertDeaths
        /\ answers' \in 0..MaxAnswers
    BY <1>1 DEF AlertInv, AlertShape
  <2>3. ~overlapped' => ~overlapped /\ (Announced => Announced')
    BY <1>1, <1>3, <1>4, Zenon DEF Announced
  <2> QED BY <1>4, <2>1, <2>2, <2>3, AnswerMeans
<1>6. InTime'
  <2>1. Timely(alerts')
    BY <1>2, <1>3, <1>4, Zenon DEF Timely
  <2>2. Timely(answer'.copy) /\ answer'.stage # "save"
    BY <1>1, AlertRecordsFit, NoAlertsTimely
  <2> QED BY <1>1, <2>1, <2>2, SameClock
<1>7. AnswerIsCurrent'
  BY <1>1, AlertRecordsFit DEF AnswerIsCurrent
<1>8. CurrentFormWasSeen'
  BY <1>3, <1>4 DEF CurrentFormWasSeen, Unresolved
<1> QED BY <1>5, <1>6, <1>7, <1>8 DEF AlertInv

\* The time of a delivery is later than every refresh under way.
LEMMA MarkKeeps ==
    ASSUME AlertInv, MarkDelivered
    PROVE  AlertInv'
<1> DEFINE n == alert_clock + 1
           a == [answer EXCEPT !.stage = "save", !.now = n, !.copy = alerts]
<1>1. /\ answer.stage = "mark" /\ alert_clock' = n
      /\ answer' = a /\ alerts' = alerts /\ refresher' = refresher /\ answers' = answers
      /\ situation' = situation /\ ops' = ops /\ changes' = changes /\ refreshes' = refreshes
      /\ alert_deaths' = alert_deaths /\ seen' = seen /\ slipped' = slipped
      /\ overlapped' = overlapped
  BY DEF MarkDelivered
<1>2. alerts \in AlertFile /\ answer \in AnswerRecord /\ alert_clock \in Nat
  BY DEF AlertInv, AlertShape
<1>3. n \in Nat /\ \A i \in Nat : i <= alert_clock => i <= n /\ i # n
  BY <1>2
<1> HIDE DEF n
<1>4. /\ a \in AnswerRecord /\ a.stage = "save" /\ a.listed = answer.listed /\ a.copy = alerts
      /\ a.texts = answer.texts /\ a.now = n
  BY <1>2, <1>3 DEF AnswerRecord
<1> HIDE DEF a
<1>5. /\ AlertShape' /\ DraftsAnnounce' /\ BlockedIsKnown'
      /\ \A q \in Refreshers : Stamping(q)' <=> Stamping(q)
  <2>1. Answers(a)
    BY <1>1, <1>4 DEF Answers
  <2>2. /\ alerts' \in AlertFile /\ alert_clock' \in Nat /\ seen' \in Drafts /\ slipped' \subseteq Keys
        /\ overlapped' \in BOOLEAN /\ alert_deaths' \in 0..MaxAlertDeaths
        /\ answers' \in 0..MaxAnswers
        /\ ~overlapped' => ~overlapped /\ (Announced => Announced')
    BY <1>1, <1>3 DEF AlertInv, AlertShape, Announced
  <2> QED BY <2>1, <2>2, AnswerMeans
<1>6. \A q \in Refreshers : /\ refresher[q].copy \in AlertFile /\ refresher[q].now \in Nat
                            /\ refresher[q].now <= alert_clock
                            /\ (Stamping(q) => refresher[q].now # 0)
  BY DEF AlertInv, AlertShape, RefreshRecord, InTime, StampsInTime
<1>7. InTime'
  <2>1. ASSUME NEW file \in AlertFile, Timely(file)
        PROVE  \A k \in Keys :
                 /\ file[k].changed <= n /\ file[k].delivered <= n
                 /\ \A q \in Refreshers : Stamping(q)' => file[k].delivered # refresher[q].now
    <3> SUFFICES ASSUME NEW k \in Keys
                 PROVE  /\ file[k].changed <= n /\ file[k].delivered <= n
                        /\ \A q \in Refreshers : Stamping(q)' => file[k].delivered # refresher[q].now
      OBVIOUS
    <3>1. /\ file[k].changed \in Nat /\ file[k].delivered \in Nat
          /\ file[k].changed <= alert_clock /\ file[k].delivered <= alert_clock
      BY <2>1 DEF AlertFile, Alert, Timely
    <3>2. file[k].changed <= n /\ file[k].delivered <= n
      BY <1>3, <3>1
    <3> QED BY <1>5, <2>1, <3>2, Zenon DEF Timely
  <2>2. Timely(alerts) /\ \A q \in Refreshers : Timely(refresher[q].copy)
    BY DEF AlertInv, InTime, FilesInTime
  <2>3. Timely(alerts)' /\ Timely(answer.copy)'
    BY <1>1, <1>2, <1>4, <2>1, <2>2, Zenon DEF Timely
  <2>4. \A q \in Refreshers : Timely(refresher[q].copy)'
    BY <1>1, <1>6, <2>1, <2>2, Zenon DEF Timely
  <2>5. StampsInTime' /\ DeliveryInTime'
    BY <1>1, <1>3, <1>4, <1>5, <1>6 DEF StampsInTime, DeliveryInTime
  <2> QED BY <2>3, <2>4, <2>5 DEF InTime, FilesInTime
<1>8. AnswerIsCurrent' /\ CurrentFormWasSeen'
  BY <1>1, <1>4 DEF AlertInv, AnswerIsCurrent, CurrentFormWasSeen, Unresolved, Deliverable
<1> QED BY <1>5, <1>7, <1>8 DEF AlertInv

\* What is stamped as delivered is what was listed, unless it slipped.
LEMMA DeliveredKeeps ==
    ASSUME AlertInv, SaveDelivered
    PROVE  AlertInv'
<1> DEFINE copy == answer.copy
           new(k) == IF k \in answer.listed THEN [copy[k] EXCEPT !.delivered = answer.now]
                     ELSE copy[k]
           a == [answer EXCEPT !.stage = "send", !.copy = NoAlerts]
<1>1. /\ answer.stage = "save" /\ alerts' = [k \in Keys |-> new(k)]
      /\ slipped \subseteq slipped' /\ (slipped \subseteq Keys => slipped' \subseteq Keys)
      /\ \A k \in Keys \ slipped' : copy[k] = alerts[k]
      /\ overlapped' = (overlapped \/ copy # alerts)
      /\ answer' = a /\ alert_clock' = alert_clock /\ refresher' = refresher
      /\ situation' = situation /\ ops' = ops /\ changes' = changes /\ refreshes' = refreshes
      /\ answers' = answers /\ alert_deaths' = alert_deaths /\ seen' = seen
  BY DEF SaveDelivered
<1>2. /\ copy \in AlertFile /\ Timely(copy) /\ answer \in AnswerRecord /\ answer.now \in Nat
      /\ answer.now <= alert_clock /\ \A q \in Refreshers : Stamping(q) => answer.now # refresher[q].now
  BY <1>1 DEF AlertInv, AlertShape, AnswerRecord, InTime, FilesInTime, DeliveryInTime
<1>3. /\ a \in AnswerRecord /\ a.stage = "send" /\ a.listed = answer.listed /\ a.copy = NoAlerts
      /\ a.texts = answer.texts
  BY <1>2, AlertRecordsFit DEF AnswerRecord
<1> HIDE DEF copy, a
<1>4. ASSUME NEW k \in Keys
      PROVE  /\ new(k) \in Alert /\ new(k).status = copy[k].status /\ new(k).body = copy[k].body
             /\ new(k).changed = copy[k].changed /\ new(k).delivered \in {copy[k].delivered, answer.now}
             /\ k \notin answer.listed => new(k) = copy[k]
  <2>1. copy[k] \in Alert
    BY <1>2 DEF AlertFile
  <2> QED BY <1>2, <2>1 DEF Alert
<1> HIDE DEF new
<1>5. alerts' \in AlertFile /\ \A k \in Keys : alerts'[k] = new(k)
  BY <1>1, <1>4 DEF AlertFile
<1>6. AlertShape' /\ DraftsAnnounce' /\ BlockedIsKnown'
  <2>1. Answers(a)
    BY <1>1, <1>3 DEF Answers
  <2>2. /\ alert_clock' \in Nat /\ seen' \in Drafts /\ slipped' \subseteq Keys
        /\ overlapped' \in BOOLEAN /\ alert_deaths' \in 0..MaxAlertDeaths
        /\ answers' \in 0..MaxAnswers
    BY <1>1 DEF AlertInv, AlertShape
  <2>3. ~overlapped' => ~overlapped /\ (Announced => Announced')
    BY <1>1, <1>4, <1>5, Zenon DEF Announced
  <2> QED BY <1>5, <2>1, <2>2, <2>3, AnswerMeans
<1>7. InTime'
  <2>1. Timely(alerts')
    <3>1. ASSUME NEW k \in Keys
          PROVE  /\ alerts'[k].changed <= alert_clock /\ alerts'[k].delivered <= alert_clock
                 /\ \A q \in Refreshers : Stamping(q) => alerts'[k].delivered # refresher[q].now
      <4>1. /\ copy[k].changed <= alert_clock /\ copy[k].delivered <= alert_clock
            /\ \A q \in Refreshers : Stamping(q) => copy[k].delivered # refresher[q].now
        BY <1>2 DEF Timely
      <4>2. alerts'[k].changed = copy[k].changed /\ alerts'[k].delivered \in {copy[k].delivered, answer.now}
        BY <1>4, <1>5
      <4>3. CASE alerts'[k].delivered = copy[k].delivered
        BY <4>1, <4>2, <4>3, Zenon
      <4>4. CASE alerts'[k].delivered = answer.now
        BY <1>2, <4>1, <4>2, <4>4, Zenon
      <4> QED BY <4>2, <4>3, <4>4
    <3> QED BY <3>1, Zenon DEF Timely
  <2>2. Timely(answer'.copy) /\ answer'.stage # "save"
    BY <1>1, <1>3, NoAlertsTimely
  <2> QED BY <1>1, <2>1, <2>2, SameClock
<1>8. AnswerIsCurrent'
  <2> SUFFICES ASSUME NEW k \in answer.listed, k \notin slipped' PROVE answer.texts[k] = alerts'[k].body
    BY <1>1, <1>3 DEF AnswerIsCurrent
  <2>1. k \in Keys
    BY <1>2 DEF AnswerRecord
  <2>2. answer.texts[k] = alerts[k].body /\ copy[k] = alerts[k]
    BY <1>1, <2>1 DEF AlertInv, AnswerIsCurrent
  <2> QED BY <1>4, <1>5, <2>1, <2>2
<1>9. CurrentFormWasSeen'
  <2> SUFFICES ASSUME NEW k \in Keys, Unresolved(k)', ~Deliverable(k)', k \notin answer.listed,
                      k \notin slipped'
               PROVE  seen[k] = alerts'[k].body
    BY <1>1, <1>3 DEF CurrentFormWasSeen
  <2>1. alerts'[k] = alerts[k] /\ k \notin slipped
    BY <1>1, <1>4, <1>5
  <2> QED BY <2>1 DEF AlertInv, CurrentFormWasSeen, Unresolved, Deliverable
<1> QED BY <1>6, <1>7, <1>8, <1>9 DEF AlertInv

\* The answer arrives, or never will: what it listed was seen, or has slipped.
LEMMA EndOfAnswerKeeps ==
    ASSUME AlertInv, SendAnswer \/ BotDiesAnswering
    PROVE  AlertInv'
<1>1. /\ answer' = NoAnswer /\ alerts' = alerts /\ alert_clock' = alert_clock
      /\ refresher' = refresher /\ situation' = situation /\ ops' = ops /\ changes' = changes
      /\ refreshes' = refreshes /\ answers' = answers /\ overlapped' = overlapped
  BY DEF SendAnswer, BotDiesAnswering
<1>2. /\ alert_deaths' \in 0..MaxAlertDeaths /\ seen' \in Drafts /\ slipped' \subseteq Keys
      /\ slipped \subseteq slipped'
      /\ \A k \in Keys : k \notin slipped' =>
           seen'[k] = IF k \in answer.listed THEN answer.texts[k] ELSE seen[k]
  <2>1. answer \in AnswerRecord /\ answer.listed \subseteq Keys /\ answer.texts \in Drafts
    BY DEF AlertInv, AlertShape, AnswerRecord
  <2>2. seen \in Drafts /\ slipped \subseteq Keys /\ alert_deaths \in 0..MaxAlertDeaths
    BY DEF AlertInv, AlertShape
  <2>3. CASE SendAnswer
    <3>1. /\ seen' = [k \in Keys |-> IF k \in answer.listed THEN answer.texts[k] ELSE seen[k]]
          /\ slipped' = slipped /\ alert_deaths' = alert_deaths
      BY <2>3 DEF SendAnswer
    <3>2. seen' \in Drafts
      BY <2>1, <2>2, <3>1 DEF Drafts
    <3> QED BY <2>2, <3>1, <3>2
  <2>4. CASE BotDiesAnswering
    <3>1. /\ slipped' = slipped \cup answer.listed /\ seen' = seen
          /\ alert_deaths < MaxAlertDeaths /\ alert_deaths' = alert_deaths + 1
      BY <2>4 DEF BotDiesAnswering
    <3>2. alert_deaths' \in 0..MaxAlertDeaths
      BY <2>2, <3>1, AlertConstantsOK
    <3> QED BY <2>1, <2>2, <3>1, <3>2
  <2> QED BY <2>3, <2>4
<1>3. AlertShape' /\ DraftsAnnounce' /\ BlockedIsKnown'
  <2>1. Answers(NoAnswer)
    BY <1>1, AlertRecordsFit DEF Answers
  <2>2. /\ alerts' \in AlertFile /\ alert_clock' \in Nat /\ overlapped' \in BOOLEAN
        /\ answers' \in 0..MaxAnswers /\ (~overlapped' => ~overlapped /\ (Announced => Announced'))
    BY <1>1 DEF AlertInv, AlertShape, Announced
  <2> QED BY <1>2, <2>1, <2>2, AnswerMeans
<1>4. InTime'
  <2>1. Timely(alerts') /\ Timely(answer'.copy) /\ answer'.stage # "save"
    BY <1>1, AlertRecordsFit, NoAlertsTimely DEF AlertInv, InTime, FilesInTime
  <2> QED BY <1>1, <2>1, SameClock
<1>5. AnswerIsCurrent'
  BY <1>1, AlertRecordsFit DEF AnswerIsCurrent
<1>6. CurrentFormWasSeen'
  <2> SUFFICES ASSUME NEW k \in Keys, Unresolved(k)', ~Deliverable(k)', k \notin slipped'
               PROVE  seen'[k] = alerts[k].body
    BY <1>1 DEF CurrentFormWasSeen
  <2>1. Unresolved(k) /\ ~Deliverable(k) /\ k \notin slipped
    BY <1>1, <1>2 DEF Unresolved, Deliverable
  <2>2. CASE k \in answer.listed
    BY <1>2, <2>1, <2>2 DEF AlertInv, AnswerIsCurrent
  <2>3. CASE k \notin answer.listed
    BY <1>2, <2>1, <2>3 DEF AlertInv, CurrentFormWasSeen
  <2> QED BY <2>2, <2>3
<1> QED BY <1>3, <1>4, <1>5, <1>6 DEF AlertInv

\* Every step of the alerts keeps their invariant.
LEMMA AlertInductive == AlertInv /\ [AlertNext]_alert_vars => AlertInv'
<1> SUFFICES ASSUME AlertInv, [AlertNext]_alert_vars PROVE AlertInv'
  OBVIOUS
<1>1. ASSUME NEW p \in Refreshers, Recompute(p) \/ DraftAlerts(p) \/ LoadAlerts(p) \/ SaveAlerts(p)
      PROVE  AlertInv'
  BY <1>1, RecomputeKeeps, DraftKeeps, LoadKeeps, SaveKeeps
<1>2. CASE AppendAlerts
  BY <1>2, ListKeeps DEF AppendAlerts
<1>3. CASE ShowAlerts
  BY <1>3, ListKeeps DEF ShowAlerts
<1>4. CASE UNCHANGED alert_vars
  BY <1>4 DEF alert_vars, AlertInv, AlertShape, InTime, FilesInTime, StampsInTime, DeliveryInTime,
     Timely, Stamping, DraftsAnnounce, BlockedIsKnown, Refreshing, Announced, AnswerIsCurrent,
     CurrentFormWasSeen, Unresolved, Deliverable
<1> QED BY <1>1, <1>2, <1>3, <1>4, ChangeKeepsAlerts, AcknowledgeKeeps, AcknowledgedKeeps,
           MarkKeeps, DeliveredKeeps, EndOfAnswerKeeps DEF AlertNext

\* At all times.
LEMMA AlertAlways == AlertSpec => []AlertInv
<1> QED BY AlertStart, AlertInductive, PTL DEF AlertSpec

\* Every file, refresh and answer is one the code could have made, no time is later than
\* the clock (continuous_ops, operator_notifications).
THEOREM AlertTypes == AlertSpec => []AlertTypeOK
<1>1. AlertInv => AlertTypeOK
  <2> SUFFICES ASSUME AlertInv PROVE AlertTypeOK
    OBVIOUS
  <2>1. ops \in [status : LoopStatus, summary : Bodies, attention : BOOLEAN]
    BY DEF AlertInv, AlertShape, OpsRecord
  <2>2. alerts \in [Keys -> [status : AlertStatus, body : Bodies, changed : 0..alert_clock,
                             delivered : 0..alert_clock]]
    <3>1. ASSUME NEW k \in Keys
          PROVE  alerts[k] \in [status : AlertStatus, body : Bodies, changed : 0..alert_clock,
                                delivered : 0..alert_clock]
      <4>1. alerts[k] \in Alert /\ alert_clock \in Nat
        BY DEF AlertInv, AlertShape, AlertFile
      <4>2. alerts[k].changed <= alert_clock /\ alerts[k].delivered <= alert_clock
        BY DEF AlertInv, InTime, FilesInTime, Timely
      <4>3. alerts[k].changed \in 0..alert_clock /\ alerts[k].delivered \in 0..alert_clock
        BY <4>1, <4>2 DEF Alert
      <4> QED BY <4>1, <4>3 DEF Alert
    <3>2. alerts \in AlertFile
      BY DEF AlertInv, AlertShape
    <3> QED BY <3>1, <3>2 DEF AlertFile
  <2>3. /\ \A p \in Refreshers : refresher[p].stage \in {"none", "draft", "load", "save"}
        /\ answer.stage \in {"none", "mark", "save", "send", "acknowledge"}
    BY DEF AlertInv, AlertShape, RefreshRecord, AnswerRecord
  <2> QED BY <2>1, <2>2, <2>3 DEF AlertInv, AlertShape, Drafts, AlertTypeOK
<1> QED BY <1>1, AlertAlways, PTL

\* However the bot's answers, the two processes' refreshes and the bot's deaths
\* interleave, a loop stored as blocked has an unresolved alert once no refresh runs, and
\* an open alert that is not deliverable any more is one whose present text the operator
\* was sent (list_deliverable_for_campaign, mark_delivered, reconcile).
THEOREM OperatorAlwaysTold == AlertSpec => []OperatorIsTold
<1>1. AlertInv => OperatorIsTold
  BY DEF AlertInv, OperatorIsTold, BlockedIsKnown, Refreshing, Announced, BlockedIsAnnounced
<1> QED BY <1>1, AlertAlways, PTL

------------------------------------------------------------------------------
(* Planning: the inductive invariant.                                      *)

ItemRecord ==
    [kind : Kind, schedule : Schedule \cup {NoSchedule}, status : Status, updated : Nat, draft : Nat]
AgentRecord == [kind : Kind \cup {"none"}, item : Nat]

PlanningShape ==
    /\ clock \in Nat /\ session \in [Kind -> Nat] /\ files \in [Kind -> Nat]
    /\ items \in Seq(ItemRecord) /\ stage \in [kind : Kind, approved : BOOLEAN]
    /\ turn \in AgentRecord /\ run \in AgentRecord /\ batch \in Nat
    /\ turns \in 0..MaxTurns /\ runs_made \in 0..MaxRuns /\ failures \in 0..MaxFailures
    /\ approved_at \in [Kind -> Nat]

\* What is on record was written by a step that is over; no two drafts at a time, none at the
\* time of an approval.
ItemsDated(all, t) == \A i \in DOMAIN all : all[i].updated <= t
DraftsDated ==
    \A k \in Kind :
      /\ approved_at[k] = 0 \/ approved_at[k] + 3 <= clock
      /\ session[k] = 0 \/ (session[k] >= 3 /\ session[k] + 2 <= clock)
      /\ \/ session[k] = 0 \/ session[k] < approved_at[k] \/ session[k] >= approved_at[k] + 3
      /\ \A j \in Kind : j = k \/ session[k] = 0 \/ session[j] # session[k]

\* The bot's agent works on open work of its kind: nothing is approved before it is done.
TurnFits ==
    turn = NoAgent \/ /\ turn.kind \in Kind /\ turn.item \in DOMAIN items /\ clock >= 3
                      /\ items[turn.item].kind = turn.kind /\ IsOpen(items[turn.item])
RunFits ==
    run = NoAgent \/ /\ run.kind \in Kind /\ run.item \in DOMAIN items
                     /\ items[run.item].kind = run.kind

\* Only an approval completes work, and work stays as it was completed or is taken up again.
CompletedByApproval ==
    \A i \in DOMAIN items :
      ~IsOpen(items[i]) => items[i].updated <= approved_at[items[i].kind] + 2

\* What the snapshot says was approved in chat was approved after it was saved.
ChatApproval ==
    stage.approved /\ failures = 0 =>
      \/ session["account_planning"] = 0
      \/ approved_at["account_planning"] > session["account_planning"]

Linked(k) ==
    \/ session[FollowOn(k)] > session[k] \/ approved_at[FollowOn(k)] > session[k]
    \/ \E i \in Open(items) : items[i].kind = FollowOn(k)
Chained ==
    \A k \in {"discovery", "strategy"} :
      Advice[k] = {} /\ session[k] # 0 /\ OfKind(items, k) \cap Open(items) = {} => Linked(k)

PlanningInv ==
    /\ PlanningShape /\ ItemsDated(items, clock) /\ DraftsDated /\ TurnFits /\ RunFits
    /\ CompletedByApproval /\ NoDraftForgotten /\ ChatApproval /\ Chained /\ BatchIsCurrent

------------------------------------------------------------------------------
(* Planning: greatest elements.                                            *)

\* A set of natural numbers has a least one.
LEMMA LeastExists ==
    ASSUME NEW T, T \subseteq Nat, T # {}
    PROVE  \E x \in T : \A y \in T : x <= y
<1> DEFINE R == {p \in Nat \X Nat : p[1] < p[2]}
<1>1. IsWellFoundedOn(R, Nat)
  BY NatLessThanWellFounded, Zenon DEF OpToRel
<1>2. PICK x \in T : \A y \in T : ~(<<y, x>> \in R)
  BY <1>1, WFMin
<1>3. \A y \in T : y < x => <<y, x>> \in R
  OBVIOUS
<1>4. \A y \in T : ~(y < x)
  BY <1>2, <1>3
<1>5. \A y \in T : x <= y
  BY <1>4
<1> QED BY <1>2, <1>5

\* A set of natural numbers with a bound has a greatest one.
LEMMA GreatestExists ==
    ASSUME NEW T, T \subseteq Nat, T # {}, NEW b \in Nat, \A y \in T : y <= b
    PROVE  \E x \in T : \A y \in T : y <= x
<1> DEFINE U == {u \in Nat : \E y \in T : u = b - y}
<1>1. \A y \in T : b - y \in U
  OBVIOUS
<1>2. U # {} /\ U \subseteq Nat
  BY <1>1
<1>3. PICK u \in U : \A v \in U : u <= v
  BY <1>2, LeastExists
<1>4. PICK x \in T : u = b - x
  BY <1>3
<1>5. \A y \in T : b - x <= b - y
  BY <1>1, <1>3, <1>4
<1>6. \A y \in T : y <= x
  BY <1>4, <1>5
<1> QED BY <1>4, <1>6

\* The fields of items.
LEMMA ItemFields ==
    ASSUME NEW all \in Seq(ItemRecord)
    PROVE  \A i \in DOMAIN all : /\ all[i] \in ItemRecord /\ all[i].updated \in Nat
                                 /\ all[i].kind \in Kind /\ all[i].status \in Status
<1> TAKE i \in DOMAIN all
<1>1. all[i] \in ItemRecord
  OBVIOUS
<1> QED BY <1>1 DEF ItemRecord

\* Of any items one was updated last.
LEMMA NewestExists ==
    ASSUME NEW all \in Seq(ItemRecord), NEW t \in Nat, ItemsDated(all, t),
           NEW ids \in SUBSET DOMAIN all, ids # {}
    PROVE  /\ Newest(all, ids) \in ids
           /\ \A j \in ids : all[j].updated <= all[Newest(all, ids)].updated
<1> DEFINE T == {u \in Nat : \E i \in ids : u = all[i].updated}
<1>1. \A i \in ids : all[i].updated \in Nat /\ all[i].updated <= t
  BY ItemFields DEF ItemsDated
<1>2. \A i \in ids : all[i].updated \in T
  BY <1>1
<1>3. PICK x \in T : \A y \in T : y <= x
  <2>1. T \subseteq Nat /\ T # {} /\ \A y \in T : y <= t
    BY <1>1, <1>2
  <2> QED BY <2>1, GreatestExists
<1>4. PICK i \in ids : x = all[i].updated
  BY <1>3
<1>5. \A j \in ids : all[j].updated <= all[i].updated
  BY <1>2, <1>3, <1>4
<1> QED BY <1>5 DEF Newest

\* Of any items one goes before the others.
LEMMA ForemostExists ==
    ASSUME NEW all \in Seq(ItemRecord), NEW t \in Nat, ItemsDated(all, t),
           NEW ids \in SUBSET DOMAIN all, ids # {}
    PROVE  Foremost(all, ids) \in ids
<1>1. \A i \in DOMAIN all : /\ Priority(all[i]) \in 0..3 /\ StatusRank(all[i]) \in 0..3
                            /\ all[i].updated \in Nat /\ all[i].updated <= t
  BY ItemFields DEF ItemsDated, Priority, StatusRank
<1>2. PICK p \in Nat : /\ \E i \in ids : Priority(all[i]) = p
                       /\ \A j \in ids : Priority(all[j]) <= p
  <2> DEFINE T == {u \in Nat : \E i \in ids : u = Priority(all[i])}
  <2>1. ASSUME NEW i \in ids PROVE Priority(all[i]) \in T
    <3>1. Priority(all[i]) \in Nat
      BY <1>1
    <3> QED BY <3>1
  <2>2. T \subseteq Nat /\ T # {} /\ \A y \in T : y <= 3
    <3>1. T \subseteq Nat /\ T # {}
      BY <2>1
    <3>2. ASSUME NEW y \in T PROVE y <= 3
      <4>1. PICK i \in ids : y = Priority(all[i])
        OBVIOUS
      <4> QED BY <1>1, <4>1
    <3> QED BY <3>1, <3>2
  <2>3. PICK x \in T : \A y \in T : y <= x
    BY <2>2, GreatestExists
  <2> QED BY <2>1, <2>3
<1>3. PICK s \in Nat : /\ \E i \in ids : Priority(all[i]) = p /\ StatusRank(all[i]) = s
                       /\ \A j \in ids : Priority(all[j]) = p => StatusRank(all[j]) <= s
  <2> DEFINE T == {u \in Nat : \E i \in ids : Priority(all[i]) = p /\ u = StatusRank(all[i])}
  <2>1. ASSUME NEW i \in ids, Priority(all[i]) = p PROVE StatusRank(all[i]) \in T
    <3>1. StatusRank(all[i]) \in Nat
      BY <1>1
    <3> QED BY <2>1, <3>1
  <2>2. T \subseteq Nat /\ T # {} /\ \A y \in T : y <= 3
    <3>1. T \subseteq Nat /\ T # {}
      BY <1>2, <2>1
    <3>2. ASSUME NEW y \in T PROVE y <= 3
      <4>1. PICK i \in ids : y = StatusRank(all[i])
        OBVIOUS
      <4> QED BY <1>1, <4>1
    <3> QED BY <3>1, <3>2
  <2>3. PICK x \in T : \A y \in T : y <= x
    BY <2>2, GreatestExists
  <2> QED BY <2>1, <2>3
<1> DEFINE best == {i \in ids : Priority(all[i]) = p /\ StatusRank(all[i]) = s}
<1>4. Newest(all, best) \in best /\ \A j \in best : all[j].updated <= all[Newest(all, best)].updated
  <2>1. best \in SUBSET DOMAIN all /\ best # {}
    BY <1>3
  <2> HIDE DEF best
  <2> QED BY <2>1, NewestExists
<1>5. PICK i \in best : \A j \in best : all[j].updated <= all[i].updated
  BY <1>4
<1>6. \A j \in ids : Outranks(all[i], all[j])
  <2> TAKE j \in ids
  <2>1. /\ Priority(all[j]) <= p /\ (Priority(all[j]) = p => StatusRank(all[j]) <= s)
        /\ (Priority(all[j]) = p /\ StatusRank(all[j]) = s => all[j].updated <= all[i].updated)
        /\ Priority(all[i]) = p /\ StatusRank(all[i]) = s
    BY <1>2, <1>3, <1>5
  <2>2. i \in ids
    BY <1>5
  <2> HIDE DEF best
  <2>3. /\ Priority(all[j]) \in Nat /\ StatusRank(all[j]) \in Nat /\ all[j].updated \in Nat
        /\ all[i].updated \in Nat
    BY <1>1, <2>2
  <2> QED BY <2>1, <2>3 DEF Outranks
<1> QED BY <1>5, <1>6 DEF Foremost

------------------------------------------------------------------------------
(* Planning: work goes on.                                                 *)

WorkRecord(all, t) == all \in Seq(ItemRecord) /\ ItemsDated(all, t)

\* No work is closed: what is open stays so and what is closed is as it was or open again.
Evolves(all, new) ==
    /\ \A i \in DOMAIN all : /\ i \in DOMAIN new /\ new[i].kind = all[i].kind
                             /\ IsOpen(all[i]) => IsOpen(new[i])
    /\ \A i \in DOMAIN new : ~IsOpen(new[i]) => i \in DOMAIN all /\ new[i] = all[i]

\* Item i is r from now on; item r is added.
TakenUp(all, new, i, r, u) ==
    /\ i \in DOMAIN all /\ r \in ItemRecord /\ r.kind = all[i].kind /\ IsOpen(r) /\ r.updated <= u
    /\ new = [all EXCEPT ![i] = r]
Opened(all, new, r, u) ==
    r \in ItemRecord /\ IsOpen(r) /\ r.updated <= u /\ new = Append(all, r)

\* So it is after two steps as well.
LEMMA GoesOnAndOn ==
    ASSUME NEW all, NEW mid, NEW new, Evolves(all, mid), Evolves(mid, new)
    PROVE  Evolves(all, new)
  BY DEF Evolves, IsOpen

\* Open work is taken up or touched.
LEMMA TakingUpGoesOn ==
    ASSUME NEW t \in Nat, NEW u \in Nat, t <= u, NEW all, WorkRecord(all, t),
           NEW new, NEW i, NEW r, TakenUp(all, new, i, r, u)
    PROVE  WorkRecord(new, u) /\ Evolves(all, new) /\ DOMAIN new = DOMAIN all
<1> USE DEF TakenUp
<1>1. new \in Seq(ItemRecord) /\ DOMAIN new = DOMAIN all /\ new[i] = r
  BY DEF WorkRecord
<1>2. \A j \in DOMAIN all : j # i => new[j] = all[j]
  BY DEF WorkRecord
<1>3. \A j \in DOMAIN all : all[j].updated \in Nat
  BY ItemFields DEF WorkRecord
<1>4. ItemsDated(new, u)
  BY <1>1, <1>2, <1>3 DEF WorkRecord, ItemsDated
<1> QED BY <1>1, <1>2, <1>4 DEF WorkRecord, Evolves

\* New work is open.
LEMMA OpeningGoesOn ==
    ASSUME NEW t \in Nat, NEW u \in Nat, t <= u, NEW all, WorkRecord(all, t),
           NEW new, NEW r, Opened(all, new, r, u)
    PROVE  /\ WorkRecord(new, u) /\ Evolves(all, new)
           /\ Len(all) + 1 \in DOMAIN new /\ new[Len(all) + 1] = r
<1> USE DEF Opened
<1>1. /\ new \in Seq(ItemRecord) /\ Len(new) = Len(all) + 1 /\ new[Len(all) + 1] = r
      /\ \A j \in DOMAIN all : j \in DOMAIN new /\ new[j] = all[j]
      /\ \A j \in DOMAIN new : j \in DOMAIN all \/ j = Len(all) + 1
      /\ Len(all) + 1 \in DOMAIN new
  BY DEF WorkRecord
<1>2. \A j \in DOMAIN all : all[j].updated \in Nat
  BY ItemFields DEF WorkRecord
<1>3. ItemsDated(new, u)
  BY <1>1, <1>2 DEF WorkRecord, ItemsDated
<1> QED BY <1>1, <1>3 DEF WorkRecord, Evolves

\* The item of a slot that is updated now is the newest of the slot and of its kind.
LEMMA SlotTouched ==
    ASSUME NEW u \in Nat, NEW new, WorkRecord(new, u), NEW k, NEW s,
           \E i \in Slot(new, k, s) : new[i].updated = u
    PROVE  /\ Newest(new, Slot(new, k, s)) \in Slot(new, k, s)
           /\ new[Newest(new, Slot(new, k, s))].updated = u
           /\ Latest(new, k) \in OfKind(new, k) /\ new[Latest(new, k)].updated = u
<1>1. \A i \in DOMAIN new : new[i].updated \in Nat /\ new[i].updated <= u
  BY ItemFields DEF WorkRecord, ItemsDated
<1>2. Slot(new, k, s) \in SUBSET DOMAIN new /\ OfKind(new, k) \in SUBSET DOMAIN new
  BY DEF Slot, Open, OfKind
<1>3. Slot(new, k, s) \subseteq OfKind(new, k)
  BY DEF Slot, Open, OfKind
<1>4. /\ Newest(new, Slot(new, k, s)) \in Slot(new, k, s)
      /\ \A j \in Slot(new, k, s) : new[j].updated <= new[Newest(new, Slot(new, k, s))].updated
  BY <1>2, NewestExists DEF WorkRecord
<1>5. /\ Latest(new, k) \in OfKind(new, k)
      /\ \A j \in OfKind(new, k) : new[j].updated <= new[Latest(new, k)].updated
  BY <1>2, <1>3, NewestExists DEF WorkRecord, Latest
<1> QED BY <1>1, <1>2, <1>3, <1>4, <1>5

\* ensure_work_item leaves an open item in the slot.
LEMMA EnsuredGoesOn ==
    ASSUME NEW t \in Nat, NEW u \in Nat, t <= u, NEW all, WorkRecord(all, t),
           NEW k \in Kind, NEW s \in Schedule \cup {NoSchedule},
           NEW new, new = Ensured(all, k, s, "in_progress", u)
    PROVE  /\ WorkRecord(new, u) /\ Evolves(all, new)
           /\ Newest(new, Slot(new, k, s)) \in Slot(new, k, s)
           /\ new[Newest(new, Slot(new, k, s))].updated = u
<1> DEFINE ids == Slot(all, k, s)
<1>1. ids \in SUBSET DOMAIN all
  BY DEF Slot, Open
<1>2. /\ WorkRecord(new, u) /\ Evolves(all, new)
      /\ \E i \in Slot(new, k, s) : new[i].updated = u
  <2>1. CASE ids = {}
    <3> DEFINE r == Item(k, s, "in_progress", u)
    <3>1. r \in ItemRecord /\ IsOpen(r) /\ r.updated = u /\ r.kind = k /\ r.schedule = s
      BY DEF Item, ItemRecord, IsOpen, Status
    <3>2. new = Append(all, r)
      BY <2>1 DEF Ensured
    <3> HIDE DEF r
    <3>3. /\ WorkRecord(new, u) /\ Evolves(all, new)
          /\ Len(all) + 1 \in DOMAIN new /\ new[Len(all) + 1] = r
      <4>1. Opened(all, new, r, u)
        BY <3>1, <3>2 DEF Opened
      <4> QED BY <4>1, OpeningGoesOn
    <3>4. Len(all) + 1 \in Slot(new, k, s)
      BY <3>1, <3>3 DEF Slot, Open
    <3> QED BY <3>1, <3>3, <3>4
  <2>2. CASE ids # {}
    <3> DEFINE i == Newest(all, ids)
               r == [all[i] EXCEPT !.updated = u]
    <3>1. i \in ids
      BY <1>1, <2>2, NewestExists DEF WorkRecord
    <3>2. i \in DOMAIN all /\ IsOpen(all[i]) /\ all[i].kind = k /\ all[i].schedule = s
      BY <3>1 DEF Slot, Open
    <3>3. all[i] \in ItemRecord
      BY <3>2 DEF WorkRecord
    <3>4. /\ r \in ItemRecord /\ r.kind = k /\ r.schedule = s /\ r.updated = u
          /\ r.status = all[i].status
      BY <3>2, <3>3 DEF ItemRecord
    <3>5. new = [all EXCEPT ![i] = r]
      BY <2>2 DEF Ensured
    <3> HIDE DEF i, r, ids
    <3>6. IsOpen(r) /\ r.updated <= u
      BY <3>2, <3>4 DEF IsOpen
    <3>7. WorkRecord(new, u) /\ Evolves(all, new) /\ DOMAIN new = DOMAIN all
      <4>1. TakenUp(all, new, i, r, u)
        BY <3>2, <3>4, <3>5, <3>6 DEF TakenUp
      <4> QED BY <4>1, TakingUpGoesOn
    <3>8. new[i] = r
      BY <3>2, <3>5 DEF WorkRecord
    <3>9. i \in Slot(new, k, s)
      BY <3>2, <3>4, <3>6, <3>7, <3>8 DEF Slot, Open
    <3> QED BY <3>4, <3>7, <3>8, <3>9
  <2> QED BY <2>1, <2>2
<1> QED BY <1>2, SlotTouched

\* update_status, of open work.
LEMMA StatusGoesOn ==
    ASSUME NEW t \in Nat, NEW u \in Nat, t <= u, NEW all, WorkRecord(all, t),
           NEW i \in DOMAIN all, NEW status \in Status \ {"completed"},
           NEW new, new = WithStatus(all, i, status, u)
    PROVE  /\ WorkRecord(new, u) /\ Evolves(all, new) /\ DOMAIN new = DOMAIN all
           /\ new[i].kind = all[i].kind /\ new[i].schedule = all[i].schedule
           /\ new[i].status = status /\ new[i].updated = u
<1> DEFINE r == [all[i] EXCEPT !.status = status, !.updated = u]
<1>1. all[i] \in ItemRecord
  BY DEF WorkRecord
<1>2. /\ r \in ItemRecord /\ r.kind = all[i].kind /\ r.schedule = all[i].schedule
      /\ r.status = status /\ r.updated = u
  BY <1>1 DEF ItemRecord
<1>3. new = [all EXCEPT ![i] = r]
  BY <1>1 DEF WithStatus, WorkRecord, ItemRecord
<1> HIDE DEF r
<1>4. IsOpen(r) /\ r.updated <= u
  BY <1>2 DEF IsOpen
<1>5. WorkRecord(new, u) /\ Evolves(all, new) /\ DOMAIN new = DOMAIN all
  <2>1. TakenUp(all, new, i, r, u)
    BY <1>2, <1>3, <1>4 DEF TakenUp
  <2> QED BY <2>1, TakingUpGoesOn
<1>6. new[i] = r
  BY <1>3 DEF WorkRecord
<1> QED BY <1>2, <1>5, <1>6

\* work.refresh leaves the slot's item in progress.
LEMMA RefreshedGoesOn ==
    ASSUME NEW t \in Nat, NEW u \in Nat, t <= u, NEW all, WorkRecord(all, t), NEW k \in Kind,
           NEW new, new = Refreshed(all, k, u)
    PROVE  /\ WorkRecord(new, u) /\ Evolves(all, new)
           /\ Newest(new, Slot(new, k, NoSchedule)) \in Slot(new, k, NoSchedule)
           /\ Latest(new, k) \in OfKind(new, k) /\ new[Latest(new, k)].updated = u
<1> DEFINE ensured == Ensured(all, k, NoSchedule, "in_progress", u)
           i == Newest(ensured, Slot(ensured, k, NoSchedule))
<1>1. /\ WorkRecord(ensured, u) /\ Evolves(all, ensured) /\ i \in Slot(ensured, k, NoSchedule)
      /\ ensured[i].updated = u
  BY EnsuredGoesOn
<1>2. i \in DOMAIN ensured /\ ensured[i].kind = k /\ ensured[i].schedule = NoSchedule
  BY <1>1 DEF Slot, Open
<1>3. new = IF ensured[i].status = "in_progress" THEN ensured
            ELSE WithStatus(ensured, i, "in_progress", u)
  BY DEF Refreshed
<1> HIDE DEF ensured, i
<1>4. /\ WorkRecord(new, u) /\ Evolves(all, new)
      /\ \E j \in Slot(new, k, NoSchedule) : new[j].updated = u
  <2>1. CASE ensured[i].status = "in_progress"
    BY <1>1, <1>3, <2>1
  <2>2. CASE ensured[i].status # "in_progress"
    <3>1. new = WithStatus(ensured, i, "in_progress", u)
      BY <1>3, <2>2
    <3>2. /\ WorkRecord(new, u) /\ Evolves(ensured, new) /\ DOMAIN new = DOMAIN ensured
          /\ new[i].kind = ensured[i].kind /\ new[i].schedule = ensured[i].schedule
          /\ new[i].status = "in_progress" /\ new[i].updated = u
      <4>1. "in_progress" \in Status \ {"completed"}
        BY DEF Status
      <4> QED BY <1>1, <1>2, <3>1, <4>1, StatusGoesOn
    <3>3. i \in Slot(new, k, NoSchedule)
      BY <1>2, <3>2 DEF Slot, Open, IsOpen
    <3> QED BY <1>1, <3>2, <3>3, GoesOnAndOn
  <2> QED BY <2>1, <2>2
<1> QED BY <1>4, SlotTouched

\* Later times do no harm.
LEMMA WorkRecordLater ==
    ASSUME NEW t \in Nat, NEW u \in Nat, t <= u, NEW all, WorkRecord(all, t)
    PROVE  WorkRecord(all, u)
  BY ItemFields DEF WorkRecord, ItemsDated

\* Of what has gone on, only what is open was updated since.
LEMMA UpdatedIsOpen ==
    ASSUME NEW t \in Nat, NEW u \in Nat, t < u, NEW all, WorkRecord(all, t),
           NEW new, Evolves(all, new), NEW i \in DOMAIN new, new[i].updated = u
    PROVE  IsOpen(new[i])
<1>1. \A j \in DOMAIN all : all[j].updated \in Nat /\ all[j].updated <= t
  BY ItemFields DEF WorkRecord, ItemsDated
<1> QED BY <1>1 DEF Evolves

\* A message finds open work, routed by what is in review.
LEMMA RouteFits ==
    ASSUME PlanningInv
    PROVE  /\ WorkRecord(Backfilled, clock + 1) /\ Evolves(items, Backfilled)
           /\ Route \in DOMAIN Backfilled /\ IsOpen(Backfilled[Route])
           /\ RoutedKind = Backfilled[Route].kind /\ RoutedKind \in Kind
<1> DEFINE b == Backfilled
<1>1. WorkRecord(items, clock) /\ clock \in Nat /\ clock + 1 \in Nat /\ clock <= clock + 1
  BY DEF PlanningInv, PlanningShape, WorkRecord
<1>2. WorkRecord(b, clock + 1) /\ Evolves(items, b) /\ Open(b) # {}
  <2>1. CASE Open(items) # {}
    <3>1. b = items
      BY <2>1 DEF Backfilled
    <3>2. \A i \in DOMAIN items : items[i].updated \in Nat
      BY <1>1, ItemFields DEF WorkRecord
    <3> QED BY <1>1, <2>1, <3>1, <3>2 DEF WorkRecord, ItemsDated, Evolves
  <2>2. CASE Open(items) = {}
    <3> DEFINE status == IF session[stage.kind] # 0 THEN "review_pending" ELSE "in_progress"
               r == Item(stage.kind, NoSchedule, status, clock + 1)
    <3>1. status \in Status /\ status # "completed" /\ stage.kind \in Kind
      BY DEF Status, PlanningInv, PlanningShape
    <3>2. b = Append(items, r)
      BY <2>2 DEF Backfilled
    <3> HIDE DEF status
    <3>3. r \in ItemRecord /\ IsOpen(r) /\ r.updated <= clock + 1
      BY <1>1, <3>1 DEF Item, ItemRecord, IsOpen
    <3> HIDE DEF r, b
    <3>4. /\ WorkRecord(b, clock + 1) /\ Evolves(items, b)
          /\ Len(items) + 1 \in DOMAIN b /\ b[Len(items) + 1] = r
      <4>1. Opened(items, b, r, clock + 1)
        BY <3>2, <3>3 DEF Opened
      <4> QED BY <1>1, <4>1, OpeningGoesOn
    <3> QED BY <3>3, <3>4 DEF Open
  <2> QED BY <2>1, <2>2
<1>3. Route \in Open(b)
  <2>1. Open(b) \in SUBSET DOMAIN b /\ InReview(b) \in SUBSET DOMAIN b
    BY DEF Open, InReview
  <2>2. InReview(b) \subseteq Open(b)
    BY DEF Open, InReview, IsOpen
  <2>3. CASE InReview(b) # {}
    <3>1. Route = Foremost(b, InReview(b))
      BY <2>3 DEF Route
    <3> HIDE DEF b
    <3> QED BY <1>1, <1>2, <2>1, <2>2, <2>3, <3>1, ForemostExists DEF WorkRecord
  <2>4. CASE InReview(b) = {}
    <3>1. Route = Foremost(b, Open(b))
      BY <2>4 DEF Route
    <3> HIDE DEF b
    <3> QED BY <1>1, <1>2, <2>1, <3>1, ForemostExists DEF WorkRecord
  <2> QED BY <2>3, <2>4
<1>4. Route \in DOMAIN b /\ IsOpen(b[Route])
  BY <1>3 DEF Open
<1>5. b[Route] \in ItemRecord
  BY <1>2, <1>4 DEF WorkRecord
<1>6. RoutedKind = b[Route].kind /\ RoutedKind \in Kind
  BY <1>5 DEF RoutedKind, ItemRecord
<1> QED BY <1>2, <1>4, <1>6

------------------------------------------------------------------------------
(* Planning: the steps.                                                    *)

\* What depends on the work, but for who is at it.
WorkInv == ItemsDated(items, clock) /\ DraftsDated /\ CompletedByApproval /\ NoDraftForgotten /\ Chained

\* Whatever is done to the work while nothing is approved or saved.
LEMMA WorkContinues ==
    ASSUME PlanningInv, Evolves(items, items'), WorkRecord(items', clock'), clock' \in Nat,
           clock <= clock', session' = session, approved_at' = approved_at
    PROVE  WorkInv' /\ (turn' = turn => TurnFits') /\ (run' = run => RunFits')
<1>1. /\ clock \in Nat /\ session \in [Kind -> Nat] /\ approved_at \in [Kind -> Nat]
      /\ DraftsDated /\ TurnFits /\ RunFits /\ CompletedByApproval /\ NoDraftForgotten /\ Chained
  BY DEF PlanningInv, PlanningShape
<1>2. ItemsDated(items, clock)'
  BY DEF WorkRecord
<1>3. DraftsDated'
  BY <1>1 DEF DraftsDated
<1>4. CompletedByApproval'
  BY <1>1 DEF CompletedByApproval, Evolves
<1>5. NoDraftForgotten'
  BY <1>1 DEF NoDraftForgotten, Open, Evolves
<1>6. Chained'
  <2>1. \A i \in Open(items) : i \in Open(items') /\ items'[i].kind = items[i].kind
    BY DEF Open, Evolves
  <2>2. \A k \in Kind : OfKind(items, k) \cap Open(items) \subseteq OfKind(items', k) \cap Open(items')
    BY <2>1 DEF OfKind, Open
  <2>3. {"discovery", "strategy"} \subseteq Kind
    BY DEF Kind
  <2> QED BY <1>1, <2>1, <2>2, <2>3 DEF Chained, Linked
<1>7. turn' = turn => TurnFits'
  BY <1>1 DEF TurnFits, Evolves
<1>8. run' = run => RunFits'
  BY <1>1 DEF RunFits, Evolves
<1> QED BY <1>2, <1>3, <1>4, <1>5, <1>6, <1>7, <1>8 DEF WorkInv

\* A draft is saved while its work is open.
LEMMA DraftIsSaved ==
    ASSUME PlanningInv, turn # NoAgent, SaveDraft, Evolves(items, items'),
           WorkRecord(items', clock'), clock' = clock + 3, approved_at' = approved_at
    PROVE  WorkInv' /\ (run' = run => RunFits') /\ session' \in [Kind -> Nat]
<1>1. /\ clock \in Nat /\ session \in [Kind -> Nat] /\ approved_at \in [Kind -> Nat]
      /\ DraftsDated /\ TurnFits /\ RunFits /\ CompletedByApproval /\ NoDraftForgotten /\ Chained
  BY DEF PlanningInv, PlanningShape
<1>2. /\ turn.kind \in Kind /\ turn.item \in Open(items) /\ clock >= 3
      /\ items[turn.item].kind = turn.kind
  BY <1>1 DEF TurnFits, Open
<1>3. /\ session' \in [Kind -> Nat] /\ session'[turn.kind] = clock + 1
      /\ \A k \in Kind : k # turn.kind => session'[k] = session[k]
  BY <1>1, <1>2 DEF SaveDraft
<1>4. \A i \in Open(items) : i \in Open(items') /\ items'[i].kind = items[i].kind
  BY DEF Open, Evolves
<1>5. ItemsDated(items, clock)'
  BY DEF WorkRecord
<1>6. DraftsDated'
  <2>1. \A k \in Kind : /\ approved_at[k] \in Nat /\ session[k] \in Nat
                        /\ approved_at[k] = 0 \/ approved_at[k] + 3 <= clock
                        /\ session[k] = 0 \/ (session[k] >= 3 /\ session[k] + 2 <= clock)
    BY <1>1 DEF DraftsDated
  <2>2. ASSUME NEW k \in Kind
        PROVE  /\ approved_at[k] = 0 \/ approved_at[k] + 3 <= clock + 3
               /\ session'[k] = 0 \/ (session'[k] >= 3 /\ session'[k] + 2 <= clock + 3)
    BY <1>1, <1>2, <1>3, <2>1
  <2>3. ASSUME NEW k \in Kind
        PROVE  session'[k] = 0 \/ session'[k] < approved_at[k] \/ session'[k] >= approved_at[k] + 3
    BY <1>1, <1>2, <1>3, <2>1 DEF DraftsDated
  <2>4. ASSUME NEW k \in Kind, NEW j \in Kind
        PROVE  j = k \/ session'[k] = 0 \/ session'[j] # session'[k]
    BY <1>1, <1>2, <1>3, <2>1 DEF DraftsDated
  <2> QED BY <2>2, <2>3, <2>4 DEF DraftsDated
<1>7. CompletedByApproval'
  BY <1>1 DEF CompletedByApproval, Evolves
<1>8. NoDraftForgotten'
  <2>1. SUFFICES ASSUME NEW k \in Kind, session'[k] > approved_at[k]
                 PROVE  \E i \in Open(items') : items'[i].kind = k
    BY DEF NoDraftForgotten
  <2>2. CASE k = turn.kind
    BY <1>2, <1>4, <2>2
  <2>3. CASE k # turn.kind
    BY <1>1, <1>3, <1>4, <2>1, <2>3 DEF NoDraftForgotten
  <2> QED BY <2>2, <2>3
<1>9. Chained'
  <2>1. SUFFICES ASSUME NEW k \in {"discovery", "strategy"}, Advice[k] = {}, session'[k] # 0,
                        OfKind(items', k) \cap Open(items') = {}
                 PROVE  Linked(k)'
    BY DEF Chained
  <2>2. \A i \in Open(items) : items[i].kind # k
    BY <1>4, <2>1 DEF OfKind, Open
  <2>3. k # turn.kind /\ k \in Kind /\ FollowOn(k) \in Kind
    BY <1>2, <2>2 DEF Kind, FollowOn
  <2>4. Linked(k)
    BY <1>1, <1>3, <2>1, <2>2, <2>3 DEF Chained, OfKind, Open
  <2>5. session'[FollowOn(k)] >= session[FollowOn(k)]
    <3>1. PICK n \in Kind : n = FollowOn(k)
      BY <2>3
    <3>2. session[n] \in Nat /\ (session[n] = 0 \/ session[n] + 2 <= clock)
      BY <1>1 DEF DraftsDated
    <3>3. session'[n] = IF n = turn.kind THEN clock + 1 ELSE session[n]
      BY <1>3
    <3>4. session'[n] >= session[n]
      BY <1>1, <3>2, <3>3
    <3> QED BY <3>1, <3>4
  <2>6. session'[k] = session[k] /\ session[k] \in Nat
    BY <1>1, <1>3, <2>3
  <2>7. session[FollowOn(k)] \in Nat /\ session'[FollowOn(k)] \in Nat
    BY <1>1, <1>3, <2>3
  <2> QED BY <1>4, <2>4, <2>5, <2>6, <2>7 DEF Linked
<1>10. run' = run => RunFits'
  BY <1>1 DEF RunFits, Evolves
<1> QED BY <1>3, <1>5, <1>6, <1>7, <1>8, <1>9, <1>10 DEF WorkInv

------------------------------------------------------------------------------
\* What every message does.
LEMMA MessageFits ==
    ASSUME PlanningInv, Message
    PROVE  /\ turn = NoAgent /\ turns' \in 0..MaxTurns /\ files' \in [Kind -> Nat]
           /\ clock' = clock + 3 /\ clock \in Nat /\ clock' \in Nat /\ clock <= clock'
  BY PlanningConstantsOK DEF PlanningInv, PlanningShape, Message

\* The whole invariant, of its parts.
LEMMA PartsSuffice ==
    ASSUME PlanningInv, PlanningShape', WorkInv', TurnFits', RunFits', ChatApproval', BatchIsCurrent'
    PROVE  PlanningInv'
  BY DEF PlanningInv, WorkInv

\* Nothing is approved in chat or made ready by most steps.
LEMMA PapersStay ==
    ASSUME PlanningInv, session' = session, approved_at' = approved_at, batch' = batch,
           failures \in Nat, failures' = failures \/ failures' = failures + 1,
           stage' = stage \/ ~stage'.approved
    PROVE  ChatApproval' /\ BatchIsCurrent'
<1>1. ChatApproval /\ BatchIsCurrent
  BY DEF PlanningInv
<1>2. failures' = 0 => failures = 0
  OBVIOUS
<1> QED BY <1>1, <1>2 DEF ChatApproval, BatchIsCurrent

\* A draft is put into review.
PutInReview(item, t, d) == [item EXCEPT !.status = "review_pending", !.updated = t, !.draft = d]

\* An item put into review is open and dated as its draft.
LEMMA InReviewFits ==
    ASSUME NEW item \in ItemRecord, NEW t \in Nat, NEW d \in Nat
    PROVE  LET r == PutInReview(item, t, d)
           IN  /\ r \in ItemRecord /\ r.kind = item.kind /\ r.updated = t
               /\ r.status = "review_pending"
<1>1. "review_pending" \in Status
  BY DEF Status
<1> QED BY <1>1 DEF ItemRecord, PutInReview

\* An answer to a review that is neither approval nor revision.
LEMMA AskAgainKeeps == ASSUME PlanningInv, AskAgain PROVE PlanningInv'
<1>1. /\ Message /\ items' = Backfilled
      /\ UNCHANGED <<session, stage, turn, run, batch, runs_made, failures, approved_at>>
  BY DEF AskAgain
<1>2. /\ turns' \in 0..MaxTurns /\ files' \in [Kind -> Nat]
      /\ clock' = clock + 3 /\ clock \in Nat /\ clock' \in Nat /\ clock <= clock'
  BY <1>1, MessageFits
<1>3. WorkRecord(items', clock') /\ Evolves(items, items')
  BY <1>1, <1>2, RouteFits, WorkRecordLater
<1>4. WorkInv' /\ TurnFits' /\ RunFits'
  BY <1>1, <1>2, <1>3, WorkContinues
<1>5. PlanningShape'
  BY <1>1, <1>2, <1>3 DEF PlanningInv, PlanningShape, WorkRecord
<1>6. ChatApproval' /\ BatchIsCurrent'
  BY <1>1, PapersStay DEF PlanningInv, PlanningShape
<1> QED BY <1>4, <1>5, <1>6, PartsSuffice

\* A message about work that is not in review.
LEMMA WorkKeeps == ASSUME PlanningInv, Work PROVE PlanningInv'
<1>1. /\ Message /\ items' = Backfilled /\ turn' = [kind |-> RoutedKind, item |-> Route]
      /\ UNCHANGED <<session, stage, run, batch, runs_made, failures, approved_at>>
  BY DEF Work
<1>2. /\ turns' \in 0..MaxTurns /\ files' \in [Kind -> Nat]
      /\ clock' = clock + 3 /\ clock \in Nat /\ clock' \in Nat /\ clock <= clock'
  BY <1>1, MessageFits
<1>3. WorkRecord(items', clock') /\ Evolves(items, items')
  BY <1>1, <1>2, RouteFits, WorkRecordLater
<1>4. WorkInv' /\ RunFits'
  BY <1>1, <1>2, <1>3, WorkContinues
<1>5. /\ RoutedKind \in Kind /\ Route \in DOMAIN items' /\ IsOpen(items'[Route])
      /\ items'[Route].kind = RoutedKind /\ Route \in Nat
  BY <1>1, <1>3, RouteFits DEF WorkRecord
<1>6. TurnFits'
  BY <1>1, <1>2, <1>5 DEF TurnFits
<1>7. turn' \in AgentRecord
  BY <1>1, <1>5 DEF AgentRecord
<1>8. PlanningShape'
  BY <1>1, <1>2, <1>3, <1>7 DEF PlanningInv, PlanningShape, WorkRecord
<1>9. ChatApproval' /\ BatchIsCurrent'
  BY <1>1, PapersStay DEF PlanningInv, PlanningShape
<1> QED BY <1>4, <1>6, <1>8, <1>9, PartsSuffice

\* Work in review is taken up again, without its schedule.
LEMMA ReviseKeeps == ASSUME PlanningInv, Revise PROVE PlanningInv'
<1> DEFINE i == Newest(items', Slot(items', RoutedKind, NoSchedule))
<1>1. /\ Message /\ items' = Refreshed(Backfilled, RoutedKind, clock + 2)
      /\ turn' = [kind |-> RoutedKind, item |-> i]
      /\ UNCHANGED <<session, stage, run, batch, runs_made, failures, approved_at>>
  BY DEF Revise
<1>2. /\ turns' \in 0..MaxTurns /\ files' \in [Kind -> Nat]
      /\ clock' = clock + 3 /\ clock \in Nat /\ clock' \in Nat /\ clock <= clock'
  BY <1>1, MessageFits
<1>3. WorkRecord(Backfilled, clock + 1) /\ Evolves(items, Backfilled) /\ RoutedKind \in Kind
  BY RouteFits
<1>4. /\ WorkRecord(items', clock + 2) /\ Evolves(Backfilled, items')
      /\ i \in Slot(items', RoutedKind, NoSchedule)
  <2>1. clock + 1 \in Nat /\ clock + 2 \in Nat /\ clock + 1 <= clock + 2
    BY <1>2
  <2> QED BY <1>1, <1>3, <2>1, RefreshedGoesOn
<1> HIDE DEF i
<1>5. WorkRecord(items', clock') /\ Evolves(items, items')
  <2>1. clock + 2 \in Nat /\ clock + 2 <= clock'
    BY <1>2
  <2> QED BY <1>2, <1>3, <1>4, <2>1, WorkRecordLater, GoesOnAndOn
<1>6. WorkInv' /\ RunFits'
  BY <1>1, <1>2, <1>5, WorkContinues
<1>7. /\ i \in DOMAIN items' /\ IsOpen(items'[i]) /\ items'[i].kind = RoutedKind /\ i \in Nat
  BY <1>4 DEF Slot, Open, WorkRecord
<1>8. TurnFits'
  BY <1>1, <1>2, <1>3, <1>7 DEF TurnFits
<1>9. turn' \in AgentRecord
  BY <1>1, <1>3, <1>7 DEF AgentRecord
<1>10. PlanningShape'
  BY <1>1, <1>2, <1>5, <1>9 DEF PlanningInv, PlanningShape, WorkRecord
<1>11. ChatApproval' /\ BatchIsCurrent'
  BY <1>1, PapersStay DEF PlanningInv, PlanningShape
<1> QED BY <1>6, <1>8, <1>10, <1>11, PartsSuffice

\* A plan that is approved is made ready, and the batch is that of the session's plan.
LEMMA ActivateKeeps == ASSUME PlanningInv, Activate PROVE PlanningInv'
<1>1. /\ Message /\ UNCHANGED <<session, items, turn, run, runs_made, failures, approved_at>>
      /\ \/ /\ batch' = session["account_planning"]
            /\ stage' = [kind |-> "account_planning", approved |-> FALSE]
         \/ batch' = batch /\ stage' = stage
  BY DEF Activate
<1>2. /\ turns' \in 0..MaxTurns /\ files' \in [Kind -> Nat]
      /\ clock' = clock + 3 /\ clock \in Nat /\ clock' \in Nat /\ clock <= clock'
  BY <1>1, MessageFits
<1>3. WorkRecord(items', clock') /\ Evolves(items, items')
  <2>1. WorkRecord(items, clock)
    BY DEF PlanningInv, PlanningShape, WorkRecord
  <2> QED BY <1>1, <1>2, <2>1, WorkRecordLater DEF Evolves
<1>4. WorkInv' /\ TurnFits' /\ RunFits'
  BY <1>1, <1>2, <1>3, WorkContinues
<1>5. session["account_planning"] \in Nat /\ stage' \in [kind : Kind, approved : BOOLEAN]
  <2>1. session["account_planning"] \in Nat /\ "account_planning" \in Kind
    BY DEF PlanningInv, PlanningShape, Kind
  <2>2. stage \in [kind : Kind, approved : BOOLEAN]
    BY DEF PlanningInv, PlanningShape
  <2>3. CASE stage' = [kind |-> "account_planning", approved |-> FALSE]
    BY <2>1, <2>3
  <2>4. CASE stage' = stage
    BY <2>1, <2>2, <2>4
  <2> QED BY <1>1, <2>3, <2>4
<1>6. PlanningShape'
  BY <1>1, <1>2, <1>3, <1>5 DEF PlanningInv, PlanningShape, WorkRecord
<1>7. ChatApproval' /\ BatchIsCurrent'
  BY <1>1 DEF PlanningInv, ChatApproval, BatchIsCurrent
<1> QED BY <1>4, <1>6, <1>7, PartsSuffice

\* The agent's draft is saved, and its work goes into review.
LEMMA AgentSavesKeeps == ASSUME PlanningInv, AgentSaves PROVE PlanningInv'
<1> DEFINE i == turn.item
           r == PutInReview(items[i], clock + 2, session'[turn.kind])
<1>1. /\ turn # NoAgent /\ SaveDraft /\ files' = session'
      /\ items' = MarkReviewPending(i) /\ stage' = [kind |-> turn.kind, approved |-> FALSE]
      /\ batch' = BatchAfter(turn.kind) /\ turn' = NoAgent /\ clock' = clock + 3
      /\ UNCHANGED <<run, turns, runs_made, failures, approved_at>>
  BY DEF AgentSaves
<1>2. /\ turn.kind \in Kind /\ i \in DOMAIN items /\ IsOpen(items[i]) /\ clock \in Nat
      /\ WorkRecord(items, clock) /\ items[i] \in ItemRecord /\ session \in [Kind -> Nat]
  BY <1>1 DEF PlanningInv, PlanningShape, TurnFits, WorkRecord
<1>3. session' = [session EXCEPT ![turn.kind] = clock + 1] /\ session'[turn.kind] = clock + 1
  BY <1>1, <1>2 DEF SaveDraft
<1>4. /\ r \in ItemRecord /\ r.kind = items[i].kind /\ r.updated = clock + 2
      /\ r.status = "review_pending"
  <2>1. clock + 2 \in Nat /\ session'[turn.kind] \in Nat
    BY <1>2, <1>3
  <2>2. PICK item \in ItemRecord, u \in Nat, d \in Nat :
          item = items[i] /\ u = clock + 2 /\ d = session'[turn.kind]
    BY <1>2, <2>1
  <2> HIDE DEF i
  <2>3. r = PutInReview(item, u, d)
    BY <2>2
  <2>4. /\ PutInReview(item, u, d) \in ItemRecord /\ PutInReview(item, u, d).kind = item.kind
        /\ PutInReview(item, u, d).updated = u
        /\ PutInReview(item, u, d).status = "review_pending"
    BY InReviewFits
  <2> HIDE DEF r
  <2> QED BY <2>2, <2>3, <2>4
<1>5. items' = [items EXCEPT ![i] = r]
  BY <1>1 DEF MarkReviewPending, PutInReview
<1> HIDE DEF i, r
<1>6. TakenUp(items, items', i, r, clock')
  BY <1>1, <1>2, <1>4, <1>5 DEF TakenUp, IsOpen
<1>7. WorkRecord(items', clock') /\ Evolves(items, items')
  <2>1. clock' \in Nat /\ clock <= clock'
    BY <1>1, <1>2
  <2> QED BY <1>2, <1>6, <2>1, TakingUpGoesOn
<1>8. WorkInv' /\ RunFits' /\ session' \in [Kind -> Nat]
  BY <1>1, <1>7, DraftIsSaved
<1>9. TurnFits' /\ turn' \in AgentRecord
  BY <1>1 DEF TurnFits, NoAgent, AgentRecord
<1>10. batch' \in Nat /\ stage' \in [kind : Kind, approved : BOOLEAN]
  BY <1>1, <1>2 DEF BatchAfter, PlanningInv, PlanningShape
<1>11. PlanningShape'
  <2>1. PlanningShape
    BY DEF PlanningInv
  <2>2. clock' \in Nat /\ items' \in Seq(ItemRecord) /\ files' \in [Kind -> Nat]
    BY <1>1, <1>2, <1>7, <1>8 DEF WorkRecord
  <2>3. run' = run /\ turns' = turns /\ runs_made' = runs_made /\ failures' = failures
        /\ approved_at' = approved_at
    BY <1>1
  <2> QED BY <1>8, <1>9, <1>10, <2>1, <2>2, <2>3 DEF PlanningShape
<1>12. ChatApproval'
  BY <1>1 DEF ChatApproval
<1>13. BatchIsCurrent'
  <2>1. "account_planning" \in Kind
    BY DEF Kind
  <2> QED BY <1>1, <1>2, <1>3, <2>1 DEF BatchAfter, PlanningInv, BatchIsCurrent
<1> QED BY <1>8, <1>9, <1>11, <1>12, <1>13, PartsSuffice

\* The agent's answer yields nothing to save.
LEMMA AgentSavesNothingKeeps == ASSUME PlanningInv, AgentSavesNothing PROVE PlanningInv'
<1>1. /\ turn # NoAgent /\ files' = session /\ turn' = NoAgent /\ clock' = clock + 3
      /\ items' = IF turn.kind = "discovery"
                  THEN WithStatus(items, turn.item, "review_pending", clock + 2) ELSE items
      /\ UNCHANGED <<session, stage, run, batch, turns, runs_made, failures, approved_at>>
  BY DEF AgentSavesNothing
<1>2. /\ turn.item \in DOMAIN items /\ clock \in Nat /\ WorkRecord(items, clock)
      /\ clock' \in Nat /\ clock <= clock'
  <2>1. clock \in Nat /\ items \in Seq(ItemRecord) /\ ItemsDated(items, clock) /\ TurnFits
    BY DEF PlanningInv, PlanningShape
  <2>2. turn.item \in DOMAIN items
    BY <1>1, <2>1 DEF TurnFits
  <2>3. clock' \in Nat /\ clock <= clock'
    BY <1>1, <2>1
  <2> QED BY <2>1, <2>2, <2>3 DEF WorkRecord
<1>3. WorkRecord(items', clock') /\ Evolves(items, items')
  <2>1. CASE turn.kind = "discovery"
    <3>1. items' = WithStatus(items, turn.item, "review_pending", clock + 2)
      BY <1>1, <2>1
    <3>2. /\ "review_pending" \in Status \ {"completed"} /\ clock + 2 \in Nat /\ clock <= clock + 2
          /\ clock + 2 <= clock'
      BY <1>1, <1>2 DEF Status
    <3>3. WorkRecord(items', clock + 2) /\ Evolves(items, items')
      BY <1>2, <3>1, <3>2, StatusGoesOn
    <3> QED BY <1>2, <3>2, <3>3, WorkRecordLater
  <2>2. CASE turn.kind # "discovery"
    BY <1>1, <1>2, <2>2, WorkRecordLater DEF Evolves
  <2> QED BY <2>1, <2>2
<1>4. WorkInv' /\ RunFits'
  BY <1>1, <1>2, <1>3, WorkContinues
<1>5. TurnFits' /\ turn' \in AgentRecord
  BY <1>1 DEF TurnFits, NoAgent, AgentRecord
<1>6. PlanningShape'
  BY <1>1, <1>2, <1>3, <1>5 DEF PlanningInv, PlanningShape, WorkRecord
<1>7. ChatApproval' /\ BatchIsCurrent'
  BY <1>1, PapersStay DEF PlanningInv, PlanningShape
<1> QED BY <1>4, <1>5, <1>6, <1>7, PartsSuffice

\* A turn is cut off, after the draft was saved or before.
LEMMA TurnFailsKeeps == ASSUME PlanningInv, TurnFails PROVE PlanningInv'
<1>1. /\ turn # NoAgent /\ failures < MaxFailures /\ (SaveDraft \/ session' = session)
      /\ turn' = NoAgent /\ failures' = failures + 1 /\ clock' = clock + 3
      /\ UNCHANGED <<files, items, stage, run, batch, turns, runs_made, approved_at>>
  BY DEF TurnFails
<1>2. /\ clock \in Nat /\ WorkRecord(items, clock) /\ clock' \in Nat /\ clock <= clock'
      /\ failures \in Nat /\ failures' \in 0..MaxFailures /\ session \in [Kind -> Nat]
  BY <1>1, PlanningConstantsOK DEF PlanningInv, PlanningShape, WorkRecord
<1>3. WorkRecord(items', clock') /\ Evolves(items, items')
  BY <1>1, <1>2, WorkRecordLater DEF Evolves
<1>4. WorkInv' /\ RunFits' /\ session' \in [Kind -> Nat]
  BY <1>1, <1>2, <1>3, WorkContinues, DraftIsSaved
<1>5. TurnFits' /\ turn' \in AgentRecord
  BY <1>1 DEF TurnFits, NoAgent, AgentRecord
<1>6. PlanningShape'
  BY <1>1, <1>2, <1>3, <1>4, <1>5 DEF PlanningInv, PlanningShape, WorkRecord
<1>7. ChatApproval' /\ BatchIsCurrent'
  BY <1>1, <1>2 DEF ChatApproval, BatchIsCurrent
<1> QED BY <1>4, <1>5, <1>6, <1>7, PartsSuffice

\* The steps of the scheduler's process leave the turn alone.
LEMMA RunBeginsKeeps ==
    ASSUME PlanningInv, NEW s \in Schedule, RunBegins(s)
    PROVE  PlanningInv'
<1> DEFINE k == ScheduledKind[s]
           i == Newest(items', Slot(items', k, s))
<1>1. /\ runs_made < MaxRuns /\ runs_made' = runs_made + 1 /\ clock' = clock + 3
      /\ items' = Ensured(items, k, s, "in_progress", clock + 1)
      /\ run' = [kind |-> k, item |-> i]
      /\ UNCHANGED <<session, files, stage, turn, batch, turns, failures, approved_at>>
  BY DEF RunBegins
<1>2. /\ clock \in Nat /\ WorkRecord(items, clock) /\ clock' \in Nat /\ clock <= clock'
      /\ k \in Kind /\ clock + 1 \in Nat /\ clock <= clock + 1 /\ clock + 1 <= clock'
      /\ runs_made' \in 0..MaxRuns /\ s \in Schedule \cup {NoSchedule}
  BY <1>1, PlanningConstantsOK DEF PlanningInv, PlanningShape, WorkRecord
<1> HIDE DEF k
<1>3. WorkRecord(items', clock + 1) /\ Evolves(items, items') /\ i \in Slot(items', k, s)
  BY <1>1, <1>2, EnsuredGoesOn
<1> HIDE DEF i
<1>4. WorkRecord(items', clock')
  BY <1>2, <1>3, WorkRecordLater
<1>5. WorkInv' /\ TurnFits'
  BY <1>1, <1>2, <1>3, <1>4, WorkContinues
<1>6. i \in DOMAIN items' /\ items'[i].kind = k /\ i \in Nat
  BY <1>3 DEF Slot, Open, WorkRecord
<1>7. RunFits' /\ run' \in AgentRecord
  BY <1>1, <1>2, <1>6 DEF RunFits, AgentRecord
<1>8. PlanningShape'
  BY <1>1, <1>2, <1>4, <1>7 DEF PlanningInv, PlanningShape, WorkRecord
<1>9. ChatApproval' /\ BatchIsCurrent'
  BY <1>1, PapersStay DEF PlanningInv, PlanningShape
<1> QED BY <1>5, <1>7, <1>8, <1>9, PartsSuffice

\* Its draft goes into the files, and its item into review, also if it was completed since.
LEMMA RunSavesKeeps == ASSUME PlanningInv, RunSaves PROVE PlanningInv'
<1> DEFINE i == run.item
           r == PutInReview(items[i], clock + 2, clock + 1)
<1>1. /\ run # NoAgent /\ files' = [files EXCEPT ![run.kind] = clock + 1]
      /\ items' = [items EXCEPT ![i] = r] /\ run' = NoAgent /\ clock' = clock + 3
      /\ UNCHANGED <<session, stage, turn, batch, turns, runs_made, failures, approved_at>>
  BY DEF RunSaves, PutInReview
<1>2. /\ i \in DOMAIN items /\ clock \in Nat /\ WorkRecord(items, clock) /\ items[i] \in ItemRecord
      /\ clock' \in Nat /\ clock <= clock' /\ files' \in [Kind -> Nat]
  <2>1. clock \in Nat /\ items \in Seq(ItemRecord) /\ files \in [Kind -> Nat] /\ run.kind \in Kind
    BY <1>1 DEF PlanningInv, PlanningShape, RunFits
  <2>2. i \in DOMAIN items /\ items[i] \in ItemRecord
    BY <1>1, <2>1 DEF PlanningInv, RunFits
  <2>3. WorkRecord(items, clock)
    BY <2>1 DEF PlanningInv, WorkRecord
  <2>4. clock' \in Nat /\ clock <= clock' /\ files' \in [Kind -> Nat]
    BY <1>1, <2>1
  <2> QED BY <2>1, <2>2, <2>3, <2>4
<1>3. /\ r \in ItemRecord /\ r.kind = items[i].kind /\ r.updated = clock + 2
      /\ r.status = "review_pending"
  <2>1. clock + 2 \in Nat /\ clock + 1 \in Nat
    BY <1>2
  <2> QED BY <1>2, <2>1, InReviewFits
<1> HIDE DEF i, r
<1>4. TakenUp(items, items', i, r, clock')
  BY <1>1, <1>2, <1>3 DEF TakenUp, IsOpen
<1>5. WorkRecord(items', clock') /\ Evolves(items, items')
  BY <1>2, <1>4, TakingUpGoesOn
<1>6. WorkInv' /\ TurnFits'
  BY <1>1, <1>2, <1>5, WorkContinues
<1>7. RunFits' /\ run' \in AgentRecord
  BY <1>1 DEF RunFits, NoAgent, AgentRecord
<1>8. PlanningShape'
  BY <1>1, <1>2, <1>5, <1>7 DEF PlanningInv, PlanningShape, WorkRecord
<1>9. ChatApproval' /\ BatchIsCurrent'
  BY <1>1, PapersStay DEF PlanningInv, PlanningShape
<1> QED BY <1>6, <1>7, <1>8, <1>9, PartsSuffice

\* Its agent saves nothing.
LEMMA RunEscalatesKeeps == ASSUME PlanningInv, RunEscalates PROVE PlanningInv'
<1>1. /\ run # NoAgent /\ items' = WithStatus(items, run.item, "escalated", clock + 2)
      /\ run' = NoAgent /\ clock' = clock + 3
      /\ UNCHANGED <<session, files, stage, turn, batch, turns, runs_made, failures, approved_at>>
  BY DEF RunEscalates
<1>2. /\ run.item \in DOMAIN items /\ clock \in Nat /\ WorkRecord(items, clock)
      /\ clock' \in Nat /\ clock <= clock' /\ "escalated" \in Status \ {"completed"}
      /\ clock + 2 \in Nat /\ clock <= clock + 2 /\ clock + 2 <= clock'
  <2>1. run.item \in DOMAIN items /\ clock \in Nat /\ WorkRecord(items, clock)
    BY <1>1 DEF PlanningInv, PlanningShape, RunFits, WorkRecord
  <2>2. "escalated" \in Status \ {"completed"}
    BY DEF Status
  <2> QED BY <1>1, <2>1, <2>2
<1>3. WorkRecord(items', clock + 2) /\ Evolves(items, items')
  BY <1>1, <1>2, StatusGoesOn
<1>4. WorkRecord(items', clock')
  BY <1>2, <1>3, WorkRecordLater
<1>5. WorkInv' /\ TurnFits'
  BY <1>1, <1>2, <1>3, <1>4, WorkContinues
<1>6. RunFits' /\ run' \in AgentRecord
  BY <1>1 DEF RunFits, NoAgent, AgentRecord
<1>7. PlanningShape'
  BY <1>1, <1>2, <1>4, <1>6 DEF PlanningInv, PlanningShape, WorkRecord
<1>8. ChatApproval' /\ BatchIsCurrent'
  BY <1>1, PapersStay DEF PlanningInv, PlanningShape
<1> QED BY <1>5, <1>6, <1>7, <1>8, PartsSuffice

\* It dies.
LEMMA RunDiesKeeps == ASSUME PlanningInv, RunDies PROVE PlanningInv'
<1>1. /\ failures < MaxFailures /\ run' = NoAgent /\ failures' = failures + 1
      /\ UNCHANGED <<clock, session, files, items, stage, turn, batch, turns, runs_made,
                     approved_at>>
  BY DEF RunDies
<1>2. /\ clock \in Nat /\ clock' \in Nat /\ clock <= clock' /\ WorkRecord(items', clock')
      /\ Evolves(items, items') /\ failures \in Nat /\ failures' \in 0..MaxFailures
  BY <1>1, PlanningConstantsOK DEF PlanningInv, PlanningShape, WorkRecord, ItemsDated, Evolves
<1>3. WorkInv' /\ TurnFits'
  BY <1>1, <1>2, WorkContinues
<1>4. RunFits' /\ run' \in AgentRecord
  BY <1>1 DEF RunFits, NoAgent, AgentRecord
<1>5. PlanningShape'
  BY <1>1, <1>2, <1>4 DEF PlanningInv, PlanningShape
<1>6. ChatApproval' /\ BatchIsCurrent'
  BY <1>1, <1>2, PapersStay
<1> QED BY <1>3, <1>4, <1>5, <1>6, PartsSuffice

\* Work that is approved is completed, and what follows on it is open unless it is done.
LEMMA ApproveKeeps == ASSUME PlanningInv, Approve PROVE PlanningInv'
<1> DEFINE b == Backfilled
           k == RoutedKind
           l == Latest(b, k)
           done == StageCompleted(b, k)
<1>1. /\ Message /\ approved_at' = [approved_at EXCEPT ![k] = clock]
      /\ UNCHANGED <<session, run, batch, runs_made, failures>>
  BY DEF Approve
<1>2. /\ turns' \in 0..MaxTurns /\ files' \in [Kind -> Nat]
      /\ clock' = clock + 3 /\ clock \in Nat /\ clock' \in Nat /\ clock <= clock'
  BY <1>1, MessageFits
<1>3. /\ WorkRecord(b, clock + 1) /\ Evolves(items, b) /\ k \in Kind
      /\ OfKind(b, k) # {} /\ OfKind(b, k) \in SUBSET DOMAIN b
  BY RouteFits DEF OfKind
<1>4. l \in OfKind(b, k) /\ l \in DOMAIN b /\ b[l].kind = k /\ b[l] \in ItemRecord
  <2>1. clock + 1 \in Nat
    BY <1>2
  <2>2. l \in OfKind(b, k)
    BY <1>3, <2>1, NewestExists DEF WorkRecord, Latest
  <2> QED BY <1>3, <2>2 DEF OfKind, WorkRecord
<1>5. /\ WorkRecord(done, clock + 2) /\ DOMAIN done = DOMAIN b
      /\ done[l].kind = k /\ done[l].updated = clock + 2
      /\ \A i \in DOMAIN b : i # l => done[i] = b[i]
  <2> DEFINE r == [b[l] EXCEPT !.status = "completed", !.updated = clock + 2]
  <2>1. r \in ItemRecord /\ r.kind = k /\ r.updated = clock + 2
    <3>1. "completed" \in Status /\ clock + 2 \in Nat
      BY <1>2 DEF Status
    <3> QED BY <1>4, <3>1 DEF ItemRecord
  <2>2. done = [b EXCEPT ![l] = r]
    BY <1>3, <1>4 DEF StageCompleted, WithStatus, WorkRecord, ItemRecord
  <2> HIDE DEF r, done, b, l
  <2>3. /\ done \in Seq(ItemRecord) /\ DOMAIN done = DOMAIN b /\ done[l] = r
        /\ \A i \in DOMAIN b : i # l => done[i] = b[i]
    BY <1>3, <1>4, <2>1, <2>2 DEF WorkRecord
  <2>4. \A i \in DOMAIN b : b[i].updated \in Nat /\ b[i].updated <= clock + 1
    BY <1>3, ItemFields DEF WorkRecord, ItemsDated
  <2>5. ItemsDated(done, clock + 2)
    BY <1>2, <2>1, <2>3, <2>4 DEF ItemsDated
  <2> QED BY <2>1, <2>3, <2>5 DEF WorkRecord
<1>6. \/ /\ k = "account_planning" /\ items' = done /\ turn' = NoAgent
         /\ stage' = [kind |-> k, approved |-> TRUE]
      \/ k # "account_planning" /\ \E n \in Recommended(k) : Continue(done, k, n)
  BY DEF Approve
<1> HIDE DEF b, k, l, done
<1>7. \A n \in Recommended(k) : n # Hold => n \in Kind
  BY <1>3, PlanningConstantsOK DEF Recommended, FollowOn, Kind
<1>8. ASSUME NEW n \in Kind, items' = Refreshed(done, n, clock + 3)
      PROVE  /\ WorkRecord(items', clock') /\ Evolves(done, items')
             /\ Latest(items', n) \in Open(items') /\ items'[Latest(items', n)].kind = n
             /\ Latest(items', n) \in Nat
  <2>1. clock + 2 \in Nat /\ clock + 3 \in Nat /\ clock + 2 < clock + 3 /\ clock + 2 <= clock + 3
    BY <1>2
  <2>2. /\ WorkRecord(items', clock + 3) /\ Evolves(done, items')
        /\ Latest(items', n) \in OfKind(items', n)
        /\ items'[Latest(items', n)].updated = clock + 3
    BY <1>5, <1>8, <2>1, RefreshedGoesOn
  <2>3. Latest(items', n) \in DOMAIN items' /\ items'[Latest(items', n)].kind = n
    BY <2>2 DEF OfKind
  <2>4. IsOpen(items'[Latest(items', n)])
    BY <1>5, <2>1, <2>2, <2>3, UpdatedIsOpen
  <2> QED BY <1>2, <2>2, <2>3, <2>4 DEF Open, WorkRecord
<1>9. WorkRecord(done, clock') /\ Evolves(done, done)
  <2>1. clock + 2 \in Nat /\ clock + 2 <= clock'
    BY <1>2
  <2> QED BY <1>2, <1>5, <2>1, WorkRecordLater DEF Evolves
<1>10. WorkRecord(items', clock') /\ Evolves(done, items')
  <2>1. CASE items' = done
    BY <1>9, <2>1
  <2>2. CASE items' # done
    <3>1. PICK n \in Recommended(k) : Continue(done, k, n)
      BY <1>6, <2>2
    <3>2. n # Hold /\ items' = Refreshed(done, n, clock + 3)
      BY <2>2, <3>1, Zenon DEF Continue
    <3> QED BY <1>7, <1>8, <3>2
  <2> QED BY <2>1, <2>2
<1>11. TurnFits' /\ turn' \in AgentRecord
  <2>1. CASE turn' = NoAgent
    BY <2>1 DEF TurnFits, NoAgent, AgentRecord
  <2>2. CASE turn' # NoAgent
    <3>1. PICK n \in Recommended(k) : Continue(done, k, n)
      BY <1>6, <2>2
    <3>2. /\ n # Hold /\ items' = Refreshed(done, n, clock + 3)
          /\ turn' = [kind |-> n, item |-> Latest(items', n)]
      <4>1. n # Hold
        BY <2>2, <3>1 DEF Continue
      <4>2. NeedsRefresh(done, k, n)
        BY <2>2, <3>1, <4>1 DEF Continue
      <4>3. items' = Refreshed(done, n, clock + 3)
        BY <3>1, <4>1, <4>2 DEF Continue
      <4>4. turn' = IF n = "discovery" THEN NoAgent ELSE [kind |-> n, item |-> Latest(items', n)]
        BY <3>1, <4>1, <4>2 DEF Continue
      <4> QED BY <2>2, <4>1, <4>3, <4>4
    <3>3. n \in Kind
      BY <1>7, <3>2
    <3>4. Latest(items', n) \in Open(items') /\ items'[Latest(items', n)].kind = n /\ Latest(items', n) \in Nat
      BY <1>8, <3>2, <3>3
    <3> QED BY <1>2, <3>2, <3>3, <3>4 DEF TurnFits, AgentRecord, Open
  <2> QED BY <2>1, <2>2
<1>12. /\ session \in [Kind -> Nat] /\ approved_at \in [Kind -> Nat] /\ session' = session
       /\ approved_at' \in [Kind -> Nat] /\ approved_at'[k] = clock
       /\ \A j \in Kind : j # k => approved_at'[j] = approved_at[j]
       /\ \A j \in Kind : session[j] = 0 \/ session[j] < clock
       /\ \A j \in Kind : approved_at[j] <= approved_at'[j]
  <2>1. session \in [Kind -> Nat] /\ approved_at \in [Kind -> Nat] /\ DraftsDated
    BY DEF PlanningInv, PlanningShape
  <2>2. /\ approved_at' \in [Kind -> Nat] /\ approved_at'[k] = clock
        /\ \A j \in Kind : j # k => approved_at'[j] = approved_at[j]
    BY <1>1, <1>2, <1>3, <2>1
  <2>3. \A j \in Kind : session[j] = 0 \/ session[j] < clock
    BY <1>2, <2>1 DEF DraftsDated
  <2>4. \A j \in Kind : approved_at[j] <= clock
    BY <1>2, <2>1 DEF DraftsDated
  <2>5. \A j \in Kind : approved_at[j] <= approved_at'[j]
    BY <2>1, <2>2, <2>4
  <2> QED BY <1>1, <2>1, <2>2, <2>3, <2>5
<1>13. ASSUME NEW i \in Open(items), items[i].kind # k
       PROVE  i \in Open(items') /\ items'[i].kind = items[i].kind
  <2>1. i \in DOMAIN b /\ b[i].kind = items[i].kind /\ IsOpen(b[i])
    BY <1>3, <1>13 DEF Evolves, Open
  <2>2. i \in DOMAIN done /\ done[i] = b[i]
    BY <1>4, <1>5, <1>13, <2>1
  <2> QED BY <1>10, <2>1, <2>2 DEF Evolves, Open
<1>14. DraftsDated'
  <2>1. ASSUME NEW j \in Kind
        PROVE  /\ approved_at'[j] = 0 \/ approved_at'[j] + 3 <= clock'
               /\ session[j] = 0 \/ (session[j] >= 3 /\ session[j] + 2 <= clock')
               /\ session[j] = 0 \/ session[j] < approved_at'[j] \/ session[j] >= approved_at'[j] + 3
               /\ \A m \in Kind : m = j \/ session[j] = 0 \/ session[m] # session[j]
    <3>1. /\ approved_at[j] \in Nat /\ session[j] \in Nat
          /\ approved_at[j] = 0 \/ approved_at[j] + 3 <= clock
          /\ session[j] = 0 \/ (session[j] >= 3 /\ session[j] + 2 <= clock)
          /\ session[j] = 0 \/ session[j] < approved_at[j] \/ session[j] >= approved_at[j] + 3
          /\ \A m \in Kind : m = j \/ session[j] = 0 \/ session[m] # session[j]
      BY <1>12 DEF PlanningInv, DraftsDated
    <3>2. approved_at'[j] = clock \/ approved_at'[j] = approved_at[j]
      BY <1>12
    <3> QED BY <1>2, <3>1, <3>2
  <2> QED BY <1>12, <2>1 DEF DraftsDated
<1>15. CompletedByApproval'
  <2>1. SUFFICES ASSUME NEW i \in DOMAIN items', ~IsOpen(items'[i])
                 PROVE  items'[i].updated <= approved_at'[items'[i].kind] + 2
    BY DEF CompletedByApproval
  <2>2. i \in DOMAIN done /\ items'[i] = done[i]
    BY <1>10, <2>1 DEF Evolves
  <2>3. CASE i = l
    BY <1>2, <1>5, <1>12, <2>2, <2>3
  <2>4. CASE i # l
    <3>1. i \in DOMAIN b /\ items'[i] = b[i]
      BY <1>5, <2>2, <2>4
    <3>2. i \in DOMAIN items /\ items'[i] = items[i]
      BY <1>3, <2>1, <3>1 DEF Evolves
    <3>3. items[i].updated <= approved_at[items[i].kind] + 2
      BY <2>1, <3>2 DEF PlanningInv, CompletedByApproval
    <3>4. items[i].updated \in Nat /\ items[i].kind \in Kind
      BY <3>2, ItemFields DEF PlanningInv, PlanningShape
    <3>5. PICK a \in Nat, c \in Nat : a = approved_at[items[i].kind] /\ c = approved_at'[items[i].kind] /\ a <= c
      BY <1>12, <3>4
    <3>6. items[i].updated <= c + 2
      BY <3>3, <3>4, <3>5
    <3> QED BY <3>2, <3>5, <3>6
  <2> QED BY <2>3, <2>4
<1>16. NoDraftForgotten'
  <2>1. SUFFICES ASSUME NEW j \in Kind, session[j] > approved_at'[j]
                 PROVE  \E i \in Open(items') : items'[i].kind = j
    BY <1>12 DEF NoDraftForgotten
  <2>2. j # k
    BY <1>2, <1>3, <1>12, <2>1
  <2>3. PICK i \in Open(items) : items[i].kind = j
    BY <1>12, <2>1, <2>2 DEF PlanningInv, NoDraftForgotten
  <2> QED BY <1>13, <2>2, <2>3
<1>17. Chained'
  <2>1. SUFFICES ASSUME NEW j \in {"discovery", "strategy"}, Advice[j] = {}, session[j] # 0,
                        OfKind(items', j) \cap Open(items') = {}
                 PROVE  Linked(j)'
    BY <1>12 DEF Chained
  <2>2. /\ j \in Kind /\ FollowOn(j) \in Kind /\ FollowOn(j) # Hold /\ FollowOn(j) # j
        /\ j # "account_planning"
    BY PlanningConstantsOK DEF Kind, FollowOn
  <2> DEFINE f == FollowOn(j)
  <2>3. f \in Kind /\ f # Hold /\ f # j
    BY <2>2
  <2>4. CASE j = k
    <3>1. PICK n \in Recommended(k) : Continue(done, k, n)
      BY <1>6, <2>2, <2>4
    <3>2. n = f /\ n # Hold
      BY <2>1, <2>2, <2>4, <3>1 DEF Recommended
    <3>3. CASE NeedsRefresh(done, k, n)
      <4>1. items' = Refreshed(done, n, clock + 3)
        BY <3>1, <3>2, <3>3 DEF Continue
      <4>2. \E i \in Open(items') : items'[i].kind = n
        BY <1>8, <2>3, <3>2, <4>1
      <4> QED BY <3>2, <4>2 DEF Linked
    <3>4. CASE ~NeedsRefresh(done, k, n)
      <4>1. session[n] # 0 /\ ~(session[n] < session[k])
        BY <3>4 DEF NeedsRefresh
      <4>2. session[n] # session[k] /\ session[n] \in Nat /\ session[k] \in Nat
        <5>1. n \in Kind /\ k \in Kind /\ n # k /\ session[k] # 0
          BY <1>3, <2>1, <2>3, <2>4, <3>2
        <5>2. session[k] = 0 \/ session[n] # session[k]
          BY <5>1 DEF PlanningInv, DraftsDated
        <5> QED BY <1>12, <5>1, <5>2
      <4>3. session[n] > session[k]
        BY <4>1, <4>2
      <4> QED BY <1>12, <2>4, <3>2, <4>3 DEF Linked
    <3> QED BY <3>3, <3>4
  <2>5. CASE j # k
    <3>1. \A i \in Open(items) : items[i].kind # j
      BY <1>13, <2>1, <2>5 DEF OfKind, Open
    <3>2. Linked(j)
      BY <2>1, <3>1 DEF PlanningInv, Chained, OfKind, Open
    <3> HIDE DEF f
    <3>3. \/ session[f] > session[j] \/ approved_at[f] > session[j]
          \/ \E i \in Open(items) : items[i].kind = f
      BY <3>2 DEF Linked, f
    <3>4. /\ session[f] \in Nat /\ session[j] \in Nat /\ approved_at[f] \in Nat
          /\ approved_at'[f] \in Nat /\ approved_at[f] <= approved_at'[f] /\ session[j] < clock
      BY <1>12, <2>1, <2>2, <2>3
    <3>5. \/ session[f] > session[j] \/ approved_at'[f] > session[j]
          \/ \E i \in Open(items') : items'[i].kind = f
      <4>1. CASE f = k
        BY <1>2, <1>12, <3>4, <4>1
      <4>2. CASE f # k
        <5>1. CASE \E i \in Open(items) : items[i].kind = f
          BY <1>13, <4>2, <5>1
        <5>2. CASE session[f] > session[j] \/ approved_at[f] > session[j]
          BY <3>4, <5>2
        <5> QED BY <3>3, <5>1, <5>2
      <4> QED BY <4>1, <4>2
    <3> QED BY <1>12, <3>5 DEF Linked, f
  <2> QED BY <2>4, <2>5
<1>18. WorkInv'
  BY <1>10, <1>14, <1>15, <1>16, <1>17 DEF WorkInv, WorkRecord
<1>19. RunFits'
  <2>1. CASE run = NoAgent
    BY <1>1, <2>1 DEF RunFits
  <2>2. CASE run # NoAgent
    <3>1. run.kind \in Kind /\ run.item \in DOMAIN items /\ items[run.item].kind = run.kind
      BY <2>2 DEF PlanningInv, RunFits
    <3>2. run.item \in DOMAIN b /\ b[run.item].kind = run.kind
      BY <1>3, <3>1 DEF Evolves
    <3>3. run.item \in DOMAIN done /\ done[run.item].kind = run.kind
      BY <1>4, <1>5, <3>2
    <3> QED BY <1>1, <1>10, <3>1, <3>3 DEF RunFits, Evolves
  <2> QED BY <2>1, <2>2
<1>20. stage' \in [kind : Kind, approved : BOOLEAN] /\ (stage'.approved => stage' = stage \/ k = "account_planning")
  <2>1. stage \in [kind : Kind, approved : BOOLEAN]
    BY DEF PlanningInv, PlanningShape
  <2>2. CASE k = "account_planning" /\ stage' = [kind |-> k, approved |-> TRUE]
    BY <1>3, <2>2
  <2>3. CASE stage' = stage
    BY <2>1, <2>3
  <2>4. ASSUME NEW n \in Kind, stage' = [kind |-> n, approved |-> FALSE]
        PROVE  stage' \in [kind : Kind, approved : BOOLEAN] /\ ~stage'.approved
    BY <2>4
  <2>5. \/ k = "account_planning" /\ stage' = [kind |-> k, approved |-> TRUE]
        \/ stage' = stage \/ \E n \in Kind : stage' = [kind |-> n, approved |-> FALSE]
    <3>1. SUFFICES ASSUME NEW n \in Recommended(k), Continue(done, k, n)
                   PROVE  stage' = stage \/ \E m \in Kind : stage' = [kind |-> m, approved |-> FALSE]
      BY <1>6
    <3> QED BY <1>7, <3>1, Zenon DEF Continue
  <2> QED BY <2>2, <2>3, <2>4, <2>5
<1>21. PlanningShape'
  BY <1>1, <1>2, <1>10, <1>11, <1>12, <1>20 DEF PlanningInv, PlanningShape, WorkRecord
<1>22. ChatApproval' /\ BatchIsCurrent'
  <2>1. "account_planning" \in Kind
    BY DEF Kind
  <2>2. CASE k = "account_planning"
    BY <1>1, <1>12, <2>1, <2>2 DEF PlanningInv, ChatApproval, BatchIsCurrent
  <2>3. CASE k # "account_planning"
    <3>1. approved_at'["account_planning"] = approved_at["account_planning"]
      BY <1>12, <2>1, <2>3
    <3> QED BY <1>1, <1>12, <1>20, <2>3, <3>1 DEF PlanningInv, ChatApproval, BatchIsCurrent
  <2> QED BY <2>2, <2>3
<1> QED BY <1>11, <1>18, <1>19, <1>21, <1>22, PartsSuffice

------------------------------------------------------------------------------
(* Planning: what always holds.                                            *)

\* The campaign starts with nothing planned.
LEMMA PlanningStart == PlanningInit => PlanningInv
<1> SUFFICES ASSUME PlanningInit PROVE PlanningInv
  OBVIOUS
<1>1. /\ clock = 0 /\ session = [k \in Kind |-> 0] /\ files = session /\ items = <<>>
      /\ stage = [kind |-> "discovery", approved |-> FALSE]
      /\ turn = NoAgent /\ run = NoAgent /\ batch = 0
      /\ turns = 0 /\ runs_made = 0 /\ failures = 0 /\ approved_at = [k \in Kind |-> 0]
  BY DEF PlanningInit
<1>2. /\ 0 \in 0..MaxTurns /\ 0 \in 0..MaxRuns /\ 0 \in 0..MaxFailures
  BY PlanningConstantsOK
<1>3. turn \in AgentRecord /\ run \in AgentRecord /\ stage \in [kind : Kind, approved : BOOLEAN]
  BY <1>1 DEF NoAgent, AgentRecord, Kind
<1>4. session \in [Kind -> Nat] /\ approved_at \in [Kind -> Nat] /\ items \in Seq(ItemRecord)
  BY <1>1
<1>5. PlanningShape
  BY <1>1, <1>2, <1>3, <1>4 DEF PlanningShape
<1>6. \A k \in Kind : session[k] = 0 /\ approved_at[k] = 0
  BY <1>1
<1>7. ItemsDated(items, clock) /\ CompletedByApproval
  BY <1>1 DEF ItemsDated, CompletedByApproval
<1>8. DraftsDated /\ NoDraftForgotten
  BY <1>6 DEF DraftsDated, NoDraftForgotten
<1>9. TurnFits /\ RunFits /\ ChatApproval /\ BatchIsCurrent
  BY <1>1 DEF TurnFits, RunFits, ChatApproval, BatchIsCurrent
<1>10. Chained
  BY <1>6 DEF Chained, Kind
<1> QED BY <1>5, <1>7, <1>8, <1>9, <1>10 DEF PlanningInv

\* Every step of planning keeps the invariant.
LEMMA PlanningStep == PlanningInv /\ [PlanningNext]_planning_vars => PlanningInv'
<1> SUFFICES ASSUME PlanningInv, [PlanningNext]_planning_vars PROVE PlanningInv'
  OBVIOUS
<1>1. CASE Approve \/ Revise \/ AskAgain \/ Work \/ Activate
  BY <1>1, ApproveKeeps, ReviseKeeps, AskAgainKeeps, WorkKeeps, ActivateKeeps
<1>2. CASE AgentSaves \/ AgentSavesNothing \/ TurnFails
  BY <1>2, AgentSavesKeeps, AgentSavesNothingKeeps, TurnFailsKeeps
<1>3. CASE (\E s \in Schedule : RunBegins(s)) \/ RunSaves \/ RunEscalates \/ RunDies
  BY <1>3, RunBeginsKeeps, RunSavesKeeps, RunEscalatesKeeps, RunDiesKeeps
<1>4. CASE UNCHANGED planning_vars
  <2> USE <1>4 DEF planning_vars
  <2>1. PlanningShape'
    BY DEF PlanningInv, PlanningShape
  <2>2. ItemsDated(items, clock)' /\ DraftsDated' /\ CompletedByApproval'
    BY DEF PlanningInv, ItemsDated, DraftsDated, CompletedByApproval
  <2>3. NoDraftForgotten' /\ Chained'
    BY DEF PlanningInv, NoDraftForgotten, Chained, Linked
  <2>4. TurnFits' /\ RunFits' /\ ChatApproval' /\ BatchIsCurrent'
    BY DEF PlanningInv, TurnFits, RunFits, ChatApproval, BatchIsCurrent
  <2> QED BY <2>1, <2>2, <2>3, <2>4 DEF PlanningInv
<1> QED BY <1>1, <1>2, <1>3, <1>4 DEF PlanningNext

\* So the invariant always holds.
LEMMA PlanningAlways == PlanningSpec => []PlanningInv
  BY PlanningStart, PlanningStep, PTL DEF PlanningSpec

\* Every variable of planning keeps its type, and the agents work on items there are.
THEOREM PlanningTypes == PlanningSpec => []PlanningTypeOK
<1>1. PlanningInv => PlanningTypeOK
  BY DEF PlanningInv, PlanningShape, TurnFits, RunFits, PlanningTypeOK, ItemRecord
<1> QED BY <1>1, PlanningAlways, PTL

\* The active batch is that of the session's plan, unless a turn was cut off.
THEOREM BatchStaysCurrent == PlanningSpec => []BatchIsCurrent
<1>1. PlanningInv => BatchIsCurrent
  BY DEF PlanningInv
<1> QED BY <1>1, PlanningAlways, PTL

\* A draft nobody has approved has open work that will bring it up again, turns cut off
\* or not.
THEOREM DraftsComeUpAgain == PlanningSpec => []NoDraftForgotten
<1>1. PlanningInv => NoDraftForgotten
  BY DEF PlanningInv
<1> QED BY <1>1, PlanningAlways, PTL

\* Closed work has its follow-on done, open or approved since, unless the agents advise
\* otherwise.
THEOREM ChainIsKept == PlanningSpec => []ChainKept
<1>1. PlanningInv => ChainKept
  BY DEF PlanningInv, Chained, Linked, ChainKept
<1> QED BY <1>1, PlanningAlways, PTL

\* A plan is activated only if it was approved after it was saved: work that is completed
\* was completed by an approval, and nothing is both saved and approved at a time.
THEOREM OnlyApprovedIsActivated == PlanningSpec => ActivatedWasApproved
<1>1. ASSUME PlanningInv, [PlanningNext]_planning_vars, failures = 0, batch' \notin {0, batch}
      PROVE  approved_at["account_planning"] > session["account_planning"]
  <2> DEFINE saved == session["account_planning"]
             at == approved_at["account_planning"]
             closed == {i \in OfKind(items, "account_planning") : items[i].status = "completed"}
  <2>1. Activate /\ saved # 0 /\ IsApproved(saved)
    <3>1. CASE Activate
      BY <1>1, <3>1 DEF Activate
    <3>2. CASE AgentSaves
      BY <1>1, <3>2 DEF AgentSaves, BatchAfter
    <3>3. CASE Approve \/ Revise \/ AskAgain \/ Work
      BY <1>1, <3>3 DEF Approve, Revise, AskAgain, Work
    <3>4. CASE AgentSavesNothing \/ TurnFails
      BY <1>1, <3>4 DEF AgentSavesNothing, TurnFails
    <3>5. CASE (\E s \in Schedule : RunBegins(s)) \/ RunSaves \/ RunEscalates \/ RunDies
      BY <1>1, <3>5 DEF RunBegins, RunSaves, RunEscalates, RunDies
    <3>6. CASE UNCHANGED planning_vars
      BY <1>1, <3>6 DEF planning_vars
    <3> QED BY <1>1, <3>1, <3>2, <3>3, <3>4, <3>5, <3>6 DEF PlanningNext
  <2>2. /\ "account_planning" \in Kind /\ saved \in Nat /\ at \in Nat /\ clock \in Nat
        /\ items \in Seq(ItemRecord) /\ ItemsDated(items, clock)
    BY <1>1 DEF PlanningInv, PlanningShape, Kind
  <2>3. saved < at \/ saved >= at + 3
    BY <1>1, <2>1, <2>2 DEF PlanningInv, DraftsDated
  <2>4. CASE closed = {}
    <3>1. stage.approved
      BY <2>1, <2>4 DEF IsApproved
    <3> QED BY <1>1, <2>1, <3>1 DEF PlanningInv, ChatApproval
  <2>5. CASE closed # {}
    <3> DEFINE n == Newest(items, closed)
    <3>1. items[n].updated >= saved
      BY <2>1, <2>5 DEF IsApproved
    <3>2. closed \in SUBSET DOMAIN items
      BY DEF OfKind
    <3>3. n \in closed
      <4> HIDE DEF closed
      <4> QED BY <2>2, <2>5, <3>2, NewestExists
    <3>4. n \in DOMAIN items /\ items[n].kind = "account_planning" /\ ~IsOpen(items[n])
      BY <3>3 DEF OfKind, IsOpen
    <3>5. items[n].updated <= at + 2 /\ items[n].updated \in Nat
      BY <1>1, <2>2, <3>4, ItemFields DEF PlanningInv, CompletedByApproval
    <3> HIDE DEF n, saved, at
    <3>6. saved < at
      BY <2>2, <2>3, <3>1, <3>5
    <3> QED BY <2>2, <3>6 DEF saved, at
  <2> QED BY <2>4, <2>5
<1>2. PlanningInv /\ [PlanningNext]_planning_vars
        => [failures = 0 /\ batch' \notin {0, batch}
              => approved_at["account_planning"] > session["account_planning"]]_planning_vars
  BY <1>1
<1> QED BY <1>2, PlanningAlways, PTL DEF PlanningSpec, ActivatedWasApproved

------------------------------------------------------------------------------
(* The policy file: the inductive invariant.                               *)

\* Accounts are paused, resumed and cooled down, chats count refusals.
SavingFits ==
    \A p \in Writers :
      /\ saving[p].stage = "none" => missed[p] = {}
      /\ saving[p].stage # "none" => /\ saving[p].change \in Changes
                                     /\ saving[p].change = "refused" => saving[p].entry \in Chats
                                     /\ saving[p].change # "refused" => saving[p].entry \in PolicyAccounts
TaskFits ==
    \A x \in Executors :
      /\ task[x].stage # "idle" => task[x].account \in PolicyAccounts
      /\ task[x].stage \notin {"flagged", "sent"} => saving[x].stage = "none"

\* What a record says is the last word on entry e.
Agrees(r, e) == r.is_paused = ordered[e] /\ (e \in Chats => r.friction = refusals[e])

\* What a process is about to write is the last word, where nobody wrote meanwhile.
RecordsAgree ==
    \A p \in Writers :
      saving[p].stage # "none" =>
        LET s == saving[p] IN
        /\ Overrides(p) \/ s.entry \notin overtaken \cup missed[p]
             => s.record.is_paused = OrderedBy(p)
        /\ s.entry \in Chats \ (overtaken \cup missed[p])
             => s.record.friction = refusals[s.entry] + 1
PayloadsAgree ==
    \A p \in Writers :
      saving[p].stage = "loaded" =>
        \A e \in Entry \ (overtaken \cup missed[p]) :
          e # saving[p].entry => Agrees(saving[p].payload[e], e)

\* A worker that has found an entry unpaused and has not sent yet.
Holds(x, e) ==
    \/ task[x].stage \in {"checked", "cleared"} /\ e = task[x].account
    \/ task[x].stage = "cleared" /\ e = task[x].chat
OneSendLeft ==
    \A e \in Entry \ overtaken, x \in Executors :
      ordered[e] => through[e][x] <= 1 /\ (Holds(x, e) => through[e][x] = 0)

PolicyInv ==
    /\ PolicyTypeOK /\ SavingFits /\ TaskFits /\ LastWordIsKept
    /\ RecordsAgree /\ PayloadsAgree /\ OneSendLeft

------------------------------------------------------------------------------
(* The policy file: the steps.                                             *)

\* The records that stand for nothing, and what a change makes of a record.
LEMMA PolicyRecordsFit ==
    /\ Clean \in PolicyRecord /\ NotSaving \in SaveRecord /\ NotSaving.stage = "none"
    /\ NoTask \in TaskRecord /\ NoTask.stage = "idle"
    /\ \A r \in PolicyRecord, change \in Changes : Changed(r, change) \in PolicyRecord
<1>1. Clean \in PolicyRecord
  BY DEF Clean, PolicyRecord
<1>2. NotSaving \in SaveRecord /\ NotSaving.stage = "none"
  BY <1>1 DEF NotSaving, SaveRecord
<1>3. NoTask \in TaskRecord /\ NoTask.stage = "idle"
  BY DEF NoTask, TaskRecord
<1>4. ASSUME NEW r \in PolicyRecord, NEW change \in Changes PROVE Changed(r, change) \in PolicyRecord
  <2>1. CASE change \in {"pause", "resume", "cooldown"}
    BY <2>1 DEF Changed, PolicyRecord
  <2>2. CASE change = "refused"
    BY <2>2 DEF Changed, PolicyRecord
  <2> QED BY <2>1, <2>2 DEF Changes
<1> QED BY <1>1, <1>2, <1>3, <1>4

\* At first nothing is paused.
LEMMA PolicyStart == PolicyInit => PolicyInv
<1> SUFFICES ASSUME PolicyInit PROVE PolicyInv
  OBVIOUS
<1>1. /\ PolicyTypeOK
      /\ \A p \in Writers : saving[p].stage = "none" /\ missed[p] = {}
      /\ \A x \in Executors : task[x].stage = "idle"
  BY PolicyRecordsFit, PolicyConstantsOK DEF PolicyInit, PolicyTypeOK
<1>2. SavingFits /\ TaskFits /\ RecordsAgree /\ PayloadsAgree
  BY <1>1 DEF SavingFits, TaskFits, RecordsAgree, PayloadsAgree, Writers
<1>3. LastWordIsKept
  BY DEF PolicyInit, LastWordIsKept, Clean
<1>4. OneSendLeft
  BY DEF PolicyInit, OneSendLeft
<1> QED BY <1>1, <1>2, <1>3, <1>4 DEF PolicyInv

\* A process finds the record it is to change.
LEMMA FindRecordKeeps ==
    ASSUME PolicyInv, NEW p \in Writers, NEW e \in Entry, NEW change \in Changes,
           change = "refused" => e \in Chats, change # "refused" => e \in PolicyAccounts,
           p \in Executors => task[p].stage \in {"flagged", "sent"},
           FindRecord(p, e, change), orders' \in 0..MaxOrders,
           UNCHANGED <<policy, task, sends_begun, policy_deaths, missed, through>>,
           UNCHANGED history_vars
    PROVE  PolicyInv'
<1>0. PolicyTypeOK /\ saving[p].stage = "none" /\ missed[p] = {}
  BY DEF FindRecord, PolicyInv, SavingFits
<1>1. /\ policy' = policy /\ task' = task /\ sends_begun' = sends_begun
      /\ policy_deaths' = policy_deaths /\ missed' = missed /\ through' = through
      /\ ordered' = ordered /\ refusals' = refusals /\ overtaken' = overtaken
  BY DEF history_vars
<1> DEFINE s == [NotSaving EXCEPT !.stage = "found", !.entry = e, !.change = change,
                                  !.record = Changed(policy[e], change)]
<1>2. policy[e] \in PolicyRecord /\ Changed(policy[e], change) \in PolicyRecord
  BY <1>0, PolicyRecordsFit DEF PolicyTypeOK
<1>3. /\ s \in SaveRecord /\ s.stage = "found" /\ s.entry = e /\ s.change = change
      /\ s.record = Changed(policy[e], change)
  BY <1>2, PolicyRecordsFit DEF SaveRecord
<1>4. saving' = [saving EXCEPT ![p] = s]
  BY DEF FindRecord
<1> HIDE DEF s
<1>5. /\ saving' \in [Writers -> SaveRecord] /\ saving'[p] = s
      /\ \A q \in Writers \ {p} : saving'[q] = saving[q]
  BY <1>0, <1>3, <1>4 DEF PolicyTypeOK
<1>6. PolicyTypeOK'
  BY <1>0, <1>1, <1>5 DEF PolicyTypeOK
<1>7. SavingFits' /\ TaskFits'
  BY <1>0, <1>1, <1>3, <1>5 DEF PolicyInv, SavingFits, TaskFits, Writers
<1>8. LastWordIsKept' /\ OneSendLeft'
  BY <1>1 DEF PolicyInv, LastWordIsKept, OneSendLeft, Holds
<1>9. PayloadsAgree'
  BY <1>1, <1>3, <1>5 DEF PolicyInv, PayloadsAgree, Agrees
<1>10. ASSUME NEW q \in Writers, q # p
       PROVE  (Overrides(q)' <=> Overrides(q)) /\ OrderedBy(q)' = OrderedBy(q) /\ saving'[q] = saving[q]
  BY <1>1, <1>5, <1>10 DEF Overrides, OrderedBy
<1>11. /\ Overrides(p)' <=> change \in {"pause", "resume"}
       /\ e \notin overtaken \/ Overrides(p)' => s.record.is_paused = OrderedBy(p)'
       /\ e \in Chats \ overtaken => s.record.friction = refusals[e] + 1
  <2>1. e \notin overtaken => /\ policy[e].is_paused = ordered[e]
                              /\ e \in Chats => policy[e].friction = refusals[e]
    BY DEF PolicyInv, LastWordIsKept
  <2>2. /\ Overrides(p)' <=> change \in {"pause", "resume"}
        /\ OrderedBy(p)' = CASE change = "pause" -> TRUE [] change = "resume" -> FALSE
                             [] change = "cooldown" -> ordered[e]
                             [] change = "refused" -> ordered[e] \/ refusals[e] + 1 >= PauseThreshold
    BY <1>1, <1>3, <1>5 DEF Overrides, OrderedBy
  <2>3. CASE change = "pause"
    BY <1>2, <1>3, <2>2, <2>3, PolicyConstantsOK DEF Changed, PolicyRecord
  <2>4. CASE change = "resume"
    BY <1>2, <1>3, <2>2, <2>4, PolicyConstantsOK DEF Changed, PolicyRecord
  <2>5. CASE change = "cooldown"
    BY <1>2, <1>3, <2>1, <2>2, <2>5, PolicyConstantsOK DEF Changed, PolicyRecord
  <2>6. CASE change = "refused"
    BY <1>2, <1>3, <2>1, <2>2, <2>6 DEF Changed, PolicyRecord
  <2> QED BY <2>3, <2>4, <2>5, <2>6 DEF Changes
<1>12. RecordsAgree'
  <2> SUFFICES ASSUME NEW q \in Writers, saving'[q].stage # "none"
               PROVE  /\ Overrides(q)' \/ saving'[q].entry \notin overtaken \cup missed[q]
                           => saving'[q].record.is_paused = OrderedBy(q)'
                      /\ saving'[q].entry \in Chats \ (overtaken \cup missed[q])
                           => saving'[q].record.friction = refusals[saving'[q].entry] + 1
    BY <1>1 DEF RecordsAgree
  <2>1. CASE q = p
    BY <1>0, <1>3, <1>5, <1>11, <2>1
  <2>2. CASE q # p
    BY <1>10, <2>2 DEF PolicyInv, RecordsAgree
  <2> QED BY <2>1, <2>2
<1> QED BY <1>6, <1>7, <1>8, <1>9, <1>12 DEF PolicyInv

\* It loads the file.
LEMMA LoadPayloadKeeps ==
    ASSUME PolicyInv, NEW p \in Writers, LoadPayload(p)
    PROVE  PolicyInv'
<1>0. PolicyTypeOK /\ saving[p].stage = "found"
  BY DEF LoadPayload, PolicyInv
<1>1. /\ policy' = policy /\ task' = task /\ orders' = orders /\ sends_begun' = sends_begun
      /\ policy_deaths' = policy_deaths /\ missed' = missed /\ through' = through
      /\ ordered' = ordered /\ refusals' = refusals /\ overtaken' = overtaken
  BY DEF LoadPayload, history_vars
<1>2. /\ saving' \in [Writers -> SaveRecord]
      /\ saving'[p].stage = "loaded" /\ saving'[p].payload = policy
      /\ saving'[p].entry = saving[p].entry /\ saving'[p].change = saving[p].change
      /\ saving'[p].record = saving[p].record
      /\ \A q \in Writers \ {p} : saving'[q] = saving[q]
  BY <1>0 DEF LoadPayload, PolicyTypeOK, SaveRecord
<1>3. PolicyTypeOK'
  BY <1>0, <1>1, <1>2 DEF PolicyTypeOK
<1>4. SavingFits'
  BY <1>0, <1>1, <1>2 DEF PolicyInv, SavingFits
<1>5. TaskFits'
  BY <1>0, <1>1, <1>2 DEF PolicyInv, TaskFits, Writers
<1>6. LastWordIsKept' /\ OneSendLeft'
  BY <1>1 DEF PolicyInv, LastWordIsKept, OneSendLeft, Holds
<1>7. PayloadsAgree'
  <2>1. \A e \in Entry \ overtaken : Agrees(policy[e], e)
    BY DEF PolicyInv, LastWordIsKept, Agrees
  <2> QED BY <1>1, <1>2, <2>1 DEF PolicyInv, PayloadsAgree, Agrees
<1>8. \A q \in Writers : /\ saving'[q].stage # "none" => saving[q].stage # "none"
                         /\ saving'[q].entry = saving[q].entry
                         /\ saving'[q].record = saving[q].record
                         /\ (Overrides(q)' <=> Overrides(q)) /\ OrderedBy(q)' = OrderedBy(q)
  BY <1>0, <1>1, <1>2 DEF Overrides, OrderedBy
<1>9. RecordsAgree'
  BY <1>1, <1>8 DEF PolicyInv, RecordsAgree
<1> QED BY <1>3, <1>4, <1>5, <1>6, <1>7, <1>9 DEF PolicyInv

\* What is known of the others when p has replaced the file: whatever they had read of the
\* entry they have missed.
LEMMA OthersMiss ==
    ASSUME PolicyInv, NEW p \in Writers, ReplaceFile(p), NEW q \in Writers \ {p},
           NEW e \in Entry, saving[q].stage = "loaded" \/ saving[q].entry = e,
           saving[q].stage # "none", e \notin overtaken' \cup missed'[q]
    PROVE  /\ e # saving[p].entry /\ e \notin overtaken \cup missed[q]
           /\ ordered'[e] = ordered[e] /\ refusals'[e] = refusals[e]
<1>1. PolicyTypeOK /\ saving[q].stage \in {"found", "loaded"} /\ saving[p].entry \in Entry
  BY DEF PolicyInv, PolicyTypeOK, SaveRecord, SavingFits, ReplaceFile, Entry
<1>2. missed'[q] = IF HasRead(q, saving[p].entry) THEN missed[q] \cup {saving[p].entry} ELSE missed[q]
  BY DEF ReplaceFile
<1>3. e # saving[p].entry /\ e \notin missed[q]
  BY <1>1, <1>2 DEF HasRead
<1>4. /\ overtaken' = (overtaken \cup missed[p]) \ (IF Overrides(p) THEN {saving[p].entry} ELSE {})
      /\ ordered' = [ordered EXCEPT ![saving[p].entry] = OrderedBy(p)]
      /\ refusals' = IF saving[p].change = "refused"
                     THEN [refusals EXCEPT ![saving[p].entry] = @ + 1] ELSE refusals
  BY DEF ReplaceFile
<1> QED BY <1>1, <1>3, <1>4 DEF PolicyTypeOK

\* It replaces the file.
LEMMA ReplaceFileKeeps ==
    ASSUME PolicyInv, NEW p \in Writers, ReplaceFile(p)
    PROVE  PolicyInv'
<1> DEFINE s == saving[p]
           e == saving[p].entry
<1>0. /\ PolicyTypeOK /\ s \in SaveRecord /\ s.stage = "loaded" /\ e \in Entry
      /\ s.change \in Changes /\ s.record \in PolicyRecord /\ s.payload \in [Entry -> PolicyRecord]
      /\ (s.change = "refused" => e \in Chats) /\ (s.change # "refused" => e \in PolicyAccounts)
  BY DEF PolicyInv, PolicyTypeOK, SaveRecord, SavingFits, ReplaceFile, Entry
<1>1. /\ policy' = [s.payload EXCEPT ![e] = s.record]
      /\ saving' = [saving EXCEPT ![p] = NotSaving]
      /\ task' = [x \in Executors |-> IF x = p THEN NoTask ELSE task[x]]
      /\ missed' = [q \in Writers |-> IF q = p THEN {}
                                      ELSE IF HasRead(q, e) THEN missed[q] \cup {e} ELSE missed[q]]
      /\ overtaken' = (overtaken \cup missed[p]) \ (IF Overrides(p) THEN {e} ELSE {})
      /\ ordered' = [ordered EXCEPT ![e] = OrderedBy(p)]
      /\ refusals' = IF s.change = "refused" THEN [refusals EXCEPT ![e] = @ + 1] ELSE refusals
      /\ through' = IF s.change = "pause" \/ (~ordered[e] /\ OrderedBy(p))
                    THEN [through EXCEPT ![e] = [x \in Executors |-> 0]] ELSE through
      /\ orders' = orders /\ sends_begun' = sends_begun /\ policy_deaths' = policy_deaths
  BY DEF ReplaceFile
<1>2. OrderedBy(p) \in BOOLEAN
  <2>1. CASE s.change \in {"pause", "resume", "cooldown"}
    BY <1>0, <2>1 DEF OrderedBy, PolicyTypeOK
  <2>2. CASE s.change = "refused"
    BY <1>0, <2>2 DEF OrderedBy, PolicyTypeOK
  <2> QED BY <1>0, <2>1, <2>2 DEF Changes
<1>3. PolicyTypeOK'
  <2>1. policy' \in [Entry -> PolicyRecord] /\ saving' \in [Writers -> SaveRecord]
    BY <1>0, <1>1, PolicyRecordsFit DEF PolicyTypeOK
  <2>2. task' \in [Executors -> TaskRecord]
    BY <1>0, <1>1, PolicyRecordsFit DEF PolicyTypeOK
  <2>3. missed' \in [Writers -> SUBSET Entry]
    BY <1>0, <1>1 DEF PolicyTypeOK
  <2>4. overtaken' \subseteq Entry
    BY <1>0, <1>1 DEF PolicyTypeOK
  <2>5. ordered' \in [Entry -> BOOLEAN] /\ refusals' \in [Entry -> Nat]
    BY <1>0, <1>1, <1>2 DEF PolicyTypeOK
  <2>6. through' \in [Entry -> [Executors -> Nat]]
    <3>1. [x \in Executors |-> 0] \in [Executors -> Nat]
      OBVIOUS
    <3> QED BY <1>0, <1>1, <3>1 DEF PolicyTypeOK
  <2> QED BY <1>0, <1>1, <2>1, <2>2, <2>3, <2>4, <2>5, <2>6 DEF PolicyTypeOK
<1>4. /\ saving'[p].stage = "none" /\ missed'[p] = {}
      /\ \A q \in Writers \ {p} : saving'[q] = saving[q]
  BY <1>0, <1>1, PolicyRecordsFit DEF PolicyTypeOK
<1>5. SavingFits'
  <2>1. \A q \in Writers : saving[q].stage = "none" => ~HasRead(q, e)
    BY DEF HasRead
  <2> QED BY <1>1, <1>4, <2>1 DEF PolicyInv, SavingFits
<1>6. TaskFits'
  BY <1>1, <1>4, PolicyRecordsFit DEF PolicyInv, TaskFits, Writers
<1>7. LastWordIsKept'
  <2> SUFFICES ASSUME NEW f \in Entry \ overtaken'
               PROVE  policy'[f].is_paused = ordered'[f] /\ (f \in Chats => policy'[f].friction = refusals'[f])
    BY DEF LastWordIsKept
  <2>1. CASE f # e
    <3>1. f \notin overtaken \cup missed[p]
      BY <1>1, <2>1
    <3>2. Agrees(s.payload[f], f)
      BY <1>0, <2>1, <3>1 DEF PolicyInv, PayloadsAgree
    <3>3. policy'[f] = s.payload[f] /\ ordered'[f] = ordered[f] /\ refusals'[f] = refusals[f]
      BY <1>0, <1>1, <2>1 DEF PolicyTypeOK
    <3> QED BY <3>2, <3>3 DEF Agrees
  <2>2. CASE f = e
    <3>1. Overrides(p) \/ e \notin overtaken \cup missed[p]
      BY <1>1, <2>2
    <3>2. policy'[e] = s.record /\ ordered'[e] = OrderedBy(p)
      BY <1>0, <1>1 DEF PolicyTypeOK
    <3>3. s.record.is_paused = OrderedBy(p)
      BY <1>0, <3>1 DEF PolicyInv, RecordsAgree
    <3>4. ASSUME e \in Chats PROVE s.record.friction = refusals'[e]
      <4>1. s.change = "refused" /\ ~Overrides(p)
        BY <1>0, <3>4, PolicyConstantsOK DEF Overrides
      <4>2. s.record.friction = refusals[e] + 1
        BY <1>0, <3>1, <3>4, <4>1 DEF PolicyInv, RecordsAgree
      <4> QED BY <1>0, <1>1, <4>1, <4>2 DEF PolicyTypeOK
    <3> QED BY <2>2, <3>2, <3>3, <3>4 DEF Agrees
  <2> QED BY <2>1, <2>2
<1>8. PayloadsAgree'
  <2> SUFFICES ASSUME NEW q \in Writers, saving'[q].stage = "loaded",
                      NEW f \in Entry \ (overtaken' \cup missed'[q]), f # saving'[q].entry
               PROVE  /\ saving'[q].payload[f].is_paused = ordered'[f]
                      /\ f \in Chats => saving'[q].payload[f].friction = refusals'[f]
    BY DEF PayloadsAgree, Agrees
  <2>1. q # p /\ saving'[q] = saving[q]
    BY <1>4
  <2>2. /\ f \notin overtaken \cup missed[q]
        /\ ordered'[f] = ordered[f] /\ refusals'[f] = refusals[f]
    BY <2>1, OthersMiss
  <2>3. Agrees(saving[q].payload[f], f)
    BY <2>1, <2>2 DEF PolicyInv, PayloadsAgree
  <2> QED BY <2>1, <2>2, <2>3 DEF Agrees
<1>9. RecordsAgree'
  <2> SUFFICES ASSUME NEW q \in Writers, saving'[q].stage # "none"
               PROVE  /\ Overrides(q)' \/ saving'[q].entry \notin overtaken' \cup missed'[q]
                           => saving'[q].record.is_paused = OrderedBy(q)'
                      /\ saving'[q].entry \in Chats \ (overtaken' \cup missed'[q])
                           => saving'[q].record.friction = refusals'[saving'[q].entry] + 1
    BY DEF RecordsAgree
  <2>1. /\ q # p /\ saving'[q] = saving[q] /\ (Overrides(q)' <=> Overrides(q))
        /\ saving[q].entry \in Entry
    BY <1>4 DEF Overrides, PolicyInv, SavingFits, Entry
  <2>2. Overrides(q) => OrderedBy(q)' = OrderedBy(q) /\ saving[q].record.is_paused = OrderedBy(q)
    <3>1. ASSUME Overrides(q) PROVE OrderedBy(q)' = OrderedBy(q)
      BY <2>1, <3>1 DEF Overrides, OrderedBy
    <3> QED BY <2>1, <3>1 DEF PolicyInv, RecordsAgree
  <2>3. ASSUME saving[q].entry \notin overtaken' \cup missed'[q]
        PROVE  /\ OrderedBy(q)' = OrderedBy(q) /\ saving[q].entry \notin overtaken \cup missed[q]
               /\ refusals'[saving[q].entry] = refusals[saving[q].entry]
    <3>1. /\ saving[q].entry \notin overtaken \cup missed[q]
          /\ ordered'[saving[q].entry] = ordered[saving[q].entry]
          /\ refusals'[saving[q].entry] = refusals[saving[q].entry]
      BY <2>1, <2>3, OthersMiss
    <3> QED BY <2>1, <3>1 DEF OrderedBy
  <2> QED BY <2>1, <2>2, <2>3 DEF PolicyInv, RecordsAgree
<1>10. OneSendLeft'
  <2> SUFFICES ASSUME NEW f \in Entry \ overtaken', NEW x \in Executors, ordered'[f]
               PROVE  through'[f][x] <= 1 /\ (Holds(x, f)' => through'[f][x] = 0)
    BY DEF OneSendLeft
  <2>1. Holds(x, f)' => Holds(x, f)
    BY <1>1, PolicyRecordsFit DEF Holds
  <2>2. CASE f = e /\ (s.change = "pause" \/ (~ordered[e] /\ OrderedBy(p)))
    BY <1>0, <1>1, <2>2 DEF PolicyTypeOK
  <2>3. CASE ~(f = e /\ (s.change = "pause" \/ (~ordered[e] /\ OrderedBy(p))))
    <3>1. ordered[f] /\ through'[f] = through[f] /\ f \notin overtaken
      <4>1. CASE f # e
        BY <1>0, <1>1, <4>1 DEF PolicyTypeOK
      <4>2. CASE f = e
        <5>1. OrderedBy(p) /\ ordered[e] /\ s.change # "pause"
          BY <1>0, <1>1, <1>2, <2>3, <4>2 DEF PolicyTypeOK
        <5>2. s.change # "resume"
          BY <5>1 DEF OrderedBy
        <5> QED BY <1>1, <2>3, <4>2, <5>1, <5>2 DEF Overrides
      <4> QED BY <4>1, <4>2
    <3> QED BY <2>1, <3>1 DEF PolicyInv, OneSendLeft
  <2> QED BY <2>2, <2>3
<1> QED BY <1>3, <1>5, <1>6, <1>7, <1>8, <1>9, <1>10 DEF PolicyInv

\* The steps of a worker up to the call of Telegram, and the end of a send that writes
\* nothing, leave the file alone.
LEMMA TaskStepKeeps ==
    ASSUME PolicyInv, NEW x \in Executors, saving[x].stage = "none",
           UNCHANGED <<policy, saving, orders, policy_deaths, missed, ordered, refusals, overtaken>>,
           NEW t \in TaskRecord, t.stage # "idle" => t.account \in PolicyAccounts,
           task' = [task EXCEPT ![x] = t],
           sends_begun' \in 0..MaxSends, OneSendLeft', through' \in [Entry -> [Executors -> Nat]]
    PROVE  PolicyInv'
<1>1. PolicyTypeOK'
  BY DEF PolicyInv, PolicyTypeOK
<1>2. SavingFits' /\ LastWordIsKept'
  BY DEF PolicyInv, SavingFits, LastWordIsKept
<1>3. TaskFits'
  BY DEF PolicyInv, PolicyTypeOK, TaskFits
<1>4. \A q \in Writers : (Overrides(q)' <=> Overrides(q)) /\ OrderedBy(q)' = OrderedBy(q)
  BY DEF Overrides, OrderedBy
<1>5. RecordsAgree'
  BY <1>4 DEF PolicyInv, RecordsAgree
<1>6. PayloadsAgree'
  BY DEF PolicyInv, PayloadsAgree, Agrees
<1> QED BY <1>1, <1>2, <1>3, <1>5, <1>6 DEF PolicyInv

\* It finds the account unpaused, which is where the file agrees with the last word.
LEMMA CheckAccountKeeps ==
    ASSUME PolicyInv, NEW x \in Executors, CheckAccount(x)
    PROVE  PolicyInv'
<1>1. PICK a \in PolicyAccounts, c \in Chats \cup {NoEntry} :
        Unpaused(a) /\ task' = [task EXCEPT ![x] = [stage |-> "checked", account |-> a, chat |-> c]]
  BY DEF CheckAccount
<1> DEFINE t == [stage |-> "checked", account |-> a, chat |-> c]
<1>2. /\ UNCHANGED <<policy, saving, orders, policy_deaths, missed, through>>
      /\ UNCHANGED <<ordered, refusals, overtaken>>
      /\ PolicyTypeOK /\ task[x] = NoTask /\ sends_begun' \in 0..MaxSends
  BY PolicyConstantsOK DEF CheckAccount, history_vars, PolicyInv, PolicyTypeOK
<1>3. t \in TaskRecord
  BY DEF TaskRecord
<1>4. saving[x].stage = "none"
  BY <1>2, PolicyRecordsFit DEF PolicyInv, TaskFits
<1>5. ASSUME a \notin overtaken PROVE ~ordered[a]
  BY <1>1, <1>5, PolicyConstantsOK DEF Unpaused, PolicyInv, LastWordIsKept, Entry
<1>6. /\ \A y \in Executors : y # x => task'[y] = task[y]
      /\ task'[x].stage = "checked" /\ task'[x].account = a
  BY <1>1, <1>2 DEF PolicyTypeOK
<1>7. \A y \in Executors, e \in Entry :
        Holds(y, e)' => Holds(y, e) \/ (y = x /\ e = a)
  BY <1>6 DEF Holds
<1>8. OneSendLeft'
  <2> SUFFICES ASSUME NEW e \in Entry \ overtaken, NEW y \in Executors, ordered[e]
               PROVE  through[e][y] <= 1 /\ (Holds(y, e)' => through[e][y] = 0)
    BY <1>2 DEF OneSendLeft
  <2>1. e # a
    BY <1>5
  <2>2. Holds(y, e)' => Holds(y, e)
    BY <1>7, <2>1
  <2> QED BY <2>2 DEF PolicyInv, OneSendLeft
<1>9. through' \in [Entry -> [Executors -> Nat]]
  BY <1>2 DEF PolicyTypeOK
<1>10. t.stage # "idle" => t.account \in PolicyAccounts
  OBVIOUS
<1> HIDE DEF t
<1> QED BY <1>1, <1>2, <1>3, <1>4, <1>8, <1>9, <1>10, TaskStepKeeps DEF t

\* It finds the chat unpaused, or drops the send.
LEMMA CheckChatKeeps ==
    ASSUME PolicyInv, NEW x \in Executors, CheckChat(x)
    PROVE  PolicyInv'
<1> DEFINE t == IF Unpaused(task[x].chat) THEN [task[x] EXCEPT !.stage = "cleared"] ELSE NoTask
<1>1. /\ task' = [task EXCEPT ![x] = t] /\ task[x].stage = "checked"
      /\ UNCHANGED <<policy, saving, orders, policy_deaths, missed, through, sends_begun>>
      /\ UNCHANGED <<ordered, refusals, overtaken>> /\ PolicyTypeOK
  BY DEF CheckChat, history_vars, PolicyInv, PolicyTypeOK
<1>2. /\ t \in TaskRecord /\ (t.stage # "idle" => t.account \in PolicyAccounts)
      /\ t.stage = "cleared" => /\ Unpaused(task[x].chat)
                                /\ t.account = task[x].account /\ t.chat = task[x].chat
      /\ t.stage \in {"cleared", "idle"}
  <2>1. task[x] \in TaskRecord /\ task[x].account \in PolicyAccounts
    BY <1>1 DEF PolicyTypeOK, PolicyInv, TaskFits
  <2>2. CASE Unpaused(task[x].chat)
    BY <2>1, <2>2 DEF TaskRecord
  <2>3. CASE ~Unpaused(task[x].chat)
    BY <2>3, PolicyRecordsFit
  <2> QED BY <2>2, <2>3
<1> HIDE DEF t
<1>3. saving[x].stage = "none"
  BY <1>1 DEF PolicyInv, TaskFits
<1>4. \A y \in Executors : (y # x => task'[y] = task[y]) /\ (y = x => task'[y] = t)
  BY <1>1 DEF PolicyTypeOK
<1>5. OneSendLeft'
  <2> SUFFICES ASSUME NEW e \in Entry \ overtaken, NEW y \in Executors, ordered[e]
               PROVE  through[e][y] <= 1 /\ (Holds(y, e)' => through[e][y] = 0)
    BY <1>1 DEF OneSendLeft
  <2>1. Unpaused(e) => FALSE
    BY PolicyConstantsOK DEF Unpaused, PolicyInv, LastWordIsKept
  <2>2. Holds(y, e)' => Holds(y, e)
    <3>1. CASE y = x
      BY <1>1, <1>2, <1>4, <2>1, <3>1 DEF Holds
    <3>2. CASE y # x
      BY <1>4, <3>2 DEF Holds
    <3> QED BY <3>1, <3>2
  <2> QED BY <2>2 DEF PolicyInv, OneSendLeft
<1>6. sends_begun' \in 0..MaxSends /\ through' \in [Entry -> [Executors -> Nat]]
  BY <1>1 DEF PolicyTypeOK
<1> QED BY <1>1, <1>2, <1>3, <1>5, <1>6, TaskStepKeeps

\* It calls Telegram: the one send that was left for each entry that is now paused.
LEMMA CallTelegramKeeps ==
    ASSUME PolicyInv, NEW x \in Executors, CallTelegram(x)
    PROVE  PolicyInv'
<1> DEFINE t == [task[x] EXCEPT !.stage = "sent"]
<1>1. /\ task' = [task EXCEPT ![x] = t] /\ task[x].stage = "cleared"
      /\ through' = [e \in Entry |-> IF Concerns(x, e) /\ ordered[e]
                                     THEN [through[e] EXCEPT ![x] = @ + 1] ELSE through[e]]
      /\ UNCHANGED <<policy, saving, orders, policy_deaths, missed, sends_begun>>
      /\ UNCHANGED <<ordered, refusals, overtaken>> /\ PolicyTypeOK
  BY DEF CallTelegram, history_vars, PolicyInv, PolicyTypeOK
<1>2. t \in TaskRecord /\ t.account \in PolicyAccounts /\ t.stage = "sent"
  BY <1>1 DEF PolicyTypeOK, TaskRecord, PolicyInv, TaskFits
<1> HIDE DEF t
<1>3. saving[x].stage = "none"
  BY <1>1 DEF PolicyInv, TaskFits
<1>4. \A y \in Executors : (y # x => task'[y] = task[y]) /\ (y = x => task'[y] = t)
  BY <1>1 DEF PolicyTypeOK
<1>5. through' \in [Entry -> [Executors -> Nat]]
  BY <1>1 DEF PolicyTypeOK
<1>6. OneSendLeft'
  <2> SUFFICES ASSUME NEW e \in Entry \ overtaken, NEW y \in Executors, ordered[e]
               PROVE  through'[e][y] <= 1 /\ (Holds(y, e)' => through'[e][y] = 0)
    BY <1>1 DEF OneSendLeft
  <2>1. through[e][y] \in Nat /\ through[e][y] <= 1 /\ (Holds(y, e) => through[e][y] = 0)
    BY <1>1 DEF PolicyTypeOK, PolicyInv, OneSendLeft
  <2>2. CASE y = x
    <3>1. ~Holds(x, e)'
      BY <1>2, <1>4 DEF Holds
    <3>2. Concerns(x, e) => through[e][x] = 0
      BY <1>1, <2>1, <2>2 DEF Concerns, Holds
    <3>3. through'[e][x] = IF Concerns(x, e) THEN through[e][x] + 1 ELSE through[e][x]
      BY <1>1 DEF PolicyTypeOK
    <3> QED BY <2>1, <2>2, <3>1, <3>2, <3>3
  <2>3. CASE y # x
    <3>1. through'[e][y] = through[e][y]
      BY <1>1, <2>3 DEF PolicyTypeOK
    <3>2. Holds(y, e)' <=> Holds(y, e)
      BY <1>4, <2>3 DEF Holds
    <3> QED BY <2>1, <3>1, <3>2
  <2> QED BY <2>2, <2>3
<1>7. sends_begun' \in 0..MaxSends
  BY <1>1 DEF PolicyTypeOK
<1> QED BY <1>1, <1>2, <1>3, <1>5, <1>6, <1>7, TaskStepKeeps

\* It finds the account flagged.
LEMMA FindFlaggedKeeps ==
    ASSUME PolicyInv, NEW x \in Executors, FindFlagged(x)
    PROVE  PolicyInv'
<1> DEFINE t == [task[x] EXCEPT !.stage = "flagged"]
<1>1. /\ task' = [task EXCEPT ![x] = t] /\ task[x].stage \in {"checked", "cleared"}
      /\ UNCHANGED <<policy, saving, orders, policy_deaths, missed, through, sends_begun>>
      /\ UNCHANGED <<ordered, refusals, overtaken>> /\ PolicyTypeOK
  BY DEF FindFlagged, history_vars, PolicyInv, PolicyTypeOK
<1>2. t \in TaskRecord /\ t.account \in PolicyAccounts /\ t.stage = "flagged"
  BY <1>1 DEF PolicyTypeOK, TaskRecord, PolicyInv, TaskFits
<1> HIDE DEF t
<1>3. \A y \in Executors : (y # x => task'[y] = task[y]) /\ (y = x => task'[y] = t)
  BY <1>1 DEF PolicyTypeOK
<1>4. OneSendLeft'
  <2>1. \A y \in Executors, e \in Entry : Holds(y, e)' => Holds(y, e)
    BY <1>2, <1>3 DEF Holds
  <2> QED BY <1>1, <2>1 DEF PolicyInv, OneSendLeft
<1>5. /\ saving[x].stage = "none" /\ sends_begun' \in 0..MaxSends
      /\ through' \in [Entry -> [Executors -> Nat]]
  BY <1>1 DEF PolicyTypeOK, PolicyInv, TaskFits
<1> QED BY <1>1, <1>2, <1>4, <1>5, TaskStepKeeps

\* The send comes to nothing that is written here.
LEMMA NothingToWriteKeeps ==
    ASSUME PolicyInv, NEW x \in Executors, NothingToWrite(x)
    PROVE  PolicyInv'
<1>1. /\ task' = [task EXCEPT ![x] = NoTask] /\ saving[x].stage = "none"
      /\ UNCHANGED <<policy, saving, orders, policy_deaths, missed, through, sends_begun>>
      /\ UNCHANGED <<ordered, refusals, overtaken>> /\ PolicyTypeOK
  BY DEF NothingToWrite, history_vars, PolicyInv, PolicyTypeOK
<1>2. \A y \in Executors : (y # x => task'[y] = task[y]) /\ (y = x => task'[y] = NoTask)
  BY <1>1 DEF PolicyTypeOK
<1>3. OneSendLeft'
  <2>1. \A y \in Executors, e \in Entry : Holds(y, e)' => Holds(y, e)
    BY <1>2, PolicyRecordsFit DEF Holds
  <2> QED BY <1>1, <2>1 DEF PolicyInv, OneSendLeft
<1>4. sends_begun' \in 0..MaxSends /\ through' \in [Entry -> [Executors -> Nat]]
  BY <1>1 DEF PolicyTypeOK
<1> QED BY <1>1, <1>3, <1>4, PolicyRecordsFit, TaskStepKeeps

\* A process dies; what it had read and was about to write is lost.
LEMMA WriterDiesKeeps ==
    ASSUME PolicyInv, NEW p \in Writers, WriterDies(p)
    PROVE  PolicyInv'
<1>1. /\ saving' = [saving EXCEPT ![p] = NotSaving] /\ missed' = [missed EXCEPT ![p] = {}]
      /\ task' = [x \in Executors |-> IF x = p THEN NoTask ELSE task[x]]
      /\ UNCHANGED <<policy, orders, sends_begun, through, ordered, refusals, overtaken>>
      /\ PolicyTypeOK /\ policy_deaths' \in 0..MaxPolicyDeaths
  BY PolicyConstantsOK DEF WriterDies, history_vars, PolicyInv, PolicyTypeOK
<1>2. PolicyTypeOK'
  <2>1. saving' \in [Writers -> SaveRecord] /\ task' \in [Executors -> TaskRecord]
    BY <1>1, PolicyRecordsFit DEF PolicyTypeOK
  <2>2. missed' \in [Writers -> SUBSET Entry]
    BY <1>1 DEF PolicyTypeOK
  <2> QED BY <1>1, <2>1, <2>2 DEF PolicyTypeOK
<1>3. /\ saving'[p].stage = "none" /\ missed'[p] = {}
      /\ \A q \in Writers \ {p} : saving'[q] = saving[q] /\ missed'[q] = missed[q]
  BY <1>1, PolicyRecordsFit DEF PolicyTypeOK
<1>4. SavingFits' /\ PayloadsAgree'
  BY <1>1, <1>3 DEF PolicyInv, SavingFits, PayloadsAgree, Agrees
<1>5. TaskFits'
  BY <1>1, <1>3, PolicyRecordsFit DEF PolicyInv, TaskFits, Writers
<1>6. LastWordIsKept'
  BY <1>1 DEF PolicyInv, LastWordIsKept
<1>7. \A q \in Writers \ {p} : (Overrides(q)' <=> Overrides(q)) /\ OrderedBy(q)' = OrderedBy(q)
  BY <1>1, <1>3 DEF Overrides, OrderedBy
<1>8. RecordsAgree'
  BY <1>1, <1>3, <1>7 DEF PolicyInv, RecordsAgree
<1>9. OneSendLeft'
  <2>1. \A y \in Executors, e \in Entry : Holds(y, e)' => Holds(y, e)
    BY <1>1, PolicyRecordsFit DEF Holds
  <2> QED BY <1>1, <2>1 DEF PolicyInv, OneSendLeft
<1> QED BY <1>2, <1>4, <1>5, <1>6, <1>8, <1>9 DEF PolicyInv

------------------------------------------------------------------------------
(* The policy file: the theorems.                                          *)

\* The invariant holds of every behaviour.
LEMMA PolicyAlways == PolicySpec => []PolicyInv
<1>1. ASSUME PolicyInv, [PolicyNext]_policy_vars PROVE PolicyInv'
  <2>1. CASE OrderAccount
    <3>1. PICK a \in PolicyAccounts, change \in {"pause", "resume"} : FindRecord(Bot, a, change)
      BY <2>1 DEF OrderAccount
    <3>2. orders' \in 0..MaxOrders
      BY <1>1, <2>1, PolicyConstantsOK DEF OrderAccount, PolicyInv, PolicyTypeOK
    <3>3. Bot \in Writers /\ Bot \notin Executors /\ a \in Entry /\ change \in Changes
      BY PolicyConstantsOK DEF Writers, Entry, Changes
    <3> QED BY <1>1, <2>1, <3>1, <3>2, <3>3, FindRecordKeeps DEF OrderAccount
  <2>2. CASE \E p \in Writers : LoadPayload(p) \/ ReplaceFile(p) \/ WriterDies(p)
    BY <1>1, <2>2, LoadPayloadKeeps, ReplaceFileKeeps, WriterDiesKeeps
  <2>3. ASSUME NEW x \in Executors, WriteOutcome(x) PROVE PolicyInv'
    <3>1. /\ task[x].account \in PolicyAccounts /\ x \in Writers /\ task[x].stage \in {"flagged", "sent"}
          /\ task[x].chat \in Chats \cup {NoEntry} /\ orders' \in 0..MaxOrders
      BY <1>1, <2>3 DEF WriteOutcome, PolicyInv, PolicyTypeOK, TaskFits, TaskRecord, Writers
    <3>2. CASE FindRecord(x, task[x].account, "cooldown")
      BY <1>1, <2>3, <3>1, <3>2, FindRecordKeeps DEF WriteOutcome, Changes, Entry
    <3>3. CASE FindRecord(x, task[x].account, "pause")
      BY <1>1, <2>3, <3>1, <3>3, FindRecordKeeps DEF WriteOutcome, Changes, Entry
    <3>4. CASE task[x].chat # NoEntry /\ FindRecord(x, task[x].chat, "refused")
      BY <1>1, <2>3, <3>1, <3>4, FindRecordKeeps DEF WriteOutcome, Changes, Entry
    <3> QED BY <2>3, <3>2, <3>3, <3>4 DEF WriteOutcome
  <2>4. CASE \E x \in Executors :
               \/ CheckAccount(x) \/ CheckChat(x) \/ FindFlagged(x) \/ CallTelegram(x)
               \/ WriteOutcome(x) \/ NothingToWrite(x)
    BY <1>1, <2>3, <2>4, CheckAccountKeeps, CheckChatKeeps, FindFlaggedKeeps, CallTelegramKeeps,
       NothingToWriteKeeps
  <2>5. CASE UNCHANGED policy_vars
    <3>1. /\ UNCHANGED <<policy, saving, task, orders, sends_begun, policy_deaths>>
          /\ UNCHANGED <<ordered, refusals, missed, overtaken, through>>
      BY <2>5 DEF policy_vars
    <3>2. PolicyTypeOK' /\ SavingFits' /\ TaskFits' /\ LastWordIsKept'
      BY <1>1, <3>1 DEF PolicyInv, PolicyTypeOK, SavingFits, TaskFits, LastWordIsKept
    <3>3. \A q \in Writers : (Overrides(q)' <=> Overrides(q)) /\ OrderedBy(q)' = OrderedBy(q)
      BY <3>1 DEF Overrides, OrderedBy
    <3>4. RecordsAgree'
      BY <1>1, <3>1, <3>3 DEF PolicyInv, RecordsAgree
    <3>5. PayloadsAgree' /\ OneSendLeft'
      BY <1>1, <3>1 DEF PolicyInv, PayloadsAgree, Agrees, OneSendLeft, Holds
    <3> QED BY <3>2, <3>4, <3>5 DEF PolicyInv
  <2> QED BY <1>1, <2>1, <2>2, <2>4, <2>5 DEF PolicyNext
<1> QED BY PolicyStart, <1>1, PTL DEF PolicySpec

\* The file, the writes and the sends keep their types for any accounts, chats and workers.
THEOREM PolicyTypes == PolicySpec => []PolicyTypeOK
<1>1. PolicyInv => PolicyTypeOK
  BY DEF PolicyInv
<1> QED BY PolicyAlways, <1>1, PTL

\* Of every entry that no stale write has overtaken, the file says what was last written for
\* it: any number of processes read, read once more and replace the file at any moments
\* (_get_or_create_account_state, _save_account_state), and die in between.
THEOREM LastWordStays == PolicySpec => []LastWordIsKept
<1>1. PolicyInv => LastWordIsKept
  BY DEF PolicyInv
<1> QED BY PolicyAlways, <1>1, PTL

\* Each worker sends at most once more for an account or to a chat that is paused, the send
\* it had checked before (_evaluate_account_state, _evaluate_community_state).
THEOREM PausesReachWorkers == PolicySpec => []PauseReachesWorkers
<1>1. PolicyInv => PauseReachesWorkers
  BY DEF PolicyInv, OneSendLeft, PauseReachesWorkers
<1> QED BY PolicyAlways, <1>1, PTL

\* Both together, for any workers, accounts, chats, sends and orders of the operator.
THEOREM PolicyAlwaysKept == PolicySpec => []PolicyIsKept
BY LastWordStays, PausesReachWorkers, PTL DEF PolicyIsKept

------------------------------------------------------------------------------
(* The run: the parts side by side.                                        *)

\* A step of the run moves one part, and the parts it does not move stand still.
LEMMA CampaignPartSteps ==
    CampaignNext => /\ [PlanningNext]_planning_vars /\ [PreparedNext]_prepared_vars
                    /\ [IntentNext]_intent_vars /\ [AlertNext]_alert_vars
                    /\ [PolicyNext]_policy_vars
BY DEF CampaignNext

\* What a run may do is what each of the parts may do, so every theorem about a part holds
\* of the run.
THEOREM CampaignKeepsParts ==
    CampaignSpec => PlanningSpec /\ PreparedSpec /\ IntentSpec /\ AlertSpec /\ PolicySpec
<1> DEFINE all == <<planning_vars, prepared_vars, intent_vars, alert_vars, policy_vars, part>>
<1>1. CampaignInit => PlanningInit /\ PreparedInit /\ IntentInit /\ AlertInit /\ PolicyInit
  BY DEF CampaignInit
<1>2. [CampaignNext]_all => /\ [PlanningNext]_planning_vars /\ [PreparedNext]_prepared_vars
                           /\ [IntentNext]_intent_vars /\ [AlertNext]_alert_vars
                           /\ [PolicyNext]_policy_vars
  BY CampaignPartSteps
<1> QED
  BY <1>1, <1>2, PTL
     DEF CampaignSpec, PlanningSpec, PreparedSpec, IntentSpec, AlertSpec, PolicySpec

\* Whichever part a run explores, its files, its agents and its clocks keep their types.
THEOREM CampaignTypes == CampaignSpec => []CampaignTypeOK
<1>1. PlanningTypeOK /\ PreparedTypeOK /\ IntentTypeOK /\ AlertTypeOK /\ PolicyTypeOK
        => CampaignTypeOK
  BY DEF CampaignTypeOK
<1> QED
  BY <1>1, CampaignKeepsParts, PlanningTypes, PreparedTypes, IntentTypes, AlertTypes,
     PolicyTypes, PTL

\* What the run checks of small instances holds of all of them: the promises of planning,
\* of prepared execution, of compiled intents, of alerts and of the policy file, together.
THEOREM CampaignPromises ==
    CampaignSpec => /\ [](BatchIsCurrent /\ NoDraftForgotten /\ ChainKept)
                    /\ [](QueuedOnce /\ RevisionTakesEffect)
                    /\ [](EffectIsOnRecord /\ CopiesBounded) /\ []OperatorIsTold
                    /\ []PolicyIsKept /\ ActivatedWasApproved /\ UsesContract
BY CampaignKeepsParts, BatchStaysCurrent, DraftsComeUpAgain, ChainIsKept, OnlyApprovedIsActivated,
   PostsQueuedOnce, RevisionsTakeEffect, QueueUsedByContract, EffectsAreOnRecord, CopiesAreBounded,
   OperatorAlwaysTold, PolicyAlwaysKept, PTL
=============================================================================
