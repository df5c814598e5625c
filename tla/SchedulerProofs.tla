---------------------------- MODULE SchedulerProofs ----------------------------
(***************************************************************************)
(* What holds of the scheduler for any number of schedulers, schedules,    *)
(* deaths and orders of the operator: the shape of the state, one pass at  *)
(* a time, one run per due time, and pauses that outlive the runs they     *)
(* overtake.                                                               *)
(***************************************************************************)
EXTENDS Scheduler, TLAPS

Change == {"none", "create", "pause", "resume", "hit", "miss"}

File == UNION {[S -> ScheduleRecord] : S \in SUBSET Id}

EditRecord ==
    [stage : {"none", "new", "get", "list", "write", "done", "lost"}, id : 0..MaxSchedules,
     change : Change, copy : File, record : ScheduleRecord \cup {<<>>}]

\* The fields an update needs at its stage have been filled in.
Filled(e) ==
    /\ e.stage # "none" => e.id \in Id
    /\ e.stage = "get" => e.change \in {"pause", "resume", "hit", "miss"}
    /\ e.stage \in {"new", "list", "write", "done"} => e.record \in ScheduleRecord

EditsFit == edit \in [Editor -> EditRecord] /\ \A p \in Editor : Filled(edit[p])

PassRecord ==
    [stage : {"idle", "list", "dispatch", "work", "outcome"}, todo : SUBSET Id,
     at : 0..MaxSchedules, age : 0..Interval]

PassFits == \A w \in Worker : pass[w].stage \in {"work", "outcome"} <=> pass[w].at # 0

RestFits ==
    /\ lease \in [owner : Worker \cup {Gone, Nobody}, left : 0..LeaseTTL]
    /\ pass \in [Worker -> PassRecord]
    /\ schedules \in File
    /\ item \in [Specialist -> OpenItem \cup {"none", "completed"}]
    /\ interrupts \in 0..MaxInterrupts /\ controls \in 0..MaxControls
    /\ runs \in [Id -> Nat] /\ cut \in [Id -> Nat] /\ after_pause \in [Id -> Nat]
    /\ resumed \subseteq Id

SchedulerShape == RestFits /\ EditsFit /\ PassFits

------------------------------------------------------------------------------
(* schedules.json and its records.                                         *)

\* A file holds records of some of the schedules.
LEMMA FileMeans ==
    ASSUME NEW f
    PROVE  f \in File <=> f \in [DOMAIN f -> ScheduleRecord] /\ DOMAIN f \subseteq Id
BY DEF File

\* A file without schedules is one.
LEMMA EmptyFile == <<>> \in File
<1>1. DOMAIN <<>> = {}
  OBVIOUS
<1>2. <<>> \in [DOMAIN <<>> -> ScheduleRecord] /\ DOMAIN <<>> \subseteq Id
  BY <1>1
<1> QED BY <1>2, FileMeans

\* A miss is one more, up to the limit, and wakes no schedule.
LEMMA MissedFits ==
    ASSUME NEW r \in ScheduleRecord
    PROVE  Missed(r) \in ScheduleRecord /\ (r.status = "paused" => Missed(r).status = "paused")
<1> USE SchedulerConstantsOK
<1> DEFINE m == OneMore(r.misses)
           t == IF r.misses + 1 >= PauseAfterMisses THEN "paused" ELSE r.status
<1>1. m \in 0..PauseAfterMisses
  BY DEF ScheduleRecord, OneMore
<1>2. t \in {"active", "paused"} /\ (r.status = "paused" => t = "paused")
  BY DEF ScheduleRecord
<1>3. Missed(r) = [r EXCEPT !.misses = m, !.status = t]
  BY DEF Missed
<1> HIDE DEF m, t
<1>4. [r EXCEPT !.misses = m, !.status = t] \in ScheduleRecord
  BY <1>1, <1>2 DEF ScheduleRecord
<1>5. [r EXCEPT !.misses = m, !.status = t].status = t
  BY DEF ScheduleRecord
<1> QED BY <1>2, <1>3, <1>4, <1>5

\* What update_status and record_outcome make of a record is a record.
LEMMA ChangedFits ==
    ASSUME NEW r \in ScheduleRecord, NEW change \in {"pause", "resume", "hit", "miss"},
           NEW age \in 0..Interval
    PROVE  Changed(r, change, age) \in ScheduleRecord
<1> USE SchedulerConstantsOK DEF ScheduleRecord
<1>1. NextDue(age) \in 0..Interval
  BY DEF NextDue
<1>2. Missed(r) \in ScheduleRecord
  BY MissedFits
<1>3. CASE change = "pause"
  BY <1>3 DEF Changed
<1>4. CASE change = "resume"
  <2>1. Changed(r, change, age) = [r EXCEPT !.status = "active", !.due = Interval]
    BY <1>4 DEF Changed
  <2>2. Changed(r, change, age) = [status |-> "active", due |-> Interval, misses |-> r.misses]
    BY <2>1
  <2> QED BY <2>2
<1>5. CASE change = "hit"
  <2>1. Changed(r, change, age) = [r EXCEPT !.due = NextDue(age), !.misses = 0]
    BY <1>5 DEF Changed
  <2>2. Changed(r, change, age) = [status |-> r.status, due |-> NextDue(age), misses |-> 0]
    BY <2>1
  <2> QED BY <1>1, <2>2
<1>6. CASE change = "miss"
  <2>1. Changed(r, change, age) = [Missed(r) EXCEPT !.due = NextDue(age)]
    BY <1>6 DEF Changed
  <2> QED BY <1>1, <1>2, <2>1
<1> QED BY <1>3, <1>4, <1>5, <1>6

\* Replacing or adding a record keeps the others (ScheduleManager.save).
LEMMA ReplacedFits ==
    ASSUME NEW f \in File, NEW i \in Id, NEW r \in ScheduleRecord
    PROVE  /\ Replaced(f, i, r) \in File
           /\ DOMAIN Replaced(f, i, r) = DOMAIN f \cup {i}
           /\ Replaced(f, i, r)[i] = r
           /\ \A j \in DOMAIN f \ {i} : Replaced(f, i, r)[j] = f[j]
<1> DEFINE g == Replaced(f, i, r)
<1>1. /\ DOMAIN g = DOMAIN f \cup {i} /\ g[i] = r
      /\ \A j \in DOMAIN f \ {i} : g[j] = f[j]
      /\ g = [j \in DOMAIN g |-> g[j]]
  BY DEF Replaced
<1>2. \A j \in DOMAIN g : g[j] \in ScheduleRecord
  BY <1>1, FileMeans
<1>3. DOMAIN g \subseteq Id
  BY <1>1, FileMeans
<1> HIDE DEF g
<1>4. g \in File
  BY <1>1, <1>2, <1>3, FileMeans
<1> QED BY <1>1, <1>4 DEF g

\* As time passes only the distances to the due times change.
LEMMA CloserFits ==
    ASSUME NEW r \in ScheduleRecord
    PROVE  /\ Closer(r) \in ScheduleRecord /\ Closer(r).status = r.status
           /\ Closer(r).misses = r.misses
BY SchedulerConstantsOK DEF Closer, Sooner, ScheduleRecord

\* A whole file ages record by record.
LEMMA AllCloserFits ==
    ASSUME NEW f \in File
    PROVE  /\ AllCloser(f) \in File /\ DOMAIN AllCloser(f) = DOMAIN f
           /\ \A i \in DOMAIN f : AllCloser(f)[i] = Closer(f[i])
<1> DEFINE g == AllCloser(f)
<1>1. /\ DOMAIN g = DOMAIN f /\ g = [j \in DOMAIN g |-> g[j]]
      /\ \A j \in DOMAIN f : g[j] = Closer(f[j])
  BY DEF AllCloser
<1>2. \A j \in DOMAIN f : g[j] \in ScheduleRecord
  BY <1>1, FileMeans, CloserFits
<1> HIDE DEF g
<1>3. g \in File
  BY <1>1, <1>2, FileMeans
<1> QED BY <1>1, <1>3 DEF g

------------------------------------------------------------------------------
(* The shape of the state.                                                 *)

\* What is shown below is at least the type invariant.
LEMMA ShapeIsTyped == SchedulerShape => SchedulerTypeOK
<1> SUFFICES ASSUME SchedulerShape PROVE SchedulerTypeOK
  OBVIOUS
<1>1. schedules \in [DOMAIN schedules -> ScheduleRecord] /\ DOMAIN schedules \subseteq Id
  BY FileMeans DEF SchedulerShape, RestFits
<1>2. \A p \in Editor :
        /\ edit[p].stage \in {"none", "new", "get", "list", "write", "done", "lost"}
        /\ edit[p].stage # "none" => edit[p].id \in Id
        /\ edit[p].stage \in {"new", "list", "write", "done"} => edit[p].record \in ScheduleRecord
  BY DEF SchedulerShape, EditsFit, EditRecord, Filled
<1> QED BY <1>1, <1>2 DEF SchedulerShape, RestFits, PassRecord, SchedulerTypeOK

\* An update that goes on is an update.
LEMMA UpdateFits ==
    ASSUME EditsFit, NEW p \in Editor, NEW e \in EditRecord, Filled(e),
           edit' = [edit EXCEPT ![p] = e]
    PROVE  EditsFit'
<1>1. edit' \in [Editor -> EditRecord]
  BY DEF EditsFit
<1>2. \A q \in Editor : edit'[q] = IF q = p THEN e ELSE edit[q]
  BY DEF EditsFit
<1>3. ASSUME NEW q \in Editor PROVE Filled(edit'[q])
  BY <1>2 DEF EditsFit
<1> QED BY <1>1, <1>3 DEF EditsFit

\* None is an update too.
LEMMA NoEditFits == NoEdit \in EditRecord /\ Filled(NoEdit)
BY EmptyFile, SchedulerConstantsOK DEF NoEdit, EditRecord, Filled, Change

\* An update that begins is an update (update_status, record_outcome).
LEMMA EditFits ==
    ASSUME EditsFit, NEW p \in Editor, NEW i \in Id,
           NEW change \in {"pause", "resume", "hit", "miss"}, Edit(p, i, change)
    PROVE  EditsFit'
<1> DEFINE e == [NoEdit EXCEPT !.stage = "get", !.id = i, !.change = change]
<1>1. e \in EditRecord /\ Filled(e)
  <2>1. i \in 0..MaxSchedules /\ change \in Change
    BY SchedulerConstantsOK DEF Id, Change
  <2>2. e \in EditRecord /\ e.stage = "get" /\ e.id = i /\ e.change = change
    BY <2>1, NoEditFits DEF EditRecord
  <2> QED BY <2>2 DEF Filled
<1>2. edit' = [edit EXCEPT ![p] = e]
  BY DEF Edit
<1> HIDE DEF e
<1> QED BY <1>1, <1>2, UpdateFits

\* Nothing has happened yet.
LEMMA ShapeInit == SchedulerInit => SchedulerShape
<1> SUFFICES ASSUME SchedulerInit PROVE SchedulerShape
  OBVIOUS
<1> USE SchedulerConstantsOK
<1>1. EditsFit
  BY NoEditFits DEF SchedulerInit, EditsFit
<1>2. RestFits
  BY EmptyFile DEF SchedulerInit, RestFits, PassRecord, Waiting, Id, OpenItem
<1>3. PassFits
  BY DEF SchedulerInit, PassFits, Waiting
<1> QED BY <1>1, <1>2, <1>3 DEF SchedulerShape

\* An update of schedules.json keeps the shape, whoever does it.
LEMMA EditStepShape ==
    ASSUME SchedulerShape, NEW p \in Editor, EditStep(p)
    PROVE  SchedulerShape'
<1> USE SchedulerConstantsOK DEF SchedulerShape
<1> DEFINE e == edit[p]
<1>e. e \in EditRecord /\ Filled(e)
  BY DEF EditsFit
<1>1. CASE GetSchedule(p)
  <2>1. RestFits' /\ PassFits'
    BY <1>1 DEF GetSchedule, history, RestFits, PassFits
  <2>2. CASE e.id \in DOMAIN schedules
    <3> DEFINE r == Changed(schedules[e.id], e.change, Age(p))
               n == [e EXCEPT !.stage = "list", !.record = r]
    <3>1. schedules[e.id] \in ScheduleRecord /\ Age(p) \in 0..Interval
      BY <2>2, FileMeans DEF RestFits, PassRecord, Age
    <3>2. e.stage = "get" /\ e.change \in {"pause", "resume", "hit", "miss"} /\ e.id \in Id
      BY <1>1, <1>e DEF GetSchedule, Filled
    <3>3. r \in ScheduleRecord
      BY <3>1, <3>2, ChangedFits
    <3>4. edit' = [edit EXCEPT ![p] = n]
      BY <1>1, <2>2 DEF GetSchedule
    <3>5. n \in EditRecord /\ Filled(n)
      <4> HIDE DEF r, e
      <4> QED BY <1>e, <3>2, <3>3 DEF EditRecord, Filled
    <3> HIDE DEF n
    <3> QED BY <2>1, <3>4, <3>5, UpdateFits
  <2>3. CASE e.id \notin DOMAIN schedules
    <3> DEFINE n == [e EXCEPT !.stage = "lost"]
    <3>1. e.stage = "get"
      BY <1>1 DEF GetSchedule
    <3>2. n \in EditRecord /\ Filled(n)
      <4> HIDE DEF e
      <4> QED BY <1>e, <3>1 DEF EditRecord, Filled
    <3>3. edit' = [edit EXCEPT ![p] = IF p = Bot THEN NoEdit ELSE n]
      BY <1>1, <2>3 DEF GetSchedule
    <3> HIDE DEF n
    <3> QED BY <2>1, <3>2, <3>3, NoEditFits, UpdateFits
  <2> QED BY <2>2, <2>3
<1>2. CASE ListSchedules(p)
  <2>1. RestFits' /\ PassFits'
    BY <1>2 DEF ListSchedules, history, RestFits, PassFits
  <2> DEFINE n == [e EXCEPT !.stage = "write", !.copy = schedules]
  <2>2. edit' = [edit EXCEPT ![p] = n]
    BY <1>2 DEF ListSchedules, EditsFit
  <2>3. e.stage \in {"new", "list"} /\ schedules \in File
    BY <1>2 DEF ListSchedules, RestFits
  <2>4. n \in EditRecord /\ Filled(n)
    <3> HIDE DEF e
    <3> QED BY <1>e, <2>3 DEF EditRecord, Filled
  <2> HIDE DEF n
  <2> QED BY <2>1, <2>2, <2>4, UpdateFits
<1>3. CASE WriteSchedules(p)
  <2>1. e.record \in ScheduleRecord /\ e.id \in Id /\ e.copy \in File /\ e.stage = "write"
    BY <1>3, <1>e DEF WriteSchedules, EditRecord, Filled
  <2>2. schedules' \in File
    BY <1>3, <2>1, ReplacedFits DEF WriteSchedules
  <2>3. RestFits'
    BY <1>3, <2>1, <2>2 DEF WriteSchedules, RestFits
  <2>4. PassFits'
    BY <1>3 DEF WriteSchedules, PassFits
  <2> DEFINE n == [e EXCEPT !.stage = "done", !.copy = <<>>]
  <2>5. n \in EditRecord /\ Filled(n)
    <3> HIDE DEF e
    <3> QED BY <1>e, <2>1, EmptyFile DEF EditRecord, Filled
  <2>6. edit' = [edit EXCEPT ![p] = IF p = Bot THEN NoEdit ELSE n]
    BY <1>3 DEF WriteSchedules
  <2> HIDE DEF n
  <2> QED BY <2>3, <2>4, <2>5, <2>6, NoEditFits, UpdateFits
<1> QED BY <1>1, <1>2, <1>3 DEF EditStep

\* A pass that goes on is a pass.
LEMMA PassUpdated ==
    ASSUME RestFits, PassFits, NEW w \in Worker, NEW n \in PassRecord,
           n.stage \in {"work", "outcome"} <=> n.at # 0, pass' = [pass EXCEPT ![w] = n]
    PROVE  pass' \in [Worker -> PassRecord] /\ PassFits'
<1>1. pass' \in [Worker -> PassRecord]
  BY DEF RestFits
<1>2. \A v \in Worker : pass'[v] = IF v = w THEN n ELSE pass[v]
  BY DEF RestFits
<1> QED BY <1>1, <1>2 DEF PassFits

\* A scheduler that waits has a pass of the right shape.
LEMMA WaitingFits == Waiting \in PassRecord
BY SchedulerConstantsOK DEF Waiting, PassRecord

\* Picking up a listed schedule keeps what it touches in shape.
LEMMA DispatchShape ==
    ASSUME RestFits, PassFits, NEW w \in Worker, NEW i \in Id,
           NEW stage \in {"work", "outcome"}, Dispatch(w, i, stage)
    PROVE  /\ pass' \in [Worker -> PassRecord] /\ PassFits'
           /\ runs' \in [Id -> Nat] /\ after_pause' \in [Id -> Nat]
<1> USE SchedulerConstantsOK
<1> DEFINE e == pass[w]
           n == [e EXCEPT !.stage = stage, !.todo = @ \ {i}, !.at = i]
<1>1. i \in 0..MaxSchedules /\ i # 0
  BY DEF Id
<1>2. e \in PassRecord
  BY DEF RestFits
<1>3. pass' = [pass EXCEPT ![w] = n]
  BY DEF Dispatch, RestFits
<1>4. n \in PassRecord /\ n.stage = stage /\ n.at = i
  <2> HIDE DEF e
  <2> QED BY <1>1, <1>2 DEF PassRecord
<1> HIDE DEF n
<1>5. pass' \in [Worker -> PassRecord] /\ PassFits'
  BY <1>1, <1>3, <1>4, PassUpdated
<1>6. runs' \in [Id -> Nat] /\ after_pause' \in [Id -> Nat]
  BY DEF Dispatch, RestFits
<1> QED BY <1>5, <1>6

\* So does every step of a pass.
LEMMA WorkerStepShape ==
    ASSUME SchedulerShape, NEW w \in Worker, WorkerStep(w)
    PROVE  SchedulerShape'
<1> USE SchedulerConstantsOK DEF SchedulerShape
<1>w. w \in Editor
  BY DEF Editor
<1>p. pass[w] \in PassRecord /\ (pass[w].stage \in {"work", "outcome"} <=> pass[w].at # 0)
  BY DEF RestFits, PassFits
<1>1. CASE Acquire(w)
  <2> DEFINE n == [pass[w] EXCEPT !.stage = "list", !.age = 0]
  <2>1. n \in PassRecord /\ n.stage = "list" /\ n.at = 0
    <3>1. pass[w].at = 0 /\ 0 \in 0..Interval
      BY <1>1, <1>p DEF Acquire
    <3> DEFINE e == pass[w]
    <3>2. e \in PassRecord /\ e.at = 0
      BY <1>p, <3>1
    <3> HIDE DEF e
    <3>3. [e EXCEPT !.stage = "list", !.age = 0] \in PassRecord
      BY <3>1, <3>2 DEF PassRecord
    <3> QED BY <3>2, <3>3 DEF e, PassRecord
  <2>2. pass' = [pass EXCEPT ![w] = n]
    BY <1>1 DEF Acquire, RestFits
  <2> HIDE DEF n
  <2>3. pass' \in [Worker -> PassRecord] /\ PassFits'
    BY <2>1, <2>2, PassUpdated
  <2> QED BY <1>1, <2>3 DEF Acquire, history, RestFits, EditsFit
<1>2. CASE ListDue(w)
  <2> DEFINE todo == {i \in DOMAIN schedules : Lists(i)}
             n == [pass[w] EXCEPT !.todo = todo, !.stage = "dispatch"]
  <2>1. todo \in SUBSET Id
    BY FileMeans DEF RestFits
  <2>2. pass' = [pass EXCEPT ![w] = n]
    BY <1>2 DEF ListDue, RestFits
  <2> HIDE DEF todo
  <2>3. n \in PassRecord /\ n.stage = "dispatch" /\ n.at = 0
    BY <1>2, <1>p, <2>1 DEF ListDue, PassRecord
  <2> HIDE DEF n
  <2>4. pass' \in [Worker -> PassRecord] /\ PassFits'
    BY <2>2, <2>3, PassUpdated
  <2> QED BY <1>2, <2>4 DEF ListDue, history, RestFits, EditsFit
<1>3. CASE EndPass(w)
  <2>1. pass' \in [Worker -> PassRecord] /\ PassFits'
    BY <1>3, WaitingFits, PassUpdated DEF EndPass, Waiting
  <2> QED BY <1>3, <2>1 DEF EndPass, history, RestFits, EditsFit
<1>4. CASE Answer(w)
  <2>1. pass[w].at \in Id
    BY <1>4, <1>p DEF Answer, PassRecord, Id
  <2>2. PICK result \in Results :
          /\ item' = IF pass[w].at \in Specialist
                     THEN [item EXCEPT ![pass[w].at] = result[1]] ELSE item
          /\ Edit(w, pass[w].at, result[2])
    BY <1>4 DEF Answer
  <2>3. result[1] \in OpenItem /\ result[2] \in {"hit", "miss"}
    BY DEF Results, OpenItem
  <2>4. EditsFit'
    BY <1>w, <2>1, <2>2, <2>3, EditFits
  <2>5. item' \in [Specialist -> OpenItem \cup {"none", "completed"}]
    BY <2>2, <2>3 DEF RestFits
  <2> DEFINE n == [pass[w] EXCEPT !.stage = "outcome"]
  <2>6. n \in PassRecord /\ n.stage = "outcome" /\ n.at # 0
    BY <1>4, <1>p DEF Answer, PassRecord
  <2>7. pass' = [pass EXCEPT ![w] = n]
    BY <1>4 DEF Answer, RestFits
  <2> HIDE DEF n
  <2>8. RestFits' /\ PassFits'
    BY <1>4, <2>5, <2>6, <2>7, PassUpdated DEF Answer, history, RestFits
  <2> QED BY <2>4, <2>8
<1>5. CASE Settle(w)
  <2>1. item' \in [Specialist -> OpenItem \cup {"none", "completed"}]
    BY <1>5 DEF Settle, ItemAfter, RestFits, OpenItem
  <2>2. edit' = [edit EXCEPT ![w] = NoEdit]
    BY <1>5 DEF Settle
  <2>3. EditsFit'
    BY <1>w, <2>2, NoEditFits, UpdateFits
  <2> DEFINE n == [pass[w] EXCEPT !.stage = "dispatch", !.at = 0]
  <2>4. n \in PassRecord /\ n.stage = "dispatch" /\ n.at = 0
    <3> DEFINE e == pass[w]
    <3>1. e \in PassRecord /\ 0 \in 0..MaxSchedules
      BY <1>p
    <3> HIDE DEF e
    <3>2. [e EXCEPT !.stage = "dispatch", !.at = 0] \in PassRecord
      BY <3>1 DEF PassRecord
    <3> QED BY <3>1, <3>2 DEF e, PassRecord
  <2>5. pass' = [pass EXCEPT ![w] = n]
    BY <1>5 DEF Settle, RestFits
  <2> HIDE DEF n
  <2>6. pass' \in [Worker -> PassRecord] /\ PassFits'
    BY <2>4, <2>5, PassUpdated
  <2> QED BY <1>5, <2>1, <2>3, <2>6 DEF Settle, history, RestFits
<1>6. ASSUME NEW i \in Id, Begin(w, i) PROVE SchedulerShape'
  <2>1. item' \in [Specialist -> OpenItem \cup {"none", "completed"}]
    BY <1>6 DEF Begin, RestFits, OpenItem
  <2>2. Dispatch(w, i, "work") /\ UNCHANGED <<lease, schedules, edit, interrupts, controls, cut, resumed>>
    BY <1>6 DEF Begin
  <2>3. RestFits' /\ PassFits'
    BY <2>1, <2>2, DispatchShape DEF RestFits
  <2> QED BY <2>2, <2>3 DEF EditsFit
<1>7. ASSUME NEW i \in Id, NothingToObserve(w, i) PROVE SchedulerShape'
  <2>1. Dispatch(w, i, "outcome") /\ UNCHANGED <<lease, schedules, item, interrupts, controls, cut, resumed>>
    BY <1>7 DEF NothingToObserve
  <2>2. RestFits' /\ PassFits'
    BY <2>1, DispatchShape DEF RestFits
  <2>3. PICK change \in {"hit", "miss"} : Edit(w, i, change)
    BY <1>7 DEF NothingToObserve
  <2>4. EditsFit'
    BY <1>w, <2>3, EditFits
  <2> QED BY <2>2, <2>4
<1> QED BY <1>1, <1>2, <1>3, <1>4, <1>5, <1>6, <1>7 DEF WorkerStep

\* A run that is cut off leaves its schedule and its item as they are.
LEMMA CutOffShape ==
    ASSUME SchedulerShape, NEW w \in Worker, CutOff(w),
           lease' \in [owner : Worker \cup {Gone, Nobody}, left : 0..LeaseTTL]
    PROVE  SchedulerShape'
<1> USE SchedulerConstantsOK DEF SchedulerShape
<1>1. pass' \in [Worker -> PassRecord] /\ PassFits'
  BY WaitingFits, PassUpdated DEF CutOff, Waiting
<1>2. EditsFit'
  BY NoEditFits, UpdateFits DEF CutOff, Editor
<1>3. pass[w].at # 0 => pass[w].at \in Id
  BY DEF RestFits, PassRecord, Id
<1>4. cut' \in [Id -> Nat]
  BY <1>3 DEF CutOff, RestFits
<1>5. interrupts' \in 0..MaxInterrupts
  BY DEF CutOff, RestFits
<1> QED BY <1>1, <1>2, <1>4, <1>5 DEF CutOff, RestFits

\* What the operator does keeps the shape.
LEMMA OperatorShape ==
    ASSUME SchedulerShape,
           \/ \E i \in Id : Create(i)
           \/ \E i \in DOMAIN schedules : PauseSchedule(i) \/ ResumeSchedule(i)
           \/ \E i \in Specialist : CompleteItem(i)
    PROVE  SchedulerShape'
<1> USE SchedulerConstantsOK DEF SchedulerShape
<1>b. Bot \in Editor /\ DOMAIN schedules \subseteq Id
  BY FileMeans DEF Editor, RestFits
<1>1. ASSUME NEW i \in Id, Create(i) PROVE SchedulerShape'
  <2> DEFINE r == [status |-> "active", due |-> Interval, misses |-> 0]
             n == [NoEdit EXCEPT !.stage = "new", !.id = i, !.change = "create", !.record = r]
  <2>1. r \in ScheduleRecord /\ i \in 0..MaxSchedules /\ "create" \in Change
    BY DEF ScheduleRecord, Id, Change
  <2>2. edit' = [edit EXCEPT ![Bot] = n]
    BY <1>1 DEF Create
  <2> HIDE DEF r
  <2>3. n \in EditRecord /\ n.stage = "new" /\ n.id = i /\ n.record = r
    BY <2>1, NoEditFits DEF EditRecord
  <2>4. Filled(n)
    BY <2>1, <2>3 DEF Filled
  <2> HIDE DEF n
  <2>5. EditsFit'
    BY <1>b, <2>2, <2>3, <2>4, UpdateFits
  <2> QED BY <1>1, <2>5 DEF Create, history, RestFits, PassFits
<1>2. ASSUME NEW i \in DOMAIN schedules, PauseSchedule(i) \/ ResumeSchedule(i)
      PROVE  SchedulerShape'
  <2>1. EditsFit'
    BY <1>b, <1>2, EditFits DEF PauseSchedule, ResumeSchedule
  <2> QED BY <1>2, <2>1 DEF PauseSchedule, ResumeSchedule, history, RestFits, PassFits
<1>3. ASSUME NEW i \in Specialist, CompleteItem(i) PROVE SchedulerShape'
  BY <1>3 DEF CompleteItem, history, RestFits, PassFits, EditsFit
<1> QED BY <1>1, <1>2, <1>3

\* Time makes passes older and changes nothing else about them.
LEMMA ClockPass ==
    ASSUME SchedulerShape, Clock, NEW w \in Worker
    PROVE  /\ pass'[w] \in PassRecord /\ pass'[w].stage = pass[w].stage
           /\ pass'[w].at = pass[w].at /\ pass'[w].todo = pass[w].todo
<1> USE SchedulerConstantsOK
<1> DEFINE e == pass[w]
           a == IF Busy(w) /\ e.age < Interval THEN e.age + 1 ELSE e.age
<1>1. pass'[w] = [e EXCEPT !.age = a]
  BY DEF Clock
<1>2. e \in PassRecord
  BY DEF SchedulerShape, RestFits
<1> HIDE DEF e
<1>3. a \in 0..Interval
  BY <1>2 DEF PassRecord
<1> HIDE DEF a
<1> QED BY <1>1, <1>2, <1>3 DEF PassRecord, e

\* So time keeps the shape, too.
LEMMA ClockShape == SchedulerShape /\ Clock => SchedulerShape'
<1> SUFFICES ASSUME SchedulerShape, Clock PROVE SchedulerShape'
  OBVIOUS
<1> USE SchedulerConstantsOK DEF SchedulerShape
<1>1. ASSUME NEW p \in Editor PROVE edit'[p] \in EditRecord /\ Filled(edit'[p])
  <2> DEFINE e == edit[p]
             r == IF e.stage \in {"new", "list", "write", "done"} THEN Closer(e.record)
                                                              ELSE e.record
             c == AllCloser(e.copy)
             n == [e EXCEPT !.copy = c, !.record = r]
  <2>1. edit'[p] = n
    BY DEF Clock
  <2>2. e \in EditRecord /\ Filled(e)
    BY DEF EditsFit
  <2> HIDE DEF e
  <2>3. c \in File
    BY <2>2, AllCloserFits DEF EditRecord
  <2>4. r \in ScheduleRecord \cup {<<>>}
    BY <2>2, CloserFits DEF EditRecord, Filled
  <2>5. e.stage \in {"new", "list", "write", "done"} => r \in ScheduleRecord
    BY <2>2, CloserFits DEF Filled
  <2> HIDE DEF r, c
  <2>6. /\ n \in EditRecord /\ n.stage = e.stage /\ n.id = e.id /\ n.change = e.change
        /\ n.record = r
    BY <2>2, <2>3, <2>4 DEF EditRecord
  <2> HIDE DEF n
  <2> QED BY <2>1, <2>2, <2>5, <2>6 DEF Filled
<1>2. EditsFit'
  <2>1. edit' = [p \in Editor |-> edit'[p]]
    BY DEF Clock
  <2> QED BY <1>1, <2>1 DEF EditsFit
<1>3. PassFits' /\ pass' \in [Worker -> PassRecord]
  <2>1. pass' = [w \in Worker |-> pass'[w]]
    BY DEF Clock
  <2> QED BY ClockPass, <2>1 DEF PassFits
<1>4. schedules' \in File
  BY AllCloserFits DEF Clock, RestFits
<1>5. lease' \in [owner : Worker \cup {Gone, Nobody}, left : 0..LeaseTTL]
  <2>1. Sooner(lease.left) \in 0..LeaseTTL
    BY DEF RestFits, Sooner
  <2> QED BY <2>1 DEF Clock, RestFits
<1> QED BY <1>2, <1>3, <1>4, <1>5 DEF Clock, history, RestFits

\* Every step keeps the shape, whether or not passes fit and writes overlap.
LEMMA ShapeStep == SchedulerShape /\ [SchedulerNext]_scheduler_vars => SchedulerShape'
<1> SUFFICES ASSUME SchedulerShape, [SchedulerNext]_scheduler_vars PROVE SchedulerShape'
  OBVIOUS
<1>1. ASSUME NEW w \in Worker, WorkerStep(w) PROVE SchedulerShape'
  BY <1>1, WorkerStepShape
<1>2. ASSUME NEW w \in Worker, Raise(w) \/ Die(w) PROVE SchedulerShape'
  <2>1. lease' \in [owner : Worker \cup {Gone, Nobody}, left : 0..LeaseTTL] /\ CutOff(w)
    BY <1>2 DEF Raise, Die, SchedulerShape, RestFits
  <2> QED BY <2>1, CutOffShape
<1>3. ASSUME NEW p \in Editor, EditStep(p) PROVE SchedulerShape'
  BY <1>3, EditStepShape
<1>4. CASE \/ \E i \in Id : Create(i)
           \/ \E i \in DOMAIN schedules : PauseSchedule(i) \/ ResumeSchedule(i)
           \/ \E i \in Specialist : CompleteItem(i)
  BY <1>4, OperatorShape
<1>5. CASE Clock
  BY <1>5, ClockShape
<1>6. CASE UNCHANGED scheduler_vars
  BY <1>6 DEF scheduler_vars, SchedulerShape, RestFits, EditsFit, PassFits
<1> QED BY <1>1, <1>2, <1>3, <1>4, <1>5, <1>6 DEF SchedulerNext

\* The scheduler's state has the shape its operations count on, also when a lease lapses
\* during a pass and updates of schedules.json overlap.
THEOREM SchedulerShaped == SchedulerSpec => []SchedulerShape
<1> QED BY ShapeInit, ShapeStep, PTL DEF SchedulerSpec

\* In particular every reachable state is well typed.
THEOREM SchedulerTypeCorrect == SchedulerSpec => []SchedulerTypeOK
BY SchedulerShaped, ShapeIsTyped, PTL

------------------------------------------------------------------------------
(* One pass at a time (OnePassAtATime).                                    *)

\* Whoever is at work has the lease, and it has not run out.
LeaseHeld ==
    PassesFit => \A w \in Worker : Busy(w) => lease.owner = w /\ lease.left > 0

\* A pass keeps the lease it began with until it ends (try_acquire_or_renew, run_once).
LEMMA LeaseHeldStep ==
    SchedulerShape /\ LeaseHeld /\ [SchedulerNext]_scheduler_vars => LeaseHeld'
<1> SUFFICES ASSUME SchedulerShape, LeaseHeld, [SchedulerNext]_scheduler_vars, PassesFit,
                    NEW v \in Worker, Busy(v)'
             PROVE  lease'.owner = v /\ lease'.left > 0
  BY DEF LeaseHeld
<1> USE SchedulerConstantsOK DEF Busy
<1>t. /\ pass \in [Worker -> PassRecord]
      /\ lease \in [owner : Worker \cup {Gone, Nobody}, left : 0..LeaseTTL]
  BY DEF SchedulerShape, RestFits
<1>1. ASSUME NEW w \in Worker, Acquire(w) PROVE lease'.owner = v /\ lease'.left > 0
  <2>1. v # w => Busy(v) /\ lease.owner = v /\ lease.left > 0
    BY <1>1, <1>t DEF Acquire, LeaseHeld
  <2>2. v = w
    BY <1>1, <2>1 DEF Acquire, Free
  <2> QED BY <1>1, <2>2 DEF Acquire
<1>2. ASSUME NEW w \in Worker, \/ ListDue(w) \/ Answer(w) \/ Settle(w) \/ EndPass(w)
                               \/ \E i \in Id : Begin(w, i) \/ NothingToObserve(w, i)
      PROVE  lease'.owner = v /\ lease'.left > 0
  <2>1. lease' = lease /\ Busy(w)
    BY <1>2 DEF ListDue, Answer, Settle, EndPass, Begin, NothingToObserve, Dispatch
  <2>2. v # w => Busy(v)
    BY <1>2, <1>t DEF ListDue, Answer, Settle, EndPass, Begin, NothingToObserve, Dispatch
  <2> QED BY <2>1, <2>2 DEF LeaseHeld
<1>3. ASSUME NEW w \in Worker, Raise(w) \/ Die(w) PROVE lease'.owner = v /\ lease'.left > 0
  <2>1. v # w /\ Busy(v)
    BY <1>3, <1>t DEF Raise, Die, CutOff, Waiting
  <2> QED BY <1>3, <2>1 DEF Raise, Die, LeaseHeld
<1>4. ASSUME NEW p \in Editor, EditStep(p) PROVE lease'.owner = v /\ lease'.left > 0
  BY <1>4 DEF EditStep, GetSchedule, ListSchedules, WriteSchedules, LeaseHeld
<1>5. CASE \/ \E i \in Id : Create(i)
           \/ \E i \in DOMAIN schedules : PauseSchedule(i) \/ ResumeSchedule(i)
           \/ \E i \in Specialist : CompleteItem(i)
  BY <1>5 DEF Create, PauseSchedule, ResumeSchedule, CompleteItem, LeaseHeld
<1>6. CASE Clock
  <2>1. Busy(v)
    BY <1>6, ClockPass
  <2>2. lease.owner = v /\ lease.left > 1
    BY <1>6, <2>1 DEF Clock, LeaseHeld
  <2>3. Sooner(lease.left) > 0
    BY <2>2, <1>t DEF Sooner
  <2>4. lease'.owner = lease.owner /\ lease'.left = Sooner(lease.left)
    BY <1>6, <1>t DEF Clock
  <2> QED BY <2>2, <2>3, <2>4
<1>7. CASE UNCHANGED scheduler_vars
  BY <1>7 DEF scheduler_vars, LeaseHeld
<1> QED BY <1>1, <1>2, <1>3, <1>4, <1>5, <1>6, <1>7 DEF SchedulerNext, WorkerStep

\* While passes end before their lease does, no two schedulers work through the due
\* schedules together, however many there are and whoever dies.
THEOREM OneAtATime == SchedulerSpec => []OnePassAtATime
<1>1. SchedulerInit => LeaseHeld
  BY DEF SchedulerInit, LeaseHeld, Busy, Waiting
<1>2. LeaseHeld => OnePassAtATime
  BY DEF LeaseHeld, OnePassAtATime
<1> QED BY <1>1, <1>2, LeaseHeldStep, SchedulerShaped, PTL DEF SchedulerSpec

------------------------------------------------------------------------------
(* Updates of schedules.json, one at a time.                               *)

Editing(p) == edit[p].stage \in {"list", "write"}

\* A scheduler updates the schedule it handles; the operator's bot does the rest.
EditsFollow ==
    /\ \A w \in Worker :
         edit[w].stage # "none" =>
           /\ pass[w].stage = "outcome" /\ edit[w].id = pass[w].at
           /\ edit[w].change \in {"hit", "miss"}
    /\ \A p \in Editor : edit[p].stage = "new" => edit[p].change = "create"

\* What an update is about to replace is what it has loaded.
FilesAgree ==
    /\ \A p, q \in Editor : Editing(p) /\ Editing(q) => p = q
    /\ \A p \in Editor : edit[p].stage = "write" => edit[p].copy = schedules

\* So no schedule is lost while it is listed, handled or updated.
NothingLost ==
    /\ \A w \in Worker : /\ pass[w].todo \subseteq DOMAIN schedules
                         /\ pass[w].at # 0 => pass[w].at \in DOMAIN schedules
    /\ \A p \in Editor :
         /\ edit[p].stage # "lost"
         /\ edit[p].stage \in {"new", "get", "list", "write"} =>
              (edit[p].id \in DOMAIN schedules <=> edit[p].change # "create")

\* And only the operator's order is about to make a paused schedule active.
PausesStand ==
    \A p \in Editor :
      /\ Editing(p) /\ edit[p].id \in DOMAIN schedules
      /\ schedules[edit[p].id].status = "paused" /\ edit[p].record.status = "active"
      => edit[p].change = "resume"

OneUpdate == EditsFollow /\ FilesAgree /\ NothingLost /\ PausesStand

\* An outcome leaves a paused schedule paused (record_outcome).
LEMMA ChangedStatus ==
    ASSUME NEW r \in ScheduleRecord, r.status = "paused",
           NEW change \in {"pause", "hit", "miss"}, NEW age \in 0..Interval
    PROVE  Changed(r, change, age).status = "paused"
<1> USE DEF ScheduleRecord
<1>1. CASE change = "pause"
  BY <1>1 DEF Changed
<1>2. CASE change = "hit"
  BY <1>2 DEF Changed
<1>3. CASE change = "miss"
  <2>1. Changed(r, change, age) = [Missed(r) EXCEPT !.due = NextDue(age)]
    BY <1>3 DEF Changed
  <2>2. Missed(r).status = "paused" /\ Missed(r) \in ScheduleRecord
    BY MissedFits
  <2> QED BY <2>1, <2>2
<1> QED BY <1>1, <1>2, <1>3

\* What each step of an update does to the updates.
LEMMA Begun ==
    ASSUME SchedulerShape, NEW p \in Editor, NEW i, NEW change, Edit(p, i, change)
    PROVE  /\ edit'[p].stage = "get" /\ edit'[p].id = i /\ edit'[p].change = change
           /\ \A q \in Editor \ {p} : edit'[q] = edit[q]
BY DEF SchedulerShape, EditsFit, EditRecord, Edit, NoEdit

\* ScheduleManager.get has found the record.
LEMMA Got ==
    ASSUME SchedulerShape, NEW p \in Editor, GetSchedule(p), edit[p].id \in DOMAIN schedules
    PROVE  /\ edit'[p].stage = "list" /\ edit'[p].id = edit[p].id
           /\ edit'[p].change = edit[p].change
           /\ edit'[p].record = Changed(schedules[edit[p].id], edit[p].change, Age(p))
           /\ \A q \in Editor \ {p} : edit'[q] = edit[q]
<1> DEFINE e == edit[p]
           r == Changed(schedules[edit[p].id], edit[p].change, Age(p))
           n == [e EXCEPT !.stage = "list", !.record = r]
<1>1. e \in EditRecord
  BY DEF SchedulerShape, EditsFit
<1>2. edit' = [edit EXCEPT ![p] = n]
  BY DEF GetSchedule
<1>3. edit'[p] = n /\ \A q \in Editor \ {p} : edit'[q] = edit[q]
  BY <1>2 DEF SchedulerShape, EditsFit
<1> HIDE DEF e, r
<1>4. n.stage = "list" /\ n.id = e.id /\ n.change = e.change /\ n.record = r
  BY <1>1 DEF EditRecord
<1> QED BY <1>3, <1>4 DEF e, r

\* The whole file has been loaded (list_for_campaign).
LEMMA Listed ==
    ASSUME SchedulerShape, NEW p \in Editor, ListSchedules(p)
    PROVE  /\ edit'[p].stage = "write" /\ edit'[p].id = edit[p].id
           /\ edit'[p].change = edit[p].change /\ edit'[p].copy = schedules
           /\ edit'[p].record = edit[p].record
           /\ \A q \in Editor \ {p} : edit'[q] = edit[q]
<1> DEFINE e == edit[p]
           n == [e EXCEPT !.stage = "write", !.copy = schedules]
<1>1. e \in EditRecord
  BY DEF SchedulerShape, EditsFit
<1>2. edit' = [edit EXCEPT ![p] = n]
  BY DEF ListSchedules, SchedulerShape, EditsFit
<1>3. edit'[p] = n /\ \A q \in Editor \ {p} : edit'[q] = edit[q]
  BY <1>2 DEF SchedulerShape, EditsFit
<1> HIDE DEF e
<1>4. /\ n.stage = "write" /\ n.id = e.id /\ n.change = e.change /\ n.copy = schedules
      /\ n.record = e.record
  BY <1>1 DEF EditRecord
<1> QED BY <1>3, <1>4 DEF e

\* The whole file has been replaced (write_json_file).
LEMMA Written ==
    ASSUME SchedulerShape, NEW p \in Editor, WriteSchedules(p)
    PROVE  /\ edit'[p].stage = IF p = Bot THEN "none" ELSE "done"
           /\ p # Bot => edit'[p].id = edit[p].id /\ edit'[p].change = edit[p].change
           /\ \A q \in Editor \ {p} : edit'[q] = edit[q]
           /\ edit[p].id \in Id /\ edit[p].record \in ScheduleRecord
           /\ edit[p].copy = schedules =>
                /\ DOMAIN schedules' = DOMAIN schedules \cup {edit[p].id}
                /\ schedules'[edit[p].id] = edit[p].record
                /\ \A j \in DOMAIN schedules \ {edit[p].id} : schedules'[j] = schedules[j]
<1> DEFINE e == edit[p]
           n == [e EXCEPT !.stage = "done", !.copy = <<>>]
<1>1. e \in EditRecord /\ Filled(e)
  BY DEF SchedulerShape, EditsFit
<1>2. edit' = [edit EXCEPT ![p] = IF p = Bot THEN NoEdit ELSE n]
  BY DEF WriteSchedules
<1>3. /\ edit'[p] = IF p = Bot THEN NoEdit ELSE n
      /\ \A q \in Editor \ {p} : edit'[q] = edit[q]
  BY <1>2 DEF SchedulerShape, EditsFit
<1>4. n.stage = "done" /\ n.id = e.id /\ n.change = e.change
  <2> HIDE DEF e
  <2> QED BY <1>1 DEF EditRecord
<1>5. edit[p].id \in Id /\ edit[p].record \in ScheduleRecord
  BY <1>1 DEF WriteSchedules, Filled
<1>6. ASSUME edit[p].copy = schedules
      PROVE  /\ DOMAIN schedules' = DOMAIN schedules \cup {edit[p].id}
             /\ schedules'[edit[p].id] = edit[p].record
             /\ \A j \in DOMAIN schedules \ {edit[p].id} : schedules'[j] = schedules[j]
  <2>1. schedules' = Replaced(schedules, edit[p].id, edit[p].record)
    BY <1>6 DEF WriteSchedules
  <2>2. schedules \in File
    BY DEF SchedulerShape, RestFits
  <2> DEFINE g == Replaced(schedules, edit[p].id, edit[p].record)
  <2>3. /\ DOMAIN g = DOMAIN schedules \cup {edit[p].id} /\ g[edit[p].id] = edit[p].record
        /\ \A j \in DOMAIN schedules \ {edit[p].id} : g[j] = schedules[j]
    BY <1>5, <2>2, ReplacedFits
  <2> HIDE DEF g
  <2>4. schedules' = g
    BY <2>1 DEF g
  <2> QED BY <2>3, <2>4
<1> HIDE DEF n
<1> QED BY <1>3, <1>4, <1>5, <1>6 DEF NoEdit

\* Nobody else is between load and replacement when a process loads.
LEMMA LoadsAlone ==
    ASSUME WritesDontOverlap, NEW p \in Editor, MayLoad(p)
    PROVE  \A q \in Editor \ {p} : ~Editing(q)
BY DEF MayLoad, Editing

\* Loading the record keeps the order of updates.
LEMMA UpdateGets ==
    ASSUME WritesDontOverlap, SchedulerShape, OneUpdate, NEW p \in Editor, GetSchedule(p)
    PROVE  OneUpdate'
<1> USE DEF OneUpdate
<1>1. edit[p].stage = "get" /\ edit[p].change \in {"pause", "resume", "hit", "miss"}
  BY DEF GetSchedule, SchedulerShape, EditsFit, Filled
<1>2. edit[p].id \in DOMAIN schedules
  BY <1>1 DEF NothingLost
<1>3. /\ edit'[p].stage = "list" /\ edit'[p].id = edit[p].id
      /\ edit'[p].change = edit[p].change
      /\ edit'[p].record = Changed(schedules[edit[p].id], edit[p].change, Age(p))
      /\ \A q \in Editor \ {p} : edit'[q] = edit[q]
  BY <1>2, Got
<1>4. pass' = pass /\ schedules' = schedules /\ \A q \in Editor \ {p} : ~Editing(q)
  BY LoadsAlone DEF GetSchedule
<1>5. EditsFollow'
  BY <1>1, <1>3, <1>4 DEF EditsFollow, Editor
<1>6. FilesAgree'
  BY <1>3, <1>4 DEF FilesAgree, Editing
<1>7. NothingLost'
  BY <1>1, <1>3, <1>4 DEF NothingLost
<1>8. PausesStand'
  <2>1. ASSUME schedules[edit[p].id].status = "paused", edit'[p].record.status = "active"
        PROVE  edit[p].change = "resume"
    <3>1. schedules[edit[p].id] \in ScheduleRecord /\ Age(p) \in 0..Interval
      BY <1>2, FileMeans, SchedulerConstantsOK DEF SchedulerShape, RestFits, PassRecord, Age
    <3> QED BY <1>1, <1>3, <2>1, <3>1, ChangedStatus
  <2> QED BY <1>3, <1>4, <2>1 DEF PausesStand, Editing
<1> QED BY <1>5, <1>6, <1>7, <1>8

\* So does loading the file.
LEMMA UpdateLists ==
    ASSUME WritesDontOverlap, SchedulerShape, OneUpdate, NEW p \in Editor, ListSchedules(p)
    PROVE  OneUpdate'
<1> USE DEF OneUpdate
<1>1. /\ edit'[p].stage = "write" /\ edit'[p].id = edit[p].id
      /\ edit'[p].change = edit[p].change /\ edit'[p].copy = schedules
      /\ edit'[p].record = edit[p].record
      /\ \A q \in Editor \ {p} : edit'[q] = edit[q]
  BY Listed
<1>2. /\ pass' = pass /\ schedules' = schedules /\ \A q \in Editor \ {p} : ~Editing(q)
      /\ edit[p].stage \in {"new", "list"}
  BY LoadsAlone DEF ListSchedules
<1>3. edit[p].stage = "new" => edit[p].change = "create" /\ edit[p].id \notin DOMAIN schedules
  BY DEF EditsFollow, NothingLost
<1>4. EditsFollow'
  BY <1>1, <1>2 DEF EditsFollow, Editor
<1>5. FilesAgree'
  BY <1>1, <1>2 DEF FilesAgree, Editing
<1>6. NothingLost'
  BY <1>1, <1>2, <1>3 DEF NothingLost
<1>7. PausesStand'
  BY <1>1, <1>2, <1>3 DEF PausesStand, Editing
<1> QED BY <1>4, <1>5, <1>6, <1>7

\* And replacing it.
LEMMA UpdateWrites ==
    ASSUME WritesDontOverlap, SchedulerShape, OneUpdate, NEW p \in Editor, WriteSchedules(p)
    PROVE  OneUpdate'
<1> USE DEF OneUpdate
<1>1. edit[p].stage = "write" /\ edit[p].copy = schedules /\ pass' = pass
  BY DEF WriteSchedules, FilesAgree
<1>2. /\ edit'[p].stage = IF p = Bot THEN "none" ELSE "done"
      /\ p # Bot => edit'[p].id = edit[p].id /\ edit'[p].change = edit[p].change
      /\ \A q \in Editor \ {p} : edit'[q] = edit[q]
      /\ DOMAIN schedules' = DOMAIN schedules \cup {edit[p].id}
      /\ \A j \in DOMAIN schedules \ {edit[p].id} : schedules'[j] = schedules[j]
  BY <1>1, Written
<1>3. \A q \in Editor \ {p} : ~Editing(q)
  BY <1>1 DEF FilesAgree, Editing
<1>4. EditsFollow'
  BY <1>1, <1>2, SchedulerConstantsOK DEF EditsFollow, Editor
<1>5. FilesAgree'
  BY <1>2, <1>3 DEF FilesAgree, Editing
<1>6. ASSUME NEW q \in Editor \ {p}, edit[q].stage \in {"new", "get", "list", "write"}
      PROVE  edit[q].id \in DOMAIN schedules' <=> edit[q].id \in DOMAIN schedules
  <2>1. CASE p = Bot
    <3>1. edit[q].id \in DOMAIN schedules
      BY <1>6, <2>1, SchedulerConstantsOK DEF NothingLost, EditsFollow, Editor
    <3> QED BY <1>2, <3>1
  <2>2. CASE p # Bot
    <3>1. edit[p].id \in DOMAIN schedules
      BY <1>1, <2>2 DEF NothingLost, EditsFollow, Editor
    <3> QED BY <1>2, <3>1
  <2> QED BY <2>1, <2>2
<1>7. NothingLost'
  <2>1. ASSUME NEW w \in Worker
        PROVE  /\ pass[w].todo \subseteq DOMAIN schedules'
               /\ pass[w].at # 0 => pass[w].at \in DOMAIN schedules'
    BY <1>2 DEF NothingLost
  <2>2. ASSUME NEW q \in Editor
        PROVE  /\ edit'[q].stage # "lost"
               /\ edit'[q].stage \in {"new", "get", "list", "write"} =>
                    (edit'[q].id \in DOMAIN schedules' <=> edit'[q].change # "create")
    BY <1>2, <1>6 DEF NothingLost
  <2> QED BY <1>1, <2>1, <2>2 DEF NothingLost
<1>8. PausesStand'
  BY <1>2, <1>3 DEF PausesStand, Editing
<1> QED BY <1>4, <1>5, <1>7, <1>8

\* A pass of a scheduler.
LEMMA UpdateAndPasses ==
    ASSUME WritesDontOverlap, SchedulerShape, OneUpdate, NEW w \in Worker, WorkerStep(w)
    PROVE  OneUpdate'
<1> USE DEF OneUpdate
<1>t. /\ pass \in [Worker -> PassRecord] /\ w \in Editor
      /\ pass[w].stage \in {"work", "outcome"} <=> pass[w].at # 0
  BY DEF SchedulerShape, RestFits, PassFits, Editor
<1>s. schedules' = schedules
  BY DEF WorkerStep, Acquire, ListDue, EndPass, Answer, Settle, Begin, NothingToObserve
<1>o. \A v \in Worker \ {w} : pass'[v] = pass[v]
  BY <1>t DEF WorkerStep, Acquire, ListDue, EndPass, Answer, Settle, Begin, NothingToObserve,
              Dispatch
<1>q. edit[w].stage # "none" => pass[w].stage = "outcome"
  BY DEF EditsFollow
<1>k. ASSUME edit' = edit, pass[w].stage # "outcome",
             pass'[w].todo \subseteq DOMAIN schedules,
             pass'[w].at # 0 => pass'[w].at \in DOMAIN schedules
      PROVE  OneUpdate'
  <2>1. EditsFollow'
    BY <1>k, <1>q, <1>o DEF EditsFollow
  <2>2. FilesAgree' /\ PausesStand'
    BY <1>k, <1>s DEF FilesAgree, PausesStand, Editing
  <2>3. NothingLost'
    BY <1>k, <1>s, <1>o DEF NothingLost
  <2> QED BY <2>1, <2>2, <2>3
<1>d. ASSUME NEW i \in Id, NEW stage, Dispatch(w, i, stage)
      PROVE  /\ pass[w].stage = "dispatch" /\ pass'[w].stage = stage /\ pass'[w].at = i
             /\ pass'[w].todo \subseteq DOMAIN schedules /\ i \in DOMAIN schedules
  <2> DEFINE e == pass[w]
             n == [e EXCEPT !.stage = stage, !.todo = @ \ {i}, !.at = i]
  <2>1. pass[w].todo \subseteq DOMAIN schedules /\ i \in pass[w].todo
    BY <1>d DEF NothingLost, Dispatch
  <2>2. pass'[w] = n
    BY <1>d, <1>t DEF Dispatch
  <2>3. e \in PassRecord
    BY <1>t
  <2> HIDE DEF e
  <2>4. n.stage = stage /\ n.at = i /\ n.todo = e.todo \ {i}
    BY <2>3 DEF PassRecord
  <2> HIDE DEF n
  <2> QED BY <1>d, <2>1, <2>2, <2>4 DEF e, Dispatch
<1>b. ASSUME NEW i \in DOMAIN schedules, NEW change \in {"hit", "miss"}, Edit(w, i, change),
             pass[w].stage \in {"work", "dispatch"}, pass'[w].stage = "outcome",
             pass'[w].at = i, pass'[w].todo \subseteq DOMAIN schedules
      PROVE  OneUpdate'
  <2>1. /\ edit'[w].stage = "get" /\ edit'[w].id = i /\ edit'[w].change = change
        /\ \A q \in Editor \ {w} : edit'[q] = edit[q]
    BY <1>b, <1>t, Begun
  <2>2. EditsFollow'
    BY <1>b, <1>o, <2>1 DEF EditsFollow, Editor
  <2>3. FilesAgree' /\ PausesStand'
    BY <1>s, <2>1 DEF FilesAgree, PausesStand, Editing
  <2>4. NothingLost'
    BY <1>b, <1>s, <1>o, <2>1 DEF NothingLost
  <2> QED BY <2>2, <2>3, <2>4
<1>1. CASE Acquire(w)
  <2>1. /\ edit' = edit /\ pass[w].stage = "idle" /\ pass'[w].todo = pass[w].todo
        /\ pass'[w].at = pass[w].at
    BY <1>1, <1>t DEF Acquire, PassRecord
  <2> QED BY <2>1, <1>k DEF NothingLost
<1>2. CASE ListDue(w)
  <2>1. /\ edit' = edit /\ pass[w].stage = "list" /\ pass'[w].at = pass[w].at
        /\ pass'[w].todo = {i \in DOMAIN schedules : Lists(i)}
    BY <1>2, <1>t DEF ListDue, PassRecord
  <2> QED BY <2>1, <1>k DEF NothingLost
<1>3. CASE EndPass(w)
  BY <1>3, <1>k, <1>t DEF EndPass, Waiting
<1>4. CASE Answer(w)
  <2>1. PICK result \in Results : Edit(w, pass[w].at, result[2])
    BY <1>4 DEF Answer
  <2>2. result[2] \in {"hit", "miss"}
    BY DEF Results
  <2>3. /\ pass[w].stage = "work" /\ pass'[w].stage = "outcome" /\ pass'[w].at = pass[w].at
        /\ pass'[w].todo = pass[w].todo
    BY <1>4, <1>t DEF Answer, PassRecord
  <2>4. pass[w].at \in DOMAIN schedules /\ pass[w].todo \subseteq DOMAIN schedules
    BY <1>t, <2>3 DEF NothingLost
  <2> QED BY <2>1, <2>2, <2>3, <2>4, <1>b
<1>5. CASE Settle(w)
  <2>1. edit'[w] = NoEdit /\ \A q \in Editor \ {w} : edit'[q] = edit[q]
    BY <1>5, <1>t DEF Settle, SchedulerShape, EditsFit
  <2>2. pass'[w].todo = pass[w].todo /\ pass'[w].at = 0
    BY <1>5, <1>t DEF Settle, PassRecord
  <2>3. EditsFollow'
    BY <1>o, <2>1 DEF EditsFollow, NoEdit, Editor
  <2>4. FilesAgree' /\ PausesStand'
    BY <1>s, <2>1 DEF FilesAgree, PausesStand, Editing, NoEdit
  <2>5. NothingLost'
    BY <1>s, <1>o, <2>1, <2>2 DEF NothingLost, NoEdit
  <2> QED BY <2>3, <2>4, <2>5
<1>6. ASSUME NEW i \in Id, Begin(w, i) PROVE OneUpdate'
  BY <1>6, <1>d, <1>k DEF Begin
<1>7. ASSUME NEW i \in Id, NothingToObserve(w, i) PROVE OneUpdate'
  BY <1>7, <1>d, <1>b DEF NothingToObserve
<1> QED BY <1>1, <1>2, <1>3, <1>4, <1>5, <1>6, <1>7 DEF WorkerStep

\* An update that is cut off has changed nothing or is over.
LEMMA UpdateCutOff ==
    ASSUME WritesDontOverlap, SchedulerShape, OneUpdate, NEW w \in Worker, CutOff(w)
    PROVE  OneUpdate'
<1> USE DEF OneUpdate
<1>1. /\ edit'[w] = NoEdit /\ \A q \in Editor \ {w} : edit'[q] = edit[q]
      /\ pass'[w] = Waiting /\ \A v \in Worker \ {w} : pass'[v] = pass[v]
      /\ schedules' = schedules /\ w \in Editor
  BY DEF CutOff, SchedulerShape, RestFits, EditsFit, Editor
<1>2. EditsFollow'
  BY <1>1 DEF EditsFollow, NoEdit, Editor
<1>3. FilesAgree' /\ PausesStand'
  BY <1>1 DEF FilesAgree, PausesStand, Editing, NoEdit
<1>4. NothingLost'
  BY <1>1 DEF NothingLost, NoEdit, Waiting
<1> QED BY <1>2, <1>3, <1>4

\* The operator's orders begin updates of schedules that are there, or of a new one.
LEMMA UpdateAndOperator ==
    ASSUME WritesDontOverlap, SchedulerShape, OneUpdate,
           \/ \E i \in Id : Create(i)
           \/ \E i \in DOMAIN schedules : PauseSchedule(i) \/ ResumeSchedule(i)
           \/ \E i \in Specialist : CompleteItem(i)
    PROVE  OneUpdate'
<1> USE DEF OneUpdate
<1>b. Bot \in Editor /\ Bot \notin Worker
  BY SchedulerConstantsOK DEF Editor
<1>k. ASSUME NEW i, pass' = pass, schedules' = schedules,
             \A q \in Editor \ {Bot} : edit'[q] = edit[q],
             edit'[Bot].stage \in {"new", "get"}, edit'[Bot].id = i,
             edit'[Bot].stage = "new" => edit'[Bot].change = "create",
             i \in DOMAIN schedules <=> edit'[Bot].change # "create"
      PROVE  OneUpdate'
  <2>1. EditsFollow'
    BY <1>b, <1>k DEF EditsFollow, Editor
  <2>2. FilesAgree' /\ PausesStand'
    BY <1>b, <1>k DEF FilesAgree, PausesStand, Editing
  <2>3. NothingLost'
    BY <1>b, <1>k DEF NothingLost
  <2> QED BY <2>1, <2>2, <2>3
<1>1. ASSUME NEW i \in Id, Create(i) PROVE OneUpdate'
  <2> DEFINE r == [status |-> "active", due |-> Interval, misses |-> 0]
             n == [NoEdit EXCEPT !.stage = "new", !.id = i, !.change = "create", !.record = r]
  <2>1. edit'[Bot] = n /\ \A q \in Editor \ {Bot} : edit'[q] = edit[q]
    BY <1>b, <1>1 DEF Create, SchedulerShape, EditsFit
  <2>2. n.stage = "new" /\ n.id = i /\ n.change = "create"
    <3> HIDE DEF r
    <3> QED BY DEF NoEdit
  <2>3. i \notin DOMAIN schedules /\ pass' = pass /\ schedules' = schedules
    BY <1>1 DEF Create
  <2> HIDE DEF n
  <2> QED BY <2>1, <2>2, <2>3, <1>k
<1>2. ASSUME NEW i \in DOMAIN schedules, PauseSchedule(i) \/ ResumeSchedule(i) PROVE OneUpdate'
  <2>1. PICK change \in {"pause", "resume"} : Edit(Bot, i, change)
    BY <1>2 DEF PauseSchedule, ResumeSchedule
  <2>2. /\ edit'[Bot].stage = "get" /\ edit'[Bot].id = i /\ edit'[Bot].change = change
        /\ \A q \in Editor \ {Bot} : edit'[q] = edit[q]
    BY <1>b, <2>1, Begun
  <2>3. pass' = pass /\ schedules' = schedules
    BY <1>2 DEF PauseSchedule, ResumeSchedule
  <2> QED BY <2>2, <2>3, <1>k
<1>3. ASSUME NEW i \in Specialist, CompleteItem(i) PROVE OneUpdate'
  BY <1>3 DEF CompleteItem, EditsFollow, FilesAgree, NothingLost, PausesStand, Editing
<1> QED BY <1>1, <1>2, <1>3

\* Time changes the distances in an update and nothing else.
LEMMA ClockEdit ==
    ASSUME SchedulerShape, Clock, NEW p \in Editor
    PROVE  /\ edit'[p].stage = edit[p].stage /\ edit'[p].id = edit[p].id
           /\ edit'[p].change = edit[p].change /\ edit'[p].copy = AllCloser(edit[p].copy)
           /\ edit[p].stage \in {"new", "list", "write", "done"} =>
                edit'[p].record = Closer(edit[p].record)
<1> DEFINE e == edit[p]
           r == IF e.stage \in {"new", "list", "write", "done"} THEN Closer(e.record)
                                                            ELSE e.record
           c == AllCloser(e.copy)
           n == [e EXCEPT !.copy = c, !.record = r]
<1>1. edit'[p] = n
  BY DEF Clock
<1>2. e \in EditRecord
  BY DEF SchedulerShape, EditsFit
<1>3. n.stage = e.stage /\ n.id = e.id /\ n.change = e.change /\ n.copy = c /\ n.record = r
  <2> HIDE DEF e, r, c
  <2> QED BY <1>2 DEF EditRecord
<1> HIDE DEF n
<1> QED BY <1>1, <1>3

\* Time brings the loaded files and records nearer to their due times like the stored one.
LEMMA UpdateAndClock ==
    ASSUME WritesDontOverlap, SchedulerShape, OneUpdate, Clock
    PROVE  OneUpdate'
<1> USE DEF OneUpdate
<1>1. \A p \in Editor :
        /\ edit'[p].stage = edit[p].stage /\ edit'[p].id = edit[p].id
        /\ edit'[p].change = edit[p].change /\ edit'[p].copy = AllCloser(edit[p].copy)
        /\ Editing(p) => edit'[p].record = Closer(edit[p].record)
  BY ClockEdit DEF Editing
<1>2. \A w \in Worker : /\ pass'[w].stage = pass[w].stage /\ pass'[w].at = pass[w].at
                       /\ pass'[w].todo = pass[w].todo
  BY ClockPass
<1>3. schedules \in File /\ schedules' = AllCloser(schedules)
  BY DEF Clock, SchedulerShape, RestFits
<1>4. DOMAIN schedules' = DOMAIN schedules
  BY <1>3, AllCloserFits
<1>5. EditsFollow'
  BY <1>1, <1>2 DEF EditsFollow, Editor
<1>6. FilesAgree'
  BY <1>1, <1>3 DEF FilesAgree, Editing
<1>7. NothingLost'
  BY <1>1, <1>2, <1>4 DEF NothingLost
<1>8. PausesStand'
  <2> SUFFICES ASSUME NEW p \in Editor, Editing(p), edit[p].id \in DOMAIN schedules,
                      schedules'[edit[p].id].status = "paused",
                      edit'[p].record.status = "active"
               PROVE  edit[p].change = "resume"
    BY <1>1, <1>4 DEF PausesStand, Editing
  <2>1. /\ schedules[edit[p].id] \in ScheduleRecord
        /\ schedules'[edit[p].id] = Closer(schedules[edit[p].id])
    BY <1>3, FileMeans, AllCloserFits
  <2>2. edit[p].record \in ScheduleRecord /\ edit'[p].record = Closer(edit[p].record)
    BY <1>1 DEF SchedulerShape, EditsFit, Filled, Editing
  <2>3. schedules[edit[p].id].status = "paused" /\ edit[p].record.status = "active"
    BY <2>1, <2>2, CloserFits
  <2> QED BY <2>3 DEF PausesStand
<1> QED BY <1>5, <1>6, <1>7, <1>8

\* Without overlapping writes, an update replaces what it has loaded.
LEMMA OneUpdateStep ==
    WritesDontOverlap /\ SchedulerShape /\ OneUpdate /\ [SchedulerNext]_scheduler_vars => OneUpdate'
<1> SUFFICES ASSUME WritesDontOverlap, SchedulerShape, OneUpdate, [SchedulerNext]_scheduler_vars
             PROVE  OneUpdate'
  OBVIOUS
<1>1. ASSUME NEW w \in Worker, WorkerStep(w) PROVE OneUpdate'
  BY <1>1, UpdateAndPasses
<1>2. ASSUME NEW w \in Worker, Raise(w) \/ Die(w) PROVE OneUpdate'
  BY <1>2, UpdateCutOff DEF Raise, Die
<1>3. ASSUME NEW p \in Editor, EditStep(p) PROVE OneUpdate'
  BY <1>3, UpdateGets, UpdateLists, UpdateWrites DEF EditStep
<1>4. CASE \/ \E i \in Id : Create(i)
           \/ \E i \in DOMAIN schedules : PauseSchedule(i) \/ ResumeSchedule(i)
           \/ \E i \in Specialist : CompleteItem(i)
  BY <1>4, UpdateAndOperator
<1>5. CASE Clock
  BY <1>5, UpdateAndClock
<1>6. CASE UNCHANGED scheduler_vars
  BY <1>6 DEF scheduler_vars, OneUpdate, EditsFollow, FilesAgree, NothingLost, PausesStand, Editing
<1> QED BY <1>1, <1>2, <1>3, <1>4, <1>5, <1>6 DEF SchedulerNext

OneUpdateAtATime == WritesDontOverlap => OneUpdate

\* Updates that do not overlap lose no schedule and undo no pause on the way.
THEOREM UpdatesAreWhole == SchedulerSpec => []OneUpdateAtATime
<1>1. SchedulerInit => OneUpdateAtATime
  BY DEF SchedulerInit, OneUpdateAtATime, OneUpdate, EditsFollow, FilesAgree, NothingLost,
         PausesStand, Editing, NoEdit, Waiting, Editor
<1>2. SchedulerShape /\ OneUpdateAtATime /\ [SchedulerNext]_scheduler_vars => OneUpdateAtATime'
  BY OneUpdateStep DEF OneUpdateAtATime
<1> QED BY <1>1, <1>2, SchedulerShaped, PTL DEF SchedulerSpec

------------------------------------------------------------------------------
(* A pause outlives the run it overtakes (PauseOutlivesRun).               *)

PauseHolds ==
    WritesDontOverlap =>
      \A i \in DOMAIN schedules :
        /\ i \in DOMAIN schedules'
        /\ schedules[i].status = "paused" /\ schedules'[i].status = "active"
             => edit[Bot].change = "resume" /\ edit[Bot].id = i

\* No step but the operator's resume makes a paused schedule active.
LEMMA PauseHoldsStep ==
    SchedulerShape /\ OneUpdateAtATime /\ [SchedulerNext]_scheduler_vars => PauseHolds
<1> SUFFICES ASSUME SchedulerShape, OneUpdate, [SchedulerNext]_scheduler_vars
             PROVE  PauseHolds
  BY DEF OneUpdateAtATime, PauseHolds
<1>s. schedules \in File
  BY DEF SchedulerShape, RestFits
<1>1. CASE schedules' = schedules
  BY <1>1, <1>s, FileMeans DEF PauseHolds, ScheduleRecord
<1>2. CASE Clock
  <2>1. ASSUME NEW i \in DOMAIN schedules
        PROVE  i \in DOMAIN schedules' /\ schedules'[i].status = schedules[i].status
    BY <1>2, <1>s, FileMeans, AllCloserFits, CloserFits DEF Clock
  <2> QED BY <1>s, <2>1, FileMeans DEF PauseHolds, ScheduleRecord
<1>3. ASSUME NEW p \in Editor, WriteSchedules(p) PROVE PauseHolds
  <2>1. edit[p].stage = "write" /\ edit[p].copy = schedules
    BY <1>3 DEF WriteSchedules, OneUpdate, FilesAgree
  <2>2. /\ DOMAIN schedules' = DOMAIN schedules \cup {edit[p].id}
        /\ schedules'[edit[p].id] = edit[p].record
        /\ \A j \in DOMAIN schedules \ {edit[p].id} : schedules'[j] = schedules[j]
    BY <1>3, <2>1, Written
  <2>3. ASSUME NEW i \in DOMAIN schedules, schedules[i].status = "paused",
               schedules'[i].status = "active"
        PROVE  edit[Bot].change = "resume" /\ edit[Bot].id = i
    <3>1. i = edit[p].id
      BY <2>2, <2>3
    <3>2. edit[p].change = "resume"
      BY <2>1, <2>2, <2>3, <3>1 DEF OneUpdate, PausesStand, Editing
    <3>3. p = Bot
      BY <2>1, <3>2 DEF OneUpdate, EditsFollow, Editor
    <3> QED BY <3>1, <3>2, <3>3
  <2> QED BY <2>2, <2>3 DEF PauseHolds
<1>4. ASSUME schedules' # schedules, ~Clock PROVE \E p \in Editor : WriteSchedules(p)
  BY <1>4 DEF SchedulerNext, scheduler_vars, WorkerStep, Acquire, ListDue, EndPass, Answer, Settle,
             Begin, NothingToObserve, Raise, Die, CutOff, EditStep, GetSchedule, ListSchedules,
             Create, PauseSchedule, ResumeSchedule, CompleteItem
<1> QED BY <1>1, <1>2, <1>3, <1>4

\* For any number of schedulers: only the operator's resume wakes a paused schedule, and
\* no schedule disappears, as long as updates do not overlap.
THEOREM PauseOutlives == SchedulerSpec => PauseOutlivesRun
<1>1. PauseHolds => (WritesDontOverlap =>
         \A i \in DOMAIN schedules :
           /\ i \in DOMAIN schedules'
           /\ schedules[i].status = "paused" /\ schedules'[i].status = "active"
                => edit[Bot].change = "resume" /\ edit[Bot].id = i)
  BY DEF PauseHolds
<1> QED BY <1>1, PauseHoldsStep, SchedulerShaped, UpdatesAreWhole, PTL
        DEF SchedulerSpec, PauseOutlivesRun

------------------------------------------------------------------------------
(* One run per due time (DispatchedOnce).                                  *)

\* A run whose outcome is not in schedules.json yet.
Unrecorded(i) == \E w \in Worker : pass[w].at = i /\ edit[w].stage # "done"

RunsCounted ==
    \A i \in Id : runs[i] <= cut[i] + 1 /\ (~Unrecorded(i) => runs[i] <= cut[i])

RunsAccounted == Unhindered => RunsCounted

\* A due time is listed again only after its run has been recorded or cut off.
LEMMA RunsAndPasses ==
    ASSUME Unhindered, SchedulerShape, LeaseHeld, OneUpdate, RunsCounted,
           NEW w \in Worker, WorkerStep(w)
    PROVE  RunsCounted'
<1>t. /\ pass \in [Worker -> PassRecord] /\ w \in Editor
      /\ runs \in [Id -> Nat] /\ cut \in [Id -> Nat]
      /\ \A v \in Worker : pass[v].stage \in {"work", "outcome"} <=> pass[v].at # 0
  BY DEF SchedulerShape, RestFits, PassFits, Editor
<1>f. edit[w].stage # "none" => pass[w].stage = "outcome"
  BY DEF OneUpdate, EditsFollow
<1>k. ASSUME runs' = runs, cut' = cut,
             \A v \in Worker \ {w} : pass'[v] = pass[v] /\ edit'[v] = edit[v],
             pass[w].at # 0 /\ edit[w].stage # "done" =>
               pass'[w].at = pass[w].at /\ edit'[w].stage # "done"
      PROVE  RunsCounted'
  <2>1. ASSUME NEW i \in Id, Unrecorded(i) PROVE Unrecorded(i)'
    <3>1. PICK v \in Worker : pass[v].at = i /\ edit[v].stage # "done"
      BY <2>1 DEF Unrecorded
    <3>2. pass'[v].at = i /\ edit'[v].stage # "done"
      BY <1>k, <3>1 DEF Id
    <3> QED BY <3>2 DEF Unrecorded
  <2> QED BY <1>k, <2>1 DEF RunsCounted
<1>1. CASE Acquire(w) \/ ListDue(w) \/ EndPass(w)
  <2>1. pass[w].at = 0
    BY <1>1, <1>t DEF Acquire, ListDue, EndPass
  <2> QED BY <1>1, <1>k, <1>t, <2>1 DEF Acquire, ListDue, EndPass, history
<1>2. CASE Answer(w)
  <2>1. PICK result \in Results : Edit(w, pass[w].at, result[2])
    BY <1>2 DEF Answer
  <2>2. edit'[w].stage = "get" /\ \A q \in Editor \ {w} : edit'[q] = edit[q]
    BY <1>t, <2>1, Begun
  <2>3. pass'[w].at = pass[w].at
    BY <1>2, <1>t DEF Answer, PassRecord
  <2> QED BY <1>2, <1>k, <1>t, <2>2, <2>3 DEF Answer, history, Editor
<1>3. CASE Settle(w)
  <2>1. edit[w].stage = "done"
    BY <1>3, <1>t DEF Settle, OneUpdate, NothingLost
  <2> QED BY <1>3, <1>k, <1>t, <2>1 DEF Settle, history, SchedulerShape, EditsFit, Editor
<1>4. ASSUME NEW i \in Id, NEW stage, Dispatch(w, i, stage), cut' = cut,
             edit'[w].stage # "done"
      PROVE  RunsCounted'
  <2>1. pass[w].stage = "dispatch" /\ runs' = [runs EXCEPT ![i] = @ + 1]
    BY <1>4 DEF Dispatch
  <2>2. \A v \in Worker : pass[v].at = 0
    BY <1>t, <2>1 DEF LeaseHeld, Unhindered, Busy
  <2>3. \A j \in Id : runs[j] <= cut[j]
    BY <2>2 DEF RunsCounted, Unrecorded, Id
  <2>4. pass'[w].at = i
    <3> DEFINE e == pass[w]
               n == [e EXCEPT !.stage = stage, !.todo = @ \ {i}, !.at = i]
    <3>1. pass'[w] = n /\ e \in PassRecord
      BY <1>4, <1>t DEF Dispatch
    <3> HIDE DEF e
    <3>2. n.at = i
      BY <3>1 DEF PassRecord
    <3> QED BY <3>1, <3>2
  <2>5. Unrecorded(i)'
    BY <1>4, <2>4 DEF Unrecorded
  <2>6. ASSUME NEW j \in Id
        PROVE  runs'[j] <= cut'[j] + 1 /\ (~Unrecorded(j)' => runs'[j] <= cut'[j])
    BY <1>4, <1>t, <2>1, <2>3, <2>5
  <2> QED BY <2>6 DEF RunsCounted
<1>5. ASSUME NEW i \in Id, Begin(w, i) PROVE RunsCounted'
  <2>1. edit'[w].stage = "none"
    BY <1>5, <1>f DEF Begin, Dispatch
  <2> QED BY <1>5, <1>4, <2>1 DEF Begin
<1>6. ASSUME NEW i \in Id, NothingToObserve(w, i) PROVE RunsCounted'
  <2>1. PICK change \in {"hit", "miss"} : Edit(w, i, change)
    BY <1>6 DEF NothingToObserve
  <2>2. edit'[w].stage = "get"
    BY <1>t, <2>1, Begun
  <2> QED BY <1>6, <1>4, <2>2 DEF NothingToObserve
<1> QED BY <1>1, <1>2, <1>3, <1>5, <1>6 DEF WorkerStep

\* The outcome puts the schedule off to its next due time.
LEMMA RunsAndUpdates ==
    ASSUME Unhindered, SchedulerShape, OneUpdate, RunsCounted, NEW p \in Editor, EditStep(p)
    PROVE  RunsCounted'
<1>t. /\ runs \in [Id -> Nat] /\ cut \in [Id -> Nat] /\ pass' = pass
  BY DEF SchedulerShape, RestFits, EditStep, GetSchedule, ListSchedules, WriteSchedules
<1>1. ASSUME runs' = runs, cut' = cut, edit'[p].stage # "done",
             \A q \in Editor \ {p} : edit'[q] = edit[q]
      PROVE  RunsCounted'
  <2>1. ASSUME NEW i \in Id, Unrecorded(i) PROVE Unrecorded(i)'
    BY <1>1, <1>t, <2>1 DEF Unrecorded, Editor
  <2> QED BY <1>1, <2>1 DEF RunsCounted
<1>2. CASE GetSchedule(p)
  <2>1. edit[p].stage = "get" /\ edit[p].change # "create"
    BY <1>2 DEF GetSchedule, SchedulerShape, EditsFit, Filled
  <2>2. edit[p].id \in DOMAIN schedules
    BY <2>1 DEF OneUpdate, NothingLost
  <2> QED BY <1>1, <1>2, <2>2, Got DEF GetSchedule, history
<1>3. CASE ListSchedules(p)
  BY <1>1, <1>3, Listed DEF ListSchedules, history
<1>4. CASE WriteSchedules(p)
  <2> DEFINE i == edit[p].id
  <2>1. /\ i \in Id /\ \A q \in Editor \ {p} : edit'[q] = edit[q]
        /\ edit'[p].stage = IF p = Bot THEN "none" ELSE "done"
    BY <1>4, Written
  <2>2. \/ runs' = runs /\ cut' = cut /\ edit[p].change = "pause"
        \/ runs' = [runs EXCEPT ![i] = 0] /\ cut' = [cut EXCEPT ![i] = 0]
    BY <1>4 DEF WriteSchedules
  <2>3. p # Bot => pass[p].at = i /\ edit[p].change # "pause"
    BY <1>4 DEF WriteSchedules, OneUpdate, EditsFollow, Editor
  <2>4. CASE runs' = runs /\ cut' = cut /\ edit[p].change = "pause"
    BY <1>1, <2>1, <2>3, <2>4
  <2>5. CASE runs' = [runs EXCEPT ![i] = 0] /\ cut' = [cut EXCEPT ![i] = 0]
    <3>1. ASSUME NEW j \in Id, j # i, Unrecorded(j) PROVE Unrecorded(j)'
      <4>1. PICK v \in Worker : pass[v].at = j /\ edit[v].stage # "done"
        BY <3>1 DEF Unrecorded
      <4>2. edit'[v].stage # "done"
        BY <2>1, <2>3, <3>1, <4>1 DEF Editor
      <4> QED BY <1>t, <4>1, <4>2 DEF Unrecorded
    <3>2. ASSUME NEW j \in Id
          PROVE  runs'[j] <= cut'[j] + 1 /\ (~Unrecorded(j)' => runs'[j] <= cut'[j])
      BY <1>t, <2>1, <2>5, <3>1 DEF RunsCounted
    <3> QED BY <3>2 DEF RunsCounted
  <2> QED BY <2>2, <2>4, <2>5
<1> QED BY <1>2, <1>3, <1>4 DEF EditStep

\* A run that is cut off is counted as one.
LEMMA RunsAndCutOff ==
    ASSUME SchedulerShape, RunsCounted, NEW w \in Worker, CutOff(w)
    PROVE  RunsCounted'
<1>t. /\ pass \in [Worker -> PassRecord] /\ runs \in [Id -> Nat] /\ cut \in [Id -> Nat]
      /\ \A v \in Worker \ {w} : pass'[v] = pass[v] /\ edit'[v] = edit[v]
      /\ runs' = runs
  BY DEF SchedulerShape, RestFits, EditsFit, CutOff, Editor
<1>1. ASSUME NEW j \in Id, j # pass[w].at, Unrecorded(j) PROVE Unrecorded(j)'
  <2>1. PICK v \in Worker : pass[v].at = j /\ edit[v].stage # "done"
    BY <1>1 DEF Unrecorded
  <2> QED BY <1>t, <1>1, <2>1 DEF Unrecorded
<1>2. \A j \in Id : cut'[j] = IF j = pass[w].at THEN cut[j] + 1 ELSE cut[j]
  BY <1>t DEF CutOff, Id
<1>3. ASSUME NEW j \in Id
      PROVE  runs'[j] <= cut'[j] + 1 /\ (~Unrecorded(j)' => runs'[j] <= cut'[j])
  BY <1>t, <1>1, <1>2 DEF RunsCounted
<1> QED BY <1>3 DEF RunsCounted

\* Every step keeps the account of the runs.
LEMMA RunsAccountedStep ==
    /\ SchedulerShape /\ LeaseHeld /\ OneUpdateAtATime /\ RunsAccounted
    /\ [SchedulerNext]_scheduler_vars
    => RunsAccounted'
<1> SUFFICES ASSUME Unhindered, SchedulerShape, LeaseHeld, OneUpdate, RunsCounted,
                    [SchedulerNext]_scheduler_vars
             PROVE  RunsCounted'
  BY DEF RunsAccounted, OneUpdateAtATime, Unhindered
<1>1. ASSUME NEW w \in Worker, WorkerStep(w) PROVE RunsCounted'
  BY <1>1, RunsAndPasses
<1>2. ASSUME NEW w \in Worker, Raise(w) \/ Die(w) PROVE RunsCounted'
  BY <1>2, RunsAndCutOff DEF Raise, Die
<1>3. ASSUME NEW p \in Editor, EditStep(p) PROVE RunsCounted'
  BY <1>3, RunsAndUpdates
<1>k. ASSUME runs' = runs, cut' = cut,
             \A w \in Worker : pass'[w].at = pass[w].at /\ edit'[w].stage = edit[w].stage
      PROVE  RunsCounted'
  <2>1. \A i \in Id : Unrecorded(i) => Unrecorded(i)'
    BY <1>k DEF Unrecorded
  <2> QED BY <1>k, <2>1 DEF RunsCounted
<1>4. CASE \/ \E i \in Id : Create(i)
           \/ \E i \in DOMAIN schedules : PauseSchedule(i) \/ ResumeSchedule(i)
           \/ \E i \in Specialist : CompleteItem(i)
  <2>1. \A w \in Worker : edit'[w] = edit[w]
    BY <1>4, SchedulerConstantsOK DEF Create, PauseSchedule, ResumeSchedule, Edit, CompleteItem,
                                     SchedulerShape, EditsFit, Editor
  <2> QED BY <1>4, <1>k, <2>1 DEF Create, PauseSchedule, ResumeSchedule, CompleteItem, history
<1>5. CASE Clock
  <2>1. \A w \in Worker : edit'[w].stage = edit[w].stage
    BY <1>5, ClockEdit DEF Editor
  <2>2. \A w \in Worker : pass'[w].at = pass[w].at
    BY <1>5, ClockPass
  <2> QED BY <1>5, <1>k, <2>1, <2>2 DEF Clock, history
<1>6. CASE UNCHANGED scheduler_vars
  BY <1>6, <1>k DEF scheduler_vars
<1> QED BY <1>1, <1>2, <1>3, <1>4, <1>5, <1>6 DEF SchedulerNext

\* For any number of schedulers: while passes end before their lease does and updates do
\* not overlap, a due time is worked off once, and once more per run that was cut off.
THEOREM DispatchesOnce == SchedulerSpec => []DispatchedOnce
<1>1. SchedulerInit => RunsAccounted
  BY DEF SchedulerInit, RunsAccounted, RunsCounted
<1>2. SchedulerInit => LeaseHeld
  BY DEF SchedulerInit, LeaseHeld, Busy, Waiting
<1>3. SchedulerShape /\ RunsAccounted => DispatchedOnce
  BY DEF RunsAccounted, RunsCounted, DispatchedOnce, SchedulerShape, RestFits
<1>4. SchedulerSpec => []LeaseHeld
  BY <1>2, LeaseHeldStep, SchedulerShaped, PTL DEF SchedulerSpec
<1> QED BY <1>1, <1>3, <1>4, RunsAccountedStep, SchedulerShaped, UpdatesAreWhole, PTL DEF SchedulerSpec

------------------------------------------------------------------------------
(* A pause stops the schedule and is no secret (PauseStops).               *)

\* While a pass still has a schedule on its list, no run of it has slipped through the
\* pause yet, and none has through a pause that is over.
LeaksCounted ==
    /\ \A w \in Worker : ~Busy(w) => pass[w].todo = {}
    /\ \A i \in Id :
         /\ after_pause[i] <= 1
         /\ (i \in DOMAIN schedules => schedules[i].status = "active") => after_pause[i] = 0
         /\ \A w \in Worker : i \in pass[w].todo => after_pause[i] = 0

\* A record that is about to be stored as active has misses to spare, unless the operator
\* resumes it; and his orders leave the misses as they are.
RecordSound(e) ==
    /\ e.stage \in {"new", "list", "write", "done"} /\ e.change # "resume"
    /\ e.record.status = "active"
    => e.record.misses < PauseAfterMisses

MissesKept ==
    /\ \A i \in DOMAIN schedules :
         schedules[i].status = "active" /\ schedules[i].misses >= PauseAfterMisses
           => i \in resumed
    /\ \A p \in Editor :
         /\ RecordSound(edit[p])
         /\ Editing(p) /\ edit[p].change \in {"pause", "resume"}
              => edit[p].record.misses = schedules[edit[p].id].misses

\* Until the scheduler settles a run, it knows the misses it has stored.
ReportsDue ==
    /\ \A i \in DOMAIN schedules \ Observation :
         /\ schedules[i].status = "paused" /\ schedules[i].misses >= PauseAfterMisses
         /\ i \notin resumed /\ cut[i] = 0 /\ \A w \in Worker : ~HandledBy(w, i)
         => item[i] \in {"escalated", "completed"}
    /\ \A w \in Worker :
         edit[w].stage = "done" => schedules[edit[w].id].misses = edit[w].record.misses

\* What an order or an outcome does to the misses (update_status, record_outcome).
LEMMA ChangedMisses ==
    ASSUME NEW r \in ScheduleRecord, NEW change \in {"pause", "resume", "hit", "miss"},
           NEW age \in 0..Interval
    PROVE  /\ change \in {"pause", "resume"} => Changed(r, change, age).misses = r.misses
           /\ change # "resume" /\ Changed(r, change, age).status = "active"
                => Changed(r, change, age).misses < PauseAfterMisses
<1> USE SchedulerConstantsOK DEF ScheduleRecord
<1>1. CASE change = "pause"
  BY <1>1 DEF Changed
<1>2. CASE change = "resume"
  <2>1. Changed(r, change, age) = [r EXCEPT !.status = "active", !.due = Interval]
    BY <1>2 DEF Changed
  <2> QED BY <1>2, <2>1
<1>3. CASE change = "hit"
  <2>1. Changed(r, change, age) = [r EXCEPT !.due = NextDue(age), !.misses = 0]
    BY <1>3 DEF Changed
  <2>2. Changed(r, change, age) = [status |-> r.status, due |-> NextDue(age), misses |-> 0]
    BY <2>1
  <2> QED BY <1>3, <2>2
<1>4. CASE change = "miss"
  <2> DEFINE m == OneMore(r.misses)
             t == IF r.misses + 1 >= PauseAfterMisses THEN "paused" ELSE r.status
  <2>1. Changed(r, change, age) = [Missed(r) EXCEPT !.due = NextDue(age)]
    BY <1>4 DEF Changed
  <2>2. Missed(r) = [r EXCEPT !.misses = m, !.status = t]
    BY DEF Missed
  <2>3. t = "active" => m < PauseAfterMisses
    BY DEF OneMore
  <2> HIDE DEF m, t
  <2>4. Changed(r, change, age) = [status |-> t, due |-> NextDue(age), misses |-> m]
    BY <2>1, <2>2
  <2> QED BY <1>4, <2>3, <2>4
<1> QED BY <1>1, <1>2, <1>3, <1>4

\* A pass begins what it lists, and only the active schedules are listed.
LEMMA LeaksAndPasses ==
    ASSUME SchedulerShape, LeaseHeld, PassesFit, LeaksCounted,
           NEW w \in Worker, WorkerStep(w)
    PROVE  LeaksCounted'
<1> USE DEF Busy
<1>t. /\ pass \in [Worker -> PassRecord] /\ after_pause \in [Id -> Nat]
      /\ schedules \in File
  BY DEF SchedulerShape, RestFits
<1>o. schedules' = schedules /\ \A v \in Worker \ {w} : pass'[v] = pass[v]
  BY <1>t DEF WorkerStep, Acquire, ListDue, EndPass, Answer, Settle, Begin, NothingToObserve,
              Dispatch
<1>k. ASSUME after_pause' = after_pause, pass'[w].todo \subseteq pass[w].todo,
             pass'[w].stage # "idle" \/ pass'[w].todo = {}
      PROVE  LeaksCounted'
  BY <1>k, <1>o DEF LeaksCounted
<1>1. CASE Acquire(w)
  <2>1. pass'[w].stage = "list" /\ pass'[w].todo = pass[w].todo
    BY <1>1, <1>t DEF Acquire, PassRecord
  <2> QED BY <1>1, <1>k, <2>1 DEF Acquire, history
<1>2. CASE ListDue(w)
  <2> DEFINE todo == {i \in DOMAIN schedules : Lists(i)}
  <2>1. /\ pass'[w].stage = "dispatch" /\ pass'[w].todo = todo
        /\ after_pause' = after_pause
    BY <1>2, <1>t DEF ListDue, PassRecord, history
  <2>2. \A i \in todo : schedules[i].status = "active"
    BY DEF Lists
  <2>3. \A i \in Id : i \in todo => after_pause[i] = 0
    BY <2>2 DEF LeaksCounted
  <2> HIDE DEF todo
  <2> QED BY <1>o, <2>1, <2>3 DEF LeaksCounted
<1>3. CASE EndPass(w)
  BY <1>3, <1>k, <1>t DEF EndPass, Waiting, history
<1>4. CASE Answer(w)
  <2>1. pass'[w].stage = "outcome" /\ pass'[w].todo = pass[w].todo
    BY <1>4, <1>t DEF Answer, PassRecord
  <2> QED BY <1>4, <1>k, <2>1 DEF Answer, history
<1>5. CASE Settle(w)
  <2>1. pass'[w].stage = "dispatch" /\ pass'[w].todo = pass[w].todo
    BY <1>5, <1>t DEF Settle, PassRecord
  <2> QED BY <1>5, <1>k, <2>1 DEF Settle, history
<1>6. ASSUME NEW i \in Id, NEW stage \in {"work", "outcome"}, Dispatch(w, i, stage)
      PROVE  LeaksCounted'
  <2>1. pass[w].stage = "dispatch" /\ i \in pass[w].todo
    BY <1>6 DEF Dispatch
  <2>2. pass'[w].stage = stage /\ pass'[w].todo = pass[w].todo \ {i}
    <3> DEFINE e == pass[w]
               n == [e EXCEPT !.stage = stage, !.todo = @ \ {i}, !.at = i]
    <3>1. pass'[w] = n /\ e \in PassRecord
      BY <1>6, <1>t DEF Dispatch
    <3> HIDE DEF e
    <3>2. n.stage = stage /\ n.todo = e.todo \ {i}
      BY <3>1 DEF PassRecord
    <3> QED BY <3>1, <3>2 DEF e
  <2>3. \A v \in Worker \ {w} : pass[v].todo = {}
    <3>1. \A v \in Worker \ {w} : ~Busy(v)
      BY <2>1 DEF LeaseHeld
    <3> QED BY <3>1 DEF LeaksCounted
  <2>4. after_pause[i] = 0
    BY <2>1 DEF LeaksCounted
  <2>5. /\ after_pause'[i] \in {0, 1}
        /\ (i \in DOMAIN schedules => schedules[i].status = "active") => after_pause'[i] = 0
        /\ \A j \in Id \ {i} : after_pause'[j] = after_pause[j]
    BY <1>6, <1>t, <2>4 DEF Dispatch
  <2>6. ASSUME NEW j \in Id
        PROVE  /\ after_pause'[j] <= 1
               /\ (j \in DOMAIN schedules => schedules[j].status = "active")
                    => after_pause'[j] = 0
               /\ \A v \in Worker : j \in pass'[v].todo => after_pause'[j] = 0
    <3>1. CASE j = i
      BY <1>o, <2>2, <2>3, <2>5, <3>1
    <3>2. CASE j # i
      BY <1>o, <2>2, <2>5, <3>2 DEF LeaksCounted
    <3> QED BY <3>1, <3>2
  <2>7. \A v \in Worker : ~Busy(v)' => pass'[v].todo = {}
    BY <1>o, <2>2 DEF LeaksCounted
  <2> QED BY <1>o, <2>6, <2>7 DEF LeaksCounted
<1> QED BY <1>1, <1>2, <1>3, <1>4, <1>5, <1>6 DEF WorkerStep, Begin, NothingToObserve

\* The count of the runs that slipped through a pause starts again when it is over.
LEMMA LeaksStep ==
    ASSUME WritesDontOverlap, PassesFit, SchedulerShape, LeaseHeld, OneUpdate, LeaksCounted,
           [SchedulerNext]_scheduler_vars
    PROVE  LeaksCounted'
<1>t. /\ pass \in [Worker -> PassRecord] /\ after_pause \in [Id -> Nat]
      /\ schedules \in File
  BY DEF SchedulerShape, RestFits
<1>1. ASSUME NEW w \in Worker, WorkerStep(w) PROVE LeaksCounted'
  BY <1>1, LeaksAndPasses
<1>2. ASSUME NEW w \in Worker, CutOff(w) PROVE LeaksCounted'
  <2>1. /\ pass'[w] = Waiting /\ \A v \in Worker \ {w} : pass'[v] = pass[v]
        /\ schedules' = schedules /\ after_pause' = after_pause
    BY <1>2, <1>t DEF CutOff
  <2> QED BY <2>1 DEF LeaksCounted, Busy, Waiting
<1>3. ASSUME NEW p \in Editor, WriteSchedules(p) PROVE LeaksCounted'
  <2>1. edit[p].copy = schedules /\ pass' = pass
    BY <1>3 DEF WriteSchedules, OneUpdate, FilesAgree
  <2>2. /\ edit[p].id \in Id /\ edit[p].record \in ScheduleRecord
        /\ DOMAIN schedules' = DOMAIN schedules \cup {edit[p].id}
        /\ schedules'[edit[p].id] = edit[p].record
        /\ \A j \in DOMAIN schedules \ {edit[p].id} : schedules'[j] = schedules[j]
    BY <1>3, <2>1, Written
  <2>3. \/ edit[p].record.status = "active" /\ after_pause' = [after_pause EXCEPT ![edit[p].id] = 0]
        \/ edit[p].record.status # "active" /\ after_pause' = after_pause
    BY <1>3 DEF WriteSchedules
  <2>4. ASSUME NEW i \in Id
        PROVE  /\ after_pause'[i] <= 1
               /\ (i \in DOMAIN schedules' => schedules'[i].status = "active")
                    => after_pause'[i] = 0
               /\ \A w \in Worker : i \in pass'[w].todo => after_pause'[i] = 0
    <3>1. CASE i = edit[p].id
      BY <1>t, <2>1, <2>2, <2>3, <3>1 DEF LeaksCounted
    <3>2. CASE i # edit[p].id
      BY <1>t, <2>1, <2>2, <2>3, <3>2 DEF LeaksCounted
    <3> QED BY <3>1, <3>2
  <2> QED BY <2>1, <2>4 DEF LeaksCounted, Busy
<1>4. CASE \/ \E p \in Editor : GetSchedule(p) \/ ListSchedules(p)
           \/ \E i \in Id : Create(i)
           \/ \E i \in DOMAIN schedules : PauseSchedule(i) \/ ResumeSchedule(i)
           \/ \E i \in Specialist : CompleteItem(i)
           \/ UNCHANGED scheduler_vars
  <2>1. pass' = pass /\ schedules' = schedules /\ after_pause' = after_pause
    BY <1>4 DEF GetSchedule, ListSchedules, Create, PauseSchedule, ResumeSchedule,
                CompleteItem, history, scheduler_vars
  <2> QED BY <2>1 DEF LeaksCounted, Busy
<1>5. CASE Clock
  <2>1. \A v \in Worker : pass'[v].stage = pass[v].stage /\ pass'[v].todo = pass[v].todo
    BY <1>5, ClockPass
  <2>2. /\ DOMAIN schedules' = DOMAIN schedules /\ after_pause' = after_pause
        /\ \A i \in DOMAIN schedules : schedules'[i].status = schedules[i].status
    BY <1>5, <1>t, FileMeans, AllCloserFits, CloserFits DEF Clock, history
  <2> QED BY <2>1, <2>2 DEF LeaksCounted, Busy
<1> QED BY <1>1, <1>2, <1>3, <1>4, <1>5 DEF SchedulerNext, EditStep, Raise, Die

\* Only a resumed schedule is active with too many misses (record_outcome, update_status).
LEMMA MissesStep ==
    ASSUME WritesDontOverlap, SchedulerShape, OneUpdate, MissesKept,
           [SchedulerNext]_scheduler_vars
    PROVE  MissesKept'
<1> USE SchedulerConstantsOK
<1>t. /\ schedules \in File /\ edit \in [Editor -> EditRecord] /\ resumed \subseteq Id
      /\ Bot \in Editor /\ Worker \subseteq Editor
  BY DEF SchedulerShape, RestFits, EditsFit, Editor
<1>k. ASSUME schedules' = schedules, resumed' = resumed,
             \A p \in Editor : edit'[p] = edit[p] \/ edit'[p].stage \in {"get", "none"}
      PROVE  MissesKept'
  BY <1>k DEF MissesKept, RecordSound, Editing
<1>1. ASSUME NEW w \in Worker, WorkerStep(w) PROVE MissesKept'
  <2>1. schedules' = schedules /\ resumed' = resumed
    BY <1>1 DEF WorkerStep, Acquire, ListDue, EndPass, Answer, Settle, Begin,
               NothingToObserve, history
  <2>2. \/ edit' = edit
        \/ \E i, change : Edit(w, i, change)
        \/ edit' = [edit EXCEPT ![w] = NoEdit]
    BY <1>1 DEF WorkerStep, Acquire, ListDue, EndPass, Answer, Settle, Begin,
               NothingToObserve
  <2>3. \A p \in Editor : edit'[p] = edit[p] \/ edit'[p].stage \in {"get", "none"}
    BY <1>t, <2>2, Begun DEF NoEdit
  <2> QED BY <1>k, <2>1, <2>3
<1>2. ASSUME NEW w \in Worker, CutOff(w) PROVE MissesKept'
  BY <1>2, <1>k, <1>t DEF CutOff, NoEdit
<1>3. ASSUME NEW p \in Editor, GetSchedule(p) PROVE MissesKept'
  <2>1. edit[p].stage = "get" /\ edit[p].change \in {"pause", "resume", "hit", "miss"}
    BY <1>3 DEF GetSchedule, SchedulerShape, EditsFit, Filled
  <2>2. edit[p].id \in DOMAIN schedules
    BY <2>1 DEF OneUpdate, NothingLost
  <2> DEFINE r == Changed(schedules[edit[p].id], edit[p].change, Age(p))
  <2>3. /\ edit'[p].stage = "list" /\ edit'[p].id = edit[p].id
        /\ edit'[p].change = edit[p].change /\ edit'[p].record = r
        /\ \A q \in Editor \ {p} : edit'[q] = edit[q]
    BY <1>3, <2>2, Got
  <2>4. schedules[edit[p].id] \in ScheduleRecord /\ Age(p) \in 0..Interval
    BY <1>t, <2>2, FileMeans DEF SchedulerShape, RestFits, PassRecord, Age
  <2>5. /\ edit[p].change \in {"pause", "resume"} => r.misses = schedules[edit[p].id].misses
        /\ edit[p].change # "resume" /\ r.status = "active" => r.misses < PauseAfterMisses
    BY <2>1, <2>4, ChangedMisses
  <2>6. schedules' = schedules /\ resumed' = resumed
    BY <1>3 DEF GetSchedule, history
  <2> HIDE DEF r
  <2>7. ASSUME NEW q \in Editor
        PROVE  /\ RecordSound(edit'[q])
               /\ Editing(q)' /\ edit'[q].change \in {"pause", "resume"}
                    => edit'[q].record.misses = schedules'[edit'[q].id].misses
    BY <2>3, <2>5, <2>6 DEF MissesKept, RecordSound, Editing
  <2> QED BY <2>6, <2>7 DEF MissesKept
<1>4. ASSUME NEW p \in Editor, ListSchedules(p) PROVE MissesKept'
  <2>1. /\ edit'[p].stage = "write" /\ edit'[p].id = edit[p].id
        /\ edit'[p].change = edit[p].change /\ edit'[p].record = edit[p].record
        /\ \A q \in Editor \ {p} : edit'[q] = edit[q]
    BY <1>4, Listed
  <2>2. schedules' = schedules /\ resumed' = resumed /\ edit[p].stage \in {"new", "list"}
    BY <1>4 DEF ListSchedules, history
  <2>3. edit[p].stage = "new" => edit[p].change = "create"
    BY DEF OneUpdate, EditsFollow
  <2>4. ASSUME NEW q \in Editor
        PROVE  /\ RecordSound(edit'[q])
               /\ Editing(q)' /\ edit'[q].change \in {"pause", "resume"}
                    => edit'[q].record.misses = schedules'[edit'[q].id].misses
    BY <2>1, <2>2, <2>3 DEF MissesKept, RecordSound, Editing
  <2> QED BY <2>2, <2>4 DEF MissesKept
<1>5. ASSUME NEW p \in Editor, WriteSchedules(p) PROVE MissesKept'
  <2>1. edit[p].stage = "write" /\ edit[p].copy = schedules
    BY <1>5 DEF WriteSchedules, OneUpdate, FilesAgree
  <2>2. /\ edit'[p].stage = IF p = Bot THEN "none" ELSE "done"
        /\ \A q \in Editor \ {p} : edit'[q] = edit[q]
        /\ edit[p].id \in Id /\ edit[p].record \in ScheduleRecord
        /\ DOMAIN schedules' = DOMAIN schedules \cup {edit[p].id}
        /\ schedules'[edit[p].id] = edit[p].record
        /\ \A j \in DOMAIN schedules \ {edit[p].id} : schedules'[j] = schedules[j]
    BY <1>5, <2>1, Written
  <2>3. p # Bot => edit'[p].change = edit[p].change /\ edit'[p].record = edit[p].record
    <3> DEFINE e == edit[p]
               n == [e EXCEPT !.stage = "done", !.copy = <<>>]
    <3>1. e \in EditRecord /\ (p # Bot => edit'[p] = n)
      BY <1>5, <1>t DEF WriteSchedules
    <3> HIDE DEF e
    <3>2. n.change = e.change /\ n.record = e.record
      BY <3>1 DEF EditRecord
    <3> HIDE DEF n
    <3> QED BY <3>1, <3>2 DEF e
  <2>4. \A q \in Editor \ {p} : ~Editing(q)
    BY <2>1 DEF OneUpdate, FilesAgree, Editing
  <2>5. resumed' = IF edit[p].change = "resume" THEN resumed \cup {edit[p].id}
                   ELSE IF edit[p].change = "pause" THEN resumed ELSE resumed \ {edit[p].id}
    BY <1>5 DEF WriteSchedules
  <2>6. RecordSound(edit[p])
    BY DEF MissesKept
  <2>7. ASSUME NEW i \in DOMAIN schedules', schedules'[i].status = "active",
               schedules'[i].misses >= PauseAfterMisses
        PROVE  i \in resumed'
    <3>1. CASE i = edit[p].id
      <4>1. edit[p].record.misses \in Nat /\ PauseAfterMisses \in Nat
        BY <2>2 DEF ScheduleRecord
      <4>2. edit[p].change = "resume"
        BY <2>1, <2>2, <2>6, <2>7, <3>1, <4>1 DEF RecordSound
      <4> QED BY <2>5, <3>1, <4>2
    <3>2. CASE i # edit[p].id
      BY <2>2, <2>5, <2>7, <3>2 DEF MissesKept
    <3> QED BY <3>1, <3>2
  <2>8. ASSUME NEW q \in Editor
        PROVE  RecordSound(edit'[q]) /\ ~Editing(q)'
    BY <2>1, <2>2, <2>3, <2>4 DEF MissesKept, RecordSound, Editing
  <2> QED BY <2>7, <2>8 DEF MissesKept
<1>6. ASSUME NEW i \in Id, Create(i) PROVE MissesKept'
  <2> DEFINE r == [status |-> "active", due |-> Interval, misses |-> 0]
             n == [NoEdit EXCEPT !.stage = "new", !.id = i, !.change = "create", !.record = r]
  <2>1. edit'[Bot] = n /\ \A q \in Editor \ {Bot} : edit'[q] = edit[q]
    BY <1>6, <1>t DEF Create
  <2>2. n.stage = "new" /\ n.change = "create" /\ n.record = r
    <3> HIDE DEF r
    <3> QED BY DEF NoEdit
  <2>3. r.misses < PauseAfterMisses
    OBVIOUS
  <2>4. schedules' = schedules /\ resumed' = resumed
    BY <1>6 DEF Create, history
  <2> HIDE DEF n, r
  <2>5. ASSUME NEW q \in Editor
        PROVE  /\ RecordSound(edit'[q])
               /\ Editing(q)' /\ edit'[q].change \in {"pause", "resume"}
                    => edit'[q].record.misses = schedules'[edit'[q].id].misses
    BY <2>1, <2>2, <2>3, <2>4 DEF MissesKept, RecordSound, Editing
  <2> QED BY <2>4, <2>5 DEF MissesKept
<1>7. ASSUME NEW i \in DOMAIN schedules, PauseSchedule(i) \/ ResumeSchedule(i)
      PROVE  MissesKept'
  <2>1. PICK change \in {"pause", "resume"} : Edit(Bot, i, change)
    BY <1>7 DEF PauseSchedule, ResumeSchedule
  <2>2. edit'[Bot].stage = "get" /\ \A q \in Editor \ {Bot} : edit'[q] = edit[q]
    BY <1>t, <2>1, Begun
  <2> QED BY <1>7, <1>k, <2>2 DEF PauseSchedule, ResumeSchedule, history
<1>8. CASE (\E i \in Specialist : CompleteItem(i)) \/ UNCHANGED scheduler_vars
  BY <1>8, <1>k DEF CompleteItem, history, scheduler_vars
<1>9. CASE Clock
  <2>1. /\ DOMAIN schedules' = DOMAIN schedules /\ resumed' = resumed
        /\ \A i \in DOMAIN schedules : /\ schedules'[i].status = schedules[i].status
                                       /\ schedules'[i].misses = schedules[i].misses
    BY <1>9, <1>t, FileMeans, AllCloserFits, CloserFits DEF Clock, history
  <2>2. ASSUME NEW q \in Editor
        PROVE  /\ edit'[q].stage = edit[q].stage /\ edit'[q].id = edit[q].id
               /\ edit'[q].change = edit[q].change
               /\ edit[q].stage \in {"new", "list", "write", "done"} =>
                    /\ edit'[q].record.status = edit[q].record.status
                    /\ edit'[q].record.misses = edit[q].record.misses
    BY <1>9, ClockEdit, CloserFits DEF SchedulerShape, EditsFit, Filled
  <2>3. \A q \in Editor : Editing(q) /\ edit[q].change \in {"pause", "resume"}
                            => edit[q].id \in DOMAIN schedules
    BY DEF Editing, OneUpdate, NothingLost
  <2> QED BY <2>1, <2>2, <2>3 DEF MissesKept, RecordSound, Editing
<1> QED BY <1>1, <1>2, <1>3, <1>4, <1>5, <1>6, <1>7, <1>8, <1>9
        DEF SchedulerNext, EditStep, Raise, Die

\* The operator's bot creates, pauses and resumes.
BotOrders ==
    /\ edit[Bot].stage # "none" => edit[Bot].change \in {"create", "pause", "resume"}
    /\ edit[Bot].stage \in {"new", "list", "write"} /\ edit[Bot].change = "create"
         => edit[Bot].record.misses = 0

\* The orders of the bot stay in order whoever moves.
LEMMA BotOrdersStep ==
    ASSUME SchedulerShape, BotOrders, [SchedulerNext]_scheduler_vars
    PROVE  BotOrders'
<1> USE SchedulerConstantsOK
<1>t. edit \in [Editor -> EditRecord] /\ Bot \in Editor /\ Worker \subseteq Editor \ {Bot}
  BY DEF SchedulerShape, EditsFit, Editor
<1>k. edit'[Bot] = edit[Bot] \/ edit'[Bot] = NoEdit => BotOrders'
  BY DEF BotOrders, NoEdit
<1>1. ASSUME NEW w \in Worker, WorkerStep(w) PROVE BotOrders'
  <2>1. \/ edit' = edit
        \/ \E i, change : Edit(w, i, change)
        \/ edit' = [edit EXCEPT ![w] = NoEdit]
    BY <1>1 DEF WorkerStep, Acquire, ListDue, EndPass, Answer, Settle, Begin,
               NothingToObserve
  <2>2. edit'[Bot] = edit[Bot]
    BY <1>t, <2>1 DEF Edit
  <2> QED BY <1>k, <2>2
<1>2. ASSUME NEW w \in Worker, CutOff(w) PROVE BotOrders'
  BY <1>2, <1>k, <1>t DEF CutOff
<1>3. ASSUME NEW w \in Worker, EditStep(w) PROVE BotOrders'
  <2>1. edit'[Bot] = edit[Bot]
    BY <1>3, <1>t DEF EditStep, GetSchedule, ListSchedules, WriteSchedules
  <2> QED BY <1>k, <2>1
<1>4. CASE GetSchedule(Bot)
  <2>1. edit[Bot].stage = "get" /\ edit[Bot].change # "create"
    BY <1>4, <1>t DEF GetSchedule, SchedulerShape, EditsFit, Filled
  <2>2. CASE edit[Bot].id \in DOMAIN schedules
    <3>1. edit'[Bot].stage = "list" /\ edit'[Bot].change = edit[Bot].change
      BY <1>4, <1>t, <2>2, Got
    <3> QED BY <2>1, <3>1 DEF BotOrders
  <2>3. CASE edit[Bot].id \notin DOMAIN schedules
    <3>1. edit'[Bot] = NoEdit
      BY <1>4, <1>t, <2>3 DEF GetSchedule
    <3> QED BY <1>k, <3>1
  <2> QED BY <2>2, <2>3
<1>5. CASE ListSchedules(Bot)
  <2>1. edit[Bot].stage \in {"new", "list"}
    BY <1>5 DEF ListSchedules
  <2>2. /\ edit'[Bot].stage = "write" /\ edit'[Bot].change = edit[Bot].change
        /\ edit'[Bot].record = edit[Bot].record
    BY <1>5, <1>t, Listed
  <2> QED BY <2>1, <2>2 DEF BotOrders
<1>6. CASE WriteSchedules(Bot)
  BY <1>6, <1>k, <1>t DEF WriteSchedules
<1>7. ASSUME NEW i \in Id, Create(i) PROVE BotOrders'
  <2> DEFINE r == [status |-> "active", due |-> Interval, misses |-> 0]
             n == [NoEdit EXCEPT !.stage = "new", !.id = i, !.change = "create", !.record = r]
  <2>1. edit'[Bot] = n
    BY <1>7, <1>t DEF Create
  <2>2. n.stage = "new" /\ n.change = "create" /\ n.record = r
    <3> HIDE DEF r
    <3> QED BY DEF NoEdit
  <2>3. r.misses = 0
    OBVIOUS
  <2> HIDE DEF n, r
  <2> QED BY <2>1, <2>2, <2>3 DEF BotOrders
<1>8. ASSUME NEW i \in DOMAIN schedules, PauseSchedule(i) \/ ResumeSchedule(i)
      PROVE  BotOrders'
  <2>1. PICK change \in {"pause", "resume"} : Edit(Bot, i, change)
    BY <1>8 DEF PauseSchedule, ResumeSchedule
  <2>2. edit'[Bot].stage = "get" /\ edit'[Bot].change = change
    BY <1>t, <2>1, Begun
  <2> QED BY <2>2 DEF BotOrders
<1>9. CASE (\E i \in Specialist : CompleteItem(i)) \/ UNCHANGED scheduler_vars
  BY <1>9, <1>k DEF CompleteItem, scheduler_vars
<1>10. CASE Clock
  <2>1. /\ edit'[Bot].stage = edit[Bot].stage /\ edit'[Bot].change = edit[Bot].change
        /\ edit[Bot].stage \in {"new", "list", "write"} =>
             edit'[Bot].record.misses = edit[Bot].record.misses
    BY <1>10, <1>t, ClockEdit, CloserFits DEF SchedulerShape, EditsFit, Filled
  <2> QED BY <2>1 DEF BotOrders
<1> QED BY <1>1, <1>2, <1>3, <1>4, <1>5, <1>6, <1>7, <1>8, <1>9, <1>10
        DEF SchedulerNext, EditStep, Raise, Die, Editor

\* Nobody but the run itself takes back what the operator is told about a schedule.
LEMMA ReportsStep ==
    ASSUME Unhindered, SchedulerShape, LeaseHeld, OneUpdate, MissesKept, BotOrders,
           ReportsDue,           [SchedulerNext]_scheduler_vars
    PROVE  ReportsDue'
<1> USE SchedulerConstantsOK DEF HandledBy, Unhindered
<1>t. /\ schedules \in File /\ edit \in [Editor -> EditRecord] /\ cut \in [Id -> Nat]
      /\ pass \in [Worker -> PassRecord]
      /\ item \in [Specialist -> OpenItem \cup {"none", "completed"}]
      /\ Bot \in Editor /\ Worker \subseteq Editor /\ Bot \notin Worker
      /\ \A w \in Worker : pass[w].stage \in {"work", "outcome"} <=> pass[w].at # 0
  BY DEF SchedulerShape, RestFits, EditsFit, PassFits, Editor
<1>d. DOMAIN schedules \ Observation \subseteq Specialist /\ 0 \notin Id
  BY <1>t, FileMeans DEF Specialist, Id
<1>k. ASSUME schedules' = schedules, resumed' = resumed, cut' = cut,
             \A w \in Worker : edit'[w] = edit[w] \/ edit'[w].stage # "done",
             \A i \in Specialist :
               (\A w \in Worker : pass'[w].at # i) =>
                 /\ \A w \in Worker : pass[w].at # i
                 /\ item'[i] = item[i] \/ item'[i] \in {"escalated", "completed"}
      PROVE  ReportsDue'
  BY <1>d, <1>k DEF ReportsDue
<1>1. ASSUME NEW w \in Worker, Acquire(w) \/ ListDue(w) \/ EndPass(w) PROVE ReportsDue'
  <2>1. pass[w].at = 0
    BY <1>1, <1>t DEF Acquire, ListDue, EndPass
  <2>2. \A v \in Worker \ {w} : pass'[v] = pass[v]
    BY <1>1, <1>t DEF Acquire, ListDue, EndPass
  <2>3. /\ schedules' = schedules /\ resumed' = resumed /\ cut' = cut /\ edit' = edit
        /\ item' = item
    BY <1>1 DEF Acquire, ListDue, EndPass, history
  <2> QED BY <1>d, <1>k, <2>1, <2>2, <2>3 DEF Specialist
<1>2. ASSUME NEW w \in Worker, Answer(w) PROVE ReportsDue'
  <2>1. PICK result \in Results :
          /\ item' = IF pass[w].at \in Specialist
                     THEN [item EXCEPT ![pass[w].at] = result[1]] ELSE item
          /\ Edit(w, pass[w].at, result[2])
    BY <1>2 DEF Answer
  <2>2. edit'[w].stage = "get" /\ \A q \in Editor \ {w} : edit'[q] = edit[q]
    BY <1>t, <2>1, Begun
  <2>3. pass'[w].at = pass[w].at /\ \A v \in Worker \ {w} : pass'[v] = pass[v]
    BY <1>2, <1>t DEF Answer, PassRecord
  <2>4. \A i \in Specialist : i # pass[w].at => item'[i] = item[i]
    BY <1>t, <2>1
  <2>5. schedules' = schedules /\ resumed' = resumed /\ cut' = cut
    BY <1>2 DEF Answer, history
  <2> QED BY <1>k, <1>t, <2>2, <2>3, <2>4, <2>5
<1>3. ASSUME NEW w \in Worker, NEW i \in Id, Begin(w, i) \/ NothingToObserve(w, i)
      PROVE  ReportsDue'
  <2>1. PICK stage \in {"work", "outcome"} : Dispatch(w, i, stage)
    BY <1>3 DEF Begin, NothingToObserve
  <2>2. pass[w].at = 0 /\ \A v \in Worker \ {w} : pass'[v] = pass[v]
    BY <1>t, <2>1 DEF Dispatch
  <2>3. pass'[w].at = i
    <3> DEFINE e == pass[w]
               n == [e EXCEPT !.stage = stage, !.todo = @ \ {i}, !.at = i]
    <3>1. pass'[w] = n /\ e \in PassRecord
      BY <1>t, <2>1 DEF Dispatch
    <3> HIDE DEF e
    <3>2. n.at = i
      BY <3>1 DEF PassRecord
    <3> QED BY <3>1, <3>2
  <2>4. \A j \in Specialist \ {i} : item'[j] = item[j]
    BY <1>3, <1>t DEF Begin, NothingToObserve
  <2>5. schedules' = schedules /\ resumed' = resumed /\ cut' = cut
    BY <1>3 DEF Begin, NothingToObserve
  <2>6. \A v \in Worker : edit'[v] = edit[v] \/ edit'[v].stage # "done"
    <3>1. edit' = edit \/ \E change : Edit(w, i, change)
      BY <1>3 DEF Begin, NothingToObserve
    <3> QED BY <1>t, <3>1, Begun
  <2> QED BY <1>d, <1>k, <2>2, <2>3, <2>4, <2>5, <2>6 DEF Specialist
<1>4. ASSUME NEW w \in Worker, Settle(w) PROVE ReportsDue'
  <2> DEFINE i == pass[w].at
  <2>1. /\ schedules' = schedules /\ resumed' = resumed /\ cut' = cut
        /\ pass[w].stage = "outcome" /\ item' = ItemAfter(i, edit[w])
        /\ edit'[w] = NoEdit /\ \A q \in Editor \ {w} : edit'[q] = edit[q]
    BY <1>4, <1>t DEF Settle, history
  <2>2. edit[w].stage = "done"
    BY <1>4, <1>t DEF Settle, OneUpdate, NothingLost
  <2>3. edit[w].id = i /\ edit[w].change # "resume"
    BY <1>t, <2>2 DEF OneUpdate, EditsFollow
  <2>4. \A v \in Worker \ {w} : pass'[v] = pass[v] /\ pass[v].at = 0
    <3>1. \A v \in Worker \ {w} : ~Busy(v)
      BY <2>1 DEF LeaseHeld, Busy
    <3> QED BY <1>4, <1>t, <3>1 DEF Settle, Busy
  <2>5. pass'[w].at = 0
    BY <1>4, <1>t DEF Settle, PassRecord
  <2>6. ASSUME NEW j \in DOMAIN schedules \ Observation, schedules[j].status = "paused",
               schedules[j].misses >= PauseAfterMisses, j \notin resumed, cut[j] = 0
        PROVE  item'[j] \in {"escalated", "completed"}
    <3>1. CASE j = i
      <4>1. schedules[i].misses = edit[w].record.misses
        BY <2>2, <2>3 DEF ReportsDue
      <4>2. edit[w].record \in ScheduleRecord
        BY <2>2, <1>t DEF SchedulerShape, EditsFit, Filled
      <4>3. edit[w].record.status # "active"
        <5>1. edit[w].record.misses \in Nat /\ PauseAfterMisses \in Nat
          BY <4>2 DEF ScheduleRecord
        <5>2. RecordSound(edit[w])
          BY <1>t DEF MissesKept
        <5> QED BY <2>2, <2>3, <2>6, <3>1, <4>1, <5>1, <5>2 DEF RecordSound
      <4>4. edit[w].record.status = "paused"
        BY <4>2, <4>3 DEF ScheduleRecord
      <4> QED BY <1>d, <1>t, <2>1, <2>2, <3>1, <4>4 DEF ItemAfter
    <3>2. CASE j # i
      <4>1. item'[j] = item[j]
        BY <1>d, <1>t, <2>1, <3>2 DEF ItemAfter
      <4>2. \A v \in Worker : pass[v].at # j
        BY <1>d, <2>4, <3>2 DEF Specialist
      <4> QED BY <2>6, <4>1, <4>2 DEF ReportsDue
    <3> QED BY <3>1, <3>2
  <2>7. \A v \in Worker : edit'[v].stage = "done"
                            => schedules'[edit'[v].id].misses = edit'[v].record.misses
    BY <1>t, <2>1 DEF ReportsDue, NoEdit
  <2> QED BY <2>1, <2>6, <2>7 DEF ReportsDue
<1>5. ASSUME NEW w \in Worker, CutOff(w) PROVE ReportsDue'
  <2>1. /\ schedules' = schedules /\ resumed' = resumed /\ item' = item
        /\ edit'[w] = NoEdit /\ \A q \in Editor \ {w} : edit'[q] = edit[q]
        /\ pass'[w] = Waiting /\ \A v \in Worker \ {w} : pass'[v] = pass[v]
    BY <1>5, <1>t DEF CutOff
  <2>2. ASSUME NEW i \in Id
        PROVE  cut'[i] = IF i = pass[w].at THEN cut[i] + 1 ELSE cut[i]
    BY <1>5, <1>d, <1>t DEF CutOff
  <2>3. ASSUME NEW i \in DOMAIN schedules \ Observation, cut'[i] = 0,
               \A v \in Worker : pass'[v].at # i
        PROVE  cut[i] = 0 /\ \A v \in Worker : pass[v].at # i
    <3>1. i \in Id /\ cut[i] \in Nat
      BY <1>d, <1>t DEF Specialist
    <3>2. i # pass[w].at
      BY <2>2, <2>3, <3>1
    <3> QED BY <2>1, <2>2, <2>3, <3>1, <3>2
  <2> QED BY <1>t, <2>1, <2>3 DEF ReportsDue, NoEdit
<1>6. ASSUME NEW p \in Editor, GetSchedule(p) \/ ListSchedules(p) PROVE ReportsDue'
  <2>1. edit'[p].stage # "done" /\ \A q \in Editor \ {p} : edit'[q] = edit[q]
    <3>1. CASE GetSchedule(p)
      <4>1. edit[p].stage = "get" /\ edit[p].change # "create"
        BY <3>1 DEF GetSchedule, SchedulerShape, EditsFit, Filled
      <4>2. edit[p].id \in DOMAIN schedules
        BY <4>1 DEF OneUpdate, NothingLost
      <4> QED BY <3>1, <4>2, Got
    <3>2. CASE ListSchedules(p)
      BY <3>2, Listed
    <3> QED BY <1>6, <3>1, <3>2
  <2> QED BY <1>6, <1>k, <1>t, <2>1 DEF GetSchedule, ListSchedules, history
<1>7. ASSUME NEW p \in Editor, WriteSchedules(p) PROVE ReportsDue'
  <2> DEFINE i == edit[p].id
  <2>1. edit[p].stage = "write" /\ edit[p].copy = schedules /\ pass' = pass /\ item' = item
    BY <1>7 DEF WriteSchedules, OneUpdate, FilesAgree
  <2>2. /\ edit'[p].stage = IF p = Bot THEN "none" ELSE "done"
        /\ p # Bot => edit'[p].id = i
        /\ \A q \in Editor \ {p} : edit'[q] = edit[q]
        /\ i \in Id /\ edit[p].record \in ScheduleRecord
        /\ DOMAIN schedules' = DOMAIN schedules \cup {i}
        /\ schedules'[i] = edit[p].record
        /\ \A j \in DOMAIN schedules \ {i} : schedules'[j] = schedules[j]
    BY <1>7, <2>1, Written
  <2>3. p # Bot => edit'[p].record = edit[p].record
    <3> DEFINE e == edit[p]
               n == [e EXCEPT !.stage = "done", !.copy = <<>>]
    <3>1. e \in EditRecord /\ (p # Bot => edit'[p] = n)
      BY <1>7, <1>t DEF WriteSchedules
    <3> HIDE DEF e
    <3>2. n.record = e.record
      BY <3>1 DEF EditRecord
    <3> HIDE DEF n
    <3> QED BY <3>1, <3>2 DEF e
  <2>4. /\ resumed' = IF edit[p].change = "resume" THEN resumed \cup {i}
                      ELSE IF edit[p].change = "pause" THEN resumed ELSE resumed \ {i}
        /\ cut' = IF edit[p].change = "pause" THEN cut ELSE [cut EXCEPT ![i] = 0]
    BY <1>7 DEF WriteSchedules
  <2>5. /\ edit[p].change = "create" => i \notin DOMAIN schedules
        /\ edit[p].change # "create" => i \in DOMAIN schedules
    BY <2>1 DEF OneUpdate, NothingLost
  <2>6. p # Bot => p \in Worker /\ pass[p].at = i
    BY <2>1 DEF OneUpdate, EditsFollow, Editor
  <2>7. ASSUME NEW j \in DOMAIN schedules' \ Observation, schedules'[j].status = "paused",
               schedules'[j].misses >= PauseAfterMisses, j \notin resumed', cut'[j] = 0,
               \A w \in Worker : pass[w].at # j
        PROVE  item[j] \in {"escalated", "completed"}
    <3>1. CASE j # i
      BY <1>t, <2>2, <2>4, <2>7, <3>1 DEF ReportsDue
    <3>2. CASE j = i
      <4>1. p = Bot
        BY <2>6, <2>7, <3>2
      <4>2. edit[p].change \in {"pause", "resume", "create"}
        BY <2>1, <4>1 DEF BotOrders
      <4>3. edit[p].record.misses >= PauseAfterMisses /\ edit[p].record.status = "paused"
        BY <2>2, <2>7, <3>2
      <4>4. CASE edit[p].change = "pause"
        <5>1. /\ schedules[i].misses = edit[p].record.misses /\ resumed' = resumed
              /\ cut' = cut /\ i \in DOMAIN schedules
          BY <1>t, <2>1, <2>4, <2>5, <4>4 DEF MissesKept, Editing
        <5>2. schedules[i].status = "paused"
          BY <1>t, <2>7, <3>2, <4>3, <5>1, FileMeans DEF MissesKept, ScheduleRecord
        <5> QED BY <2>7, <3>2, <4>3, <5>1, <5>2 DEF ReportsDue
      <4>5. CASE edit[p].change = "resume"
        BY <2>4, <2>7, <3>2, <4>5
      <4>6. CASE edit[p].change = "create"
        BY <2>1, <4>1, <4>3, <4>6 DEF BotOrders
      <4> QED BY <4>2, <4>4, <4>5, <4>6
    <3> QED BY <3>1, <3>2
  <2>8. ASSUME NEW w \in Worker, edit'[w].stage = "done"
        PROVE  schedules'[edit'[w].id].misses = edit'[w].record.misses
    <3>1. CASE w = p
      BY <1>t, <2>2, <2>3, <3>1
    <3>2. CASE w # p
      <4>1. edit[w].stage = "done" /\ edit'[w] = edit[w]
        BY <1>t, <2>2, <2>8, <3>2
      <4>2. /\ edit[w].id = pass[w].at /\ pass[w].stage = "outcome"
            /\ edit[w].id \in DOMAIN schedules
        BY <1>t, <4>1 DEF OneUpdate, EditsFollow, NothingLost
      <4>3. p = Bot
        <5>1. p # Bot => Busy(p) /\ Busy(w)
          BY <1>d, <1>t, <2>6, <2>2, <4>2 DEF Busy
        <5> QED BY <2>6, <3>2, <5>1 DEF LeaseHeld
      <4>4. edit[p].change \in {"pause", "resume", "create"}
        BY <2>1, <4>3 DEF BotOrders
      <4>5. schedules'[edit[w].id].misses = schedules[edit[w].id].misses
        BY <2>1, <2>2, <2>5, <4>2, <4>4 DEF MissesKept, Editing
      <4> QED BY <4>1, <4>5 DEF ReportsDue
    <3> QED BY <3>1, <3>2
  <2> QED BY <2>1, <2>7, <2>8 DEF ReportsDue
<1>8. CASE \/ \E i \in Id : Create(i)
           \/ \E i \in DOMAIN schedules : PauseSchedule(i) \/ ResumeSchedule(i)
           \/ \E i \in Specialist : CompleteItem(i)
           \/ UNCHANGED scheduler_vars
  <2>1. \A w \in Worker : edit'[w] = edit[w]
    BY <1>8, <1>t DEF Create, PauseSchedule, ResumeSchedule, Edit, CompleteItem, scheduler_vars
  <2>2. /\ schedules' = schedules /\ resumed' = resumed /\ cut' = cut /\ pass' = pass
        /\ item' = item \/ \E i \in Specialist : item' = [item EXCEPT ![i] = "completed"]
    BY <1>8 DEF Create, PauseSchedule, ResumeSchedule, CompleteItem, history, scheduler_vars
  <2> QED BY <1>k, <1>t, <2>1, <2>2
<1>9. CASE Clock
  <2>1. /\ DOMAIN schedules' = DOMAIN schedules /\ resumed' = resumed /\ cut' = cut
        /\ item' = item
        /\ \A i \in DOMAIN schedules : /\ schedules'[i].status = schedules[i].status
                                       /\ schedules'[i].misses = schedules[i].misses
    BY <1>9, <1>t, FileMeans, AllCloserFits, CloserFits DEF Clock, history
  <2>2. ASSUME NEW w \in Worker, edit'[w].stage = "done"
        PROVE  schedules'[edit'[w].id].misses = edit'[w].record.misses
    <3>1. /\ edit[w].stage = "done" /\ edit'[w].id = edit[w].id
          /\ edit'[w].record.misses = edit[w].record.misses
      BY <1>9, <1>t, <2>2, ClockEdit, CloserFits DEF SchedulerShape, EditsFit, Filled
    <3>2. edit[w].id \in DOMAIN schedules
      BY <1>t, <3>1 DEF OneUpdate, EditsFollow, NothingLost
    <3> QED BY <2>1, <3>1, <3>2 DEF ReportsDue
  <2>3. \A w \in Worker : pass'[w].at = pass[w].at
    BY <1>9, ClockPass
  <2> QED BY <2>1, <2>2, <2>3 DEF ReportsDue
<1> QED BY <1>1, <1>2, <1>3, <1>4, <1>5, <1>6, <1>7, <1>8, <1>9
        DEF SchedulerNext, WorkerStep, EditStep, Raise, Die

PausesTold ==
    /\ WritesDontOverlap => MissesKept
    /\ Unhindered => LeaksCounted /\ ReportsDue

\* For any number of schedulers: a pause lets one more run through at most, too many misses
\* stop a schedule for good, and the operator is told.
THEOREM PausesStop == SchedulerSpec => []PauseStops
<1>1. SchedulerInit => PausesTold /\ BotOrders /\ LeaseHeld
  BY DEF SchedulerInit, PausesTold, MissesKept, LeaksCounted, ReportsDue, RecordSound, Editing,
         BotOrders, LeaseHeld, Busy, NoEdit, Waiting, Editor
<1>2. /\ SchedulerShape /\ LeaseHeld /\ OneUpdateAtATime /\ PausesTold /\ BotOrders
      /\ [SchedulerNext]_scheduler_vars
      => (PausesTold /\ BotOrders)'
  BY LeaksStep, MissesStep, ReportsStep, BotOrdersStep
     DEF PausesTold, OneUpdateAtATime, Unhindered
<1>3. PausesTold => PauseStops
  BY DEF PausesTold, PauseStops, PauseLeaksOneRun, MissesStopSchedule, PauseIsReported,
         LeaksCounted, MissesKept, ReportsDue, Unhindered
<1>4. SchedulerSpec => []LeaseHeld
  BY <1>1, LeaseHeldStep, SchedulerShaped, PTL DEF SchedulerSpec
<1> QED BY <1>1, <1>2, <1>3, <1>4, SchedulerShaped, UpdatesAreWhole, PTL DEF SchedulerSpec
=============================================================================
