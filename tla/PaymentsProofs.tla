--------------------------- MODULE PaymentsProofs ---------------------------
(* Proofs of the safety properties of Payments, for any constants. *)
EXTENDS Payments, TLAPS

(***************************************************************************)
(* Types.  The only point is where each variable gets its values from; the *)
(* helpers that write status and job are typed once and cited.             *)
(***************************************************************************)

\* A slot past Take holds a payment.
LEMMA BusySlotHasPayment ==
  ASSUME TypeOK, NEW w \in Slot, slot[w].pc \in SlotPC
  PROVE  slot[w].pay \in Request /\ slot[w] = [pc |-> slot[w].pc, pay |-> slot[w].pay]
  BY DEF TypeOK, SlotState, SlotPC, Idle

\* A cancel past its check holds a payment.
LEMMA BusyCancelHasPayment ==
  ASSUME TypeOK, NEW c \in Canceller, cancel[c].pc = "write"
  PROVE  cancel[c].pay \in Request
  BY DEF TypeOK, CancelState, CancelPC, Idle

\* Moving a busy slot on keeps slots typed.
LEMMA GotoTyped ==
  ASSUME TypeOK, NEW w \in Slot, slot[w].pc \in SlotPC, NEW pc \in SlotPC, Goto(w, pc)
  PROVE  slot' \in [Slot -> SlotState]
  BY BusySlotHasPayment DEF TypeOK, Goto, SlotState

\* Ending a run leaves jobs and slots typed.
LEMMA EndOfRunTyped ==
  ASSUME TypeOK, NEW w \in Slot, slot[w].pc \in SlotPC,
         JobReturns(w) \/ JobThrows(w)
  PROVE  /\ job' \in [Request -> Job]
         /\ slot' \in [Slot -> SlotState]
<1> DEFINE j == job[slot[w].pay]
<1>1. j \in Job
  BY BusySlotHasPayment DEF TypeOK
<1>2. PICK outcome \in Job : EndRun(w, outcome)
  BY <1>1 DEF JobReturns, JobThrows, Free, Job, JobState
<1> QED BY <1>1, <1>2 DEF EndRun, TypeOK, SlotState

\* Writing a status keeps the payments table typed, also when the write rejects.
LEMMA UpdateTyped ==
  ASSUME TypeOK, NEW p \in Request, NEW s \in Status,
         UpdateStatus(p, s) \/ FailedUpdate(p, s)
  PROVE  /\ status' \in [Request -> Status]
         /\ aged' \in SUBSET Request
  BY DEF TypeOK, UpdateStatus, FailedUpdate

\* Spending a fault keeps their count typed.
LEMMA FaultTyped ==
  ASSUME TypeOK, Fault PROVE faults' \in 0 .. MaxFaults
  BY PaymentsAssumption DEF TypeOK, Fault

\* The constants that statuses and control points are.
LEMMA Literals ==
  /\ {"PENDING", "PROCESSING", "SUCCESS", "FAILED", "CANCELLED"} \subseteq Status
  /\ {"insert", "enqueue", "done", "failed"} \subseteq CreatePC
  /\ {"done", "failed"} \subseteq CancelPC
  BY DEF Status, CreatePC, CancelPC

\* Each step of the system keeps every variable typed.
LEMMA TypePreserved == TypeOK /\ [Next]_vars => TypeOK'
<1> SUFFICES ASSUME TypeOK, [Next]_vars PROVE TypeOK'
  OBVIOUS
<1> USE Literals, FaultTyped
<1>1. ASSUME NEW r \in Request, CreateCheck(r) PROVE TypeOK'
  BY <1>1 DEF TypeOK, CreateCheck, PaymentsOf, dbVars
<1>2. ASSUME NEW r \in Request, CreateCommit(r) PROVE TypeOK'
  BY <1>2 DEF TypeOK, CreateCommit, InsertPayment
<1>3. ASSUME NEW r \in Request, Enqueue(r) PROVE TypeOK'
  BY <1>3 DEF TypeOK, Enqueue, NewJob, Free, Job, JobState, dbVars
<1>4. ASSUME NEW r \in Request, CreateFails(r) PROVE TypeOK'
  <2>1. /\ status' \in [Request -> Status]
        /\ announced' \in SUBSET Request
    BY <1>4 DEF TypeOK, CreateFails, InsertPayment
  <2>2. job' \in [Request -> Job]
    BY <1>4 DEF TypeOK, CreateFails, InsertPayment, NewJob, Free, Job, JobState
  <2>3. create' \in [Request -> CreatePC]
    BY <1>4 DEF TypeOK, CreateFails
  <2> QED
    BY <1>4, <2>1, <2>2, <2>3 DEF TypeOK, CreateFails
<1>5. ASSUME NEW c \in Canceller, CancelCheck(c) PROVE TypeOK'
  BY <1>5 DEF TypeOK, CancelCheck, CancelState, CancelPC, dbVars, createVars
<1>6. ASSUME NEW c \in Canceller, CancelWrite(c) PROVE TypeOK'
  <2> cancel[c].pay \in Request
    BY <1>6, BusyCancelHasPayment DEF CancelWrite
  <2>1. cancel' \in [Canceller -> CancelState]
    BY <1>6 DEF TypeOK, CancelWrite, CancelState, CancelPC, Idle
  <2> QED BY <1>6, <2>1, UpdateTyped DEF TypeOK, CancelWrite, createVars, FailedUpdate
<1>7. ASSUME NEW w \in Slot, Run(w) PROVE TypeOK'
  <2>0. /\ slot[w].pc \in SlotPC
        /\ slot[w].pay \in Request
        /\ createVars' = createVars /\ cancel' = cancel /\ captured' = captured
        /\ announced' = announced
        /\ faults' = faults \/ Fault
    BY <1>7, BusySlotHasPayment
    DEF Run, FindPayment, MarkProcessing, Assess, Reject, CommitSuccess, CatchError,
        SlotPC, dbVars, FailedUpdate
  <2>1. /\ job' \in [Request -> Job]
        /\ slot' \in [Slot -> SlotState]
    <3>1. \/ JobReturns(w) \/ JobThrows(w)
          \/ job' = job /\ \E pc \in SlotPC : Goto(w, pc)
      BY <1>7
      DEF Run, FindPayment, MarkProcessing, Assess, Reject, CommitSuccess, CatchError, SlotPC
    <3> QED BY <2>0, <3>1, EndOfRunTyped, GotoTyped DEF TypeOK
  <2>2. /\ status' \in [Request -> Status]
        /\ aged' \in SUBSET Request
        /\ succeeded' \in [Request -> Nat]
    <3>1. \/ UNCHANGED <<status, aged>>
          \/ \E s \in Status : UpdateStatus(slot[w].pay, s) \/ FailedUpdate(slot[w].pay, s)
      BY <1>7
      DEF Run, FindPayment, MarkProcessing, Assess, Reject, CommitSuccess, CatchError,
          dbVars, MarkSuccess
    <3>2. succeeded' = succeeded \/ succeeded' = [succeeded EXCEPT ![slot[w].pay] = @ + 1]
      BY <1>7
      DEF Run, FindPayment, MarkProcessing, Assess, Reject, CommitSuccess, CatchError,
          dbVars, MarkSuccess
    <3> QED BY <2>0, <3>1, <3>2, UpdateTyped DEF TypeOK
  <2> QED BY <2>0, <2>1, <2>2 DEF TypeOK, createVars
<1>8. ASSUME NEW w \in Slot, NEW p \in Request, Take(w, p) PROVE TypeOK'
  <2>1. job' \in [Request -> Job]
    <3>1. job[p] \in Job /\ "active" \in JobState
      BY DEF TypeOK, JobState
    <3>2. [job[p] EXCEPT !.state = "active", !.owner = w] \in Job
      BY <3>1 DEF Job
    <3> QED BY <1>8, <3>2 DEF TypeOK, Take
  <2>2. slot' \in [Slot -> SlotState]
    BY <1>8 DEF TypeOK, Take, SlotState, SlotPC
  <2> QED BY <1>8, <2>1, <2>2 DEF TypeOK, Take, dbVars, createVars
<1>9. ASSUME NEW p \in Request, RecoverStalled(p) \/ LoseLock(p) PROVE TypeOK'
  <2>1. job' \in [Request -> Job]
    <3>1. job[p] \in Job
      BY DEF TypeOK
    <3>2. PICK j \in Job : job' = [job EXCEPT ![p] = j]
      BY <1>9, <3>1 DEF RecoverStalled, LoseLock, PutBack, Free, Job, JobState
    <3> QED BY <3>2 DEF TypeOK
  <2> QED BY <1>9, <2>1 DEF TypeOK, RecoverStalled, LoseLock, PutBack, dbVars, createVars
<1>10. ASSUME WorkerCrash PROVE TypeOK'
  BY <1>10 DEF TypeOK, WorkerCrash, SlotState, dbVars, createVars
<1>11. ASSUME NEW p \in Request, Age(p) PROVE TypeOK'
  BY <1>11 DEF TypeOK, Age, createVars
<1>12. ASSUME ReconcileScan PROVE TypeOK'
  BY <1>12 DEF TypeOK, ReconcileScan, dbVars, createVars
<1>13. ASSUME NEW p \in Request, ReconcileWrite(p) PROVE TypeOK'
  BY <1>13, UpdateTyped DEF TypeOK, ReconcileWrite, createVars, FailedUpdate
<1>14. CASE UNCHANGED vars
  BY <1>14 DEF TypeOK, vars
<1> QED
  BY <1>1, <1>2, <1>3, <1>4, <1>5, <1>6, <1>7, <1>8, <1>9, <1>10, <1>11, <1>12, <1>13, <1>14
  DEF Next, Creating

\* Every reachable state is well typed.
THEOREM TypeCorrect == Spec => []TypeOK
<1>1. Init => TypeOK
  BY PaymentsAssumption
  DEF Init, TypeOK, Status, CreatePC, CancelState, NoJob, Free, Job, JobState, SlotState
<1> QED BY <1>1, TypePreserved, PTL DEF Spec

(***************************************************************************)
(* Rows.  A payment row appears in one transaction and never disappears;   *)
(* everything that names a payment names one that has its row; and rows of *)
(* one key are one row, because a request inserts only when there is none. *)
(***************************************************************************)

\* What a create request has done by each control point.
CreateInv ==
  \A r \in Request :
    /\ create[r] \in {"idle", "insert"} => status[r] = "none"
    /\ create[r] = "enqueue" => status[r] # "none"
    /\ create[r] # "done" => answer[r] = NoRequest
    /\ create[r] \in {"idle", "insert", "enqueue"} => job[r] = NoJob

\* A job, a run, a cancel or a reconciliation is about this payment.
Referenced(p) ==
  \/ job[p].state # "none"
  \/ p \in captured
  \/ \E c \in Canceller : cancel[c].pc = "write" /\ cancel[c].pay = p
  \/ \E w \in Slot : slot[w].pay = p

RowsExist ==
  \A p \in Request : Referenced(p) => status[p] # "none"

RowsAnnounced ==
  \A p \in Request : status[p] # "none" => p \in announced

OneRowPerKey ==
  \A p, q \in Request :
    status[p] # "none" /\ status[q] # "none" /\ KeyOf[p] = KeyOf[q] => p = q

AnswerInv ==
  \A r \in Request : answer[r] # NoRequest =>
    status[answer[r]] # "none" /\ KeyOf[answer[r]] = KeyOf[r]

RowInv == CreateInv /\ RowsExist /\ RowsAnnounced /\ OneRowPerKey /\ AnswerInv

\* A step outside of create, or none.
OtherStep ==
  \/ \E c \in Canceller : CancelCheck(c) \/ CancelWrite(c)
  \/ \E w \in Slot : Run(w) \/ \E p \in Request : Take(w, p)
  \/ \E p \in Request : RecoverStalled(p) \/ LoseLock(p) \/ Age(p) \/ ReconcileWrite(p)
  \/ WorkerCrash
  \/ ReconcileScan
  \/ UNCHANGED vars

\* What such a step does to rows and to what names them: it writes only rows
\* that exist, begins to name only rows that exist, queues nothing, and leaves
\* the create requests alone.
KeepsRows ==
  /\ \A p \in Request : status'[p] = "none" <=> status[p] = "none"
  /\ \A p \in Request : Referenced(p)' => Referenced(p) \/ status[p] # "none"
  /\ \A p \in Request : job[p] = NoJob => job'[p] = NoJob
  /\ announced' = announced /\ create' = create /\ answer' = answer

\* An update of an existing row leaves the set of rows as it is.
LEMMA UpdateKeepsRows ==
  ASSUME TypeOK, NEW q \in Request, status[q] # "none",
         NEW s \in Status \ {"none"},
         UpdateStatus(q, s) \/ FailedUpdate(q, s)
  PROVE  \A p \in Request : status'[p] = "none" <=> status[p] = "none"
  BY DEF TypeOK, UpdateStatus, FailedUpdate

\* A step that creates no payment keeps the rows and the answers.
LEMMA OtherStepKeepsRows ==
  ASSUME TypeOK, RowsExist, OtherStep
  PROVE  KeepsRows
<1> USE Literals, PaymentsAssumption
<1>1. ASSUME NEW c \in Canceller, CancelCheck(c) PROVE KeepsRows
  BY <1>1 DEF TypeOK, CancelCheck, KeepsRows, Referenced, dbVars, createVars
<1>2. ASSUME NEW c \in Canceller, CancelWrite(c) PROVE KeepsRows
  <2>1. /\ cancel[c].pay \in Request
        /\ status[cancel[c].pay] # "none"
    BY <1>2, BusyCancelHasPayment DEF CancelWrite, RowsExist, Referenced
  <2>2. \A p \in Request : status'[p] = "none" <=> status[p] = "none"
    BY <1>2, <2>1, UpdateKeepsRows DEF CancelWrite, Status
  <2>3. \A d \in Canceller : cancel'[d].pc = "write" => cancel'[d] = cancel[d]
    <3>1. PICK pc \in {"done", "failed"} : cancel' = [cancel EXCEPT ![c].pc = pc]
      BY <1>2 DEF CancelWrite
    <3>2. cancel'[c].pc = pc
      BY <3>1 DEF TypeOK, CancelState, Idle
    <3> QED BY <3>1, <3>2 DEF TypeOK
  <2> QED BY <1>2, <2>2, <2>3 DEF CancelWrite, KeepsRows, Referenced, createVars
<1>3. ASSUME NEW w \in Slot, Run(w) PROVE KeepsRows
  <2>1. /\ slot[w].pc \in SlotPC
        /\ slot[w].pay \in Request
        /\ status[slot[w].pay] # "none"
    BY <1>3, BusySlotHasPayment
    DEF Run, FindPayment, MarkProcessing, Assess, Reject, CommitSuccess, CatchError,
        SlotPC, RowsExist, Referenced
  <2>2. \A p \in Request : status'[p] = "none" <=> status[p] = "none"
    <3>1. \/ UNCHANGED status
          \/ \E s \in Status \ {"none"} :
               UpdateStatus(slot[w].pay, s) \/ FailedUpdate(slot[w].pay, s)
      BY <1>3
      DEF Run, FindPayment, MarkProcessing, Assess, Reject, CommitSuccess, CatchError,
          dbVars, MarkSuccess, Status
    <3> QED BY <2>1, <3>1, UpdateKeepsRows
  <2>3. /\ createVars' = createVars /\ cancel' = cancel /\ captured' = captured
        /\ announced' = announced
    BY <1>3
    DEF Run, FindPayment, MarkProcessing, Assess, Reject, CommitSuccess, CatchError, dbVars
  <2>4. \/ JobReturns(w) \/ JobThrows(w)
        \/ job' = job /\ \E pc \in SlotPC : Goto(w, pc)
    BY <1>3
    DEF Run, FindPayment, MarkProcessing, Assess, Reject, CommitSuccess, CatchError, SlotPC
  <2>5. /\ \A v \in Slot : slot'[v].pay \in {slot[v].pay, NoRequest}
        /\ \A p \in Request : p # slot[w].pay => job'[p] = job[p]
        /\ \A p \in Request : job[p] = NoJob => job'[p] = NoJob
    <3>1. CASE JobReturns(w) \/ JobThrows(w)
      <4>1. PICK outcome : EndRun(w, outcome)
        BY <3>1 DEF JobReturns, JobThrows
      <4>2. \A v \in Slot : slot'[v] \in {slot[v], Idle}
        BY <4>1 DEF TypeOK, EndRun
      <4>3. job[slot[w].pay].owner # w => job'[slot[w].pay] = job[slot[w].pay]
        BY <2>1, <4>1 DEF TypeOK, EndRun
      <4>4. \A p \in Request : p # slot[w].pay => job'[p] = job[p]
        BY <2>1, <4>1 DEF TypeOK, EndRun
      <4> QED BY <4>2, <4>3, <4>4 DEF Idle, NoJob, Free
    <3>2. CASE job' = job /\ \E pc \in SlotPC : Goto(w, pc)
      BY <3>2 DEF TypeOK, Goto
    <3> QED BY <2>4, <3>1, <3>2
  <2> QED BY <2>1, <2>2, <2>3, <2>5 DEF KeepsRows, Referenced, createVars
<1>4. ASSUME NEW w \in Slot, NEW q \in Request, Take(w, q) PROVE KeepsRows
  <2>1. \A p \in Request : slot'[w].pay = p => p = q
    BY <1>4 DEF Take, TypeOK
  <2>2. /\ \A v \in Slot : v # w => slot'[v] = slot[v]
        /\ \A p \in Request : p # q => job'[p] = job[p]
    BY <1>4 DEF Take, TypeOK
  <2> QED BY <1>4, <2>1, <2>2 DEF Take, KeepsRows, Referenced, dbVars, createVars, NoJob, Free
<1>5. ASSUME NEW q \in Request, RecoverStalled(q) \/ LoseLock(q) PROVE KeepsRows
  <2>1. \A p \in Request : p # q => job'[p] = job[p]
    BY <1>5 DEF RecoverStalled, LoseLock, PutBack, TypeOK
  <2> QED BY <1>5, <2>1
    DEF RecoverStalled, LoseLock, PutBack, KeepsRows, Referenced, dbVars, createVars, NoJob, Free
<1>6. ASSUME NEW q \in Request, Age(q) PROVE KeepsRows
  BY <1>6 DEF Age, KeepsRows, Referenced, createVars
<1>7. ASSUME NEW q \in Request, ReconcileWrite(q) PROVE KeepsRows
  <2>1. status[q] # "none"
    BY <1>7 DEF ReconcileWrite, RowsExist, Referenced
  <2>2. \A p \in Request : status'[p] = "none" <=> status[p] = "none"
    BY <1>7, <2>1, UpdateKeepsRows DEF ReconcileWrite, Status
  <2> QED BY <1>7, <2>2 DEF ReconcileWrite, KeepsRows, Referenced, createVars
<1>8. ASSUME WorkerCrash PROVE KeepsRows
  BY <1>8 DEF WorkerCrash, KeepsRows, Referenced, dbVars, createVars, Idle
<1>9. ASSUME ReconcileScan PROVE KeepsRows
  BY <1>9 DEF ReconcileScan, KeepsRows, Referenced, dbVars, createVars
<1>10. CASE UNCHANGED vars
  BY <1>10 DEF vars, KeepsRows, Referenced
<1> QED
  BY <1>1, <1>2, <1>3, <1>4, <1>5, <1>6, <1>7, <1>8, <1>9, <1>10 DEF OtherStep

\* Such a step therefore keeps the whole invariant.
LEMMA KeepsRowsKeepsRowInv ==
  ASSUME TypeOK, RowInv, KeepsRows
  PROVE  RowInv'
<1>1. CreateInv'
  BY DEF RowInv, CreateInv, KeepsRows
<1>2. RowsExist'
  BY DEF RowInv, RowsExist, KeepsRows
<1>3. RowsAnnounced' /\ OneRowPerKey'
  BY DEF RowInv, RowsAnnounced, OneRowPerKey, KeepsRows
<1>4. AnswerInv'
  BY DEF TypeOK, RowInv, AnswerInv, KeepsRows
<1> QED BY <1>1, <1>2, <1>3, <1>4 DEF RowInv

\* The steps of create keep it too: a row is inserted only under a key without
\* rows, and a job is queued only for the row just committed.
LEMMA CreateStepsKeepRowInv ==
  ASSUME TypeOK, RowInv, NEW r \in Request,
         CreateCheck(r) \/ CreateCommit(r) \/ Enqueue(r) \/ CreateFails(r)
  PROVE  RowInv'
<1> USE PaymentsAssumption DEF TypeOK
<1>1. CASE CreateCheck(r)
  <2>1. CreateInv'
    BY <1>1 DEF CreateCheck, RowInv, CreateInv, dbVars
  <2>2. AnswerInv'
    BY <1>1 DEF CreateCheck, RowInv, AnswerInv, dbVars, PaymentsOf
  <2> QED
    BY <1>1, <2>1, <2>2
    DEF CreateCheck, RowInv, RowsExist, Referenced, RowsAnnounced, OneRowPerKey, dbVars
<1>2. ASSUME InsertPayment(r), PaymentsOf(KeyOf[r]) = {}, create[r] = "insert",
             create' \in {[create EXCEPT ![r] = "enqueue"], [create EXCEPT ![r] = "failed"]},
             UNCHANGED <<answer, cancel, job, slot, captured>>
      PROVE  RowInv'
  <2>1. CreateInv'
    BY <1>2 DEF InsertPayment, RowInv, CreateInv
  <2>2. RowsExist' /\ RowsAnnounced'
    BY <1>2 DEF InsertPayment, RowInv, RowsExist, Referenced, RowsAnnounced
  <2>3. OneRowPerKey'
    BY <1>2 DEF InsertPayment, RowInv, OneRowPerKey, PaymentsOf
  <2>4. AnswerInv'
    BY <1>2 DEF InsertPayment, RowInv, AnswerInv
  <2> QED BY <2>1, <2>2, <2>3, <2>4 DEF RowInv
<1>3. ASSUME create[r] = "enqueue", job' \in {job, [job EXCEPT ![r] = NewJob]},
             \/ create' = [create EXCEPT ![r] = "done"] /\ answer' = [answer EXCEPT ![r] = r]
             \/ create' = [create EXCEPT ![r] = "failed"] /\ answer' = answer,
             UNCHANGED <<status, announced, cancel, slot, captured>>
      PROVE  RowInv'
  <2>1. CreateInv'
    BY <1>3 DEF RowInv, CreateInv
  <2>2. RowsExist'
    <3>1. \A p \in Request : Referenced(p)' => Referenced(p) \/ p = r
      BY <1>3 DEF Referenced
    <3> QED BY <1>3, <3>1 DEF RowInv, RowsExist, CreateInv
  <2>3. AnswerInv'
    BY <1>3 DEF RowInv, AnswerInv, CreateInv
  <2> QED BY <1>3, <2>1, <2>2, <2>3 DEF RowInv, RowsAnnounced, OneRowPerKey
<1>4. ASSUME create[r] = "insert", create' = [create EXCEPT ![r] = "failed"],
             UNCHANGED <<status, announced, answer, cancel, job, slot, captured>>
      PROVE  RowInv'
  BY <1>4 DEF RowInv, CreateInv, RowsExist, Referenced, RowsAnnounced, OneRowPerKey, AnswerInv
<1>5. CASE CreateCommit(r)
  BY <1>2, <1>4, <1>5 DEF CreateCommit
<1>6. CASE Enqueue(r)
  BY <1>3, <1>6 DEF Enqueue, dbVars
<1>7. CASE CreateFails(r)
  BY <1>2, <1>3, <1>4, <1>7 DEF CreateFails
<1> QED BY <1>1, <1>5, <1>6, <1>7

\* A step creates payments or leaves creation alone.
LEMMA NextIsCreateOrOther ==
  ASSUME [Next]_vars
  PROVE  \/ \E r \in Request :
              CreateCheck(r) \/ CreateCommit(r) \/ Enqueue(r) \/ CreateFails(r)
         \/ OtherStep
  BY DEF Next, Creating, OtherStep

\* In every reachable state rows, answers and references agree as RowInv says.
THEOREM RowsCorrect == Spec => [](TypeOK /\ RowInv)
<1>1. Init => TypeOK /\ RowInv
  <2> SUFFICES ASSUME Init PROVE TypeOK /\ RowInv
    OBVIOUS
  <2>1. TypeOK
    BY PaymentsAssumption
    DEF Init, TypeOK, Status, CreatePC, CancelState, NoJob, Free, Job, JobState, SlotState
  <2>2. \A p \in Request : ~Referenced(p)
    BY PaymentsAssumption DEF Init, Referenced, Idle, NoJob, Free
  <2> QED
    BY <2>1, <2>2
    DEF Init, RowInv, CreateInv, RowsExist, RowsAnnounced, OneRowPerKey, AnswerInv
<1>2. TypeOK /\ RowInv /\ [Next]_vars => (TypeOK /\ RowInv)'
  BY TypePreserved, NextIsCreateOrOther, CreateStepsKeepRowInv, OtherStepKeepsRows,
     KeepsRowsKeepsRowInv
  DEF RowInv
<1> QED BY <1>1, <1>2, PTL DEF Spec

\* A client is only told of a payment that is recorded with its event.
THEOREM AnsweredIsRecordedCorrect == Spec => []AnsweredIsRecorded
<1>1. TypeOK /\ RowInv => AnsweredIsRecorded
  BY DEF TypeOK, RowInv, AnswerInv, RowsAnnounced, AnsweredIsRecorded
<1> QED BY <1>1, RowsCorrect, PTL

(***************************************************************************)
(* The contract of idempotency keys.  accepted, in the contract, is the    *)
(* set of rows under each key; inserting a row is Accept, both ways of     *)
(* answering a request are Answer, and every other step is a stutter.      *)
(***************************************************************************)

Accepted == [k \in Key |-> PaymentsOf(k)]

\* Keeping the rows and the answers is a stutter of the contract.
LEMMA SameRowsStutter ==
  ASSUME \A p \in Request : status'[p] = "none" <=> status[p] = "none",
         answer' = answer
  PROVE  UNCHANGED <<Accepted, answer>>
<1>1. \A k \in Key : PaymentsOf(k)' = PaymentsOf(k)
  BY DEF PaymentsOf
<1> QED BY <1>1 DEF Accepted

\* Inserting the first row of a key is the contract's Accept.
LEMMA InsertAccepts ==
  ASSUME TypeOK, NEW r \in Request, InsertPayment(r), PaymentsOf(KeyOf[r]) = {},
         answer' = answer
  PROVE  Contract!Accept(r)
<1>1. KeyOf[r] \in Key
  BY PaymentsAssumption
<1>2. PaymentsOf(KeyOf[r])' = {r}
  BY DEF TypeOK, InsertPayment, PaymentsOf
<1>3. \A k \in Key : k # KeyOf[r] => PaymentsOf(k)' = PaymentsOf(k)
  BY DEF TypeOK, InsertPayment, PaymentsOf
<1>4. Accepted' = [Accepted EXCEPT ![KeyOf[r]] = {r}]
  BY <1>1, <1>2, <1>3 DEF Accepted
<1> QED BY <1>1, <1>4 DEF Contract!Accept, Accepted

\* Answering with a row of the request's key is the contract's Answer.
LEMMA AnswerAnswers ==
  ASSUME NEW r \in Request, NEW p \in PaymentsOf(KeyOf[r]), answer[r] = NoRequest,
         answer' = [answer EXCEPT ![r] = p],
         \A q \in Request : status'[q] = "none" <=> status[q] = "none"
  PROVE  Contract!Answer(r)
<1>1. KeyOf[r] \in Key
  BY PaymentsAssumption
<1>2. \A k \in Key : PaymentsOf(k)' = PaymentsOf(k)
  BY DEF PaymentsOf
<1> QED BY <1>1, <1>2 DEF Contract!Answer

\* Every step is a step of the contract or a stutter.
LEMMA StepIsContractStep ==
  ASSUME TypeOK, RowInv, [Next]_vars
  PROVE  [Contract!Next]_<<Accepted, answer>>
<1>1. ASSUME NEW r \in Request, CreateCheck(r) PROVE [Contract!Next]_<<Accepted, answer>>
  <2>1. CASE \E p \in PaymentsOf(KeyOf[r]) : answer' = [answer EXCEPT ![r] = p]
    BY <1>1, <2>1, AnswerAnswers DEF CreateCheck, dbVars, RowInv, CreateInv, Contract!Next
  <2>2. CASE UNCHANGED answer
    BY <1>1, <2>2, SameRowsStutter DEF CreateCheck, dbVars
  <2> QED BY <1>1, <2>1, <2>2 DEF CreateCheck
<1>2. ASSUME NEW r \in Request, CreateCommit(r) \/ CreateFails(r)
      PROVE  [Contract!Next]_<<Accepted, answer>>
  <2>1. CASE InsertPayment(r) /\ PaymentsOf(KeyOf[r]) = {}
    BY <1>2, <2>1, InsertAccepts DEF CreateCommit, CreateFails, Contract!Next
  <2>2. CASE UNCHANGED status
    BY <1>2, <2>2, SameRowsStutter DEF CreateCommit, CreateFails
  <2> QED BY <1>2, <2>1, <2>2 DEF CreateCommit, CreateFails
<1>3. ASSUME NEW r \in Request, Enqueue(r) PROVE [Contract!Next]_<<Accepted, answer>>
  <2>1. r \in PaymentsOf(KeyOf[r]) /\ answer[r] = NoRequest
    BY <1>3 DEF Enqueue, RowInv, CreateInv, PaymentsOf
  <2> QED BY <1>3, <2>1, AnswerAnswers DEF Enqueue, dbVars, Contract!Next
<1>4. ASSUME OtherStep PROVE [Contract!Next]_<<Accepted, answer>>
  BY <1>4, OtherStepKeepsRows, SameRowsStutter DEF RowInv, KeepsRows
<1> QED BY <1>1, <1>2, <1>3, <1>4, NextIsCreateOrOther

\* Creating payments implements the contract of idempotency keys.
THEOREM KeepsContractCorrect == Spec => KeepsContract
<1>1. Init => Contract!Init
  BY DEF Init, Contract!Init, PaymentsOf
<1>2. TypeOK /\ RowInv /\ [Next]_vars => [Contract!Next]_<<Accepted, answer>>
  BY StepIsContractStep
<1> QED
  BY <1>1, <1>2, RowsCorrect, PTL
  DEF Spec, KeepsContract, Contract!Spec, Contract!contractVars, Accepted

(***************************************************************************)
(* Success.  While a job has been handed out at most once, at most one run *)
(* works on its payment, that run holds the lock, and it has not written   *)
(* SUCCESS before its commit point.  Everything said about SUCCESS follows *)
(* from this: two successes, or SUCCESS overwritten by a run that has yet  *)
(* to commit, need a second hand-out.                                      *)
(***************************************************************************)

BeforeCommit == {"find", "mark", "assess", "reject", "commit"}

FirstHandOut(p) ==
  ~Redelivered(p) =>
    /\ job[p].state \in {"none", "waiting"} => succeeded[p] = 0
    /\ \A w \in Slot : slot[w].pay = p =>
         /\ job[p].state = "active" /\ job[p].owner = w
         /\ slot[w].pc \in BeforeCommit => succeeded[p] = 0
    /\ succeeded[p] <= 1

SuccessInv == SuccessIsRecorded /\ \A p \in Request : FirstHandOut(p)

\* Writing any status but SUCCESS keeps a recorded success recorded.
LEMMA UpdateKeepsRecorded ==
  ASSUME TypeOK, SuccessIsRecorded, NEW p \in Request,
         NEW s \in Status \ {"SUCCESS"},
         UpdateStatus(p, s) \/ FailedUpdate(p, s), succeeded' = succeeded
  PROVE  SuccessIsRecorded'
  BY DEF TypeOK, SuccessIsRecorded, UpdateStatus, FailedUpdate

\* A payment whose job, runs and successes a step leaves alone keeps its part.
LEMMA Untouched ==
  ASSUME NEW p \in Request, FirstHandOut(p), job'[p] = job[p], succeeded'[p] = succeeded[p],
         \A w \in Slot : slot'[w] = slot[w] \/ slot'[w].pay # p
  PROVE  FirstHandOut(p)'
  BY DEF FirstHandOut, Redelivered

\* A job that is put back or thrown has been handed out before, from then on.
LEMMA HandedOutAgain ==
  ASSUME NEW p \in Request, Redelivered(p)' PROVE FirstHandOut(p)'
  BY DEF FirstHandOut

\* Each step of a run keeps the invariant.
LEMMA RunKeepsSuccessInv ==
  ASSUME TypeOK, TypeOK', SuccessInv, NEW w \in Slot, Run(w)
  PROVE  SuccessInv'
<1>1. PICK q \in Request :
        /\ slot[w].pay = q
        /\ slot[w].pc \in SlotPC
        /\ slot[w] = [pc |-> slot[w].pc, pay |-> q]
  BY BusySlotHasPayment
  DEF Run, FindPayment, MarkProcessing, Assess, Reject, CommitSuccess, CatchError, SlotPC
<1>2. SuccessIsRecorded'
  <2>1. CASE FindPayment(w) \/ Assess(w)
    BY <2>1 DEF FindPayment, Assess, SuccessInv, SuccessIsRecorded, dbVars
  <2>2. CASE MarkProcessing(w) \/ Reject(w) \/ CatchError(w)
    BY <1>1, <2>2, UpdateKeepsRecorded
    DEF MarkProcessing, Reject, CatchError, SuccessInv, Status
  <2>3. CASE CommitSuccess(w)
    BY <1>1, <2>3
    DEF CommitSuccess, MarkSuccess, UpdateStatus, TypeOK, SuccessInv, SuccessIsRecorded
  <2> QED BY <2>1, <2>2, <2>3 DEF Run
<1>3. ASSUME NEW p \in Request, p # q PROVE FirstHandOut(p)'
  <2>1. /\ job'[p] = job[p]
        /\ \A v \in Slot : slot'[v] = slot[v] \/ slot'[v].pay # p
    <3>1. \/ \E outcome : EndRun(w, outcome)
          \/ job' = job /\ \E pc \in SlotPC : Goto(w, pc)
      BY DEF Run, FindPayment, MarkProcessing, Assess, Reject, CommitSuccess, CatchError,
             SlotPC, JobReturns, JobThrows
    <3>2. CASE \E outcome : EndRun(w, outcome)
      BY <1>1, <1>3, <3>2, PaymentsAssumption DEF EndRun, TypeOK, Idle
    <3>3. CASE job' = job /\ \E pc \in SlotPC : Goto(w, pc)
      BY <1>1, <1>3, <3>3 DEF Goto, TypeOK
    <3> QED BY <3>1, <3>2, <3>3
  <2>2. succeeded'[p] = succeeded[p]
    BY <1>1, <1>3
    DEF Run, FindPayment, MarkProcessing, Assess, Reject, CommitSuccess, CatchError,
        dbVars, MarkSuccess, TypeOK
  <2> QED BY <1>3, <2>1, <2>2, Untouched DEF SuccessInv
<1>4. FirstHandOut(q)'
  <2> SUFFICES ASSUME ~Redelivered(q)' PROVE FirstHandOut(q)'
    BY <1>1, HandedOutAgain
  <2>1. /\ ~Redelivered(q)
        /\ job[q].owner = w
        /\ job[q].state = "active"
        /\ \A v \in Slot : v # w => slot[v].pay # q
        /\ slot[w].pc \in BeforeCommit => succeeded[q] = 0
        /\ succeeded[q] <= 1
    <3>1. ~Redelivered(q)
      <4>1. \/ job' = job
            \/ JobReturns(w)
            \/ JobThrows(w)
        BY DEF Run, FindPayment, MarkProcessing, Assess, Reject, CommitSuccess, CatchError
      <4>2. CASE JobReturns(w) \/ JobThrows(w)
        BY <1>1, <4>2
        DEF JobReturns, JobThrows, EndRun, Free, Redelivered, TypeOK, Job
      <4> QED BY <4>1, <4>2 DEF Redelivered
    <3> QED BY <1>1, <3>1 DEF SuccessInv, FirstHandOut
  <2>2. ~JobThrows(w)
    <3> SUFFICES ASSUME JobThrows(w) PROVE FALSE
      OBVIOUS
    <3>1. job'[q].made = job[q].made + 1 /\ job[q].made \in Nat /\ job'[q].stalls \in Nat
      BY <1>1, <2>1 DEF JobThrows, EndRun, Free, TypeOK, Job
    <3> QED BY <3>1 DEF Redelivered
  <2>3. CASE JobReturns(w)
    <3>1. /\ job'[q].state = "completed"
          /\ \A v \in Slot : slot'[v].pay # q
      BY <1>1, <2>1, <2>3, PaymentsAssumption DEF JobReturns, EndRun, Free, TypeOK, Idle
    <3>2. succeeded'[q] <= 1
      BY <1>1, <2>1, <2>3, <2>2
      DEF Run, FindPayment, MarkProcessing, Assess, Reject, CommitSuccess, CatchError,
          dbVars, MarkSuccess, TypeOK, BeforeCommit
    <3> QED BY <3>1, <3>2 DEF FirstHandOut
  <2>4. ASSUME job' = job, NEW pc \in SlotPC, Goto(w, pc)
        PROVE  FirstHandOut(q)'
    <3>1. /\ slot'[w].pay = q /\ slot'[w].pc = pc
          /\ \A v \in Slot : v # w => slot'[v].pay # q
      BY <1>1, <2>1, <2>4 DEF Goto, TypeOK
    <3>2. /\ succeeded'[q] <= 1
          /\ pc \in BeforeCommit => succeeded'[q] = 0
      <4>1. \A x \in SlotPC : Goto(w, x) => x = pc
        BY <3>1 DEF Goto, TypeOK
      <4>2. ~JobReturns(w)
        BY <1>1, <3>1, PaymentsAssumption DEF JobReturns, EndRun, TypeOK, Idle
      <4>3. CASE CommitSuccess(w)
        BY <1>1, <2>1, <4>1, <4>2, <4>3
        DEF CommitSuccess, MarkSuccess, TypeOK, BeforeCommit, SlotPC
      <4>4. CASE ~CommitSuccess(w)
        <5>1. succeeded' = succeeded
          BY <4>4
          DEF Run, FindPayment, MarkProcessing, Assess, Reject, CatchError, dbVars
        <5>2. pc \in BeforeCommit => slot[w].pc \in BeforeCommit
          BY <4>1, <4>2, <4>4, <2>2
          DEF Run, FindPayment, MarkProcessing, Assess, Reject, CatchError, BeforeCommit, SlotPC
        <5> QED BY <2>1, <5>1, <5>2
      <4> QED BY <4>3, <4>4
    <3> QED BY <2>1, <2>4, <3>1, <3>2 DEF FirstHandOut
  <2> QED
    BY <2>2, <2>3, <2>4
    DEF Run, FindPayment, MarkProcessing, Assess, Reject, CommitSuccess, CatchError, SlotPC
<1> QED BY <1>2, <1>3, <1>4 DEF SuccessInv

\* Every step keeps the invariant.
LEMMA NextKeepsSuccessInv ==
  ASSUME TypeOK, TypeOK', RowInv, SuccessInv, [Next]_vars
  PROVE  SuccessInv'
<1>1. ASSUME NEW r \in Request,
             CreateCheck(r) \/ CreateCommit(r) \/ Enqueue(r) \/ CreateFails(r)
      PROVE  SuccessInv'
  <2>1. SuccessIsRecorded'
    BY <1>1
    DEF CreateCheck, CreateCommit, Enqueue, CreateFails, InsertPayment, dbVars, TypeOK,
        SuccessInv, SuccessIsRecorded
  <2>2. ASSUME NEW p \in Request PROVE FirstHandOut(p)'
    <3>0. FirstHandOut(p)
      BY DEF SuccessInv
    <3>1. slot' = slot /\ succeeded' = succeeded
      BY <1>1 DEF CreateCheck, CreateCommit, Enqueue, CreateFails, dbVars
    <3>2. CASE job'[p] = job[p]
      BY <3>0, <3>1, <3>2, Untouched
    <3>3. CASE job'[p] = NewJob /\ job[p] = NoJob
      <4>1. ~Redelivered(p) /\ job[p].state = "none" /\ job'[p].state = "waiting"
        BY <3>3 DEF NewJob, NoJob, Free, Redelivered
      <4> QED BY <3>0, <3>1, <4>1 DEF FirstHandOut
    <3> QED
      BY <1>1, <3>2, <3>3
      DEF CreateCheck, CreateCommit, Enqueue, CreateFails, RowInv, CreateInv, TypeOK
  <2> QED BY <2>1, <2>2 DEF SuccessInv
<1>2. ASSUME NEW c \in Canceller, CancelCheck(c) \/ CancelWrite(c)
      PROVE  SuccessInv'
  <2>1. SuccessIsRecorded'
    <3>1. CASE CancelCheck(c)
      BY <3>1 DEF CancelCheck, dbVars, SuccessInv, SuccessIsRecorded
    <3>2. CASE CancelWrite(c)
      BY <3>2, BusyCancelHasPayment, UpdateKeepsRecorded DEF CancelWrite, SuccessInv, Status
    <3> QED BY <1>2, <3>1, <3>2
  <2>2. job' = job /\ slot' = slot /\ succeeded' = succeeded
    BY <1>2 DEF CancelCheck, CancelWrite, dbVars
  <2> QED BY <2>1, <2>2, Untouched DEF SuccessInv
<1>3. ASSUME NEW w \in Slot, Run(w) PROVE SuccessInv'
  BY <1>3, RunKeepsSuccessInv
<1>4. ASSUME NEW w \in Slot, NEW q \in Request, Take(w, q) PROVE SuccessInv'
  <2>1. SuccessIsRecorded'
    BY <1>4 DEF Take, dbVars, SuccessInv, SuccessIsRecorded
  <2>2. ASSUME NEW p \in Request, p # q PROVE FirstHandOut(p)'
    BY <1>4, <2>2, Untouched DEF Take, dbVars, TypeOK, SuccessInv
  <2>3. FirstHandOut(q)'
    <3>1. /\ job'[q].state = "active" /\ job'[q].owner = w
          /\ job'[q].made = job[q].made /\ job'[q].stalls = job[q].stalls
          /\ \A v \in Slot : slot'[v].pay = q => v = w \/ slot[v].pay = q
      BY <1>4 DEF Take, TypeOK, Job
    <3> QED BY <1>4, <3>1 DEF Take, dbVars, SuccessInv, FirstHandOut, Redelivered
  <2> QED BY <2>1, <2>2, <2>3 DEF SuccessInv
<1>5. ASSUME NEW q \in Request, RecoverStalled(q) \/ LoseLock(q) PROVE SuccessInv'
  <2>0. PutBack(q)
    BY <1>5 DEF RecoverStalled, LoseLock
  <2>1. SuccessIsRecorded'
    BY <2>0 DEF PutBack, dbVars, SuccessInv, SuccessIsRecorded
  <2>2. ASSUME NEW p \in Request, p # q PROVE FirstHandOut(p)'
    BY <2>0, <2>2, Untouched DEF PutBack, dbVars, TypeOK, SuccessInv
  <2>3. FirstHandOut(q)'
    <3>1. /\ job'[q].stalls = job[q].stalls + 1 /\ job'[q].made = job[q].made
          /\ job[q].stalls \in Nat /\ job[q].made \in Nat
      BY <2>0 DEF PutBack, Free, TypeOK, Job
    <3> QED BY <3>1, HandedOutAgain DEF Redelivered
  <2> QED BY <2>1, <2>2, <2>3 DEF SuccessInv
<1>6. ASSUME NEW q \in Request, Age(q) PROVE SuccessInv'
  BY <1>6, Untouched DEF Age, SuccessInv, SuccessIsRecorded
<1>7. ASSUME NEW q \in Request, ReconcileWrite(q) PROVE SuccessInv'
  <2>1. SuccessIsRecorded'
    BY <1>7, UpdateKeepsRecorded DEF ReconcileWrite, SuccessInv, Status
  <2> QED BY <1>7, <2>1, Untouched DEF ReconcileWrite, SuccessInv
<1>8. ASSUME WorkerCrash PROVE SuccessInv'
  BY <1>8, Untouched, PaymentsAssumption
  DEF WorkerCrash, Idle, dbVars, SuccessInv, SuccessIsRecorded
<1>9. CASE ReconcileScan \/ UNCHANGED vars
  BY <1>9, Untouched DEF ReconcileScan, vars, dbVars, SuccessInv, SuccessIsRecorded
<1> QED
  BY <1>1, <1>2, <1>3, <1>4, <1>5, <1>6, <1>7, <1>8, <1>9, NextIsCreateOrOther DEF OtherStep

\* SuccessInv holds in every reachable state, with the types and rows it needs.
THEOREM SuccessCorrect == Spec => [](TypeOK /\ RowInv /\ SuccessInv)
<1>1. Init => SuccessInv
  BY PaymentsAssumption
  DEF Init, SuccessInv, SuccessIsRecorded, FirstHandOut, Redelivered, NoJob, Free, Idle
<1>2. TypeOK /\ TypeOK' /\ RowInv /\ SuccessInv /\ [Next]_vars => SuccessInv'
  BY NextKeepsSuccessInv
<1> QED BY <1>1, <1>2, RowsCorrect, PTL DEF Spec

\* A payment in SUCCESS has its payment.success event.
THEOREM SuccessIsRecordedCorrect == Spec => []SuccessIsRecorded
<1>1. SuccessInv => SuccessIsRecorded
  BY DEF SuccessInv
<1> QED BY <1>1, SuccessCorrect, PTL

\* A second payment.success event takes a second hand-out of the job.
THEOREM DuplicateSuccessCorrect == Spec => []DuplicateSuccessNeedsRedelivery
<1>1. TypeOK /\ SuccessInv => DuplicateSuccessNeedsRedelivery
  BY DEF TypeOK, SuccessInv, FirstHandOut, DuplicateSuccessNeedsRedelivery
<1> QED BY <1>1, SuccessCorrect, PTL

\* A step that takes a payment out of SUCCESS is one of the four races.
THEOREM SuccessLostOnlyToRacesCorrect == Spec => SuccessLostOnlyToRaces
<1> DEFINE Race(p) == \/ Redelivered(p)
                      \/ p \in captured
                      \/ \E c \in Canceller : cancel[c] = [pc |-> "write", pay |-> p]
                      \/ \E w \in Slot : slot[w] = [pc |-> "catch", pay |-> p]
           Lost(p) == status[p] = "SUCCESS" /\ status'[p] # "SUCCESS"
<1>1. ASSUME TypeOK, RowInv, SuccessInv, [Next]_vars, NEW p \in Request, Lost(p)
      PROVE  Race(p)
  <2>0. succeeded[p] > 0
    BY <1>1 DEF SuccessInv, SuccessIsRecorded
  <2>1. ASSUME NEW r \in Request,
               CreateCheck(r) \/ CreateCommit(r) \/ Enqueue(r) \/ CreateFails(r)
        PROVE  FALSE
    BY <1>1, <2>1
    DEF CreateCheck, CreateCommit, Enqueue, CreateFails, InsertPayment, dbVars, TypeOK,
        RowInv, CreateInv
  <2>2. ASSUME NEW c \in Canceller, CancelCheck(c) \/ CancelWrite(c) PROVE Race(p)
    <3>1. cancel[c].pc = "write" /\ cancel[c].pay = p
      BY <1>1, <2>2
      DEF CancelCheck, CancelWrite, UpdateStatus, FailedUpdate, dbVars, TypeOK
    <3>2. cancel[c] \in CancelState
      BY <1>1 DEF TypeOK
    <3>3. cancel[c] = [pc |-> "write", pay |-> p]
      BY <3>1, <3>2 DEF CancelState, Idle
    <3> QED BY <3>3
  <2>3. ASSUME NEW w \in Slot, Run(w) PROVE Race(p)
    <3>1. slot[w].pay = p /\ slot[w].pc \in {"mark", "reject", "commit", "catch"}
      BY <1>1, <2>3
      DEF Run, FindPayment, MarkProcessing, Assess, Reject, CommitSuccess, CatchError,
          MarkSuccess, UpdateStatus, FailedUpdate, dbVars, TypeOK
    <3>2. CASE slot[w].pc = "catch"
      <4>1. slot[w] = [pc |-> "catch", pay |-> p]
        BY <1>1, <3>1, <3>2, BusySlotHasPayment DEF SlotPC
      <4> QED BY <4>1
    <3>3. CASE slot[w].pc \in {"mark", "reject", "commit"}
      BY <1>1, <2>0, <3>1, <3>3 DEF SuccessInv, FirstHandOut, BeforeCommit
    <3> QED BY <3>1, <3>2, <3>3
  <2>4. ASSUME NEW q \in Request, ReconcileWrite(q) PROVE Race(p)
    BY <1>1, <2>4 DEF ReconcileWrite, UpdateStatus, FailedUpdate, TypeOK
  <2>5. CASE status' = status
    BY <1>1, <2>5
  <2> QED
    BY <1>1, <2>1, <2>2, <2>3, <2>4, <2>5, NextIsCreateOrOther
    DEF OtherStep, Take, RecoverStalled, LoseLock, PutBack, Age, WorkerCrash, ReconcileScan,
        dbVars, vars
<1>2. TypeOK /\ RowInv /\ SuccessInv /\ [Next]_vars
        => [\A p \in Request : Lost(p) => Race(p)]_vars
  BY <1>1
<1> QED BY <1>2, SuccessCorrect, PTL DEF Spec, SuccessLostOnlyToRaces
=============================================================================
