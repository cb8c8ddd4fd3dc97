------------------------------ MODULE Payments ------------------------------
(***************************************************************************)
(* The life of a payment: POST /payments (PaymentService.create), the      *)
(* BullMQ job that processes it (payment.worker, PaymentService.           *)
(* processPayment), POST /payments/:id/cancel (PaymentService.cancel) and  *)
(* the hourly reconciliation (runPaymentReconciliation).                   *)
(*                                                                         *)
(* Every database call is a step of its own, because the code runs them    *)
(* with an await in between and takes no lock; a $transaction is one step. *)
(* Several HTTP requests, the five processing slots of the payment worker  *)
(* and the reconciliation run interleave.  Any call can fail, with its     *)
(* effect applied or not, and either process can die between two steps.    *)
(***************************************************************************)
EXTENDS Naturals

CONSTANTS
  Request,    \* calls of POST /payments; also names the payment row a call inserts
  Key,        \* idempotency keys chosen by clients
  KeyOf,      \* the key each request carries
  Canceller,  \* calls of POST /payments/:id/cancel
  Slot,       \* concurrent job runs of the payment worker (concurrency: 5)
  NoRequest,  \* no payment
  NoSlot,     \* no slot
  Attempts,   \* QUEUE_ATTEMPTS: runs of a job that may throw before it is failed
  MaxStalls,  \* BullMQ maxStalledCount: times a lost job is put back
  MaxFaults   \* bound on failed calls, crashes and lost job locks in a behaviour

ASSUME PaymentsAssumption ==
  /\ KeyOf \in [Request -> Key]
  /\ NoRequest \notin Request
  /\ NoSlot \notin Slot
  /\ Attempts \in Nat \ {0}
  /\ MaxStalls \in Nat
  /\ MaxFaults \in Nat

VARIABLES
  status,     \* payments.status, "none" while the row does not exist
  aged,       \* PROCESSING payments whose updatedAt is over 30 minutes old
  announced,  \* payments with a payment.created outbox row and its audit row
  succeeded,  \* number of payment.success outbox rows (and PAYMENT_PROCESSED audit rows)
  create,     \* control point of each create request
  answer,     \* the payment a create request returned, if it returned one
  cancel,     \* control point and target of each cancel request
  job,        \* the process-payment job of each payment
  slot,       \* control point and payment of each run of the processor
  captured,   \* payments the running reconciliation has read and not yet written
  faults      \* failed calls, crashes and lost locks so far

dbVars     == <<status, aged, announced, succeeded>>
createVars == <<create, answer>>
vars == <<status, aged, announced, succeeded, create, answer, cancel,
          job, slot, captured, faults>>

Status == {"none", "PENDING", "PROCESSING", "SUCCESS", "FAILED", "CANCELLED"}
CreatePC == {"idle", "insert", "enqueue", "done", "failed"}
CancelPC == {"write", "done", "refused", "failed"}
SlotPC == {"find", "mark", "assess", "reject", "commit", "catch"}
JobState == {"none", "waiting", "active", "completed", "failed"}

Job == [state: JobState, owner: Slot \cup {NoSlot},
        made: Nat, stalls: Nat]

\* A job out of every worker's hands.
Free(state, made, stalls) ==
  [state |-> state, owner |-> NoSlot, made |-> made, stalls |-> stalls]

NoJob == Free("none", 0, 0)
NewJob == Free("waiting", 0, 0)

\* A cancel request not yet sent, a slot with no job; and all they can be.
Idle == [pc |-> "idle", pay |-> NoRequest]
CancelState == {Idle} \cup [pc: CancelPC, pay: Request]
SlotState == {Idle} \cup [pc: SlotPC, pay: Request]

\* Each variable has a value of its kind.
TypeOK ==
  /\ status \in [Request -> Status]
  /\ aged \in SUBSET Request
  /\ announced \in SUBSET Request
  /\ succeeded \in [Request -> Nat]
  /\ create \in [Request -> CreatePC]
  /\ answer \in [Request -> Request \cup {NoRequest}]
  /\ cancel \in [Canceller -> CancelState]
  /\ job \in [Request -> Job]
  /\ slot \in [Slot -> SlotState]
  /\ captured \in SUBSET Request
  /\ faults \in 0 .. MaxFaults

Init ==
  /\ status = [p \in Request |-> "none"]
  /\ aged = {}
  /\ announced = {}
  /\ succeeded = [p \in Request |-> 0]
  /\ create = [r \in Request |-> "idle"]
  /\ answer = [r \in Request |-> NoRequest]
  /\ cancel = [c \in Canceller |-> Idle]
  /\ job = [p \in Request |-> NoJob]
  /\ slot = [w \in Slot |-> Idle]
  /\ captured = {}
  /\ faults = 0

-----------------------------------------------------------------------------
(* Database calls and their failures. *)

\* A call rejects, or a process dies: one of the MaxFaults faults is spent.
Fault == faults < MaxFaults /\ faults' = faults + 1

\* PaymentRepository.updateStatus: an unconditional update by id, which also
\* refreshes updatedAt.
UpdateStatus(p, s) ==
  /\ status' = [status EXCEPT ![p] = s]
  /\ aged' = aged \ {p}

\* An update whose promise rejects: the server may or may not have applied it.
FailedUpdate(p, s) ==
  /\ Fault
  /\ UpdateStatus(p, s) \/ UNCHANGED <<status, aged>>

\* Rows inserted under the idempotency key k: the key row is written in the
\* same transaction as its payment, so it exists when the payment does.
PaymentsOf(k) == {p \in Request : status[p] # "none" /\ KeyOf[p] = k}

-----------------------------------------------------------------------------
(* POST /payments *)

\* Mutant of CreateCheck: a repeated request queues the payment again.
CreateCheckRequeues(r) ==
  /\ create[r] = "idle"
  /\ \/ \E p \in PaymentsOf(KeyOf[r]) :
          /\ answer' = [answer EXCEPT ![r] = p]
          /\ create' = [create EXCEPT ![r] = "done"]
          /\ job' = [job EXCEPT ![p] = NewJob]
     \/ /\ PaymentsOf(KeyOf[r]) = {}
        /\ create' = [create EXCEPT ![r] = "insert"]
        /\ UNCHANGED <<answer, job>>
  /\ UNCHANGED <<dbVars, cancel, slot, captured, faults>>

\* Mutant of CreateCheck: the request is answered before its transaction.
CreateCheckAnswersEarly(r) ==
  /\ create[r] = "idle"
  /\ PaymentsOf(KeyOf[r]) = {}
  /\ create' = [create EXCEPT ![r] = "insert"]
  /\ answer' = [answer EXCEPT ![r] = r]
  /\ UNCHANGED <<dbVars, cancel, job, slot, captured, faults>>

\* The idempotency lookup: a payment under this key is returned as it is, with
\* nothing queued; otherwise the request goes on to insert.
CreateCheck(r) ==
  /\ create[r] = "idle"
  /\ \/ \E p \in PaymentsOf(KeyOf[r]) :
          /\ answer' = [answer EXCEPT ![r] = p]
          /\ create' = [create EXCEPT ![r] = "done"]
     \/ /\ PaymentsOf(KeyOf[r]) = {}
        /\ create' = [create EXCEPT ![r] = "insert"]
        /\ UNCHANGED answer
  /\ UNCHANGED <<dbVars, cancel, job, slot, captured, faults>>

\* The rows the transaction writes: key, payment, outbox event, audit log.
InsertPayment(r) ==
  /\ status' = [status EXCEPT ![r] = "PENDING"]
  /\ announced' = announced \cup {r}

\* Mutant of CreateCommit: idempotencyKeyId is not unique.
CreateCommitNotUnique(r) ==
  /\ create[r] = "insert"
  /\ create' = [create EXCEPT ![r] = "enqueue"]
  /\ InsertPayment(r)
  /\ UNCHANGED <<aged, succeeded, answer, cancel, job, slot, captured, faults>>

\* The transaction: upserting the key finds the row of a request that committed
\* first, and idempotencyKeyId @unique then rejects the second payment.
CreateCommit(r) ==
  /\ create[r] = "insert"
  /\ \/ /\ PaymentsOf(KeyOf[r]) # {}
        /\ create' = [create EXCEPT ![r] = "failed"]
        /\ UNCHANGED <<status, announced>>
     \/ /\ PaymentsOf(KeyOf[r]) = {}
        /\ create' = [create EXCEPT ![r] = "enqueue"]
        /\ InsertPayment(r)
  /\ UNCHANGED <<aged, succeeded, answer, cancel, job, slot, captured, faults>>

\* addJob, after the commit and outside the transaction, then the answer.
Enqueue(r) ==
  /\ create[r] = "enqueue"
  /\ create' = [create EXCEPT ![r] = "done"]
  /\ answer' = [answer EXCEPT ![r] = r]
  /\ job' = [job EXCEPT ![r] = NewJob]
  /\ UNCHANGED <<dbVars, cancel, slot, captured, faults>>

\* The request ends without an answer: a call it awaits rejects or the API
\* process dies.  The transaction or the addJob in flight may have gone through.
\* A request that fails in its lookup has done nothing: it is one never sent.
CreateFails(r) ==
  /\ Fault
  /\ create[r] \in {"insert", "enqueue"}
  /\ create' = [create EXCEPT ![r] = "failed"]
  /\ \/ UNCHANGED <<status, announced, job>>
     \/ /\ create[r] = "insert" /\ PaymentsOf(KeyOf[r]) = {}
        /\ InsertPayment(r)
        /\ UNCHANGED job
     \/ /\ create[r] = "enqueue"
        /\ job' = [job EXCEPT ![r] = NewJob]
        /\ UNCHANGED <<status, announced>>
  /\ UNCHANGED <<aged, succeeded, answer, cancel, slot, captured>>

-----------------------------------------------------------------------------
(* POST /payments/:id/cancel *)

\* The read and the status check of cancel.
CancelCheck(c) ==
  /\ cancel[c] = Idle
  /\ \E p \in Request :
       cancel' = [cancel EXCEPT ![c] =
                    [pc |-> IF status[p] = "PENDING" THEN "write" ELSE "refused",
                     pay |-> p]]
  /\ UNCHANGED <<dbVars, createVars, job, slot, captured, faults>>

\* The write of cancel, which does not look at the status again.
CancelWrite(c) ==
  /\ cancel[c].pc = "write"
  /\ \/ /\ UpdateStatus(cancel[c].pay, "CANCELLED")
        /\ cancel' = [cancel EXCEPT ![c].pc = "done"]
        /\ UNCHANGED faults
     \/ /\ FailedUpdate(cancel[c].pay, "CANCELLED")
        /\ cancel' = [cancel EXCEPT ![c].pc = "failed"]
  /\ UNCHANGED <<announced, succeeded, createVars, job, slot, captured>>

-----------------------------------------------------------------------------
(* The payment worker: BullMQ's handling of a job around processPayment. *)

Goto(w, pc) == slot' = [slot EXCEPT ![w].pc = pc]

\* A job that has been handed out before: a run threw or was lost.
Redelivered(p) == job[p].made + job[p].stalls > 0

\* A free slot takes a waiting job and its lock.
Take(w, p) ==
  /\ slot[w] = Idle
  /\ job[p].state = "waiting"
  /\ job' = [job EXCEPT ![p] = [@ EXCEPT !.state = "active", !.owner = w]]
  /\ slot' = [slot EXCEPT ![w] = [pc |-> "find", pay |-> p]]
  /\ UNCHANGED <<dbVars, createVars, cancel, captured, faults>>

\* A run ends; its outcome counts for the job if the run still holds its lock.
EndRun(w, outcome) ==
  /\ slot' = [slot EXCEPT ![w] = Idle]
  /\ job' = [job EXCEPT ![slot[w].pay] = IF @.owner = w THEN outcome ELSE @]

\* Mutant of JobReturns: the job is not marked complete and waits again.
JobReturnsUnmarked(w) ==
  LET j == job[slot[w].pay] IN EndRun(w, Free("waiting", j.made, j.stalls))

\* The processor returned: the job is complete.
JobReturns(w) ==
  LET j == job[slot[w].pay] IN EndRun(w, Free("completed", j.made, j.stalls))

\* The processor threw: the job is retried until its attempts are used up.
JobThrows(w) ==
  LET j == job[slot[w].pay] IN
  EndRun(w, Free(IF j.made + 1 < Attempts THEN "waiting" ELSE "failed",
                 j.made + 1, j.stalls))

\* Mutant of FindPayment: an error of the read is swallowed.
FindPaymentSwallows(w) ==
  /\ slot[w].pc = "find"
  /\ \/ status[slot[w].pay] # "none" /\ Goto(w, "mark") /\ UNCHANGED <<job, faults>>
     \/ Fault /\ JobReturns(w)
  /\ UNCHANGED <<dbVars, createVars, cancel, captured>>

\* The read at the head of processPayment; without a row the run just returns.
FindPayment(w) ==
  /\ slot[w].pc = "find"
  /\ \/ /\ status[slot[w].pay] # "none" /\ Goto(w, "mark")
        /\ UNCHANGED <<job, faults>>
     \/ /\ status[slot[w].pay] = "none" /\ JobReturns(w)
        /\ UNCHANGED faults
     \/ Fault /\ JobThrows(w)
  /\ UNCHANGED <<dbVars, createVars, cancel, captured>>

\* updateStatus(PROCESSING), before the try block: whatever the status is now,
\* and an error here is thrown to BullMQ.
MarkProcessing(w) ==
  /\ slot[w].pc = "mark"
  /\ \/ /\ UpdateStatus(slot[w].pay, "PROCESSING")
        /\ Goto(w, "assess")
        /\ UNCHANGED <<job, faults>>
     \/ FailedUpdate(slot[w].pay, "PROCESSING") /\ JobThrows(w)
  /\ UNCHANGED <<announced, succeeded, createVars, cancel, captured>>

\* Fraud, tax and currency calls.  None of them rejects: each falls back to a
\* fixed answer when its service is down, and only the verdict matters here.
Assess(w) ==
  /\ slot[w].pc = "assess"
  /\ \E verdict \in {"APPROVE", "REVIEW", "REJECT"} :
       Goto(w, IF verdict = "REJECT" THEN "reject" ELSE "commit")
  /\ UNCHANGED <<dbVars, createVars, cancel, job, captured, faults>>

\* Mutant of Reject: the verdict is written where the status belongs.
RejectWritesVerdict(w) ==
  /\ slot[w].pc = "reject"
  /\ UpdateStatus(slot[w].pay, "REJECT")
  /\ JobReturns(w)
  /\ UNCHANGED <<announced, succeeded, createVars, cancel, captured, faults>>

\* FRAUD_REJECTED.  An error of this update is caught by the catch block.
Reject(w) ==
  /\ slot[w].pc = "reject"
  /\ \/ /\ UpdateStatus(slot[w].pay, "FAILED")
        /\ JobReturns(w)
        /\ UNCHANGED faults
     \/ /\ FailedUpdate(slot[w].pay, "FAILED")
        /\ Goto(w, "catch")
        /\ UNCHANGED job
  /\ UNCHANGED <<announced, succeeded, createVars, cancel, captured>>

\* Mutant of MarkSuccess: the event is not in the transaction, and may be lost.
MarkSuccessApart(p) ==
  /\ UpdateStatus(p, "SUCCESS")
  /\ \/ succeeded' = [succeeded EXCEPT ![p] = @ + 1]
     \/ UNCHANGED succeeded

\* The rows of the success transaction: status, audit log, outbox event.
MarkSuccess(p) ==
  /\ UpdateStatus(p, "SUCCESS")
  /\ succeeded' = [succeeded EXCEPT ![p] = @ + 1]

\* The success transaction; its error is caught, also when it did commit.
CommitSuccess(w) ==
  /\ slot[w].pc = "commit"
  /\ \/ /\ MarkSuccess(slot[w].pay)
        /\ JobReturns(w)
        /\ UNCHANGED faults
     \/ /\ Fault
        /\ MarkSuccess(slot[w].pay) \/ UNCHANGED <<status, aged, succeeded>>
        /\ Goto(w, "catch")
        /\ UNCHANGED job
  /\ UNCHANGED <<announced, createVars, cancel, captured>>

\* The catch block: PROCESSING_ERROR; when this update rejects too, the run throws.
CatchError(w) ==
  /\ slot[w].pc = "catch"
  /\ \/ /\ UpdateStatus(slot[w].pay, "FAILED")
        /\ JobReturns(w)
        /\ UNCHANGED faults
     \/ FailedUpdate(slot[w].pay, "FAILED") /\ JobThrows(w)
  /\ UNCHANGED <<announced, succeeded, createVars, cancel, captured>>

\* BullMQ gives up on a job's lock: back to waiting, or failed when it has been
\* put back MaxStalls times.
PutBack(p) ==
  /\ job[p].state = "active"
  /\ job' = [job EXCEPT ![p] =
               Free(IF @.stalls < MaxStalls THEN "waiting" ELSE "failed",
                    @.made, @.stalls + 1)]
  /\ UNCHANGED <<dbVars, createVars, cancel, slot, captured>>

Abandoned(p) == \A w \in Slot : job[p].owner = w => slot[w].pay # p

\* The stalled-job check finds a job whose run died with the worker process.
RecoverStalled(p) == Abandoned(p) /\ PutBack(p) /\ UNCHANGED faults

\* The lock of a run that is still going was not renewed in time: the job is
\* put back and that run continues next to the new one.
LoseLock(p) == ~Abandoned(p) /\ PutBack(p) /\ Fault

\* The worker process dies and is restarted: all its runs are gone.
WorkerCrash ==
  /\ Fault
  /\ slot' = [w \in Slot |-> Idle]
  /\ captured' = {}
  /\ UNCHANGED <<dbVars, createVars, cancel, job>>

-----------------------------------------------------------------------------
(* The hourly reconciliation, a job of the same worker process. *)

\* Thirty minutes pass without an update of a PROCESSING payment.
Age(p) ==
  /\ status[p] = "PROCESSING"
  /\ p \notin aged
  /\ aged' = aged \cup {p}
  /\ UNCHANGED <<status, announced, succeeded, createVars, cancel, job, slot,
                 captured, faults>>

\* Mutant of ReconcileScan: it looks for stale PENDING payments.
ReconcileScanPending ==
  /\ captured = {}
  /\ captured' = {p \in aged : status[p] = "PENDING"}
  /\ captured' # {}
  /\ UNCHANGED <<dbVars, createVars, cancel, job, slot, faults>>

\* findMany of the stale PROCESSING payments.
ReconcileScan ==
  /\ captured = {}
  /\ captured' = {p \in aged : status[p] = "PROCESSING"}
  /\ captured' # {}
  /\ UNCHANGED <<dbVars, createVars, cancel, job, slot, faults>>

\* One update of the loop: FAILED, whatever the status is by now.  An error
\* ends the loop.
ReconcileWrite(p) ==
  /\ p \in captured
  /\ \/ /\ UpdateStatus(p, "FAILED")
        /\ captured' = captured \ {p}
        /\ UNCHANGED faults
     \/ FailedUpdate(p, "FAILED") /\ captured' = {}
  /\ UNCHANGED <<announced, succeeded, createVars, cancel, job, slot>>

-----------------------------------------------------------------------------
Creating(r) == CreateCommit(r) \/ Enqueue(r)

Run(w) == \/ FindPayment(w) \/ MarkProcessing(w) \/ Assess(w)
          \/ Reject(w) \/ CommitSuccess(w) \/ CatchError(w)

Next ==
  \/ \E r \in Request : CreateCheck(r) \/ Creating(r) \/ CreateFails(r)
  \/ \E c \in Canceller : CancelCheck(c) \/ CancelWrite(c)
  \/ \E w \in Slot : Run(w) \/ \E p \in Request : Take(w, p)
  \/ \E p \in Request : RecoverStalled(p) \/ LoseLock(p) \/ Age(p) \/ ReconcileWrite(p)
  \/ WorkerCrash
  \/ ReconcileScan

Spec == Init /\ [][Next]_vars

\* What the runtime guarantees: a request or run that is not cut off by a fault
\* goes on, BullMQ hands out waiting jobs and finds lost ones, time passes and
\* the hourly job runs.  Clients owe nothing.
Fairness ==
  /\ \A r \in Request : WF_vars(Creating(r))
  /\ \A c \in Canceller : WF_vars(CancelWrite(c))
  /\ \A w \in Slot : WF_vars(Run(w))
  /\ \A p \in Request : WF_vars(\E w \in Slot : Take(w, p))
  /\ \A p \in Request : WF_vars(RecoverStalled(p)) /\ WF_vars(Age(p))
  /\ \A p \in Request : WF_vars(ReconcileWrite(p))
  /\ WF_vars(ReconcileScan)

FairSpec == Spec /\ Fairness

-----------------------------------------------------------------------------
(* Properties *)

\* The payments of a key, as the clients of the contract see them.
Contract == INSTANCE IdempotentCreate
              WITH accepted <- [k \in Key |-> PaymentsOf(k)]

\* Creating payments keeps the promise of idempotency keys: two requests that
\* both miss the lookup still insert one payment, and every answer under a key
\* is that payment.
KeepsContract == Contract!Spec

\* A client is told only of a payment that is in the database together with its
\* payment.created event: the answer and the job come after the commit.
AnsweredIsRecorded ==
  \A r \in Request : answer[r] # NoRequest =>
    /\ status[answer[r]] # "none"
    /\ answer[r] \in announced
    /\ KeyOf[answer[r]] = KeyOf[r]

\* A payment shown as SUCCESS has its payment.success event and audit row: the
\* three are one transaction, whichever call fails or process dies around it.
SuccessIsRecorded ==
  \A p \in Request : status[p] = "SUCCESS" => succeeded[p] > 0

\* A payment is announced as successful more than once only when BullMQ handed
\* its job out more than once; concurrent slots, cancels and reconciliations do
\* not duplicate the event.
DuplicateSuccessNeedsRedelivery ==
  \A p \in Request : succeeded[p] > 1 => Redelivered(p)

\* SUCCESS is lost only to one of four races: a job handed out again, a
\* reconciliation that read the payment before it succeeded, a cancel that read
\* it while PENDING, and a success transaction that committed but reported an
\* error to the catch block.
SuccessLostOnlyToRaces ==
  [][\A p \in Request :
       status[p] = "SUCCESS" /\ status'[p] # "SUCCESS" =>
         \/ Redelivered(p)
         \/ p \in captured
         \/ \E c \in Canceller : cancel[c] = [pc |-> "write", pay |-> p]
         \/ \E w \in Slot : slot[w] = [pc |-> "catch", pay |-> p]]_vars

\* A payment that entered processing leaves it: the worker finishes it, or the
\* reconciliation does when the worker lost it.
ProcessingEnds ==
  \A p \in Request : status[p] = "PROCESSING" ~> status[p] # "PROCESSING"

Settled(p) == status[p] \in {"SUCCESS", "FAILED", "CANCELLED"}

\* A queued payment is settled, unless BullMQ gave its job up.
QueuedIsSettled ==
  \A p \in Request :
    job[p].state # "none" ~> (Settled(p) \/ job[p].state = "failed")
=============================================================================
