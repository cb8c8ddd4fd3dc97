------------------------------- MODULE Refunds -------------------------------
(***************************************************************************)
(* POST /refunds (RefundService.create).  A refund request reads the       *)
(* payment, then the sum of its refunds, then writes the refund and maybe  *)
(* the payment in one transaction; nothing ties the reads to the write.    *)
(* Requests interleave with each other and with the payment worker and the *)
(* reconciliation, which write the same status column.                     *)
(*                                                                         *)
(* No code sets a refund to REJECTED, and a refund is COMPLETED by the     *)
(* transaction that inserts it, so the refunds of a payment matter only    *)
(* through their sum.  Sums are kept in units of the Decimal(20, 4)        *)
(* columns, for amounts whose doubles tell these units apart.              *)
(***************************************************************************)
EXTENDS Integers

CONSTANTS
  Payment,        \* payments of one merchant
  AmountOf,       \* payments.amount, which no route validates either
  Refunder,       \* calls of POST /refunds
  RefundAmounts,  \* the amounts bodies carry, which nothing validates
  NoPayment,
  MaxFaults       \* bound on failed refund transactions in a behaviour

\* An amount of a body: the value the amount column keeps of it, and whether it
\* is a number of whole units.  If not, it is a numeric string, which "+"
\* appends to the sum as text, or a number that the column rounds.
Amounts == [value : Int, exact : BOOLEAN]

ASSUME RefundsAssumption ==
  /\ AmountOf \in [Payment -> Int]
  /\ RefundAmounts \subseteq Amounts
  /\ NoPayment \notin Payment
  /\ MaxFaults \in Nat

VARIABLES
  status,    \* payments.status
  refunded,  \* sum of the refunds of a payment that are not REJECTED
  request,   \* control point and locals of each refund request
  met,       \* history: per payment, which of Circumstance it has met
  faults     \* failed transactions so far

vars == <<status, refunded, request, met, faults>>

Status == {"PENDING", "PROCESSING", "SUCCESS", "FAILED", "CANCELLED", "REFUNDED"}

\* "overlap": a refund read the sum while another held one it had read;
\* "rewritten": someone else wrote the status; "inexact": a refund of an amount
\* that is not a number of whole units was stored; "lowered": a negative refund
\* was stored under a REFUNDED status, or under a sum another request held;
\* "rounded": a refund that filled the payment compared as less, in doubles.
Circumstance == {"overlap", "rewritten", "inexact", "lowered", "rounded"}

Unsent == [pc |-> "idle"]

\* compared: totalRefunded + input.amount against the payment's amount.
Sent == [pc : {"sum", "commit", "done", "refused", "failed"}, pay : Payment,
         amount : Amounts, totalRefunded : Int, compared : {"below", "equal"}]

\* Each variable has a value of its kind.
TypeOK ==
  /\ status \in [Payment -> Status]
  /\ refunded \in [Payment -> Int]
  /\ request \in [Refunder -> {Unsent} \cup Sent]
  /\ met \in [Payment -> SUBSET Circumstance]
  /\ faults \in Nat

Init ==
  /\ status \in [Payment -> Status \ {"REFUNDED"}]
  /\ refunded = [p \in Payment |-> 0]
  /\ request = [f \in Refunder |-> Unsent]
  /\ met = [p \in Payment |-> {}]
  /\ faults = 0

\* The request has read the sum of p's refunds and not yet written its own.
Holds(f, p) == request[f].pc = "commit" /\ request[f].pay = p

\* The payment is read; only a SUCCESS payment is refunded.
CheckPayment(f) ==
  /\ request[f] = Unsent
  /\ \E p \in Payment, a \in RefundAmounts :
       request' = [request EXCEPT ![f] =
         [pc |-> IF status[p] = "SUCCESS" THEN "sum" ELSE "refused", pay |-> p,
          amount |-> a, totalRefunded |-> 0, compared |-> "below"]]
  /\ UNCHANGED <<status, refunded, met, faults>>

\* Mutant of Compared: the new refund is left out of the comparison.
ComparedWithoutAmount(total, a, amount) ==
  {IF total < amount THEN "below" ELSE IF total > amount THEN "above" ELSE "equal"}

\* How total + a.value may compare with the amount of the payment.  Doubles
\* order sums that differ by a unit or more; a sum equal to the amount may come
\* out on either side (0.7 + 0.1 < 0.8), unless nothing was refunded before.
\* A sum with an inexact amount compares in any way: text appended to digits is
\* some other number, or none, for which both comparisons are false ("below").
Compared(total, a, amount) ==
  CASE ~a.exact -> {"below", "equal", "above"}
    [] a.exact /\ total + a.value < amount -> {"below"}
    [] a.exact /\ total + a.value > amount -> {"above"}
    [] a.exact /\ total + a.value = amount ->
         IF total = 0 THEN {"equal"} ELSE {"below", "equal", "above"}

\* The refunds are summed, and the request refused when it would exceed the payment.
SumRefunds(f) ==
  LET r == request[f]
      total == refunded[r.pay]
  IN
  /\ r.pc = "sum"
  /\ \E c \in Compared(total, r.amount, AmountOf[r.pay]) :
       \/ /\ c = "above"
          /\ request' = [request EXCEPT ![f].pc = "refused"]
          /\ UNCHANGED met
       \/ /\ c # "above"
          /\ request' = [request EXCEPT ![f] =
               [r EXCEPT !.pc = "commit", !.totalRefunded = total, !.compared = c]]
          /\ met' = [met EXCEPT ![r.pay] = @ \cup
               IF \E g \in Refunder : Holds(g, r.pay) THEN {"overlap"} ELSE {}]
  /\ UNCHANGED <<status, refunded, faults>>

\* Mutant of WriteRefund: the refund is counted twice, in a sum read after it
\* was inserted.
WriteRefundCountsTwice(r) ==
  /\ refunded' = [refunded EXCEPT ![r.pay] = @ + r.amount.value]
  /\ status' = IF refunded'[r.pay] + r.amount.value >= AmountOf[r.pay]
                 THEN [status EXCEPT ![r.pay] = "REFUNDED"] ELSE status

\* Mutant of WriteRefund: a sum equal to the amount does not count as full.
WriteRefundStrict(r) ==
  /\ refunded' = [refunded EXCEPT ![r.pay] = @ + r.amount.value]
  /\ UNCHANGED status

\* Mutant of WriteRefund: the refund's own status is written to the payment.
WriteRefundCompletes(r) ==
  /\ refunded' = [refunded EXCEPT ![r.pay] = @ + r.amount.value]
  /\ status' = [status EXCEPT ![r.pay] = "COMPLETED"]

\* What the transaction writes: the refund, and REFUNDED when the sum read
\* earlier and this refund are not less than the payment.
WriteRefund(r) ==
  /\ refunded' = [refunded EXCEPT ![r.pay] = @ + r.amount.value]
  /\ status' = IF r.compared = "equal"
                 THEN [status EXCEPT ![r.pay] = "REFUNDED"] ELSE status

\* What a payment meets when f's refund is stored.
Meets(f) ==
  LET r == request[f]
      crossed == status[r.pay] = "REFUNDED" \/ \E g \in Refunder \ {f} : Holds(g, r.pay)
      fills == r.totalRefunded + r.amount.value = AmountOf[r.pay]
  IN (IF r.amount.exact THEN {} ELSE {"inexact"})
       \cup (IF r.amount.value < 0 /\ crossed THEN {"lowered"} ELSE {})
       \cup (IF r.amount.exact /\ fills /\ r.compared = "below" THEN {"rounded"} ELSE {})

\* The refund is stored.
Store(f) ==
  /\ WriteRefund(request[f])
  /\ met' = [met EXCEPT ![request[f].pay] = @ \cup Meets(f)]

\* The refund transaction.  When it rejects it may still have committed; the
\* column also rejects what is no decimal.
CommitRefund(f) ==
  /\ request[f].pc = "commit"
  /\ \/ /\ Store(f)
        /\ request' = [request EXCEPT ![f].pc = "done"]
        /\ UNCHANGED faults
     \/ /\ faults < MaxFaults
        /\ faults' = faults + 1
        /\ request' = [request EXCEPT ![f].pc = "failed"]
        /\ Store(f) \/ UNCHANGED <<refunded, status, met>>
     \/ /\ ~request[f].amount.exact
        /\ request' = [request EXCEPT ![f].pc = "failed"]
        /\ UNCHANGED <<refunded, status, met, faults>>

\* The payment worker, a cancel or the reconciliation writes the status,
\* whatever it is: processPayment marks a payment it is handed again PROCESSING
\* even when it was refunded.
StatusWritten(p) ==
  /\ \E s \in {"PROCESSING", "SUCCESS", "FAILED", "CANCELLED"} :
       status' = [status EXCEPT ![p] = s]
  /\ met' = [met EXCEPT ![p] = @ \cup {"rewritten"}]
  /\ UNCHANGED <<refunded, request, faults>>

Next ==
  \/ \E f \in Refunder : CheckPayment(f) \/ SumRefunds(f) \/ CommitRefund(f)
  \/ \E p \in Payment : StatusWritten(p)

Spec == Init /\ [][Next]_vars

-----------------------------------------------------------------------------
(* Properties *)

\* A payment shown as REFUNDED has been given back in full, even when refunds
\* overlap and whoever else writes the status (refund.service.ts:62): unless an
\* amount was stored that is no number of whole units, or a negative one under
\* a sum another request had read or under the REFUNDED status, where nothing
\* looks at the sum again.  Negative refunds one at a time do not break it.
RefundedIsCovered ==
  \A p \in Payment :
    status[p] = "REFUNDED" /\ met[p] \cap {"inexact", "lowered"} = {}
      => refunded[p] >= AmountOf[p]

\* Only refunds that overlap, or amounts that are no numbers of whole units,
\* give back more than was paid: one at a time, with negative amounts, failed
\* transactions and any status writes in between, numbers never do
\* (refund.service.ts:25).
OverRefundNeedsOverlap ==
  \A p \in Payment :
    refunded[p] > 0 /\ refunded[p] > AmountOf[p] => met[p] \cap {"overlap", "inexact"} # {}

\* The status follows the sum.  Without overlap, inexact and lowered amounts it
\* is REFUNDED only when exactly the payment's amount was given back; and it is
\* REFUNDED then, unless refunds overlapped, an amount was inexact, someone else
\* wrote the status, or doubles took the refund that filled the payment for
\* less (refund.service.ts:61-62).
StatusFollowsSum ==
  \A p \in Payment :
    /\ met[p] \subseteq {"rewritten", "rounded"} /\ status[p] = "REFUNDED"
         => refunded[p] = AmountOf[p]
    /\ met[p] \subseteq {"lowered"} /\ refunded[p] = AmountOf[p] /\ AmountOf[p] # 0
         => status[p] = "REFUNDED"

(* What the messages and comments of the source say, and the code does not. *)

\* "Refund amount exceeds payment amount": refunds never exceed the payment.
NeverOverRefunded ==
  \A p \in Payment : refunded[p] <= AmountOf[p]

=============================================================================
