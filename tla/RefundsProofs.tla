---------------------------- MODULE RefundsProofs ----------------------------
(* Proofs of the safety properties of Refunds, for any constants. *)
EXTENDS Refunds, TLAPS

RequestPC == {"sum", "commit", "done", "refused", "failed"}

\* A request past its first read names a payment and an amount.
LEMMA SentRequest ==
  ASSUME TypeOK, NEW f \in Refunder, request[f].pc \in {"sum", "commit"}
  PROVE  /\ request[f] \in Sent
         /\ request[f].pay \in Payment
         /\ request[f].amount \in Amounts
         /\ request[f].amount.value \in Int
         /\ request[f].totalRefunded \in Int
         /\ refunded[request[f].pay] \in Int /\ AmountOf[request[f].pay] \in Int
<1>1. request[f] \in Sent
  BY DEF TypeOK, Unsent
<1>2. request[f].pay \in Payment /\ request[f].amount \in Amounts
  BY <1>1 DEF Sent
<1> QED BY <1>1, <1>2, RefundsAssumption DEF Sent, Amounts, TypeOK

\* Moving such a request on changes its control point and nothing else.
LEMMA MovedRequest ==
  ASSUME TypeOK, NEW f \in Refunder, request[f] \in Sent, NEW pc \in RequestPC,
         request' = [request EXCEPT ![f].pc = pc]
  PROVE  /\ request' \in [Refunder -> {Unsent} \cup Sent]
         /\ request'[f].pc = pc
         /\ \A g \in Refunder : g # f => request'[g] = request[g]
  BY DEF TypeOK, Sent, RequestPC

\* What a payment meets is some of the circumstances.
LEMMA MeetsType == ASSUME NEW f \in Refunder PROVE Meets(f) \subseteq Circumstance
  BY DEF Meets, Circumstance

\* What a transaction in flight did: nothing, or its writes.
LEMMA CommitFacts ==
  ASSUME TypeOK, NEW f \in Refunder, CommitRefund(f)
  PROVE  /\ request[f].pc = "commit" /\ request[f] \in Sent
         /\ \E pc \in {"done", "failed"} : request' = [request EXCEPT ![f].pc = pc]
         /\ Store(f) \/ UNCHANGED <<refunded, status, met>>
         /\ faults' \in Nat
  BY SentRequest, RefundsAssumption DEF CommitRefund, TypeOK

\* A sum that is not above the amount: within it and equal only if it is, when
\* the amount added is a number of whole units.
LEMMA ComparedFacts ==
  ASSUME NEW total \in Int, NEW a \in Amounts, NEW amount \in Int,
         NEW c \in Compared(total, a, amount), c # "above"
  PROVE  /\ c \in {"below", "equal"}
         /\ a.exact => total + a.value <= amount
         /\ a.exact /\ c = "equal" => total + a.value = amount
<1>1. a.exact \in BOOLEAN /\ a.value \in Int
  BY DEF Amounts
<1>2. CASE ~a.exact
  BY <1>2 DEF Compared
<1>3. CASE a.exact
  <2>1. CASE total + a.value < amount
    BY <1>1, <1>3, <2>1 DEF Compared
  <2>2. CASE total + a.value > amount
    BY <1>1, <1>3, <2>2 DEF Compared
  <2>3. CASE total + a.value = amount
    BY <1>1, <1>3, <2>3 DEF Compared
  <2> QED BY <1>1, <2>1, <2>2, <2>3
<1> QED BY <1>1, <1>2, <1>3

\* The request is refused, or goes on holding the sum of this moment.
Refused(f) == request' = [request EXCEPT ![f].pc = "refused"] /\ met' = met

Reads(f, q, c) ==
  /\ request' = [request EXCEPT ![f] =
       [request[f] EXCEPT !.pc = "commit", !.totalRefunded = refunded[q], !.compared = c]]
  /\ request[f].amount.exact =>
       /\ refunded[q] + request[f].amount.value <= AmountOf[q]
       /\ c = "equal" => refunded[q] + request[f].amount.value = AmountOf[q]
  /\ met' = [met EXCEPT ![q] = met[q] \cup
               IF \E g \in Refunder : Holds(g, q) THEN {"overlap"} ELSE {}]

\* What summing does.
LEMMA SumFacts ==
  ASSUME TypeOK, NEW f \in Refunder, SumRefunds(f), NEW q, q = request[f].pay
  PROVE  /\ request[f].pc = "sum" /\ request[f] \in Sent /\ q \in Payment
         /\ Refused(f) \/ \E c \in {"below", "equal"} : Reads(f, q, c)
         /\ UNCHANGED <<status, refunded, faults>>
<1>1. request[f].pc = "sum"
  BY DEF SumRefunds
<1>2. /\ request[f] \in Sent /\ q \in Payment /\ request[f].amount \in Amounts
      /\ refunded[q] \in Int /\ AmountOf[q] \in Int
  BY <1>1, SentRequest
<1>3. PICK c \in Compared(refunded[q], request[f].amount, AmountOf[q]) :
        \/ /\ c = "above"
           /\ request' = [request EXCEPT ![f].pc = "refused"]
           /\ UNCHANGED met
        \/ /\ c # "above"
           /\ request' = [request EXCEPT ![f] =
                [request[f] EXCEPT !.pc = "commit", !.totalRefunded = refunded[q], !.compared = c]]
           /\ met' = [met EXCEPT ![q] = @ \cup
                IF \E g \in Refunder : Holds(g, q) THEN {"overlap"} ELSE {}]
  BY DEF SumRefunds
<1>4. CASE c = "above"
  BY <1>1, <1>2, <1>3, <1>4 DEF SumRefunds, Refused
<1>5. CASE c # "above"
  <2>1. /\ c \in {"below", "equal"}
        /\ request[f].amount.exact =>
             /\ refunded[q] + request[f].amount.value <= AmountOf[q]
             /\ c = "equal" => refunded[q] + request[f].amount.value = AmountOf[q]
    BY <1>2, <1>5, ComparedFacts
  <2>2. /\ request' = [request EXCEPT ![f] =
             [request[f] EXCEPT !.pc = "commit", !.totalRefunded = refunded[q], !.compared = c]]
        /\ met' = [met EXCEPT ![q] = met[q] \cup
             IF \E g \in Refunder : Holds(g, q) THEN {"overlap"} ELSE {}]
    BY <1>3, <1>5
  <2>3. UNCHANGED <<status, refunded, faults>>
    BY DEF SumRefunds
  <2> QED BY <1>1, <1>2, <2>1, <2>2, <2>3 DEF Reads
<1> QED BY <1>4, <1>5

\* A request that goes on to its transaction keeps its payment and its amount.
LEMMA HeldRequest ==
  ASSUME TypeOK, NEW f \in Refunder, request[f] \in Sent, NEW t \in Int,
         NEW c \in {"below", "equal"},
         request' = [request EXCEPT ![f] =
           [request[f] EXCEPT !.pc = "commit", !.totalRefunded = t, !.compared = c]]
  PROVE  /\ request' \in [Refunder -> {Unsent} \cup Sent]
         /\ request'[f].pc = "commit" /\ request'[f].pay = request[f].pay
         /\ request'[f].amount = request[f].amount
         /\ request'[f].totalRefunded = t /\ request'[f].compared = c
         /\ \A g \in Refunder : g # f => request'[g] = request[g]
<1>1. [request[f] EXCEPT !.pc = "commit", !.totalRefunded = t, !.compared = c] \in Sent
  BY DEF Sent
<1> QED BY <1>1 DEF TypeOK, Sent

\* Every step keeps the types.
LEMMA TypePreserved == TypeOK /\ [Next]_vars => TypeOK'
<1> SUFFICES ASSUME TypeOK, [Next]_vars PROVE TypeOK'
  OBVIOUS
<1>1. ASSUME NEW f \in Refunder, CheckPayment(f) PROVE TypeOK'
  <2>1. PICK p \in Payment, a \in RefundAmounts, pc \in {"sum", "refused"} :
          request' = [request EXCEPT ![f] =
            [pc |-> pc, pay |-> p, amount |-> a, totalRefunded |-> 0, compared |-> "below"]]
    BY <1>1 DEF CheckPayment
  <2>2. [pc |-> pc, pay |-> p, amount |-> a, totalRefunded |-> 0, compared |-> "below"] \in Sent
    BY RefundsAssumption DEF Sent
  <2> QED BY <1>1, <2>1, <2>2 DEF TypeOK, CheckPayment
<1>2. ASSUME NEW f \in Refunder, SumRefunds(f) PROVE TypeOK'
  <2>1. PICK q : q = request[f].pay
    OBVIOUS
  <2>2. refunded[q] \in Int /\ request[f] \in Sent
    BY <1>2, <2>1, SentRequest DEF SumRefunds
  <2>3. CASE Refused(f)
    <3>1. request' \in [Refunder -> {Unsent} \cup Sent]
      BY <2>2, <2>3, MovedRequest DEF RequestPC, Refused
    <3> QED BY <1>2, <2>1, <2>3, <3>1, SumFacts DEF TypeOK, Refused
  <2>4. ASSUME NEW c \in {"below", "equal"}, Reads(f, q, c) PROVE TypeOK'
    <3>2. request' \in [Refunder -> {Unsent} \cup Sent]
      BY <2>2, <2>4, HeldRequest DEF Reads
    <3>3. \A S \in SUBSET Circumstance : S \cup {"overlap"} \in SUBSET Circumstance
      BY DEF Circumstance
    <3>4. met' \in [Payment -> SUBSET Circumstance]
      BY <2>4, <3>3 DEF TypeOK, Reads
    <3> QED BY <1>2, <2>1, <3>2, <3>4, SumFacts DEF TypeOK
  <2> QED BY <1>2, <2>1, <2>3, <2>4, SumFacts
<1>3. ASSUME NEW f \in Refunder, CommitRefund(f) PROVE TypeOK'
  <2>1. request[f].pay \in Payment /\ request[f].amount.value \in Int
    BY <1>3, CommitFacts, SentRequest
  <2>2. /\ refunded' \in [Payment -> Int]
        /\ status' \in [Payment -> Status]
        /\ met' \in [Payment -> SUBSET Circumstance]
    <3>1. CASE UNCHANGED <<refunded, status, met>>
      BY <3>1 DEF TypeOK
    <3>2. CASE Store(f)
      <4>1. refunded' \in [Payment -> Int] /\ status' \in [Payment -> Status]
        BY <2>1, <3>2 DEF Store, WriteRefund, TypeOK, Status
      <4>2. met' \in [Payment -> SUBSET Circumstance]
        BY <2>1, <3>2, MeetsType DEF Store, TypeOK
      <4> QED BY <4>1, <4>2
    <3> QED BY <1>3, <3>1, <3>2, CommitFacts
  <2> QED BY <1>3, <2>2, CommitFacts, MovedRequest DEF TypeOK, RequestPC
<1>4. ASSUME NEW p \in Payment, StatusWritten(p) PROVE TypeOK'
  BY <1>4 DEF TypeOK, StatusWritten, Status, Circumstance
<1>5. CASE UNCHANGED vars
  BY <1>5 DEF TypeOK, vars
<1> QED BY <1>1, <1>2, <1>3, <1>4, <1>5 DEF Next

\* The types hold at first.
LEMMA InitTyped == Init => TypeOK
  BY DEF Init, TypeOK, Status

\* Every reachable state is well typed.
THEOREM TypeCorrect == Spec => []TypeOK
  BY InitTyped, TypePreserved, PTL DEF Spec

(***************************************************************************)
(* The sum a request holds was right when it was read.  Unless a negative  *)
(* refund is stored meanwhile it only grows after that, so what it decides *)
(* about REFUNDED is safe; and while no two requests have held a sum of    *)
(* the same payment at once it is still right when it is used, so the      *)
(* total stays within the payment.  Both break with an amount of which the *)
(* comparison says nothing.                                                *)
(***************************************************************************)

\* A held sum is at most the sum now, and left room for the refund.
HeldSums ==
  \A f \in Refunder, p \in Payment : Holds(f, p) =>
    /\ met[p] \cap {"inexact", "lowered"} = {} => request[f].totalRefunded <= refunded[p]
    /\ request[f].amount.exact =>
         /\ request[f].totalRefunded + request[f].amount.value <= AmountOf[p]
         /\ request[f].compared = "equal" =>
              request[f].totalRefunded + request[f].amount.value = AmountOf[p]

\* Without overlap there is at most one held sum, and it is the sum now.
Alone(p) ==
  met[p] \cap {"overlap", "inexact"} = {} =>
    /\ refunded[p] <= AmountOf[p] \/ refunded[p] <= 0
    /\ \A f \in Refunder : Holds(f, p) => request[f].totalRefunded = refunded[p]
    /\ \A f, g \in Refunder : Holds(f, p) /\ Holds(g, p) => f = g

RefundInv ==
  /\ HeldSums
  /\ RefundedIsCovered
  /\ \A p \in Payment : Alone(p)
  /\ StatusFollowsSum

\* A step that starts no hold and changes no sum, no status and nothing met.
LEMMA HoldsKept ==
  ASSUME RefundInv, UNCHANGED <<refunded, status, met>>,
         \A g \in Refunder, p \in Payment :
           Holds(g, p)' => Holds(g, p) /\ request'[g] = request[g]
  PROVE  RefundInv'
<1>1. HeldSums'
  BY DEF RefundInv, HeldSums
<1>2. \A p \in Payment : Alone(p)'
  BY DEF RefundInv, Alone
<1>3. RefundedIsCovered' /\ StatusFollowsSum'
  BY DEF RefundInv, RefundedIsCovered, StatusFollowsSum
<1> QED BY <1>1, <1>2, <1>3 DEF RefundInv

\* Reading the payment does not start a hold.
LEMMA CheckKeepsInv ==
  ASSUME TypeOK, RefundInv, NEW f \in Refunder, CheckPayment(f)
  PROVE  RefundInv'
<1>1. PICK p \in Payment, a \in RefundAmounts, pc \in {"sum", "refused"} :
        request' = [request EXCEPT ![f] =
          [pc |-> pc, pay |-> p, amount |-> a, totalRefunded |-> 0, compared |-> "below"]]
  BY DEF CheckPayment
<1>2. \A g \in Refunder, q \in Payment :
        Holds(g, q)' => Holds(g, q) /\ request'[g] = request[g]
  BY <1>1 DEF TypeOK, Holds
<1> QED BY <1>2, HoldsKept DEF CheckPayment

\* Summing starts a hold with the sum of this moment; a second one is an overlap.
LEMMA SumKeepsInv ==
  ASSUME TypeOK, RefundInv, NEW f \in Refunder, SumRefunds(f)
  PROVE  RefundInv'
<1>1. PICK q : q = request[f].pay
  OBVIOUS
<1>2. /\ request[f] \in Sent /\ q \in Payment /\ refunded[q] \in Int
      /\ refunded' = refunded /\ status' = status
      /\ \A p \in Payment : ~Holds(f, p)
  BY <1>1, SumFacts, SentRequest DEF Holds
<1>3. CASE Refused(f)
  <2>1. \A g \in Refunder, p \in Payment :
          Holds(g, p)' => Holds(g, p) /\ request'[g] = request[g]
    BY <1>2, <1>3, MovedRequest DEF Refused, Holds, RequestPC
  <2> QED BY <1>2, <1>3, <2>1, HoldsKept DEF Refused
<1>4. ASSUME NEW c \in {"below", "equal"}, Reads(f, q, c) PROVE RefundInv'
  <2>1. /\ request'[f].pc = "commit" /\ request'[f].pay = q
        /\ request'[f].amount = request[f].amount
        /\ request'[f].totalRefunded = refunded[q] /\ request'[f].compared = c
        /\ \A g \in Refunder : g # f => request'[g] = request[g]
    <3> DEFINE read == [request[f] EXCEPT !.pc = "commit", !.totalRefunded = refunded[q],
                                          !.compared = c]
    <3>1. request' = [request EXCEPT ![f] = read]
      BY <1>4 DEF Reads
    <3>2. /\ read.pc = "commit" /\ read.pay = request[f].pay
          /\ read.amount = request[f].amount
          /\ read.totalRefunded = refunded[q] /\ read.compared = c
      BY <1>2 DEF Sent
    <3> HIDE DEF read
    <3> QED BY <1>1, <3>1, <3>2 DEF TypeOK
  <2>2. /\ \A p \in Payment : met[p] \subseteq met'[p]
        /\ (\E g \in Refunder : Holds(g, q)) => "overlap" \in met'[q]
    BY <1>2, <1>4 DEF Reads, TypeOK
  <2>3. request[f].amount.exact =>
          /\ refunded[q] + request[f].amount.value <= AmountOf[q]
          /\ c = "equal" => refunded[q] + request[f].amount.value = AmountOf[q]
    BY <1>4 DEF Reads
  <2>4. HeldSums'
    <3> SUFFICES ASSUME NEW g \in Refunder, NEW p \in Payment, Holds(g, p)'
        PROVE  /\ met'[p] \cap {"inexact", "lowered"} = {} =>
                    request'[g].totalRefunded <= refunded'[p]
               /\ request'[g].amount.exact =>
                    /\ request'[g].totalRefunded + request'[g].amount.value <= AmountOf[p]
                    /\ request'[g].compared = "equal" =>
                         request'[g].totalRefunded + request'[g].amount.value = AmountOf[p]
      BY DEF HeldSums
    <3>1. CASE g = f
      BY <1>2, <2>1, <2>3, <3>1 DEF Holds
    <3>2. CASE g # f
      <4>1. Holds(g, p) /\ request'[g] = request[g]
        BY <2>1, <3>2 DEF Holds
      <4> QED BY <1>2, <2>2, <4>1 DEF RefundInv, HeldSums
    <3> QED BY <3>1, <3>2
  <2>5. ASSUME NEW p \in Payment PROVE Alone(p)'
    BY <1>2, <2>1, <2>2 DEF Alone, Holds, RefundInv
  <2>6. RefundedIsCovered'
    BY <1>2, <2>2 DEF RefundInv, RefundedIsCovered
  <2>7. StatusFollowsSum'
    BY <1>2, <2>2 DEF RefundInv, StatusFollowsSum
  <2> QED BY <2>4, <2>5, <2>6, <2>7 DEF RefundInv
<1> QED BY <1>1, <1>3, <1>4, SumFacts

\* What the stored refund makes its payment meet.
LEMMA MeetsFacts ==
  ASSUME NEW f \in Refunder, NEW q, q = request[f].pay
  PROVE  /\ ~request[f].amount.exact => "inexact" \in Meets(f)
         /\ request[f].amount.value < 0 /\ status[q] = "REFUNDED" => "lowered" \in Meets(f)
         /\ \A g \in Refunder : request[f].amount.value < 0 /\ g # f /\ Holds(g, q)
              => "lowered" \in Meets(f)
         /\ request[f].amount.exact /\ request[f].compared = "below"
              /\ request[f].totalRefunded + request[f].amount.value = AmountOf[q]
              => "rounded" \in Meets(f)
  BY DEF Meets

\* The transaction ends the hold, and the total grows by a refund that fitted.
LEMMA CommitKeepsInv ==
  ASSUME TypeOK, RefundInv, NEW f \in Refunder, CommitRefund(f)
  PROVE  RefundInv'
<1>1. PICK q \in Payment, a \in Int, t \in Int :
        /\ q = request[f].pay /\ a = request[f].amount.value /\ t = request[f].totalRefunded
        /\ Holds(f, q)
  BY SentRequest, CommitFacts DEF Holds
<1>2. /\ request[f].compared \in {"below", "equal"}
      /\ request[f].amount.exact \in BOOLEAN
      /\ \A p \in Payment : AmountOf[p] \in Int /\ refunded[p] \in Int
  BY CommitFacts, RefundsAssumption DEF Sent, Amounts, TypeOK
<1>3. /\ met[q] \cap {"inexact", "lowered"} = {} => t <= refunded[q]
      /\ request[f].amount.exact =>
           /\ t + a <= AmountOf[q]
           /\ request[f].compared = "equal" => t + a = AmountOf[q]
  BY <1>1 DEF RefundInv, HeldSums
<1>4. /\ \A g \in Refunder : g # f => request'[g] = request[g]
      /\ \A p \in Payment : ~Holds(f, p)'
  BY CommitFacts, MovedRequest DEF Holds, RequestPC
<1>5. \A g \in Refunder, p \in Payment :
        Holds(g, p)' => g # f /\ Holds(g, p) /\ request'[g] = request[g]
  BY <1>4 DEF Holds
<1>6. CASE UNCHANGED <<refunded, status, met>>
  BY <1>5, <1>6, HoldsKept
<1>7. CASE Store(f)
  <2>1. /\ refunded'[q] = refunded[q] + a
        /\ request[f].compared = "equal" => status'[q] = "REFUNDED"
        /\ request[f].compared = "below" => status'[q] = status[q]
        /\ met'[q] = met[q] \cup Meets(f)
        /\ \A p \in Payment : p # q =>
             refunded'[p] = refunded[p] /\ status'[p] = status[p] /\ met'[p] = met[p]
    BY <1>1, <1>7 DEF Store, WriteRefund, TypeOK
  <2>2. HeldSums'
    <3> SUFFICES ASSUME NEW g \in Refunder, NEW p \in Payment, Holds(g, p)',
                        met'[p] \cap {"inexact", "lowered"} = {}
                 PROVE  request'[g].totalRefunded <= refunded'[p]
      BY <1>5 DEF HeldSums, RefundInv
    <3>1. g # f /\ request'[g] = request[g] /\ Holds(g, p)
      BY <1>5
    <3>2. request[g].totalRefunded \in Int
      BY <3>1, SentRequest DEF Holds
    <3>3. CASE p # q
      BY <2>1, <3>1, <3>3 DEF HeldSums, RefundInv
    <3>4. CASE p = q
      <4>1. a >= 0 /\ met[q] \cap {"inexact", "lowered"} = {}
        BY <1>1, <2>1, <3>1, <3>4, MeetsFacts
      <4>2. request[g].totalRefunded <= refunded[q]
        BY <3>1, <3>4, <4>1 DEF HeldSums, RefundInv
      <4> QED BY <1>2, <2>1, <3>1, <3>2, <3>4, <4>1, <4>2
    <3> QED BY <3>3, <3>4
  <2>3. RefundedIsCovered'
    <3> SUFFICES ASSUME status'[q] = "REFUNDED", met'[q] \cap {"inexact", "lowered"} = {}
                 PROVE  refunded'[q] >= AmountOf[q]
      BY <2>1 DEF RefundedIsCovered, RefundInv
    <3>1. met[q] \cap {"inexact", "lowered"} = {} /\ request[f].amount.exact
      BY <1>1, <1>2, <2>1, MeetsFacts
    <3>2. CASE request[f].compared = "equal"
      BY <1>2, <1>3, <2>1, <3>1, <3>2
    <3>3. CASE request[f].compared = "below"
      <4>1. status[q] = "REFUNDED" /\ a >= 0
        BY <1>1, <2>1, <3>3, MeetsFacts
      <4>2. refunded[q] >= AmountOf[q]
        BY <3>1, <4>1 DEF RefundedIsCovered, RefundInv
      <4> QED BY <1>2, <2>1, <4>1, <4>2
    <3> QED BY <1>2, <3>2, <3>3
  <2>4. ASSUME met'[q] \cap {"overlap", "inexact"} = {}
        PROVE  request[f].amount.exact /\ t = refunded[q] /\ t + a <= AmountOf[q]
    BY <1>1, <1>2, <1>3, <2>1, <2>4, MeetsFacts DEF Alone, RefundInv
  <2>5. ASSUME NEW p \in Payment PROVE Alone(p)'
    <3>1. CASE p # q
      BY <1>5, <2>1, <3>1 DEF Alone, RefundInv
    <3>2. CASE p = q
      <4> SUFFICES ASSUME met'[q] \cap {"overlap", "inexact"} = {}
                   PROVE  /\ refunded'[q] <= AmountOf[q]
                          /\ \A g \in Refunder : ~Holds(g, q)'
        BY <3>2 DEF Alone
      <4>1. \A g \in Refunder : ~Holds(g, q)'
        BY <1>1, <1>5, <2>1 DEF Alone, RefundInv
      <4> QED BY <2>1, <2>4, <4>1
    <3> QED BY <3>1, <3>2
  <2>6. StatusFollowsSum'
    <3>1. ASSUME met'[q] \subseteq {"rewritten", "rounded"}, status'[q] = "REFUNDED"
          PROVE  refunded'[q] = AmountOf[q]
      <4>1. /\ request[f].amount.exact /\ t = refunded[q] /\ t + a <= AmountOf[q]
            /\ met[q] \subseteq {"rewritten", "rounded"} /\ "lowered" \notin Meets(f)
        BY <2>1, <2>4, <3>1
      <4>2. CASE request[f].compared = "equal"
        BY <1>3, <2>1, <4>1, <4>2
      <4>3. CASE request[f].compared = "below"
        <5>1. status[q] = "REFUNDED" /\ a >= 0
          BY <1>1, <2>1, <3>1, <4>1, <4>3, MeetsFacts
        <5>2. refunded[q] = AmountOf[q]
          BY <4>1, <5>1 DEF StatusFollowsSum, RefundInv
        <5> QED BY <1>2, <2>1, <4>1, <5>1, <5>2
      <4> QED BY <1>2, <4>2, <4>3
    <3>2. ASSUME met'[q] \subseteq {"lowered"}, refunded'[q] = AmountOf[q]
          PROVE  status'[q] = "REFUNDED"
      <4>1. /\ request[f].amount.exact /\ t = refunded[q] /\ "rounded" \notin Meets(f)
        BY <2>1, <2>4, <3>2
      <4>2. request[f].compared # "below"
        <5>1. request[f].totalRefunded + request[f].amount.value = AmountOf[q]
          BY <1>1, <2>1, <3>2, <4>1
        <5> QED BY <1>1, <4>1, <5>1, MeetsFacts
      <4> QED BY <1>2, <2>1, <4>2
    <3> QED BY <2>1, <3>1, <3>2 DEF StatusFollowsSum, RefundInv
  <2> QED BY <2>2, <2>3, <2>5, <2>6 DEF RefundInv
<1> QED BY <1>6, <1>7, CommitFacts

\* The invariant holds in every reachable state.
THEOREM RefundInvCorrect == Spec => [](TypeOK /\ RefundInv)
<1>1. Init => RefundInv
  BY RefundsAssumption
  DEF Init, RefundInv, HeldSums, RefundedIsCovered, Alone, StatusFollowsSum, Holds, Unsent
<1>2. ASSUME TypeOK, RefundInv, [Next]_vars PROVE RefundInv'
  <2>1. ASSUME NEW p \in Payment, StatusWritten(p) PROVE RefundInv'
    <3>1. /\ request' = request /\ refunded' = refunded
          /\ met'[p] = met[p] \cup {"rewritten"} /\ status'[p] # "REFUNDED"
          /\ \A q \in Payment : q # p => status'[q] = status[q] /\ met'[q] = met[q]
      BY <1>2, <2>1 DEF StatusWritten, TypeOK
    <3>2. HeldSums' /\ \A q \in Payment : Alone(q)'
      BY <1>2, <3>1 DEF RefundInv, HeldSums, Alone, Holds
    <3>3. RefundedIsCovered'
      BY <1>2, <3>1 DEF RefundInv, RefundedIsCovered
    <3>4. StatusFollowsSum'
      BY <1>2, <3>1 DEF RefundInv, StatusFollowsSum
    <3> QED BY <3>2, <3>3, <3>4 DEF RefundInv
  <2>2. CASE UNCHANGED vars
    BY <1>2, <2>2, HoldsKept DEF vars, Holds
  <2> QED
    BY <1>2, <2>1, <2>2, CheckKeepsInv, SumKeepsInv, CommitKeepsInv DEF Next
<1> QED BY <1>1, <1>2, InitTyped, TypePreserved, PTL DEF Spec

\* A payment in REFUNDED was given back in full, under any interleaving of
\* refunds of whole units, but for a negative one nothing accounted for.
THEOREM RefundedIsCoveredCorrect == Spec => []RefundedIsCovered
<1>1. RefundInv => RefundedIsCovered
  BY DEF RefundInv
<1> QED BY <1>1, RefundInvCorrect, PTL

\* Giving back more than was paid takes two refunds that overlap, or an amount
\* that is no number of whole units.
THEOREM OverRefundNeedsOverlapCorrect == Spec => []OverRefundNeedsOverlap
<1>1. TypeOK /\ RefundInv => OverRefundNeedsOverlap
  BY RefundsAssumption DEF TypeOK, RefundInv, Alone, OverRefundNeedsOverlap
<1> QED BY <1>1, RefundInvCorrect, PTL

\* One refund of whole units at a time, status and sum agree, but for rounding.
THEOREM StatusFollowsSumCorrect == Spec => []StatusFollowsSum
<1>1. RefundInv => StatusFollowsSum
  BY DEF RefundInv
<1> QED BY <1>1, RefundInvCorrect, PTL
=============================================================================
