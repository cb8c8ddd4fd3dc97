-------------------------- MODULE IdempotentCreate --------------------------
(***************************************************************************)
(* What an idempotency key promises the clients of POST /payments: at most *)
(* one payment is ever accepted under a key, and every request that is     *)
(* answered gets that payment, whatever order the requests, their failures *)
(* and their retries come in.  Nothing is said about who is answered, or   *)
(* when.                                                                   *)
(***************************************************************************)
CONSTANTS Request, Key, KeyOf, NoRequest

VARIABLES
  accepted,   \* the payments accepted under each key, named by their request
  answer      \* the payment each request was answered with

contractVars == <<accepted, answer>>

Init ==
  /\ accepted = [k \in Key |-> {}]
  /\ answer = [r \in Request |-> NoRequest]

\* A request's payment becomes the one of its key.
Accept(r) ==
  /\ accepted[KeyOf[r]] = {}
  /\ accepted' = [accepted EXCEPT ![KeyOf[r]] = {r}]
  /\ UNCHANGED answer

\* A request is answered, once, with the payment of its key.
Answer(r) ==
  /\ answer[r] = NoRequest
  /\ \E p \in accepted[KeyOf[r]] : answer' = [answer EXCEPT ![r] = p]
  /\ UNCHANGED accepted

Next == \E r \in Request : Accept(r) \/ Answer(r)

Spec == Init /\ [][Next]_contractVars
=============================================================================
