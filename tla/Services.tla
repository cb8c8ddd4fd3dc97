------------------------------ MODULE Services ------------------------------
(***************************************************************************)
(* The calls processPayment makes to the Python services, each behind the  *)
(* circuit breaker of its service (integrations/circuit-breaker.ts,        *)
(* python-services.ts).  A breaker is shared by all payments in progress:  *)
(* what one payment's call meets decides whether the next one's is made.   *)
(* A call that fails or is not made is replaced by the caller's fallback.  *)
(*                                                                         *)
(* Money is left out: of a conversion the model keeps whether the amount   *)
(* was converted by the service or passed on at rate 1.0.                  *)
(***************************************************************************)
EXTENDS Naturals, FiniteSets

CONSTANTS Payment,         \* payments in progress
          Mixes,           \* what each is like: the fraud rules it meets, its currency,
                           \* whether the fraud service can read its metadata
          VolumeThreshold, \* volumeThreshold
          ErrorThreshold,  \* CIRCUIT_BREAKER_ERROR_THRESHOLD, per cent
          MaxOutages       \* bound: times a service stops working

Service == {"fraud", "tax", "currency"}
Rule == {"HIGH_AMOUNT", "SUSPICIOUS_AMOUNT", "HIGH_RISK_COUNTRY", "ANONYMOUS_HIGH_VALUE"}

\* The country is read from the metadata: the rule about it needs both.
Traits == {t \in [rules : SUBSET Rule, currency : {"USD", "supported", "unsupported"},
                  readable : BOOLEAN] :
             "HIGH_RISK_COUNTRY" \in t.rules => t.readable}

ASSUME ServicesAssumption ==
  /\ IsFiniteSet(Payment)
  /\ Mixes \subseteq [Payment -> Traits]
  /\ VolumeThreshold \in Nat /\ ErrorThreshold \in 0..100 /\ MaxOutages \in Nat

VARIABLES state,    \* per service: the breaker's state
          fires,    \* calls of the rolling ten seconds, rejected ones too
          failures, \* failed calls of the rolling ten seconds
          trial,    \* the breaker, half open, has let its one call through
          down,     \* services that do not work: a call to one hangs or errs
          broke,    \* history: services that failed a call because they were down
          outages,
          pay       \* per payment: step, call sent, traits, results so far

breakers == <<state, fires, failures, trial>>
health == <<down, broke, outages>>
vars == <<breakers, health, pay>>

Sent(s) == {p \in Payment : pay[p].at = s /\ pay[p].sent}

\* FraudService.check: the points of the rules a payment meets, at most 100.
\* The rule about the client's address never applies: no address is sent.
Score(rules) ==
  LET Points(rule, n) == IF rule \in rules THEN n ELSE 0
      sum == Points("HIGH_AMOUNT", 30) + Points("SUSPICIOUS_AMOUNT", 15)
               + Points("HIGH_RISK_COUNTRY", 40) + Points("ANONYMOUS_HIGH_VALUE", 20)
  IN IF sum > 100 THEN 100 ELSE sum

\* Mutant of Recommendation: reviewed up to 90 points.
RecommendationLate(score) ==
  IF score < 30 THEN "APPROVE" ELSE IF score <= 90 THEN "REVIEW" ELSE "REJECT"

Recommendation(score) ==
  IF score < 30 THEN "APPROVE" ELSE IF score < 70 THEN "REVIEW" ELSE "REJECT"

\* The fraudScore stored with the payment; the fallback's score is 50.
FraudScore(p) == IF pay[p].got["fraud"] = "fallback" THEN 50 ELSE Score(pay[p].traits.rules)

\* Mutant of After: the recommendation is not looked at.
AfterAnyScore(p, s, result) ==
  CASE s = "fraud" -> "tax"
    [] s = "tax"   -> IF pay[p].traits.currency = "USD" THEN "success" ELSE "currency"
    [] OTHER       -> "success"

\* The step after a result: a payment the fraud service rejects ends, and US
\* dollars are not converted.
After(p, s, result) ==
  CASE s = "fraud" -> IF result = "answer" /\ Recommendation(Score(pay[p].traits.rules)) = "REJECT"
                      THEN "rejected" ELSE "tax"
    [] s = "tax"   -> IF pay[p].traits.currency = "USD" THEN "success" ELSE "currency"
    [] OTHER       -> "success"

\* Mutant of Fallback: the caught error leaves the result undefined.
FallbackUndefined(s) == "none"

\* What the catch block of checkFraud, calculateTax and convertCurrency gives.
Fallback(s) == "fallback"

\* runFraudThresholdScan: the payments it counts.
Counted(p) == pay[p].at = "success" /\ FraudScore(p) >= 80

Proceed(p, s, result) ==
  pay' = [pay EXCEPT ![p].at = After(p, s, result), ![p].sent = FALSE,
                     ![p].got[s] = result]

\* Mutant of FailsFast: a single failure of the window keeps calls back.
FailsFastEarly(s) == failures[s] > 0 \/ state[s] = "open"

\* The breaker is open, or half open with its one call on the way.
FailsFast(s) == state[s] = "open" \/ (state[s] = "halfOpen" /\ trial[s])

\* breaker.fire: the call is made, or the fallback taken at once.
Fire(p) ==
  LET s == pay[p].at IN
  /\ s \in Service /\ ~pay[p].sent
  /\ fires' = [fires EXCEPT ![s] = @ + 1]
  /\ IF FailsFast(s)
     THEN Proceed(p, s, Fallback(s)) /\ UNCHANGED trial
     ELSE /\ pay' = [pay EXCEPT ![p].sent = TRUE]
          /\ trial' = [trial EXCEPT ![s] = state[s] = "halfOpen"]
  /\ UNCHANGED <<state, failures, health>>

\* CurrencyService.convert raises for a pair it has no rate of: HTTP 500.  The
\* fraud service answers 422 to metadata that is no object, and 500 when the
\* country in it is an array or an object, which no set can be asked for;
\* metadata comes from the body of POST /payments as it is.
Refuses(p, s) ==
  \/ s = "currency" /\ pay[p].traits.currency = "unsupported"
  \/ s = "fraud" /\ ~pay[p].traits.readable

\* A call failed: counted, and the breaker opens on the failure rate, or at
\* once when it was half open.
Failed(s) ==
  /\ failures' = [failures EXCEPT ![s] = @ + 1]
  /\ state' = [state EXCEPT ![s] =
                 IF \/ @ = "halfOpen"
                    \/ /\ fires[s] >= VolumeThreshold
                       /\ 100 * failures'[s] > ErrorThreshold * fires[s]
                 THEN "open" ELSE @]
  /\ UNCHANGED <<fires, trial>>

\* A service that works answers in time, with a result or with a refusal.
Answer(p) ==
  LET s == pay[p].at IN
  /\ s \in Service \ down /\ pay[p].sent
  /\ IF Refuses(p, s)
     THEN Failed(s) /\ Proceed(p, s, Fallback(s))
     ELSE /\ state' = [state EXCEPT ![s] = IF @ = "halfOpen" THEN "closed" ELSE @]
          /\ Proceed(p, s, "answer")
          /\ UNCHANGED <<fires, failures, trial>>
  /\ UNCHANGED health

\* Mutant of TimesOut: no timeout, the call waits for its answer.
NeverTimesOut(s) == FALSE

\* CIRCUIT_BREAKER_TIMEOUT is over; an answer that comes later is ignored.
TimesOut(s) == s \in down

\* The call fails because of the service.
Breaks(p) ==
  LET s == pay[p].at IN
  /\ Failed(s)
  /\ Proceed(p, s, Fallback(s))
  /\ broke' = broke \cup {s}
  /\ UNCHANGED <<down, outages>>

TimeOut(p) ==
  /\ pay[p].at \in Service /\ pay[p].sent /\ TimesOut(pay[p].at)
  /\ Breaks(p)

\* The connection is refused or breaks, or the answer is an error (5xx).
Errs(p) ==
  /\ pay[p].at \in down /\ pay[p].sent
  /\ Breaks(p)

\* CIRCUIT_BREAKER_RESET_TIMEOUT, 30 s: the calls sent before have timed out.
HalfOpen(s) ==
  /\ state[s] = "open" /\ Sent(s) = {}
  /\ state' = [state EXCEPT ![s] = "halfOpen"]
  /\ trial' = [trial EXCEPT ![s] = FALSE]
  /\ UNCHANGED <<fires, failures, health, pay>>

\* Ten seconds without a call: the rolling window is empty.
Roll(s) ==
  /\ fires[s] > 0 /\ Sent(s) = {}
  /\ fires' = [fires EXCEPT ![s] = 0]
  /\ failures' = [failures EXCEPT ![s] = 0]
  /\ UNCHANGED <<state, trial, health, pay>>

GoDown(s) ==
  /\ s \notin down /\ outages < MaxOutages
  /\ down' = down \cup {s}
  /\ outages' = outages + 1
  /\ UNCHANGED <<breakers, broke, pay>>

ComeBack(s) ==
  /\ s \in down
  /\ down' = down \ {s}
  /\ UNCHANGED <<breakers, broke, outages, pay>>

Init ==
  /\ state = [s \in Service |-> "closed"]
  /\ fires = [s \in Service |-> 0] /\ failures = [s \in Service |-> 0]
  /\ trial = [s \in Service |-> FALSE]
  /\ down = {} /\ broke = {} /\ outages = 0
  /\ \E mix \in Mixes :
       pay = [p \in Payment |-> [at |-> "fraud", sent |-> FALSE, traits |-> mix[p],
                                got |-> [s \in Service |-> "none"]]]

Assess(p) == Fire(p) \/ Answer(p) \/ TimeOut(p)

Next ==
  \/ \E p \in Payment : Assess(p) \/ Errs(p)
  \/ \E s \in Service : HalfOpen(s) \/ Roll(s) \/ GoDown(s) \/ ComeBack(s)

Spec == Init /\ [][Next]_vars

\* The worker takes each payment and goes on with it, and the breaker's
\* timeout fires; services need not come back, and one that is down need not
\* say so with an error.
FairSpec == Spec /\ \A p \in Payment : WF_vars(Assess(p))
-----------------------------------------------------------------------------
\* A payment past a step has the result of that step, from the service or
\* from the fallback; a half-open breaker has one call on the way at most.
TypeOK ==
  /\ state \in [Service -> {"closed", "open", "halfOpen"}]
  /\ fires \in [Service -> Nat] /\ failures \in [Service -> Nat]
  /\ trial \in [Service -> BOOLEAN]
  /\ down \subseteq Service /\ broke \subseteq Service /\ outages \in 0..MaxOutages
  /\ pay \in [Payment -> [at : Service \cup {"rejected", "success"},
                          sent : BOOLEAN, traits : Traits,
                          got : [Service -> {"none", "answer", "fallback"}]]]
  /\ \A p \in Payment : pay[p].at # "fraud" => pay[p].got["fraud"] # "none"
  /\ \A s \in Service : state[s] = "halfOpen" => Cardinality(Sent(s)) <= 1

\* The payments service s refused, or would have; enough of them for its
\* breaker to open on their refusals.
Refused(s) == {p \in Payment : Refuses(p, s) /\ pay[p].got[s] = "fallback"}
Flooded(s) == 100 * Cardinality(Refused(s)) > ErrorThreshold * VolumeThreshold

\* A payment in a currency the service knows is stored unconverted at rate
\* 1.0 (python-services.ts:120) only after the service broke down under a call,
\* or after enough payments in currencies it does not know failed to open the
\* breaker for all: their refusals count as failures (circuit-breaker.ts:10-19).
WrongRateNeedsCause ==
  \A p \in Payment :
    pay[p].at = "success" /\ pay[p].traits.currency = "supported"
      /\ pay[p].got["currency"] = "fallback"
    => "currency" \in broke \/ Flooded("currency")

\* A payment the fraud service rejects succeeds only after that service broke
\* down under a call, this payment's or another's, or after enough payments
\* with metadata it cannot read were refused to open the breaker for all
\* (python-services.ts:74-76).
RejectableNeedsCause ==
  \A p \in Payment :
    pay[p].at = "success" /\ Recommendation(Score(pay[p].traits.rules)) = "REJECT"
    => "fraud" \in broke \/ Flooded("fraud")

\* The fraud threshold scan, which warns of payments in SUCCESS with a score
\* of 80 or more (scheduler.worker.ts:117-124), never counts any: scores that
\* high are rejected before, and the fallback's is 50.
ScanCountsNothing == \A p \in Payment : ~Counted(p)

\* Every assessment that was begun ends, whatever the services do.
AssessmentEnds ==
  \A p \in Payment : pay[p].at \in Service ~> pay[p].at \in {"rejected", "success"}
=============================================================================
