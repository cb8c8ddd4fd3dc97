---------------------------- MODULE ServicesProofs ----------------------------
(* Proofs of the safety properties of Services, for any constants.            *)
EXTENDS Services, FiniteSetTheorems, TLAPS

(***************************************************************************)
(* The inductive invariant.                                                *)
(***************************************************************************)

Results == {"none", "answer", "fallback"}
Assessment == [at : Service \cup {"rejected", "success"}, sent : BOOLEAN, traits : Traits,
               got : [Service -> Results]]

Types ==
  /\ state \in [Service -> {"closed", "open", "halfOpen"}]
  /\ fires \in [Service -> Nat] /\ failures \in [Service -> Nat]
  /\ trial \in [Service -> BOOLEAN]
  /\ down \subseteq Service /\ broke \subseteq Service /\ outages \in 0..MaxOutages
  /\ pay \in [Payment -> Assessment]

\* A payment has the result of the fraud service once it is past it, one the
\* service let pass or no answer, and of no service it has not passed.
ResultsInOrder ==
  \A p \in Payment :
    /\ pay[p].at # "fraud" => pay[p].got["fraud"] # "none"
    /\ pay[p].at \notin {"fraud", "rejected"} /\ pay[p].got["fraud"] = "answer"
         => Recommendation(Score(pay[p].traits.rules)) # "REJECT"
    /\ pay[p].at = "fraud" => pay[p].got["fraud"] = "none"
    /\ pay[p].at \in {"fraud", "tax"} => pay[p].got["tax"] = "none"
    /\ pay[p].at \in Service => pay[p].got["currency"] = "none"

\* A half-open breaker that has not let its one call through has none on the
\* way, and one at most if it has.
OneTrial ==
  \A s \in Service : state[s] = "halfOpen" =>
    /\ ~trial[s] => Sent(s) = {}
    /\ \A p, q \in Sent(s) : p = q

\* Until a service breaks down, the failures its breaker counts are refusals,
\* and the breaker opens, and costs others their results, on those.
Serves(s) ==
  s \notin broke =>
    /\ failures[s] <= Cardinality(Refused(s))
    /\ state[s] # "closed" => Flooded(s)
    /\ \A p \in Payment : pay[p].got[s] = "fallback" /\ ~Refuses(p, s) => Flooded(s)

Inv == Types /\ ResultsInOrder /\ OneTrial /\ \A s \in Service : Serves(s)

(***************************************************************************)
(* The pieces of a step.                                                   *)
(***************************************************************************)

\* The score of a set of rules is a natural number.
LEMMA ScoreType == ASSUME NEW rules PROVE Score(rules) \in Nat
  BY DEF Score

\* A payment is rejected from seventy points on.
LEMMA PassedScore ==
  ASSUME NEW rules, Recommendation(Score(rules)) # "REJECT"
  PROVE  Score(rules) < 70
  BY ScoreType DEF Recommendation

\* The points of the country's rule are needed to be rejected, so the metadata
\* was read.
LEMMA RejectedReads ==
  ASSUME NEW t \in Traits, Recommendation(Score(t.rules)) = "REJECT"
  PROVE  t.readable
<1>1. Score(t.rules) >= 70
  BY ScoreType DEF Recommendation
<1>2. CASE "HIGH_RISK_COUNTRY" \in t.rules
  BY <1>2 DEF Traits
<1>3. CASE "HIGH_RISK_COUNTRY" \notin t.rules
  BY <1>1, <1>3 DEF Score
<1> QED BY <1>2, <1>3

\* Where a payment goes with a result.
LEMMA AfterFacts ==
  ASSUME NEW p \in Payment, NEW s \in Service, NEW result
  PROVE  /\ After(p, s, result) \in {"tax", "currency", "success", "rejected"}
         /\ s = "currency" => After(p, s, result) = "success"
         /\ s # "fraud" => After(p, s, result) # "rejected"
         /\ s = "fraud" /\ result = "answer" /\ After(p, s, result) # "rejected"
              => Recommendation(Score(pay[p].traits.rules)) # "REJECT"
  BY DEF After, Service

\* A payment takes its result and goes on.
Moves(p, s, result) ==
  /\ s = pay[p].at
  /\ pay' \in [Payment -> Assessment]
  /\ \A q \in Payment : q # p => pay'[q] = pay[q]
  /\ pay'[p].traits = pay[p].traits
  /\ pay'[p].at = After(p, s, result)
  /\ ~pay'[p].sent
  /\ pay'[p].got[s] = result
  /\ \A u \in Service : u # s => pay'[p].got[u] = pay[p].got[u]

\* What Proceed does to a request.
LEMMA ProceedFacts ==
  ASSUME Types, NEW p \in Payment, NEW s \in Service, s = pay[p].at,
         NEW result \in Results, Proceed(p, s, result)
  PROVE  Moves(p, s, result)
<1>1. pay[p] \in Assessment /\ pay[p].got \in [Service -> Results]
  BY DEF Types, Assessment
<1> DEFINE got == [pay[p].got EXCEPT ![s] = result]
           at  == After(p, s, result)
<1>2. /\ got \in [Service -> Results] /\ got[s] = result
      /\ \A u \in Service : u # s => got[u] = pay[p].got[u]
  BY <1>1
<1>3. at \in Service \cup {"rejected", "success"}
  BY AfterFacts DEF Service
<1> HIDE DEF at
<1>4. pay' = [pay EXCEPT ![p].at = at, ![p].sent = FALSE, ![p].got[s] = result]
  BY DEF Proceed, at
<1>5. pay' = [pay EXCEPT ![p] = [pay[p] EXCEPT !.at = at, !.sent = FALSE, !.got = got]]
  BY <1>1, <1>4 DEF Types, Assessment
<1> HIDE DEF got
<1>6. [pay[p] EXCEPT !.at = at, !.sent = FALSE, !.got = got] \in Assessment
  BY <1>1, <1>2, <1>3 DEF Assessment
<1>7. /\ pay' \in [Payment -> Assessment]
      /\ pay'[p] = [pay[p] EXCEPT !.at = at, !.sent = FALSE, !.got = got]
      /\ \A q \in Payment : q # p => pay'[q] = pay[q]
  BY <1>5, <1>6 DEF Types
<1> QED BY <1>1, <1>2, <1>7 DEF Moves, Assessment, at

\* A failed call: counted, and the breaker may open.
LEMMA FailedFacts ==
  ASSUME Types, NEW s \in Service, Failed(s)
  PROVE  /\ failures' \in [Service -> Nat] /\ failures'[s] = failures[s] + 1
         /\ state' \in [Service -> {"closed", "open", "halfOpen"}]
         /\ state'[s] \in {state[s], "open"} /\ state'[s] # "halfOpen"
         /\ state[s] = "closed" /\ state'[s] # "closed" =>
              /\ fires[s] >= VolumeThreshold
              /\ 100 * failures'[s] > ErrorThreshold * fires[s]
         /\ \A u \in Service : u # s => failures'[u] = failures[u] /\ state'[u] = state[u]
         /\ UNCHANGED <<fires, trial>>
<1>1. /\ failures' \in [Service -> Nat] /\ failures'[s] = failures[s] + 1
      /\ UNCHANGED <<fires, trial>>
  BY DEF Failed, Types
<1>2. state' = [state EXCEPT ![s] =
                 IF \/ state[s] = "halfOpen"
                    \/ /\ fires[s] >= VolumeThreshold
                       /\ 100 * failures'[s] > ErrorThreshold * fires[s]
                 THEN "open" ELSE state[s]]
  BY DEF Failed
<1>3. \A u \in Service : u # s => failures'[u] = failures[u] /\ state'[u] = state[u]
  BY <1>2 DEF Failed, Types
<1> QED BY <1>1, <1>2, <1>3 DEF Types

(***************************************************************************)
(* What a payment's step keeps.                                            *)
(***************************************************************************)

\* Results come in order.
LEMMA MovesResults ==
  ASSUME Inv, NEW p \in Payment, NEW s \in Service, NEW result \in {"answer", "fallback"},
         Moves(p, s, result)
  PROVE  ResultsInOrder'
<1> SUFFICES ASSUME NEW q \in Payment
             PROVE  /\ pay'[q].at # "fraud" => pay'[q].got["fraud"] # "none"
                    /\ pay'[q].at \notin {"fraud", "rejected"} /\ pay'[q].got["fraud"] = "answer"
                         => Recommendation(Score(pay'[q].traits.rules)) # "REJECT"
                    /\ pay'[q].at = "fraud" => pay'[q].got["fraud"] = "none"
                    /\ pay'[q].at \in {"fraud", "tax"} => pay'[q].got["tax"] = "none"
                    /\ pay'[q].at \in Service => pay'[q].got["currency"] = "none"
  BY DEF ResultsInOrder
<1>1. CASE q # p
  BY <1>1 DEF Moves, Inv, ResultsInOrder
<1>2. CASE q = p /\ s = "fraud"
  <2>1. /\ pay'[p].got["fraud"] = result /\ pay'[p].traits = pay[p].traits
        /\ pay'[p].at = After(p, "fraud", result)
        /\ pay'[p].got["currency"] = pay[p].got["currency"]
        /\ pay'[p].got["tax"] = pay[p].got["tax"]
    BY <1>2 DEF Moves, Service
  <2>2. pay[p].got["currency"] = "none" /\ pay[p].got["tax"] = "none"
    BY <1>2 DEF Moves, Inv, ResultsInOrder
  <2> QED BY <1>2, <2>1, <2>2, AfterFacts DEF Service
<1>3. CASE q = p /\ s # "fraud"
  <2>0. s \in {"tax", "currency"} /\ After(p, s, result) \in {"currency", "success"}
    BY <1>3 DEF After, Service
  <2>1. /\ pay'[p].traits = pay[p].traits /\ pay[p].at = s
        /\ pay'[p].at = After(p, s, result) /\ After(p, s, result) \in {"currency", "success"}
        /\ pay'[p].got["fraud"] = pay[p].got["fraud"] /\ s \in {"tax", "currency"}
    BY <1>3, <2>0 DEF Moves, Service
  <2>2. /\ pay[p].got["fraud"] # "none"
        /\ pay[p].got["fraud"] = "answer" => Recommendation(Score(pay[p].traits.rules)) # "REJECT"
    BY <2>1 DEF Inv, ResultsInOrder
  <2>3. pay'[p].at \in Service => pay'[p].got["currency"] = "none"
    <3>1. CASE s = "tax"
      BY <2>1, <3>1 DEF Moves, Inv, ResultsInOrder, Service
    <3>2. CASE s = "currency"
      <4>1. After(p, s, result) = "success"
        BY <3>2 DEF After
      <4> QED BY <2>1, <4>1 DEF Service
    <3> QED BY <2>1, <3>1, <3>2
  <2> QED BY <1>3, <2>1, <2>2, <2>3
<1> QED BY <1>1, <1>2, <1>3

\* No more calls are on their way than before.
LEMMA MovesTrial ==
  ASSUME Inv, NEW p \in Payment, NEW s \in Service, NEW result \in {"answer", "fallback"},
         Moves(p, s, result), UNCHANGED trial,
         \A u \in Service : state'[u] = "halfOpen" => state[u] = "halfOpen"
  PROVE  OneTrial'
<1>1. \A u \in Service : Sent(u)' \subseteq Sent(u)
  BY DEF Moves, Sent
<1> QED BY <1>1 DEF Inv, OneTrial

\* The refused payments grow by the one that moves, if it is refused.
LEMMA MovesRefused ==
  ASSUME Inv, NEW p \in Payment, NEW s \in Service, NEW result \in {"answer", "fallback"},
         Moves(p, s, result), NEW u \in Service
  PROVE  /\ Cardinality(Refused(u)) \in Nat /\ Cardinality(Refused(u)') \in Nat
         /\ \A q \in Payment : Refuses(q, u)' <=> Refuses(q, u)
         /\ Cardinality(Refused(u)) <= Cardinality(Refused(u)')
         /\ u = s /\ result = "fallback" /\ Refuses(p, u)
              => Cardinality(Refused(u)') = Cardinality(Refused(u)) + 1
         /\ Flooded(u) => Flooded(u)'
<1>1. Refused(u) \subseteq Payment /\ IsFiniteSet(Payment)
  BY ServicesAssumption DEF Refused
<1>2. \A q \in Payment : Refuses(q, u)' <=> Refuses(q, u)
  BY DEF Moves, Refuses
<1>3. \A q \in Payment : q # p => (q \in Refused(u)' <=> q \in Refused(u))
  BY <1>2 DEF Moves, Refused
<1>4. u = s => p \notin Refused(u)
  <2>1. u = s => pay[p].got[u] = "none"
    BY DEF Moves, Inv, ResultsInOrder, Service
  <2> QED BY <2>1 DEF Refused
<1>5. u # s => (p \in Refused(u)' <=> p \in Refused(u))
  BY <1>2 DEF Moves, Refused
<1>6. u = s /\ result = "fallback" /\ Refuses(p, u) => p \in Refused(u)'
  BY <1>2 DEF Moves, Refused
<1>7. Refused(u)' \in {Refused(u), Refused(u) \cup {p}} /\ Refused(u)' \subseteq Payment
  BY <1>3, <1>4, <1>5 DEF Refused
<1>8. /\ IsFiniteSet(Refused(u)) /\ IsFiniteSet(Refused(u)')
      /\ Cardinality(Refused(u)) \in Nat /\ Cardinality(Refused(u)') \in Nat
  BY <1>1, <1>7, FS_Subset, FS_CardinalityType
<1>9. Cardinality(Refused(u)) <= Cardinality(Refused(u)')
  BY <1>7, <1>8, FS_Subset
<1>10. u = s /\ result = "fallback" /\ Refuses(p, u)
         => Cardinality(Refused(u)') = Cardinality(Refused(u)) + 1
  BY <1>4, <1>6, <1>7, <1>8, FS_AddElement
<1>11. Flooded(u) => Flooded(u)'
  <2>1. Flooded(u)' = (100 * Cardinality(Refused(u)') > ErrorThreshold * VolumeThreshold)
    BY DEF Flooded
  <2>2. ErrorThreshold * VolumeThreshold \in Nat
    BY ServicesAssumption
  <2> QED BY <1>8, <1>9, <2>1, <2>2 DEF Flooded
<1> QED BY <1>2, <1>8, <1>9, <1>10, <1>11
(***************************************************************************)
(* Every step keeps the invariant.                                         *)
(***************************************************************************)

\* What a breaker may do, as a payment moves, without harm.
LEMMA MovesPreserves ==
  ASSUME Inv, NEW p \in Payment, NEW s \in Service, NEW result \in {"answer", "fallback"},
         Moves(p, s, result), UNCHANGED <<trial, down, outages>>,
         state' \in [Service -> {"closed", "open", "halfOpen"}],
         fires' \in [Service -> Nat], failures' \in [Service -> Nat],
         broke' \in {broke, broke \cup {s}},
         \A u \in Service : u # s => state'[u] = state[u] /\ failures'[u] = failures[u],
         state'[s] = "halfOpen" => state[s] = "halfOpen",
         s \notin broke' =>
           /\ failures'[s] <= Cardinality(Refused(s)')
           /\ state'[s] # "closed" => Flooded(s)'
           /\ result = "fallback" /\ ~Refuses(p, s) => Flooded(s)'
  PROVE  Inv'
<1>1. Types'
  BY DEF Inv, Types, Moves
<1>2. ResultsInOrder' /\ OneTrial'
  BY MovesResults, MovesTrial
<1>3. ASSUME NEW u \in Service PROVE Serves(u)'
  <2> SUFFICES ASSUME u \notin broke'
               PROVE  /\ failures'[u] <= Cardinality(Refused(u)')
                      /\ state'[u] # "closed" => Flooded(u)'
                      /\ \A q \in Payment :
                           pay'[q].got[u] = "fallback" /\ ~Refuses(q, u)' => Flooded(u)'
    BY DEF Serves
  <2>1. /\ failures[u] <= Cardinality(Refused(u)) /\ failures[u] \in Nat
        /\ state[u] # "closed" => Flooded(u)
        /\ \A q \in Payment : pay[q].got[u] = "fallback" /\ ~Refuses(q, u) => Flooded(u)
    BY DEF Inv, Types, Serves
  <2>2. /\ \A q \in Payment : Refuses(q, u)' <=> Refuses(q, u)
        /\ Cardinality(Refused(u)) \in Nat /\ Cardinality(Refused(u)') \in Nat
        /\ Cardinality(Refused(u)) <= Cardinality(Refused(u)')
        /\ Flooded(u) => Flooded(u)'
    BY MovesRefused
  <2>3. \A q \in Payment :
          q # p /\ pay'[q].got[u] = "fallback" /\ ~Refuses(q, u)' => Flooded(u)'
    BY <2>1, <2>2 DEF Moves
  <2>4. CASE u = s
    <3>1. pay'[p].got[u] = result
      BY <2>4 DEF Moves
    <3> QED BY <2>2, <2>3, <2>4, <3>1
  <2>5. CASE u # s
    <3>1. state'[u] = state[u] /\ failures'[u] = failures[u]
      BY <2>5
    <3>2. pay'[p].got[u] = pay[p].got[u]
      BY <2>5 DEF Moves
    <3> QED BY <2>1, <2>2, <2>3, <3>1, <3>2
  <2> QED BY <2>4, <2>5
<1> QED BY <1>1, <1>2, <1>3 DEF Inv

\* A call is made, or replaced at once.
LEMMA FirePreserves ==
  ASSUME Inv, NEW p \in Payment, Fire(p)
  PROVE  Inv'
<1>1. PICK s \in Service : s = pay[p].at
  BY DEF Fire
<1>2. /\ fires' \in [Service -> Nat] /\ ~pay[p].sent
      /\ UNCHANGED <<state, failures, health>>
  BY <1>1 DEF Fire, Inv, Types
<1>3. CASE FailsFast(s)
  <2>1. Proceed(p, s, "fallback") /\ UNCHANGED trial
    BY <1>1, <1>3 DEF Fire, Fallback
  <2>2. Moves(p, s, "fallback")
    BY <1>1, <2>1, ProceedFacts DEF Inv, Results
  <2>3. state[s] # "closed"
    BY <1>3 DEF FailsFast
  <2>4. s \notin broke => failures'[s] <= Cardinality(Refused(s)') /\ Flooded(s)'
    <3>1. s \notin broke => failures[s] <= Cardinality(Refused(s)) /\ Flooded(s)
      BY <2>3 DEF Inv, Serves
    <3>2. failures[s] \in Nat
      BY DEF Inv, Types
    <3> QED BY <1>2, <2>2, <3>1, <3>2, MovesRefused
  <2> QED BY <1>2, <2>1, <2>2, <2>4, MovesPreserves DEF Inv, Types, health
<1>4. CASE ~FailsFast(s)
  <2>1. /\ pay' = [pay EXCEPT ![p] = [pay[p] EXCEPT !.sent = TRUE]]
        /\ trial' = [trial EXCEPT ![s] = (state[s] = "halfOpen")]
    BY <1>1, <1>4 DEF Fire, Inv, Types
  <2>2. pay[p] \in Assessment /\ [pay[p] EXCEPT !.sent = TRUE] \in Assessment
    BY DEF Inv, Types, Assessment
  <2>3. /\ pay' \in [Payment -> Assessment]
        /\ pay'[p] = [pay[p] EXCEPT !.sent = TRUE]
        /\ \A q \in Payment : q # p => pay'[q] = pay[q]
    BY <2>1, <2>2 DEF Inv, Types
  <2>4. \A q \in Payment :
          /\ pay'[q].at = pay[q].at /\ pay'[q].traits = pay[q].traits
          /\ pay'[q].got = pay[q].got
          /\ q # p => pay'[q].sent = pay[q].sent
    BY <2>2, <2>3 DEF Assessment
  <2>5. trial' \in [Service -> BOOLEAN]
    BY <2>1 DEF Inv, Types
  <2>6. Types'
    BY <1>2, <2>3, <2>5 DEF Inv, Types, health
  <2>7. ResultsInOrder'
    BY <2>4 DEF Inv, ResultsInOrder
  <2>8. OneTrial'
    <3> SUFFICES ASSUME NEW u \in Service, state[u] = "halfOpen"
                 PROVE  /\ ~trial'[u] => Sent(u)' = {}
                        /\ \A a, b \in Sent(u)' : a = b
      BY <1>2 DEF OneTrial
    <3>1. CASE u # s
      <4>1. Sent(u)' = Sent(u) /\ trial'[u] = trial[u]
        BY <1>1, <2>1, <2>4, <3>1 DEF Sent, Inv, Types
      <4> QED BY <4>1 DEF Inv, OneTrial
    <3>2. CASE u = s
      <4>1. Sent(s) = {}
        BY <1>4, <3>2 DEF FailsFast, Inv, OneTrial
      <4>2. Sent(s)' \subseteq {p}
        BY <2>4, <4>1 DEF Sent
      <4>3. trial'[s]
        BY <2>1, <3>2 DEF Inv, Types
      <4> QED BY <3>2, <4>2, <4>3
    <3> QED BY <3>1, <3>2
  <2>9. ASSUME NEW u \in Service PROVE Serves(u)'
    <3>1. \A q \in Payment : Refuses(q, u)' <=> Refuses(q, u)
      BY <2>4 DEF Refuses
    <3>2. Refused(u)' = Refused(u)
      BY <2>4, <3>1 DEF Refused
    <3> QED BY <1>2, <2>4, <3>1, <3>2 DEF Inv, Serves, Flooded, health
  <2> QED BY <2>6, <2>7, <2>8, <2>9 DEF Inv
<1> QED BY <1>3, <1>4

\* A refusal that opens the breaker is backed by refused payments.
LEMMA RefusalOpens ==
  ASSUME Inv, NEW p \in Payment, NEW s \in Service, Refuses(p, s),
         Failed(s), Moves(p, s, "fallback"), s \notin broke
  PROVE  failures'[s] <= Cardinality(Refused(s)') /\ (state'[s] # "closed" => Flooded(s)')
<1>2. /\ failures[s] <= Cardinality(Refused(s)) /\ failures[s] \in Nat
      /\ fires[s] \in Nat
      /\ state[s] # "closed" => Flooded(s)
  BY DEF Inv, Serves, Types
<1>3. /\ Cardinality(Refused(s)) \in Nat /\ Cardinality(Refused(s)') = Cardinality(Refused(s)) + 1
      /\ Flooded(s) => Flooded(s)'
  BY MovesRefused
<1>4. failures'[s] <= Cardinality(Refused(s)') /\ failures'[s] \in Nat
  BY <1>2, <1>3, FailedFacts DEF Inv
<1>5. ASSUME state[s] = "closed", state'[s] # "closed"
      PROVE  Flooded(s)'
  <2>1. /\ fires[s] >= VolumeThreshold
        /\ 100 * failures'[s] > ErrorThreshold * fires[s]
    BY <1>5, FailedFacts DEF Inv
  <2>2. \A m, n, k \in Nat : m >= n => k * m >= k * n
    OBVIOUS
  <2>3. ErrorThreshold * fires[s] >= ErrorThreshold * VolumeThreshold
    BY <1>2, <2>1, <2>2, ServicesAssumption
  <2>4. /\ ErrorThreshold * fires[s] \in Nat
        /\ ErrorThreshold * VolumeThreshold \in Nat
    BY <1>2, ServicesAssumption
  <2>5. 100 * Cardinality(Refused(s)') >= 100 * failures'[s]
    BY <1>3, <1>4
  <2> DEFINE few  == ErrorThreshold * VolumeThreshold
             many == ErrorThreshold * fires[s]
  <2>6. few \in Nat /\ many \in Nat /\ many >= few /\ 100 * failures'[s] > many
    BY <2>1, <2>3, <2>4
  <2>7. Flooded(s)' <=> 100 * Cardinality(Refused(s)') > few
    BY DEF Flooded
  <2> HIDE DEF few, many
  <2> QED BY <1>3, <1>4, <2>5, <2>6, <2>7
<1> QED BY <1>2, <1>3, <1>4, <1>5

\* An answer in time.
LEMMA AnswerPreserves ==
  ASSUME Inv, NEW p \in Payment, Answer(p)
  PROVE  Inv'
<1>1. PICK s \in Service : s = pay[p].at
  BY DEF Answer
<1>2. CASE Refuses(p, s)
  <2>1. /\ Failed(s) /\ Proceed(p, s, "fallback")
        /\ UNCHANGED health
    BY <1>1, <1>2 DEF Answer, Fallback
  <2>2. Moves(p, s, "fallback")
    BY <1>1, <2>1, ProceedFacts DEF Inv, Results
  <2>3. s \notin broke =>
          failures'[s] <= Cardinality(Refused(s)') /\ (state'[s] # "closed" => Flooded(s)')
    BY <1>1, <1>2, <2>1, <2>2, RefusalOpens
  <2>4. /\ failures' \in [Service -> Nat] /\ fires' \in [Service -> Nat]
        /\ state' \in [Service -> {"closed", "open", "halfOpen"}] /\ state'[s] # "halfOpen"
        /\ \A u \in Service : u # s => state'[u] = state[u] /\ failures'[u] = failures[u]
        /\ UNCHANGED <<trial, down, outages>> /\ broke' = broke
    BY <2>1, FailedFacts DEF Inv, Types, health
  <2> QED BY <1>2, <2>1, <2>2, <2>3, <2>4, MovesPreserves
<1>3. CASE ~Refuses(p, s)
  <2>1. /\ state' = [state EXCEPT ![s] = IF state[s] = "halfOpen" THEN "closed" ELSE state[s]]
        /\ Proceed(p, s, "answer") /\ UNCHANGED <<fires, failures, trial, health>>
    BY <1>1, <1>3 DEF Answer
  <2>2. Moves(p, s, "answer")
    BY <1>1, <2>1, ProceedFacts DEF Inv, Results
  <2>3. /\ state' \in [Service -> {"closed", "open", "halfOpen"}]
        /\ \A u \in Service : u # s => state'[u] = state[u]
        /\ state'[s] # "halfOpen" /\ state'[s] \in {state[s], "closed"}
    BY <2>1 DEF Inv, Types
  <2>4. s \notin broke =>
          failures'[s] <= Cardinality(Refused(s)') /\ (state'[s] # "closed" => Flooded(s)')
    <3>1. s \notin broke =>
            /\ failures[s] <= Cardinality(Refused(s)) /\ failures[s] \in Nat
            /\ state[s] # "closed" => Flooded(s)
      BY DEF Inv, Serves, Types
    <3> QED BY <2>1, <2>2, <2>3, <3>1, MovesRefused
  <2> QED BY <2>1, <2>2, <2>3, <2>4, MovesPreserves DEF Inv, Types, health
<1> QED BY <1>2, <1>3

\* A timeout or an error: from now on the service has failed by itself.
LEMMA BreaksPreserves ==
  ASSUME Inv, NEW p \in Payment, TimeOut(p) \/ Errs(p)
  PROVE  Inv'
<1>1. PICK s \in Service : s = pay[p].at
  BY DEF TimeOut, Errs, Inv, Types
<1>2. /\ Failed(s) /\ Proceed(p, s, "fallback")
      /\ broke' = broke \cup {s} /\ UNCHANGED <<down, outages>>
  BY <1>1 DEF TimeOut, Errs, Breaks, Fallback
<1>3. Moves(p, s, "fallback")
  BY <1>1, <1>2, ProceedFacts DEF Inv, Results
<1> QED BY <1>2, <1>3, FailedFacts, MovesPreserves DEF Inv, Types

\* What happens to the services and the breakers by themselves.
LEMMA ServicePreserves ==
  ASSUME Inv, NEW s \in Service, HalfOpen(s) \/ Roll(s) \/ GoDown(s) \/ ComeBack(s)
  PROVE  Inv'
<1>1. UNCHANGED <<pay, broke>>
  BY DEF HalfOpen, Roll, GoDown, ComeBack, health
<1>2. Types'
  <2>1. CASE HalfOpen(s)
    BY <2>1 DEF HalfOpen, health, Inv, Types
  <2>2. CASE Roll(s)
    BY <2>2 DEF Roll, health, Inv, Types
  <2>3. CASE GoDown(s)
    <3>1. outages \in Nat /\ outages' \in 0..MaxOutages
      BY <2>3, ServicesAssumption DEF GoDown, Inv, Types
    <3> QED BY <2>3, <3>1 DEF GoDown, breakers, Inv, Types
  <2>4. CASE ComeBack(s)
    BY <2>4 DEF ComeBack, breakers, Inv, Types
  <2> QED BY <2>1, <2>2, <2>3, <2>4
<1>3. ResultsInOrder'
  BY <1>1 DEF Inv, ResultsInOrder
<1>4. \A u \in Service : Sent(u)' = Sent(u)
  BY <1>1 DEF Sent
<1>5. OneTrial'
  BY <1>4 DEF HalfOpen, Roll, GoDown, ComeBack, breakers, Inv, Types, OneTrial
<1>6. \A u \in Service : state'[u] = "closed" <=> state[u] = "closed"
  BY DEF HalfOpen, Roll, GoDown, ComeBack, breakers, Inv, Types
<1>7. ASSUME NEW u \in Service PROVE Serves(u)'
  <2>1. Refused(u)' = Refused(u) /\ Cardinality(Refused(u)) \in Nat
    <3>1. IsFiniteSet(Refused(u))
      BY ServicesAssumption, FS_Subset DEF Refused
    <3> QED BY <1>1, <3>1, FS_CardinalityType DEF Refused, Refuses
  <2>2. failures'[u] \in {failures[u], 0}
    BY DEF HalfOpen, Roll, GoDown, ComeBack, breakers, Inv, Types
  <2> QED BY <1>1, <1>6, <2>1, <2>2 DEF Inv, Serves, Flooded, Refuses
<1> QED BY <1>2, <1>3, <1>5, <1>7 DEF Inv

\* At first every breaker is closed and nothing has a result.
LEMMA InitInv == Init => Inv
<1> SUFFICES ASSUME Init PROVE Inv
  OBVIOUS
<1>1. PICK mix \in Mixes :
        pay = [p \in Payment |-> [at |-> "fraud", sent |-> FALSE, traits |-> mix[p],
                                 got |-> [s \in Service |-> "none"]]]
  BY DEF Init
<1>2. Types
  <2>1. \A p \in Payment : mix[p] \in Traits
    BY ServicesAssumption
  <2>2. pay \in [Payment -> Assessment]
    BY <1>1, <2>1 DEF Assessment, Results, Service
  <2> QED BY <2>2, ServicesAssumption DEF Init, Types
<1>3. \A p \in Payment : pay[p].at = "fraud" /\ ~pay[p].sent
                          /\ \A s \in Service : pay[p].got[s] = "none"
  BY <1>1
<1>4. ResultsInOrder /\ OneTrial
  BY <1>3 DEF Init, ResultsInOrder, OneTrial, Service
<1>5. ASSUME NEW s \in Service PROVE Serves(s)
  <2>1. Refused(s) = {}
    BY <1>3 DEF Refused
  <2> QED BY <1>3, <2>1, FS_EmptySet DEF Init, Serves
<1> QED BY <1>2, <1>4, <1>5 DEF Inv

\* Every step keeps the invariant.
LEMMA InvPreserved == Inv /\ [Next]_vars => Inv'
<1> SUFFICES ASSUME Inv, [Next]_vars PROVE Inv'
  OBVIOUS
<1>1. CASE UNCHANGED vars
  BY <1>1 DEF vars, breakers, health, Inv, Types, ResultsInOrder, OneTrial, Sent, Serves,
              Flooded, Refused, Refuses
<1> QED
  BY <1>1, FirePreserves, AnswerPreserves, BreaksPreserves, ServicePreserves DEF Next, Assess

\* The inductive invariant holds in every state.
LEMMA Invariance == Spec => []Inv
  BY InitInv, InvPreserved, PTL DEF Spec
(***************************************************************************)
(* The properties the runs check.                                          *)
(***************************************************************************)

\* Every variable has a value of its kind, a payment past a step has its
\* result, and a half-open breaker has one call on the way at most.
THEOREM TypeCorrect == Spec => []TypeOK
<1>1. Inv => TypeOK
  <2> SUFFICES ASSUME Inv PROVE TypeOK
    OBVIOUS
  <2>1. ASSUME NEW s \in Service, state[s] = "halfOpen"
        PROVE  Cardinality(Sent(s)) <= 1
    <3>1. CASE Sent(s) = {}
      BY <3>1, FS_EmptySet
    <3>2. CASE Sent(s) # {}
      <4>1. PICK p : p \in Sent(s)
        BY <3>2
      <4>2. Sent(s) = {p}
        BY <2>1, <4>1 DEF Inv, OneTrial
      <4>3. Cardinality({p}) = 1
        BY FS_Singleton
      <4> QED BY <4>2, <4>3
    <3> QED BY <3>1, <3>2
  <2> QED BY <2>1 DEF Inv, Types, Assessment, Results, ResultsInOrder, TypeOK
<1> QED BY <1>1, Invariance, PTL

\* A payment in a currency the service knows goes on at rate 1.0 only after the
\* service broke down, or after refusals enough to open the breaker.
THEOREM WrongRateNeedsCauseCorrect == Spec => []WrongRateNeedsCause
<1>1. Inv => WrongRateNeedsCause
  <2> SUFFICES ASSUME Inv, NEW p \in Payment, pay[p].traits.currency = "supported",
                      pay[p].got["currency"] = "fallback", "currency" \notin broke
               PROVE  Flooded("currency")
    BY DEF WrongRateNeedsCause
  <2>1. ~Refuses(p, "currency")
    BY DEF Refuses
  <2> QED BY <2>1 DEF Inv, Serves, Service
<1> QED BY <1>1, Invariance, PTL

\* A payment the fraud service rejects succeeds only after that service broke
\* down, or after refusals enough to open the breaker.
THEOREM RejectableNeedsCauseCorrect == Spec => []RejectableNeedsCause
<1>1. Inv => RejectableNeedsCause
  <2> SUFFICES ASSUME Inv, NEW p \in Payment, pay[p].at = "success",
                      Recommendation(Score(pay[p].traits.rules)) = "REJECT",
                      "fraud" \notin broke
               PROVE  Flooded("fraud")
    BY DEF RejectableNeedsCause
  <2>1. pay[p].got["fraud"] \in Results /\ pay[p].traits \in Traits
    BY DEF Inv, Types, Assessment, Service
  <2>2. pay[p].got["fraud"] = "fallback"
    BY <2>1 DEF Inv, ResultsInOrder, Results
  <2>3. ~Refuses(p, "fraud")
    BY <2>1, RejectedReads DEF Refuses
  <2> QED BY <2>2, <2>3 DEF Inv, Serves, Service
<1> QED BY <1>1, Invariance, PTL

\* The fraud threshold scan never counts a payment.
THEOREM ScanCountsNothingCorrect == Spec => []ScanCountsNothing
<1>1. Inv => ScanCountsNothing
  <2> SUFFICES ASSUME Inv, NEW p \in Payment, pay[p].at = "success"
               PROVE  ~(FraudScore(p) >= 80)
    BY DEF ScanCountsNothing, Counted
  <2>1. CASE pay[p].got["fraud"] = "fallback"
    BY <2>1 DEF FraudScore
  <2>2. CASE pay[p].got["fraud"] # "fallback"
    <3>1. pay[p].got["fraud"] = "answer"
      BY <2>2 DEF Inv, Types, Assessment, Results, Service, ResultsInOrder
    <3>2. Score(pay[p].traits.rules) < 70
      BY <3>1, PassedScore DEF Inv, ResultsInOrder
    <3> QED BY <2>2, <3>2, ScoreType DEF FraudScore
  <2> QED BY <2>1, <2>2
<1> QED BY <1>1, Invariance, PTL
=============================================================================
