----------------------------- MODULE OutboxProofs -----------------------------
(* Proofs of the safety properties of Outbox, for any constants. *)
EXTENDS Outbox, FiniteSetTheorems, TLAPS

(***************************************************************************)
(* Types, and what each move of a run changes.                             *)
(***************************************************************************)

\* A run past its tick has a batch of events.
LEMMA BusyRun ==
  ASSUME TypeOK, NEW r \in Runner, runner[r].pc \in Busy
  PROVE  runner[r] \in Working
  BY DEF TypeOK, Idle, Busy

\* A run that moves on within an event keeps its batch.
LEMMA GotoFacts ==
  ASSUME TypeOK, NEW r \in Runner, runner[r].pc \in Busy, NEW pc \in Busy, Goto(r, pc)
  PROVE  /\ runner' \in [Runner -> {Idle} \cup Working]
         /\ runner'[r].pc = pc
         /\ runner'[r].batch = runner[r].batch /\ runner'[r].seen = runner[r].seen
         /\ \A q \in Runner : q # r => runner'[q] = runner[q]
  BY BusyRun DEF TypeOK, Goto, Working

\* A run that is done with an event drops it from its batch.
LEMMA NextEventFacts ==
  ASSUME TypeOK, NEW r \in Runner, runner[r].pc \in Busy, NEW e \in Event, NextEvent(r, e)
  PROVE  /\ runner' \in [Runner -> {Idle} \cup Working]
         /\ runner'[r].pc \in {"idle", "claim"}
         /\ runner'[r].batch = runner[r].batch \ {e}
         /\ \A f \in Event : runner'[r].seen[f] \in {0, runner[r].seen[f]}
         /\ \A q \in Runner : q # r => runner'[q] = runner[q]
<1>1. /\ runner[r].batch \subseteq Event
      /\ runner[r].seen \in [Event -> Nat]
  BY BusyRun DEF Working
<1>2. CASE runner[r].batch \ {e} = {}
  BY <1>1, <1>2 DEF TypeOK, NextEvent, Idle
<1>3. CASE runner[r].batch \ {e} # {}
  <2>1. runner' = [runner EXCEPT ![r] =
          [pc |-> "claim", batch |-> runner[r].batch \ {e}, seen |-> runner[r].seen]]
    BY <1>3 DEF NextEvent
  <2>2. [pc |-> "claim", batch |-> runner[r].batch \ {e}, seen |-> runner[r].seen]
          \in Working
    BY <1>1 DEF Working, Busy
  <2> QED BY <2>1, <2>2 DEF TypeOK
<1> QED BY <1>2, <1>3

\* What a tick changes.
LEMMA TickFacts ==
  ASSUME TypeOK, NEW r \in Runner, Tick(r)
  PROVE  \E batch \in SUBSET Event :
           /\ \A e \in batch : status[e] = "PENDING"
           /\ runner' = [runner EXCEPT ![r] =
                [pc |-> "claim", batch |-> batch, seen |-> attempts]]
           /\ runner' \in [Runner -> {Idle} \cup Working]
           /\ shared' = shared \cup Contended(r, batch)
           /\ shared' \in SUBSET Event
           /\ runner[r] = Idle
           /\ UNCHANGED <<rowVars, sendVars, channel, faults, outages>>
<1> DEFINE batch == Oldest({e \in Event : status[e] = "PENDING"}, BatchSize)
<1>1. batch \in SUBSET Event /\ \A e \in batch : status[e] = "PENDING"
  BY DEF Oldest
<1>2. [pc |-> "claim", batch |-> batch, seen |-> attempts] \in Working
  BY <1>1 DEF Working, Busy, TypeOK
<1>3. Contended(r, batch) \subseteq Event
  BY <1>1 DEF Contended
<1> HIDE DEF batch
<1>4. /\ runner' = [runner EXCEPT ![r] = [pc |-> "claim", batch |-> batch, seen |-> attempts]]
      /\ shared' = shared \cup Contended(r, batch)
      /\ runner[r] = Idle
      /\ UNCHANGED <<rowVars, sendVars, channel, faults, outages>>
  BY DEF Tick, batch
<1>5. runner' \in [Runner -> {Idle} \cup Working]
  BY <1>2, <1>4 DEF TypeOK
<1>6. shared' \in SUBSET Event
  BY <1>3, <1>4 DEF TypeOK
<1> QED BY <1>1, <1>4, <1>5, <1>6

\* Every step keeps the types.
LEMMA TypePreserved == TypeOK /\ [Next]_vars => TypeOK'
<1> SUFFICES ASSUME TypeOK, [Next]_vars PROVE TypeOK'
  OBVIOUS
<1> USE OutboxAssumption
<1>1. ASSUME NEW e \in Event, Create(e) PROVE TypeOK'
  BY <1>1 DEF TypeOK, Create, Status, sendVars
<1>2. ASSUME NEW r \in Runner, Tick(r) PROVE TypeOK'
  BY <1>2, TickFacts DEF TypeOK, rowVars, sendVars
<1>3. ASSUME NEW r \in Runner, NEW e \in Event,
             Claim(r, e) \/ Publish(r, e) \/ Settle(r, e) \/ Catch(r, e)
      PROVE  TypeOK'
  <2>1. runner[r].pc \in Busy
    BY <1>3 DEF Claim, Publish, Settle, Catch, At, Busy
  <2>2. runner' \in [Runner -> {Idle} \cup Working]
    <3>1. \/ \E pc \in Busy : Goto(r, pc)
          \/ NextEvent(r, e)
          \/ runner' = [runner EXCEPT ![r] = Idle]
      BY <1>3 DEF Claim, Publish, Settle, Catch, Busy
    <3> QED BY <2>1, <3>1, GotoFacts, NextEventFacts DEF TypeOK
  <2>3. /\ status' \in [Event -> Status]
        /\ attempts' \in [Event -> Nat]
    <3>1. \/ WriteClaim(e)
          \/ UNCHANGED rowVars
          \/ attempts' = attempts /\ \E s \in Status : status' = [status EXCEPT ![e] = s]
      BY <1>3 DEF Claim, Publish, Settle, Catch, Status, rowVars
    <3> QED BY <3>1 DEF TypeOK, WriteClaim, Status, rowVars
  <2>4. /\ sent' \in [Event -> Nat]
        /\ delivered' \in [Event -> Nat]
    BY <1>3 DEF Claim, Publish, Settle, Catch, sendVars, TypeOK
  <2> QED
    BY <1>3, <2>2, <2>3, <2>4 DEF Claim, Publish, Settle, Catch, Fault, TypeOK
<1>4. ASSUME Crash PROVE TypeOK'
  BY <1>4 DEF Crash, Fault, TypeOK, rowVars, sendVars
<1>5. CASE Break \/ NoticeClose \/ Reconnect
  BY <1>5 DEF Break, NoticeClose, Reconnect, TypeOK, rowVars, sendVars
<1>6. CASE UNCHANGED vars
  BY <1>6 DEF TypeOK, vars
<1> QED BY <1>1, <1>2, <1>3, <1>4, <1>5, <1>6 DEF Next, Run

\* The types hold at first.
LEMMA InitTyped == Init => TypeOK
  BY DEF Init, TypeOK, Status

\* Every reachable state is well typed.
THEOREM TypeCorrect == Spec => []TypeOK
  BY InitTyped, TypePreserved, PTL DEF Spec

(***************************************************************************)
(* Steps of a run, seen by the invariants: only one run moves, on the      *)
(* oldest event of its batch, and only that event's row changes.           *)
(***************************************************************************)

RunStep(r, e) == Claim(r, e) \/ Publish(r, e) \/ Settle(r, e) \/ Catch(r, e)

\* What every step of a run has in common.
LEMMA RunStepFacts ==
  ASSUME TypeOK, NEW r \in Runner, NEW e \in Event, RunStep(r, e)
  PROVE  /\ runner[r].pc \in Busy /\ At(r, runner[r].pc, e)
         /\ runner[r] \in Working
         /\ \A q \in Runner : q # r => runner'[q] = runner[q]
         /\ runner'[r].batch \subseteq runner[r].batch
         /\ \A f \in Event : runner'[r].seen[f] \in {0, runner[r].seen[f]}
         /\ \A f \in Event : f # e =>
              /\ status'[f] = status[f] /\ attempts'[f] = attempts[f]
              /\ sent'[f] = sent[f] /\ delivered'[f] = delivered[f]
         /\ attempts'[e] \in {attempts[e], attempts[e] + 1}
         /\ shared' = shared /\ outages' = outages
         /\ faults' = faults \/ faults' = faults + 1
<1>1. /\ runner[r].pc \in Busy /\ At(r, runner[r].pc, e)
      /\ shared' = shared /\ outages' = outages
      /\ faults' = faults \/ faults' = faults + 1
  BY DEF RunStep, Claim, Publish, Settle, Catch, At, Busy, Fault
<1>2. /\ \A q \in Runner : q # r => runner'[q] = runner[q]
      /\ runner'[r].batch \subseteq runner[r].batch
      /\ \A f \in Event : runner'[r].seen[f] \in {0, runner[r].seen[f]}
  <2>1. \/ \E pc \in Busy : Goto(r, pc)
        \/ NextEvent(r, e)
        \/ runner' = [runner EXCEPT ![r] = Idle]
    BY DEF RunStep, Claim, Publish, Settle, Catch, Busy
  <2>2. CASE runner' = [runner EXCEPT ![r] = Idle]
    BY <2>2 DEF TypeOK, Idle
  <2> QED BY <1>1, <2>1, <2>2, GotoFacts, NextEventFacts
<1>3. /\ \A f \in Event : f # e =>
           /\ status'[f] = status[f] /\ attempts'[f] = attempts[f]
           /\ sent'[f] = sent[f] /\ delivered'[f] = delivered[f]
      /\ attempts'[e] \in {attempts[e], attempts[e] + 1}
  BY DEF RunStep, Claim, Publish, Settle, Catch, WriteClaim, rowVars, sendVars, TypeOK
<1> QED BY <1>1, <1>2, <1>3, BusyRun

\* The steps of the environment that change no event and add to no batch.
Outside == Crash \/ Break \/ NoticeClose \/ Reconnect \/ UNCHANGED vars

\* What the steps outside the publisher leave alone.
LEMMA OutsideFacts ==
  ASSUME TypeOK, Outside
  PROVE  /\ UNCHANGED <<rowVars, sendVars, shared>>
         /\ runner' = runner \/ runner' = [r \in Runner |-> Idle]
         /\ faults' = faults \/ faults' = faults + 1
         /\ outages' = outages \/ outages' = outages + 1
  BY DEF Outside, Crash, Fault, Break, NoticeClose, Reconnect, vars, rowVars, sendVars

(***************************************************************************)
(* Giving up.  The attempts a run read with its batch never exceed the     *)
(* attempts in the row, so a decision to give up is never premature.       *)
(***************************************************************************)

SeenInv ==
  \A r \in Runner, e \in Event : runner[r].seen[e] <= attempts[e]

\* Every step keeps the facts about giving an event up.
LEMMA GivingUpPreserved ==
  ASSUME TypeOK, SeenInv, FailedWasTried, [Next]_vars
  PROVE  SeenInv' /\ FailedWasTried'
<1> USE OutboxAssumption
<1>1. ASSUME NEW e \in Event, Create(e) PROVE SeenInv' /\ FailedWasTried'
  BY <1>1 DEF Create, TypeOK, SeenInv, FailedWasTried
<1>2. ASSUME NEW r \in Runner, Tick(r) PROVE SeenInv' /\ FailedWasTried'
  <2>1. \A e \in Event : runner'[r].seen[e] = attempts[e]
    BY <1>2, TickFacts DEF TypeOK
  <2>2. \A q \in Runner : q # r => runner'[q] = runner[q]
    BY <1>2, TickFacts DEF TypeOK
  <2> QED BY <1>2, <2>1, <2>2, TickFacts DEF rowVars, TypeOK, SeenInv, FailedWasTried
<1>3. ASSUME NEW r \in Runner, NEW e \in Event, RunStep(r, e)
      PROVE  SeenInv' /\ FailedWasTried'
  <2>1. /\ attempts[e] \in Nat /\ runner[r].seen[e] \in Nat
        /\ runner[r].seen[e] <= attempts[e]
    BY <1>3, RunStepFacts DEF TypeOK, Working, SeenInv
  <2>2. SeenInv'
    BY <1>3, RunStepFacts DEF SeenInv, TypeOK, Working, Idle
  <2>3. ASSUME status'[e] = "FAILED" PROVE attempts'[e] >= MaxAttempts - 1
    <3>1. CASE Catch(r, e)
      BY <1>3, <2>1, <2>3, <3>1 DEF Catch, TypeOK, FailedWasTried
    <3>2. CASE Claim(r, e) \/ Publish(r, e) \/ Settle(r, e)
      BY <2>1, <2>3, <3>2
      DEF Claim, Publish, Settle, WriteClaim, rowVars, TypeOK, FailedWasTried
    <3> QED BY <1>3, <3>1, <3>2 DEF RunStep
  <2> QED BY <1>3, <2>2, <2>3, RunStepFacts DEF FailedWasTried
<1>4. CASE Outside
  BY <1>4, OutsideFacts DEF SeenInv, FailedWasTried, rowVars, Idle, TypeOK
<1> QED BY <1>1, <1>2, <1>3, <1>4 DEF Next, Run, RunStep, Outside

\* An event is given up only after MaxAttempts - 1 counted attempts.
THEOREM FailedWasTriedCorrect == Spec => []FailedWasTried
<1>1. Init => SeenInv /\ FailedWasTried
  BY DEF Init, SeenInv, FailedWasTried, Idle
<1>2. TypeOK /\ SeenInv /\ FailedWasTried /\ [Next]_vars => (SeenInv /\ FailedWasTried)'
  BY GivingUpPreserved
<1> QED BY <1>1, <1>2, InitTyped, TypePreserved, PTL DEF Spec

(***************************************************************************)
(* Reaching the broker.  A run is between its publish and its update only  *)
(* with a message handed over, which is lost only on a broken connection.  *)
(***************************************************************************)

ReachInv ==
  outages = 0 =>
    /\ channel # "broken"
    /\ \A r \in Runner, e \in Event : At(r, "settle", e) => delivered[e] > 0
    /\ \A e \in Event : status[e] = "PUBLISHED" => delivered[e] > 0

\* A run that comes to be between publish and update has just published.
LEMMA ReachSettle ==
  ASSUME TypeOK, NEW r \in Runner, NEW e \in Event, RunStep(r, e),
         NEW q \in Runner, NEW f \in Event, At(q, "settle", f)'
  PROVE  \/ q # r /\ At(q, "settle", f)
         \/ q = r /\ f = e /\ Publish(r, e) /\ channel # "null"
              /\ sent' = [sent EXCEPT ![e] = @ + 1]
<1>1. CASE q # r
  BY <1>1, RunStepFacts DEF At
<1>2. CASE q = r
  <2>1. runner'[r].pc = "settle"
    BY <1>2 DEF At
  <2>2. ~NextEvent(r, e) /\ runner' # [runner EXCEPT ![r] = Idle]
    BY <2>1, RunStepFacts, NextEventFacts DEF TypeOK, Idle
  <2>3. \A pc \in Busy : Goto(r, pc) => pc = "settle" /\ runner'[r].batch = runner[r].batch
    BY <2>1, RunStepFacts, GotoFacts
  <2>4. Publish(r, e) /\ channel # "null" /\ Goto(r, "settle")
        /\ sent' = [sent EXCEPT ![e] = @ + 1]
    BY <2>2, <2>3 DEF RunStep, Claim, Publish, Settle, Catch, Busy
  <2>5. f = e
    <3>1. e \in runner[r].batch /\ \A g \in runner[r].batch : e <= g
      BY RunStepFacts DEF At
    <3>2. f \in runner[r].batch /\ \A g \in runner[r].batch : f <= g
      BY <1>2, <2>3, <2>4 DEF At, Busy
    <3> QED BY <3>1, <3>2 DEF Event
  <2> QED BY <1>2, <2>4, <2>5
<1> QED BY <1>1, <1>2

\* Every step keeps the facts about reaching the broker.
LEMMA ReachPreserved ==
  ASSUME TypeOK, ReachInv, [Next]_vars
  PROVE  ReachInv'
<1>1. ASSUME NEW e \in Event, Create(e) PROVE ReachInv'
  BY <1>1 DEF Create, sendVars, TypeOK, ReachInv, At
<1>2. ASSUME NEW r \in Runner, Tick(r) PROVE ReachInv'
  <2>1. \A q \in Runner, f \in Event : At(q, "settle", f)' => At(q, "settle", f)
    BY <1>2, TickFacts DEF At, TypeOK
  <2> QED BY <1>2, <2>1, TickFacts DEF rowVars, sendVars, ReachInv
<1>3. ASSUME NEW r \in Runner, NEW e \in Event, RunStep(r, e), outages' = 0
      PROVE  ReachInv'
  <2>1. outages = 0 /\ channel' = channel /\ channel # "broken"
    BY <1>3, RunStepFacts DEF RunStep, Claim, Publish, Settle, Catch, ReachInv
  <2>2. \A f \in Event : /\ delivered[f] \in Nat /\ delivered'[f] \in Nat
                          /\ delivered'[f] >= delivered[f]
    BY <1>3 DEF RunStep, Claim, Publish, Settle, Catch, sendVars, TypeOK
  <2>3. ASSUME NEW q \in Runner, NEW f \in Event, At(q, "settle", f)'
        PROVE  delivered'[f] > 0
    <3>1. CASE q # r /\ At(q, "settle", f)
      <4>1. delivered[f] > 0
        BY <2>1, <3>1 DEF ReachInv
      <4> QED BY <2>2, <4>1
    <3>2. CASE f = e /\ Publish(r, e) /\ channel # "null" /\ sent' = [sent EXCEPT ![e] = @ + 1]
      <4>1. sent[e] \in Nat /\ sent'[e] = sent[e] + 1 /\ delivered[e] \in Nat
        BY <3>2 DEF TypeOK
      <4>2. sent' # sent
        BY <4>1
      <4>3. delivered' = [delivered EXCEPT ![e] = @ + 1]
        BY <2>1, <3>2, <4>2 DEF Publish, TypeOK, sendVars
      <4>4. delivered'[e] = delivered[e] + 1
        BY <4>3 DEF TypeOK
      <4> QED BY <3>2, <4>1, <4>4
    <3> QED BY <1>3, <2>3, <3>1, <3>2, ReachSettle
  <2>4. ASSUME NEW f \in Event, status'[f] = "PUBLISHED" PROVE delivered'[f] > 0
    <3>1. CASE status[f] = "PUBLISHED"
      <4>1. delivered[f] > 0
        BY <2>1, <3>1 DEF ReachInv
      <4> QED BY <2>2, <4>1
    <3>2. CASE status[f] # "PUBLISHED"
      <4>1. f = e /\ Settle(r, e)
        BY <1>3, <2>4, <3>2, RunStepFacts
        DEF RunStep, Claim, Publish, Settle, Catch, WriteClaim, rowVars, TypeOK
      <4>2. delivered[f] > 0
        BY <2>1, <4>1 DEF Settle, ReachInv
      <4> QED BY <2>2, <4>2
    <3> QED BY <3>1, <3>2
  <2> QED BY <2>1, <2>3, <2>4 DEF ReachInv
<1>4. CASE Outside
  <2>1. ASSUME outages' = 0 PROVE outages = 0 /\ channel' # "broken"
    BY <1>4, <2>1
    DEF Outside, Crash, Break, NoticeClose, Reconnect, vars, TypeOK, ReachInv
  <2>2. \A q \in Runner, f \in Event : At(q, "settle", f)' => At(q, "settle", f)
    BY <1>4, OutsideFacts DEF At, Idle
  <2> QED BY <1>4, <2>1, <2>2, OutsideFacts DEF rowVars, sendVars, ReachInv
<1>5. CASE outages' # 0
  BY <1>5 DEF ReachInv
<1> QED BY <1>1, <1>2, <1>3, <1>4, <1>5 DEF Next, Run, RunStep, Outside

\* A PUBLISHED event whose message never arrived saw a broken connection.
THEOREM PublishedReachedBrokerCorrect == Spec => []PublishedReachedBroker
<1>1. Init => ReachInv
  BY DEF Init, ReachInv, At, Idle
<1>2. TypeOK /\ ReachInv => PublishedReachedBroker
  BY DEF TypeOK, ReachInv, PublishedReachedBroker
<1>3. TypeOK /\ ReachInv /\ [Next]_vars => ReachInv'
  BY ReachPreserved
<1> QED BY <1>1, <1>2, <1>3, InitTyped, TypePreserved, PTL DEF Spec

(***************************************************************************)
(* Duplicates.  While an event was never in two batches and nothing        *)
(* failed, at most one run has it, it is PROCESSING from claim to update,  *)
(* and it has been sent only if that run is about to mark it PUBLISHED.    *)
(***************************************************************************)

Undisturbed(e) ==
  e \notin shared /\ faults = 0 =>
    /\ sent[e] <= 1
    /\ status[e] \in {"none", "PENDING"} => sent[e] = 0
    /\ \A q, r \in Runner : e \in runner[q].batch /\ e \in runner[r].batch => q = r
    /\ \A r \in Runner : e \in runner[r].batch =>
         /\ ~At(r, "settle", e) => sent[e] = 0
         /\ At(r, "publish", e) \/ At(r, "settle", e) => status[e] = "PROCESSING"

\* An event that the moving run does not treat keeps what is said of it.
LEMMA BystanderKept ==
  ASSUME TypeOK, NEW r \in Runner, NEW e \in Event, RunStep(r, e),
         NEW f \in Event, f # e, Undisturbed(f)
  PROVE  Undisturbed(f)'
<1>1. /\ status'[f] = status[f] /\ sent'[f] = sent[f] /\ shared' = shared
      /\ faults' = 0 => faults = 0
      /\ \A q \in Runner : runner'[q].batch \subseteq runner[q].batch
      /\ \A q \in Runner : q # r => runner'[q] = runner[q]
  BY RunStepFacts, OutboxAssumption DEF TypeOK
<1>2. ~At(r, "settle", f)
  <2>1. e \in runner[r].batch /\ \A g \in runner[r].batch : e <= g
    BY RunStepFacts DEF At
  <2> QED BY <2>1 DEF At, Event
<1>3. ~At(r, "publish", f)' /\ ~At(r, "settle", f)'
  <2>1. CASE \E pc \in Busy : Goto(r, pc)
    <3>1. e \in runner'[r].batch
      BY <2>1, RunStepFacts, GotoFacts DEF At
    <3>2. \A g \in runner'[r].batch : e <= g
      BY <2>1, RunStepFacts, GotoFacts DEF At
    <3> QED BY <3>1, <3>2 DEF At, Event
  <2>2. CASE NextEvent(r, e) \/ runner' = [runner EXCEPT ![r] = Idle]
    BY <2>2, RunStepFacts, NextEventFacts DEF At, TypeOK, Idle
  <2> QED BY <2>1, <2>2 DEF RunStep, Claim, Publish, Settle, Catch, Busy
<1>4. \A q \in Runner, pc \in {"publish", "settle"} : q # r => (At(q, pc, f)' <=> At(q, pc, f))
  BY <1>1 DEF At
<1> QED BY <1>1, <1>2, <1>3, <1>4 DEF Undisturbed

\* The event that the moving run treats.
LEMMA TreatedKept ==
  ASSUME TypeOK, NEW r \in Runner, NEW e \in Event, RunStep(r, e), Undisturbed(e),
         e \notin shared', faults' = 0
  PROVE  Undisturbed(e)'
<1>1. /\ e \notin shared /\ faults = 0 /\ ~Fault
      /\ e \in runner[r].batch
      /\ \A q \in Runner : q # r => runner'[q] = runner[q]
      /\ runner'[r].batch \subseteq runner[r].batch
      /\ sent[e] \in Nat
  BY RunStepFacts, OutboxAssumption DEF TypeOK, At, Fault
<1>2. /\ \A q \in Runner : q # r => e \notin runner[q].batch /\ e \notin runner'[q].batch
      /\ sent[e] <= 1
      /\ ~At(r, "settle", e) => sent[e] = 0
  BY <1>1 DEF Undisturbed
<1>3. CASE Claim(r, e)
  <2>1. /\ sent'[e] = 0 /\ status'[e] = "PROCESSING"
    BY <1>1, <1>2, <1>3 DEF Claim, At, WriteClaim, sendVars, TypeOK
  <2> QED BY <1>1, <1>2, <2>1 DEF Undisturbed
<1>4. CASE Publish(r, e)
  <2>1. /\ status[e] = "PROCESSING" /\ status' = status
        /\ sent[e] = 0
    BY <1>1, <1>2, <1>4 DEF Publish, At, rowVars, Undisturbed
  <2>2. CASE sendVars' = sendVars
    BY <1>1, <1>2, <2>1, <2>2 DEF Undisturbed, sendVars
  <2>3. CASE Goto(r, "settle") /\ sent' = [sent EXCEPT ![e] = @ + 1]
    <3>1. sent'[e] = 1
      BY <2>1, <2>3 DEF TypeOK
    <3>2. At(r, "settle", e)'
      BY <1>4, <2>3, RunStepFacts, GotoFacts DEF At, Busy
    <3> QED BY <1>1, <1>2, <2>1, <3>1, <3>2 DEF Undisturbed
  <2> QED BY <1>4, <2>2, <2>3 DEF Publish
<1>5. CASE Settle(r, e)
  <2>1. /\ sent' = sent /\ status'[e] = "PUBLISHED" /\ e \notin runner'[r].batch
    BY <1>1, <1>5, RunStepFacts, NextEventFacts DEF Settle, sendVars, TypeOK
  <2> QED BY <1>1, <1>2, <2>1 DEF Undisturbed
<1>6. CASE Catch(r, e)
  <2>1. /\ sent' = sent /\ sent[e] = 0 /\ e \notin runner'[r].batch
    BY <1>1, <1>2, <1>6, RunStepFacts, NextEventFacts DEF Catch, sendVars, At
  <2> QED BY <1>1, <1>2, <2>1 DEF Undisturbed
<1> QED BY <1>3, <1>4, <1>5, <1>6 DEF RunStep

\* Every step keeps the facts about undisturbed events.
LEMMA UndisturbedPreserved ==
  ASSUME TypeOK, \A e \in Event : Undisturbed(e), [Next]_vars, NEW f \in Event
  PROVE  Undisturbed(f)'
<1>1. ASSUME NEW e \in Event, Create(e) PROVE Undisturbed(f)'
  <2>1. /\ runner' = runner /\ shared' = shared /\ faults' = faults /\ sent' = sent
        /\ status'[f] = status[f] \/ (status[f] = "none" /\ status'[f] = "PENDING")
    BY <1>1 DEF Create, sendVars, TypeOK
  <2> QED BY <2>1 DEF Undisturbed, At
<1>2. ASSUME NEW r \in Runner, Tick(r) PROVE Undisturbed(f)'
  <2>1. PICK batch \in SUBSET Event :
          /\ \A e \in batch : status[e] = "PENDING"
          /\ runner' = [runner EXCEPT ![r] =
               [pc |-> "claim", batch |-> batch, seen |-> attempts]]
          /\ shared' = shared \cup Contended(r, batch)
          /\ runner[r] = Idle
          /\ UNCHANGED <<rowVars, sendVars, channel, faults, outages>>
    BY <1>2, TickFacts
  <2>2. /\ runner'[r].pc = "claim" /\ runner'[r].batch = batch
        /\ \A q \in Runner : q # r => runner'[q] = runner[q]
        /\ status' = status /\ sent' = sent /\ faults' = faults
    BY <2>1 DEF TypeOK, rowVars, sendVars
  <2>3. SUFFICES ASSUME f \notin shared', faults' = 0 PROVE Undisturbed(f)'
    BY DEF Undisturbed
  <2>4. /\ f \notin shared /\ faults = 0
        /\ f \in batch => \A q \in Runner : q # r => f \notin runner[q].batch
    BY <2>1, <2>2, <2>3 DEF Contended
  <2>5. ~At(r, "publish", f)' /\ ~At(r, "settle", f)'
    BY <2>2 DEF At
  <2>6. \A q \in Runner, pc \in {"publish", "settle"} :
          q # r => (At(q, pc, f)' <=> At(q, pc, f))
    BY <2>2 DEF At
  <2> QED BY <2>1, <2>2, <2>4, <2>5, <2>6 DEF Undisturbed
<1>3. ASSUME NEW r \in Runner, NEW e \in Event, RunStep(r, e) PROVE Undisturbed(f)'
  <2>1. CASE f # e
    BY <1>3, <2>1, BystanderKept
  <2>2. CASE f = e /\ e \notin shared' /\ faults' = 0
    BY <1>3, <2>2, TreatedKept
  <2>3. CASE f \in shared' \/ faults' # 0
    BY <2>3 DEF Undisturbed
  <2> QED BY <2>1, <2>2, <2>3
<1>4. CASE Outside
  <2>1. faults' = 0 => faults = 0
    BY <1>4, OutsideFacts, OutboxAssumption DEF TypeOK
  <2>2. CASE runner' = runner
    BY <1>4, <2>1, <2>2, OutsideFacts DEF rowVars, sendVars, Undisturbed, At
  <2>3. CASE runner' = [r \in Runner |-> Idle]
    <3>1. \A r \in Runner : runner'[r].batch = {}
      BY <2>3 DEF Idle
    <3> QED BY <1>4, <2>1, <3>1, OutsideFacts DEF rowVars, sendVars, Undisturbed
  <2> QED BY <1>4, <2>2, <2>3, OutsideFacts
<1> QED BY <1>1, <1>2, <1>3, <1>4 DEF Next, Run, RunStep, Outside

\* A second message of an event takes an overlap or a fault.
THEOREM DuplicateNeedsOverlapOrFaultCorrect == Spec => []DuplicateNeedsOverlapOrFault
<1> DEFINE Inv == \A e \in Event : Undisturbed(e)
<1>1. Init => Inv
  BY DEF Init, Undisturbed, At, Idle
<1>2. TypeOK /\ Inv => DuplicateNeedsOverlapOrFault
  BY DEF TypeOK, Undisturbed, DuplicateNeedsOverlapOrFault
<1>3. TypeOK /\ Inv /\ [Next]_vars => Inv'
  BY UndisturbedPreserved
<1> HIDE DEF Inv
<1> QED BY <1>1, <1>2, <1>3, InitTyped, TypePreserved, PTL DEF Spec

(***************************************************************************)
(* Counting.  Each run about to publish an event has counted an attempt    *)
(* that no message has used yet.                                           *)
(***************************************************************************)

Sending(e) == {r \in Runner : At(r, "publish", e)}

CountInv == \A e \in Event : sent[e] + Cardinality(Sending(e)) <= attempts[e]

\* A set of runs is finite, a smaller one counts no more.
LEMMA SendingFinite ==
  ASSUME NEW S \in SUBSET Runner, NEW T \in SUBSET S
  PROVE  /\ IsFiniteSet(S) /\ Cardinality(S) \in Nat
         /\ Cardinality(T) \in Nat /\ Cardinality(T) <= Cardinality(S)
  BY FS_Subset, FS_CardinalityType, OutboxAssumption

\* An event keeps the invariant when no run comes to send it, nothing is sent
\* and no count is lost.
LEMMA CountKept ==
  ASSUME TypeOK, NEW f \in Event, Sending(f)' \subseteq Sending(f),
         sent[f] + Cardinality(Sending(f)) <= attempts[f],
         sent'[f] = sent[f], attempts'[f] \in Nat, attempts'[f] >= attempts[f]
  PROVE  (sent[f] + Cardinality(Sending(f)) <= attempts[f])'
<1>1. /\ Sending(f) \in SUBSET Runner /\ Sending(f)' \in SUBSET Sending(f)
      /\ sent[f] \in Nat /\ attempts[f] \in Nat
  BY DEF Sending, TypeOK
<1>2. /\ Cardinality(Sending(f)') <= Cardinality(Sending(f))
      /\ Cardinality(Sending(f)) \in Nat /\ Cardinality(Sending(f)') \in Nat
  BY <1>1, SendingFinite
<1> QED BY <1>1, <1>2

\* Only the claim of an event brings a run to send it.
LEMMA SendingKept ==
  ASSUME TypeOK, NEW r \in Runner, NEW e \in Event, RunStep(r, e),
         NEW f \in Event, ~(f = e /\ Claim(r, e) /\ WriteClaim(e) /\ Goto(r, "publish"))
  PROVE  Sending(f)' \subseteq Sending(f)
<1>1. ~At(r, "publish", f)'
  <2>1. CASE \E pc \in Busy \ {"publish"} : Goto(r, pc)
    BY <2>1, RunStepFacts, GotoFacts DEF At
  <2>2. CASE NextEvent(r, e) \/ runner' = [runner EXCEPT ![r] = Idle]
    BY <2>2, RunStepFacts, NextEventFacts DEF At, TypeOK, Idle
  <2>3. CASE f # e /\ Goto(r, "publish")
    <3>1. e \in runner'[r].batch /\ \A g \in runner'[r].batch : e <= g
      BY <2>3, RunStepFacts, GotoFacts DEF At, Busy
    <3> QED BY <2>3, <3>1 DEF At, Event
  <2> QED BY <2>1, <2>2, <2>3 DEF RunStep, Claim, Publish, Settle, Catch, Busy
<1>2. \A q \in Runner : q # r => (At(q, "publish", f)' <=> At(q, "publish", f))
  BY RunStepFacts DEF At
<1> QED BY <1>1, <1>2 DEF Sending

\* Every step keeps the count of the attempts.
LEMMA CountPreserved ==
  ASSUME TypeOK, TypeOK', CountInv, [Next]_vars, NEW f \in Event
  PROVE  (sent[f] + Cardinality(Sending(f)) <= attempts[f])'
<1>0. /\ sent[f] + Cardinality(Sending(f)) <= attempts[f]
      /\ sent[f] \in Nat /\ attempts[f] \in Nat /\ sent'[f] \in Nat /\ attempts'[f] \in Nat
  BY DEF CountInv, TypeOK
<1>1. ASSUME NEW e \in Event, Create(e)
      PROVE  (sent[f] + Cardinality(Sending(f)) <= attempts[f])'
  <2>1. Sending(f)' = Sending(f) /\ sent' = sent /\ attempts' = attempts
    BY <1>1 DEF Create, sendVars, Sending, At
  <2> QED BY <1>0, <2>1, CountKept
<1>2. ASSUME NEW r \in Runner, Tick(r)
      PROVE  (sent[f] + Cardinality(Sending(f)) <= attempts[f])'
  <2>1. Sending(f)' \subseteq Sending(f) /\ sent' = sent /\ attempts' = attempts
    BY <1>2, TickFacts DEF TypeOK, Sending, At, rowVars, sendVars
  <2> QED BY <1>0, <2>1, CountKept
<1>3. ASSUME NEW r \in Runner, NEW e \in Event, RunStep(r, e)
      PROVE  (sent[f] + Cardinality(Sending(f)) <= attempts[f])'
  <2>1. CASE f = e /\ Claim(r, e) /\ WriteClaim(e) /\ Goto(r, "publish")
    <3>1. sent' = sent /\ attempts'[f] = attempts[f] + 1
      BY <2>1 DEF Claim, WriteClaim, sendVars, TypeOK
    <3>2. Sending(f)' \subseteq Sending(f) \cup {r}
      BY <1>3, RunStepFacts DEF Sending, At
    <3>3. IsFiniteSet(Sending(f)) /\ Cardinality(Sending(f)) \in Nat
      BY SendingFinite DEF Sending
    <3>4. /\ Cardinality(Sending(f) \cup {r}) \in Nat
          /\ Cardinality(Sending(f) \cup {r}) <= Cardinality(Sending(f)) + 1
      <4>1. Cardinality(Sending(f) \cup {r}) =
              IF r \in Sending(f) THEN Cardinality(Sending(f))
                                  ELSE Cardinality(Sending(f)) + 1
        BY <3>3, FS_AddElement
      <4> QED BY <3>3, <4>1
    <3>5. /\ Cardinality(Sending(f)') <= Cardinality(Sending(f) \cup {r})
          /\ Cardinality(Sending(f)') \in Nat
      BY <3>2, SendingFinite DEF Sending
    <3> QED BY <1>0, <3>1, <3>3, <3>4, <3>5
  <2>2. CASE f = e /\ Publish(r, e) /\ Goto(r, "settle")
             /\ sent' = [sent EXCEPT ![e] = @ + 1]
    <3>1. sent'[f] = sent[f] + 1 /\ attempts' = attempts
      BY <2>2 DEF Publish, rowVars, TypeOK
    <3>2. r \in Sending(f) /\ Sending(f)' \subseteq Sending(f) \ {r}
      <4>1. Sending(f)' \subseteq Sending(f)
        BY <1>3, <2>2, SendingKept DEF Claim, At, Publish
      <4>2. ~At(r, "publish", f)'
        BY <1>3, <2>2, RunStepFacts, GotoFacts DEF At, Busy
      <4> QED BY <2>2, <4>1, <4>2 DEF Sending, Publish
    <3>3. IsFiniteSet(Sending(f)) /\ Cardinality(Sending(f)) \in Nat
      BY SendingFinite DEF Sending
    <3>4. Cardinality(Sending(f) \ {r}) = Cardinality(Sending(f)) - 1
      BY <3>2, <3>3, FS_RemoveElement
    <3>5. /\ Cardinality(Sending(f)') <= Cardinality(Sending(f) \ {r})
          /\ Cardinality(Sending(f)') \in Nat
      BY <3>2, SendingFinite DEF Sending
    <3> QED BY <1>0, <3>1, <3>3, <3>4, <3>5
  <2>3. CASE ~(f = e /\ Claim(r, e) /\ WriteClaim(e) /\ Goto(r, "publish"))
             /\ sent'[f] = sent[f]
    <3>1. Sending(f)' \subseteq Sending(f)
      BY <1>3, <2>3, SendingKept
    <3>2. attempts'[f] >= attempts[f]
      BY <1>0, <1>3, RunStepFacts
    <3> QED BY <1>0, <2>3, <3>1, <3>2, CountKept
  <2>4. \/ f = e /\ Publish(r, e) /\ Goto(r, "settle")
             /\ sent' = [sent EXCEPT ![e] = @ + 1]
        \/ sent'[f] = sent[f]
    <3>1. CASE f # e
      BY <1>3, <3>1, RunStepFacts
    <3>2. CASE Publish(r, e)
      BY <3>1, <3>2 DEF Publish, sendVars
    <3>3. CASE Claim(r, e) \/ Settle(r, e) \/ Catch(r, e)
      BY <3>3 DEF Claim, Settle, Catch, sendVars
    <3> QED BY <1>3, <3>1, <3>2, <3>3 DEF RunStep
  <2> QED BY <2>1, <2>2, <2>3, <2>4
<1>4. CASE Outside
  <2>1. Sending(f)' \subseteq Sending(f) /\ sent' = sent /\ attempts' = attempts
    BY <1>4, OutsideFacts DEF Sending, At, Idle, rowVars, sendVars
  <2> QED BY <1>0, <2>1, CountKept
<1> QED BY <1>1, <1>2, <1>3, <1>4 DEF Next, Run, RunStep, Outside

\* Messages never outnumber the attempts counted in the row.
THEOREM SentIsCountedCorrect == Spec => []SentIsCounted
<1>1. Init => CountInv
  <2> SUFFICES ASSUME Init, NEW e \in Event
               PROVE  sent[e] + Cardinality(Sending(e)) <= attempts[e]
    BY DEF CountInv
  <2>1. Sending(e) = {} /\ sent[e] = 0 /\ attempts[e] = 0
    BY DEF Init, Sending, At, Idle
  <2> QED BY <2>1, FS_EmptySet
<1>2. TypeOK /\ CountInv => SentIsCounted
  <2> SUFFICES ASSUME TypeOK, CountInv, NEW e \in Event PROVE sent[e] <= attempts[e]
    BY DEF SentIsCounted
  <2>1. Cardinality(Sending(e)) \in Nat
    BY SendingFinite DEF Sending
  <2> QED BY <2>1 DEF CountInv, TypeOK
<1>3. TypeOK /\ TypeOK' /\ CountInv /\ [Next]_vars => CountInv'
  <2> SUFFICES ASSUME TypeOK, TypeOK', CountInv, [Next]_vars, NEW f \in Event
               PROVE  (sent[f] + Cardinality(Sending(f)) <= attempts[f])'
    BY DEF CountInv
  <2> QED BY CountPreserved
<1> QED BY <1>1, <1>2, <1>3, InitTyped, TypePreserved, PTL DEF Spec
=============================================================================
